---------------------------- MODULE WorkspaceLock ----------------------------
(***************************************************************************)
(* The workspace lock of one host: the device store on disk                *)
(* (internal/credentials/workspace_lock.go), the commands that use it      *)
(* (internal/app/workspace_lock.go, logout in internal/app/auth.go), the   *)
(* exchange with the guest (internal/client/workspace_lock*.go) and the    *)
(* guest itself.                                                           *)
(*                                                                         *)
(* A CLI is one terminal in which commands run one after the other.  The   *)
(* store takes no lock: every operation reads the whole document, changes  *)
(* one record and renames the document into place, which is two steps.     *)
(* An identity stands for the guest's signing key, its organization and    *)
(* the assignment generation, which the code compares together; an epoch   *)
(* stands for boot, lock epoch, credential revision, actor and membership. *)
(***************************************************************************)
EXTENDS Naturals, FiniteSets

CONSTANTS
  CLI,        \* terminals
  Commands,   \* the commands each terminal may start
  Workspace,
  Identity,   \* guest identities
  Session,    \* device session UUIDs a guest may issue
  MaxEpoch,   \* bound: how often one guest moves on
  MaxTime,    \* bound: the wall clock shows 1..MaxTime
  Lifetime,   \* LockGrantLifetimeMs, eight hours in the code
  None        \* no record, grant, challenge, answer

Epoch    == 0..MaxEpoch
Time     == 1..MaxTime
Deadline == 1..(MaxTime + Lifetime)
Means    == {"trust", "compare"}   \* LockPinConfirmation: first use, comparison
Command  == {"unlock", "lock", "status", "rotate", "decide", "pair", "forget",
             "use", "logout"}

Grant  == [session : Session, epoch : Epoch, issued : Time, expires : Deadline]
Record == [pin : Identity, by : Means, grant : Grant \cup {None}]
Store  == [Workspace -> Record \cup {None}]
State  == [identity : Identity, epoch : Epoch]      \* what a challenge signs
Unlock == [session : Session, expires : Deadline]
Origin == [ws : Workspace, identity : Identity, epoch : Epoch]

ASSUME LockAssumption ==
  /\ Commands \in [CLI -> SUBSET Command]
  /\ MaxEpoch \in Nat /\ MaxTime \in Nat \ {0} /\ Lifetime \in Nat \ {0}
  /\ Identity # {}
  /\ None \notin Record \cup Grant \cup Origin \cup Unlock

VARIABLES
  store,     \* workspace-lock.json
  login,     \* the stored token: "none", "live" or "dead" (revoked or expired)
  now,       \* the wall clock
  cli,       \* what each terminal does
  guest,     \* identity and epoch of each workspace guest
  issuer,    \* who issued a session: workspace, identity, epoch
  accepted,  \* history: identities the user accepted, and how
  told       \* history: identities a PIN or phrase was sealed to

disk == <<store, login>>
env  == <<now, guest, issuer>>
hist == <<accepted, told>>
vars == <<disk, env, cli, hist>>

Label == {"idle", "prune", "prune write", "begin", "ticket", "answer", "pin",
          "pin write", "grant", "grant write", "revoke", "revoke write", "accept",
          "repair", "repair write", "unpin", "unpin write", "watch", "watching",
          "challenged", "proving", "signed", "token", "delete", "forget", "forget write",
          "report"}

Idle == [cmd |-> "none", pc |-> "idle", ws |-> None, doc |-> None, chal |-> None, auth |-> None, pin |-> None, did |-> "none", got |-> None,
         ok |-> FALSE, alone |-> FALSE]

Cli == [cmd   : Command \cup {"none", "confirm"},
        pc    : Label,
        ws    : Workspace \cup {None},
        doc   : Store \cup {None},         \* the document it is about to write
        chal  : State \cup {None},         \* the challenge it verified
        auth  : Grant \cup {None},         \* the grant it proves itself with
        pin   : Identity \cup {None},      \* the pin it read with that grant
        did   : {"none", "applied", "refused"},   \* what the guest made of it
        got   : Unlock \cup {None},        \* the session it issued
        ok    : BOOLEAN,                   \* the exchange ended without an error
        alone : BOOLEAN]                   \* history: no other command ran so far

TypeOK ==
  /\ store \in Store
  /\ login \in {"none", "live", "dead"}
  /\ now \in Time
  /\ cli \in [CLI -> Cli]
  /\ guest \in [Workspace -> State]
  /\ issuer \in [Session -> Origin \cup {None}]
  /\ accepted \in [Workspace -> SUBSET (Identity \X Means)]
  /\ told \in [Workspace -> SUBSET Identity]

Init ==
  /\ store = [w \in Workspace |-> None]
  /\ login = "live"
  /\ now = 1
  /\ cli = [c \in CLI |-> Idle]
  /\ guest \in [Workspace -> [identity : Identity, epoch : {0}]]
  /\ issuer = [s \in Session |-> None]
  /\ accepted = [w \in Workspace |-> {}]
  /\ told = [w \in Workspace |-> {}]

-----------------------------------------------------------------------------

At(c, p)    == cli[c].pc = p
Runs(c, k)  == cli[c].cmd = k
Move(c, p)  == cli' = [cli EXCEPT ![c].pc = p]
Leave(c)    == cli' = [cli EXCEPT ![c] = Idle]
Become(c, r) == cli' = [cli EXCEPT ![c] = r]

\* A command starts: whatever runs does not run alone any more.
Join(c, r) == cli' = [d \in CLI |-> IF d = c THEN r ELSE [cli[d] EXCEPT !.alone = FALSE]]

\* lockGrantLive
Live(g) == g # None /\ now >= g.issued /\ now < g.expires

HoldsGrant(w) == store[w] # None /\ store[w].grant # None
Holds(w)      == HoldsGrant(w) /\ Live(store[w].grant)

\* A deadline that is neither past nor further off than any grant's.
Within(d) == d > now /\ d <= now + Lifetime

\* The guest presents the identity this device pinned (VerifyLockChallenge).
Pinned(w) == store[w] # None /\ store[w].pin = guest[w].identity

Drop(r) == IF r = None THEN None ELSE [r EXCEPT !.grant = None]

\* Write a document read earlier.
Publish(c) == store' = cli[c].doc

Factors == {"unlock", "rotate", "confirm", "decide"}
Tell(w, i) == told' = [told EXCEPT ![w] = @ \cup {i}]
TellIf(c, i) == IF cli[c].cmd \in Factors THEN Tell(cli[c].ws, i) ELSE UNCHANGED told
Accept(w, i, by) == accepted' = [accepted EXCEPT ![w] = @ \cup {<<i, by>>}]

-----------------------------------------------------------------------------
(* Starting a command.                                                     *)

\* authenticatedClient looks at the stored token only; a dead one is refused
\* later, by the Control Plane.
Enter(c) ==
  /\ At(c, "idle") /\ login # "none"
  /\ \E k \in Commands[c], w \in Workspace :
       Join(c, [Idle EXCEPT !.cmd = k, !.ws = w,
                     !.pc = CASE k = "logout" -> "token"
                              [] k = "use"    -> "watch"
                              [] OTHER        -> "prune",
                     !.alone = \A d \in CLI \ {c} : At(d, "idle")])
  /\ UNCHANGED <<disk, env, hist>>

\* Prune, first thing in every lock command: every grant that is not live goes.
PruneRead(c) ==
  /\ At(c, "prune")
  /\ IF \E w \in Workspace : HoldsGrant(w) /\ ~Holds(w)
     THEN Become(c, [cli[c] EXCEPT
            !.pc = "prune write",
            !.doc = [w \in Workspace |-> IF Holds(w) THEN store[w] ELSE Drop(store[w])]])
     ELSE Move(c, "begin")
  /\ UNCHANGED <<disk, env, hist>>

PruneWrite(c) ==
  /\ At(c, "prune write")
  /\ Publish(c)
  /\ Become(c, [cli[c] EXCEPT !.pc = "begin", !.doc = None])
  /\ UNCHANGED <<login, env, hist>>

\* The daemon is resolved.  lock and status need a live grant to ask with;
\* without one status reports unknown and lock still clears the record.
Begin(c) ==
  /\ At(c, "begin") /\ login = "live"
  /\ LET w == cli[c].ws IN
     CASE Runs(c, "forget") -> Move(c, "unpin")
       [] cli[c].cmd \in {"lock", "status"} ->
            IF Holds(w) THEN Move(c, "ticket")
            ELSE IF Runs(c, "lock") THEN Move(c, "revoke") ELSE Leave(c)
       [] OTHER -> Move(c, "ticket")
  /\ UNCHANGED <<disk, env, hist>>

\* No such daemon, a dead token, no decision pending, or a prompt that fails.
BeginFails(c) ==
  /\ At(c, "begin")
  /\ Leave(c)
  /\ UNCHANGED <<disk, env, hist>>

-----------------------------------------------------------------------------
(* One exchange: ticket, signed challenge, sealed request, sealed answer.  *)

\* verifyChallenge against the pin, read anew, and SealLockRequest.
Seal(c) ==
  /\ At(c, "ticket") /\ ~Runs(c, "pair") /\ login = "live"
  /\ Pinned(cli[c].ws)
  /\ Become(c, [cli[c] EXCEPT !.pc = "answer", !.chal = guest[cli[c].ws]])
  /\ TellIf(c, guest[cli[c].ws].identity)
  /\ UNCHANGED <<disk, env, accepted>>

\* bootstrapPin: nothing is pinned and the user passed --trust-on-first-use.
Bootstrap(c) ==
  /\ At(c, "ticket") /\ Runs(c, "unlock") /\ login = "live"
  /\ store[cli[c].ws] = None
  /\ Become(c, [cli[c] EXCEPT !.pc = "pin", !.chal = guest[cli[c].ws]])
  /\ UNCHANGED <<disk, env, hist>>

\* Mutant: a first use is recorded as a comparison.
MFirstUseAsCompared(c) ==
  /\ At(c, "pin")
  /\ LET w == cli[c].ws
         i == cli[c].chal.identity IN
     /\ store[w] = None
     /\ Become(c, [cli[c] EXCEPT !.pc = "pin write",
          !.doc = [store EXCEPT ![w] = [pin |-> i, by |-> "compare", grant |-> None]]])
     /\ Accept(w, i, "trust")
  /\ UNCHANGED <<disk, env, told>>

\* Mutant: a record made by another terminal meanwhile is taken for one's own.
MPinAssumed(c) ==
  /\ At(c, "pin")
  /\ LET w == cli[c].ws IN
     /\ store[w] # None
     /\ Move(c, "answer")
     /\ Tell(w, cli[c].chal.identity)
  /\ UNCHANGED <<disk, env, accepted>>

\* Pin: a record made since then is kept if it pins the same identity.
PinRead(c) ==
  /\ At(c, "pin")
  /\ LET w == cli[c].ws
         i == cli[c].chal.identity IN
     \/ /\ store[w] = None
        /\ Become(c, [cli[c] EXCEPT !.pc = "pin write",
             !.doc = [store EXCEPT ![w] = [pin |-> i, by |-> "trust", grant |-> None]]])
        /\ Accept(w, i, "trust")
        /\ UNCHANGED told
     \/ /\ store[w] # None /\ store[w].pin = i
        /\ Move(c, "answer")
        /\ Tell(w, i)
        /\ UNCHANGED accepted
     \/ /\ store[w] # None /\ store[w].pin # i
        /\ Leave(c)
        /\ UNCHANGED hist
  /\ UNCHANGED <<disk, env>>

PinWrite(c) ==
  /\ At(c, "pin write")
  /\ Publish(c)
  /\ Become(c, [cli[c] EXCEPT !.pc = "answer", !.doc = None])
  /\ Tell(cli[c].ws, cli[c].chal.identity)
  /\ UNCHANGED <<login, env, accepted>>

\* What the guest makes of a request it was sent under its current state.
GuestHears(c) ==
  /\ At(c, "answer") /\ cli[c].did = "none"
  /\ guest[cli[c].ws] = cli[c].chal

GuestUnlocks(c) ==
  /\ GuestHears(c) /\ Runs(c, "unlock")
  /\ \E s \in Session, d \in Deadline :
       /\ issuer[s] = None
       /\ issuer' = [issuer EXCEPT ![s] = [ws |-> cli[c].ws,
                       identity |-> cli[c].chal.identity, epoch |-> cli[c].chal.epoch]]
       /\ Become(c, [cli[c] EXCEPT !.did = "applied",
                                     !.got = [session |-> s, expires |-> d]])
  /\ UNCHANGED <<disk, now, guest, hist>>

\* A relock or a confirmed rotation ends every session: the guest moves on.
GuestLocks(c) ==
  /\ GuestHears(c) /\ cli[c].cmd \in {"lock", "confirm"}
  /\ guest[cli[c].ws].epoch < MaxEpoch
  /\ guest' = [guest EXCEPT ![cli[c].ws].epoch = @ + 1]
  /\ cli' = [cli EXCEPT ![c].did = "applied"]
  /\ UNCHANGED <<disk, now, issuer, hist>>

\* A status, the first half of a rotation, a decision.
GuestAgrees(c) ==
  /\ GuestHears(c) /\ cli[c].cmd \in {"status", "rotate", "decide"}
  /\ cli' = [cli EXCEPT ![c].did = "applied"]
  /\ UNCHANGED <<disk, env, hist>>

\* A sealed refusal: a wrong PIN, a cooldown, an expired session.
GuestRefuses(c) ==
  /\ GuestHears(c)
  /\ cli' = [cli EXCEPT ![c].did = "refused"]
  /\ UNCHANGED <<disk, env, hist>>

\* Any failure on the way: no ticket, no connection, another identity, no
\* answer.  lock gives its grant up all the same.
ExchangeFails(c) ==
  /\ cli[c].pc \in {"ticket", "answer"}
  /\ IF Runs(c, "lock") THEN Move(c, "revoke") ELSE Leave(c)
  /\ UNCHANGED <<disk, env, hist>>

\* lock_protocol_unsupported: the request never reached the guest, and lock
\* keeps its grant.
NotAdmitted(c) ==
  /\ At(c, "ticket")
  /\ Leave(c)
  /\ UNCHANGED <<disk, env, hist>>

\* unlock reads the outcome and its deadline (ReadLockUnlockResult).
Unlocked(c) ==
  /\ At(c, "answer") /\ Runs(c, "unlock") /\ cli[c].did = "applied"
  /\ IF Within(cli[c].got.expires)
     THEN Move(c, "grant") ELSE Leave(c)
  /\ UNCHANGED <<disk, env, hist>>

\* The phrase the guest staged was typed back: a second exchange confirms it.
PhraseSaved(c) ==
  /\ At(c, "answer") /\ Runs(c, "rotate") /\ cli[c].did = "applied"
  /\ Become(c, [cli[c] EXCEPT !.cmd = "confirm", !.pc = "ticket", !.chal = None,
                                !.did = "none"])
  /\ UNCHANGED <<disk, env, hist>>

\* lock and the confirmation of a rotation look at no field of the answer.
Answered(c) ==
  /\ At(c, "answer") /\ cli[c].cmd \in {"lock", "confirm"} /\ cli[c].did # "none"
  /\ Become(c, [cli[c] EXCEPT !.pc = "revoke", !.ok = TRUE])
  /\ UNCHANGED <<disk, env, hist>>

\* A refusal read as such, or an answer that changes nothing here.
AnswerRead(c) ==
  /\ At(c, "answer")
  /\ \/ cli[c].did = "refused" /\ cli[c].cmd \in {"unlock", "rotate"}
     \/ cli[c].did # "none" /\ cli[c].cmd \in {"status", "decide"}
  /\ Leave(c)
  /\ UNCHANGED <<disk, env, hist>>

-----------------------------------------------------------------------------
(* What the commands write.                                                *)

\* Mutant: the session is stored under whatever pin the record has by now.
MGrantUnderAnyPin(c) ==
  /\ At(c, "grant")
  /\ LET w == cli[c].ws
         g == [session |-> cli[c].got.session, epoch |-> cli[c].chal.epoch,
               issued |-> now, expires |-> cli[c].got.expires] IN
     /\ store[w] # None
     /\ Within(g.expires)
     /\ Become(c, [cli[c] EXCEPT !.pc = "grant write", !.doc = [store EXCEPT ![w].grant = g]])
  /\ UNCHANGED <<disk, env, hist>>

\* Grant: only under the pin the session was verified against.
GrantRead(c) ==
  /\ At(c, "grant")
  /\ LET w == cli[c].ws
         g == [session |-> cli[c].got.session, epoch |-> cli[c].chal.epoch,
               issued |-> now, expires |-> cli[c].got.expires] IN
     IF /\ store[w] # None /\ store[w].pin = cli[c].chal.identity
        /\ Within(g.expires)
     THEN Become(c, [cli[c] EXCEPT !.pc = "grant write",
                       !.doc = [store EXCEPT ![w].grant = g]])
     ELSE Leave(c)
  /\ UNCHANGED <<disk, env, hist>>

\* Mutant: a grant that is not live is left where it is.
MRevokeLive(c) ==
  /\ At(c, "revoke")
  /\ LET w == cli[c].ws IN
     IF Holds(w)
     THEN Become(c, [cli[c] EXCEPT !.pc = "revoke write",
                       !.doc = [store EXCEPT ![w].grant = None]])
     ELSE Move(c, "report")
  /\ UNCHANGED <<disk, env, hist>>

\* Revoke: the grant goes, the pin stays.
RevokeRead(c) ==
  /\ At(c, "revoke")
  /\ LET w == cli[c].ws IN
     IF HoldsGrant(w)
     THEN Become(c, [cli[c] EXCEPT !.pc = "revoke write",
                       !.doc = [store EXCEPT ![w].grant = None]])
     ELSE Move(c, "report")
  /\ UNCHANGED <<disk, env, hist>>

\* Mutant: pair of a workspace that is already pinned does not ask.
MProbeAsksOnce(c) ==
  /\ At(c, "ticket") /\ Runs(c, "pair") /\ login = "live"
  /\ Become(c, [cli[c] EXCEPT !.pc = IF store[cli[c].ws] = None THEN "accept" ELSE "repair",
                                !.chal = guest[cli[c].ws]])
  /\ UNCHANGED <<disk, env, hist>>

\* pair: the probe ends after the challenge; a known identity needs no consent.
Probe(c) ==
  /\ At(c, "ticket") /\ Runs(c, "pair") /\ login = "live"
  /\ IF Pinned(cli[c].ws) THEN Leave(c)
     ELSE Become(c, [cli[c] EXCEPT !.pc = "accept", !.chal = guest[cli[c].ws]])
  /\ UNCHANGED <<disk, env, hist>>

\* The user typed the last characters of the identity shown.
Compared(c) ==
  /\ At(c, "accept")
  /\ Move(c, "repair")
  /\ Accept(cli[c].ws, cli[c].chal.identity, "compare")
  /\ UNCHANGED <<disk, env, told>>

NotAccepted(c) ==
  /\ At(c, "accept")
  /\ Leave(c)
  /\ UNCHANGED <<disk, env, hist>>

\* Mutant: the record loses how its identity was accepted.
MRepairUnsigned(c) ==
  /\ At(c, "repair")
  /\ Become(c, [cli[c] EXCEPT !.pc = "repair write",
       !.doc = [store EXCEPT ![cli[c].ws] =
                  [pin |-> cli[c].chal.identity, by |-> None, grant |-> None]]])
  /\ UNCHANGED <<disk, env, hist>>

\* Repair replaces the record, its grant included.
RepairRead(c) ==
  /\ At(c, "repair")
  /\ Become(c, [cli[c] EXCEPT !.pc = "repair write",
       !.doc = [store EXCEPT ![cli[c].ws] =
                  [pin |-> cli[c].chal.identity, by |-> "compare", grant |-> None]]])
  /\ UNCHANGED <<disk, env, hist>>

\* Unpin (pair --forget) removes the record, Forget (logout) every record.
UnpinRead(c) ==
  /\ At(c, "unpin")
  /\ IF store[cli[c].ws] # None
     THEN Become(c, [cli[c] EXCEPT !.pc = "unpin write",
                       !.doc = [store EXCEPT ![cli[c].ws] = None]])
     ELSE Leave(c)
  /\ UNCHANGED <<disk, env, hist>>

\* Mutant of ForgetRead: a host without a grant has nothing to forget.
MForgetGrants(c) ==
  /\ At(c, "forget")
  /\ IF \E w \in Workspace : HoldsGrant(w)
     THEN Become(c, [cli[c] EXCEPT !.pc = "forget write",
                       !.doc = [w \in Workspace |-> None]])
     ELSE Move(c, "report")
  /\ UNCHANGED <<disk, env, hist>>

ForgetRead(c) ==
  /\ At(c, "forget")
  /\ IF \E w \in Workspace : store[w] # None
     THEN Become(c, [cli[c] EXCEPT !.pc = "forget write",
                       !.doc = [w \in Workspace |-> None]])
     ELSE Move(c, "report")
  /\ UNCHANGED <<disk, env, hist>>

\* The last store operation of unlock, pair and pair --forget.
LastWrite(c) ==
  /\ cli[c].pc \in {"grant write", "repair write", "unpin write"}
  /\ Publish(c)
  /\ Leave(c)
  /\ UNCHANGED <<login, env, hist>>

\* The last store operation of lock, of a rotation and of logout.
ReportedWrite(c) ==
  /\ cli[c].pc \in {"revoke write", "forget write"}
  /\ Publish(c)
  /\ Become(c, [cli[c] EXCEPT !.pc = "report", !.doc = None])
  /\ UNCHANGED <<login, env, hist>>

Report(c) ==
  /\ At(c, "report")
  /\ Leave(c)
  /\ UNCHANGED <<disk, env, hist>>

\* The store cannot be read or written: the command ends there.
StoreFails(c) ==
  /\ cli[c].pc \in {"prune", "prune write", "pin", "pin write", "grant", "grant write",
                    "revoke", "revoke write", "repair", "repair write",
                    "unpin", "unpin write", "delete", "forget", "forget write"}
  /\ Leave(c)
  /\ UNCHANGED <<disk, env, hist>>

-----------------------------------------------------------------------------
(* attach, files, upload, download and ssh-proxy answer a device challenge *)
(* with a grant they read for it (lockResponder, LockDeviceAuthority.Prove). *)

\* Without a live grant there is no responder, and a challenge is refused.
Watch(c) ==
  /\ At(c, "watch")
  /\ IF Holds(cli[c].ws) THEN Move(c, "watching") ELSE Leave(c)
  /\ UNCHANGED <<disk, env, hist>>

\* The guest signs a challenge in the state it is in, as often as it likes.
Challenge(c) ==
  /\ cli[c].pc \in {"watching", "signed"}
  /\ Become(c, [cli[c] EXCEPT !.pc = "challenged", !.chal = guest[cli[c].ws],
                                !.auth = None])
  /\ UNCHANGED <<disk, env, hist>>

\* authority: pin and grant are read anew for each challenge.
Authority(c) ==
  /\ At(c, "challenged") /\ Holds(cli[c].ws)
  /\ Become(c, [cli[c] EXCEPT !.pc = "proving", !.auth = store[cli[c].ws].grant,
                                !.pin = store[cli[c].ws].pin])
  /\ UNCHANGED <<disk, env, hist>>

\* Mutant: only the pin is compared.
MProveAnyEpoch(c) ==
  /\ At(c, "proving")
  /\ Within(cli[c].auth.expires)
  /\ cli[c].pin = cli[c].chal.identity
  /\ Become(c, [cli[c] EXCEPT !.pc = "signed", !.pin = None])
  /\ UNCHANGED <<disk, env, hist>>

\* Prove: the clock is read again, and what the grant was issued under must be
\* what the guest signed.
Prove(c) ==
  /\ At(c, "proving")
  /\ Within(cli[c].auth.expires)
  /\ cli[c].pin = cli[c].chal.identity /\ cli[c].auth.epoch = cli[c].chal.epoch
  /\ Become(c, [cli[c] EXCEPT !.pc = "signed", !.pin = None])
  /\ UNCHANGED <<disk, env, hist>>

\* The session ends, or its challenge is refused.
EndUse(c) ==
  /\ cli[c].pc \in {"watching", "challenged", "proving", "signed"}
  /\ Leave(c)
  /\ UNCHANGED <<disk, env, hist>>

-----------------------------------------------------------------------------
(* logout, login, and what happens around the CLIs.                        *)

\* A token that is dead already, or an outcome that is not known, ends logout.
LogoutFails(c) ==
  /\ At(c, "token")
  /\ Leave(c)
  /\ UNCHANGED <<disk, env, hist>>

TokenRevoked(c) ==
  /\ At(c, "token") /\ login = "live"
  /\ login' = "dead"
  /\ Move(c, "delete")
  /\ UNCHANGED <<store, env, hist>>

CredentialDeleted(c) ==
  /\ At(c, "delete")
  /\ login' = "none"
  /\ Move(c, "forget")
  /\ UNCHANGED <<store, env, hist>>

\* login stores a token and does not touch the lock store.
LogIn ==
  /\ login # "live"
  /\ login' = "live"
  /\ UNCHANGED <<store, env, cli, hist>>

\* The token expires or is revoked in the browser.
TokenEnds ==
  /\ login = "live"
  /\ login' = "dead"
  /\ UNCHANGED <<store, env, cli, hist>>

Crash(c) ==
  /\ ~At(c, "idle")
  /\ Leave(c)
  /\ UNCHANGED <<disk, env, hist>>

\* The wall clock goes on or is set, forward or back.
ClockMoves ==
  /\ now' \in Time \ {now}
  /\ UNCHANGED <<disk, guest, issuer, cli, hist>>

\* Reboot, restore, reassignment, another device's relock or PIN change.
GuestMovesOn(w) ==
  /\ guest[w].epoch < MaxEpoch
  /\ \E i \in Identity :
       guest' = [guest EXCEPT ![w] = [identity |-> i, epoch |-> guest[w].epoch + 1]]
  /\ UNCHANGED <<disk, now, issuer, cli, hist>>

-----------------------------------------------------------------------------

OpenStep(c) == Enter(c) \/ PruneRead(c) \/ PruneWrite(c) \/ Begin(c) \/ BeginFails(c)

ExchangeStep(c) ==
  \/ Seal(c) \/ Bootstrap(c) \/ PinRead(c) \/ PinWrite(c)
  \/ ExchangeFails(c) \/ NotAdmitted(c)
  \/ Unlocked(c) \/ PhraseSaved(c) \/ Answered(c) \/ AnswerRead(c)

GuestStep(c) == GuestUnlocks(c) \/ GuestLocks(c) \/ GuestAgrees(c) \/ GuestRefuses(c)

StoreStep(c) ==
  \/ GrantRead(c) \/ RevokeRead(c) \/ RepairRead(c) \/ UnpinRead(c) \/ ForgetRead(c)
  \/ LastWrite(c) \/ ReportedWrite(c) \/ Report(c) \/ StoreFails(c)

PairStep(c)   == Probe(c) \/ Compared(c) \/ NotAccepted(c)
UseStep(c)    == Watch(c) \/ Challenge(c) \/ Authority(c) \/ Prove(c) \/ EndUse(c)
LogoutStep(c) == LogoutFails(c) \/ TokenRevoked(c) \/ CredentialDeleted(c)

Next ==
  \/ \E c \in CLI : \/ OpenStep(c) \/ ExchangeStep(c) \/ GuestStep(c) \/ StoreStep(c)
                    \/ PairStep(c) \/ UseStep(c) \/ LogoutStep(c) \/ Crash(c)
  \/ LogIn \/ TokenEnds \/ ClockMoves
  \/ \E w \in Workspace : GuestMovesOn(w)

Spec == Init /\ [][Next]_vars

-----------------------------------------------------------------------------
(* What the store and the commands promise.                                *)

\* A stored grant is a session that the guest under the record's pin issued
\* for this workspace, in the epoch the grant names, although the pin may be
\* repaired, removed or set again by another terminal while an unlock runs.
Genuine(w, r) ==
  r # None /\ r.grant # None =>
    issuer[r.grant.session] = [ws |-> w, identity |-> r.pin, epoch |-> r.grant.epoch]

GrantGenuine == \A w \in Workspace : Genuine(w, store[w])

\* The confirmation a record shows is how the user accepted that identity: a
\* first use is never reported as a comparison (workspace_lock.go:48-58).
HonestPin ==
  \A w \in Workspace : store[w] # None => <<store[w].pin, store[w].by>> \in accepted[w]

\* A PIN or a recovery phrase is sealed only to an identity that the user
\* accepted, by comparison or by --trust-on-first-use (app verifyChallenge).
FactorsOnlyToAccepted ==
  \A w \in Workspace : \A i \in told[w] : \E by \in Means : <<i, by>> \in accepted[w]

\* The proof a working transport sends is one that the challenging guest can
\* take: it was asked for by an identity the user accepted, and the session was
\* issued by that guest in the very state it signed, whatever other terminals
\* wrote between the challenge, the reading of the grant and the signature
\* (lockResponder, Prove).  A guest that has moved on since refuses it.
ProofsAreWelcome ==
  \A c \in CLI : At(c, "signed") =>
    /\ issuer[cli[c].auth.session] = [ws |-> cli[c].ws, identity |-> cli[c].chal.identity,
                                      epoch |-> cli[c].chal.epoch]
    /\ \E by \in Means : <<cli[c].chal.identity, by>> \in accepted[cli[c].ws]

\* When lock ends, the grant it found is given up: "this device must not keep
\* an authority it asked to end" (app/workspace_lock.go:469).  This and the next
\* two speak of commands that ran alone: the stale document of another terminal
\* can undo what they did.
RelockGivesUp ==
  \A c \in CLI : At(c, "report") /\ Runs(c, "lock") /\ cli[c].alone => ~HoldsGrant(cli[c].ws)

\* After a logout that succeeds no record of the host is left (Forget), whatever
\* other commands did before it and left behind when they were killed.
LogoutForgets ==
  \A c \in CLI : At(c, "report") /\ Runs(c, "logout") /\ cli[c].alone =>
    \A w \in Workspace : store[w] = None

\* A pin is replaced only by an identity that the user compared ("An existing
\* pin is never silently replaced", Pin).
PinsChangeByComparison ==
  [][\A c \in CLI : cli[c].alone =>
       \A w \in Workspace :
         store[w] # None /\ store'[w] # None /\ store'[w].pin # store[w].pin =>
           store'[w].by = "compare" /\ <<store'[w].pin, "compare">> \in accepted[w]]_vars

\* A command that reports the workspace locked, or its factor changed, was not
\* refused by the guest: the guest has moved on since its challenge ("A sealed
\* refusal is a refusal", client/workspace_lock.go:1254).
SaysLockedIsLocked ==
  \A c \in CLI : At(c, "report") /\ cli[c].ok => guest[cli[c].ws] # cli[c].chal

=============================================================================
