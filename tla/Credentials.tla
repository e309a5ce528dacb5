----------------------------- MODULE Credentials -----------------------------
(***************************************************************************)
(* The credential file of all hosts and the commands that read and change  *)
(* it: login by the device flow or with a token on stdin, logout, and any  *)
(* other command that needs a token.  Several terminals share the file.    *)
(* internal/credentials/store.go and internal/app/auth.go.                 *)
(*                                                                         *)
(* The file is replaced by rename, so a reader sees one document or none;  *)
(* but Save and Delete read, change one entry and replace, with no lock.   *)
(* lost remembers that a document read before another terminal's change    *)
(* was put over that change.  Time counts down, in units of the pause      *)
(* between two polls, on one clock for the terminal and the host, and may  *)
(* pass while an answer is on its way.                                     *)
(***************************************************************************)
EXTENDS Naturals

CONSTANTS
  Cli,         \* terminals, each with one command at a time
  Host,        \* Control Plane hosts
  Production,  \* the host when none is given and none is stored
  Token,       \* tokens
  IssuedBy,    \* the host that issues each token
  Runs,        \* what each terminal is used for
  FromEnv,     \* tokens that may stand in DAEMONS_TOKEN
  Life,        \* units until a device authorization expires
  None

ASSUME CredentialsAssumption ==
  /\ Production \in Host
  /\ IssuedBy \in [Token -> Host]
  /\ Runs \in [Cli -> SUBSET {"login", "stdin", "logout", "use"}]
  /\ FromEnv \subseteq Token
  /\ Life \in Nat \ {0}
  /\ None \notin Token \cup Host

VARIABLES
  file,     \* the document: the token under each host; without any there is no file
  usable,   \* the file is regular, private, owned and decodes
  lost,     \* history: a stale document was put over a newer one
  state,    \* what the hosts know of each token: dead is revoked or expired
  device,   \* the device authorization of each terminal's login
  cmd       \* the command of each terminal

disk   == <<file, usable, lost>>
server == <<state, device>>
vars   == <<disk, server, cmd>>

Document == [Host -> Token \cup {None}]
Empty    == [h \in Host |-> None]

Cmd == [at     : {"idle", "authorize", "check", "sleep", "poll", "verify", "saveRead",
                  "saveWrite", "pick", "load", "revoke", "use", "deleteRead",
                  "deleteWrite", "forget", "out"},
        kind   : {"login", "logout", "use"},
        host   : Host \cup {None},          \* None: neither --host nor DAEMONS_HOST
        token  : Token \cup {None},
        env    : BOOLEAN,                   \* the token is DAEMONS_TOKEN
        doc    : Document,                  \* what read returned
        stale  : BOOLEAN,                   \* history: the file changed since
        pause  : 1..Life,
        left   : 0..Life,                   \* of the sleep
        result : {"ok", "timeout", "refused", "error", "unknown", "noToken"}]

Idle == [at |-> "idle", kind |-> "use", host |-> None, token |-> None, env |-> FALSE,
         doc |-> Empty, stale |-> FALSE, pause |-> 1, left |-> 0, result |-> "ok"]

NoDevice == [status |-> "none", left |-> 0]

TypeOK ==
  /\ file \in Document /\ usable \in BOOLEAN /\ lost \in BOOLEAN
  /\ state \in [Token -> {"unused", "live", "dead"}]
  /\ device \in [Cli -> [status : {"none", "pending", "approved", "late", "rejected"},
                       left : 0..Life]]
  /\ cmd \in [Cli -> Cmd]
  /\ \A c \in Cli : cmd[c].at \in {"verify", "saveRead", "saveWrite", "revoke", "use"}
                      => cmd[c].token # None /\ cmd[c].host # None

Init ==
  /\ file \in {f \in Document : \A h \in Host : f[h] # None => IssuedBy[f[h]] = h}
  /\ usable = TRUE
  /\ lost = FALSE
  /\ state = [t \in Token |-> IF file[IssuedBy[t]] = t THEN "live" ELSE "unused"]
  /\ device = [c \in Cli |-> NoDevice]
  /\ cmd = [c \in Cli |-> Idle]

-----------------------------------------------------------------------------

At(c, l)   == cmd[c].at = l
Step(c, r) == cmd' = [cmd EXCEPT ![c] = r]
Go(c, l)   == Step(c, [cmd[c] EXCEPT !.at = l])
Ended(r)   == [Idle EXCEPT !.at = "out", !.result = r]
End(c, r)  == Step(c, Ended(r))

Absent    == file = Empty
Readable  == Absent \/ usable
Stored    == {h \in Host : file[h] # None}

-----------------------------------------------------------------------------
(* login: the device flow, or a token on stdin.                            *)

StartLogin(c, h) ==
  /\ "login" \in Runs[c] /\ At(c, "idle")
  /\ Step(c, [Idle EXCEPT !.kind = "login", !.at = "authorize", !.host = h])
  /\ UNCHANGED <<disk, server>>

\* The user pastes a token, perhaps one of another host or a dead one.
StartStdin(c, h, t) ==
  /\ "stdin" \in Runs[c] /\ At(c, "idle")
  /\ state[t] # "unused"
  /\ Step(c, [Idle EXCEPT !.kind = "login", !.at = "verify", !.host = h, !.token = t])
  /\ UNCHANGED <<disk, server>>

Authorize(c) ==
  /\ At(c, "authorize")
  /\ \/ /\ device' = [device EXCEPT ![c] = [status |-> "pending", left |-> Life]]
        /\ Go(c, "check")
     \/ End(c, "error") /\ UNCHANGED device
  /\ UNCHANGED <<disk, state>>

\* Mutant: the clock is read again after the sleep, before the poll.
MWakeChecks(c) ==
  /\ At(c, "sleep")
  /\ cmd[c].left = 0
  /\ IF device[c].left > 0 THEN Go(c, "poll") ELSE End(c, "timeout")
  /\ UNCHANGED <<disk, server>>

\* The answer of the authorization or of a poll has come: the loop's condition,
\* then the sleep.
Check(c) ==
  /\ At(c, "check")
  /\ IF device[c].left > 0
     THEN Step(c, [cmd[c] EXCEPT !.at = "sleep", !.left = cmd[c].pause])
     ELSE End(c, "timeout")
  /\ UNCHANGED <<disk, server>>

Wake(c) ==
  /\ At(c, "sleep")
  /\ cmd[c].left = 0
  /\ Go(c, "poll")
  /\ UNCHANGED <<disk, server>>

\* The host answers pending, or slow_down: each of these makes every later pause longer.  A pause
\* beyond Life is the same as one of Life: no poll fits after either.
PollPending(c) ==
  /\ At(c, "poll")
  /\ device[c].status = "pending"
  /\ \E p \in {cmd[c].pause, cmd[c].pause + 1} :
       Step(c, [cmd[c] EXCEPT !.at = "check", !.pause = IF p > Life THEN Life ELSE p])
  /\ UNCHANGED <<disk, server>>

\* The approval is handed out once, as a new token; the reply may be lost,
\* which ends the login.
PollApproved(c) ==
  /\ At(c, "poll")
  /\ device[c].status \in {"approved", "late"}
  /\ \E t \in Token :
       /\ state[t] = "unused" /\ IssuedBy[t] = cmd[c].host
       /\ state' = [state EXCEPT ![t] = "live"]
       /\ \/ Step(c, [cmd[c] EXCEPT !.at = "verify", !.token = t])
          \/ End(c, "error")
  /\ device' = [device EXCEPT ![c] = NoDevice]
  /\ UNCHANGED disk

\* Rejected, expired, or no usable answer.
PollEnds(c) ==
  /\ At(c, "poll")
  /\ \/ (device[c].status = "rejected" \/ device[c].left = 0) /\ End(c, "refused")
     \/ End(c, "error")
  /\ UNCHANGED <<disk, server>>

\* GET /me with the token; whatever fails, nothing is stored.
Verify(c) ==
  /\ At(c, "verify")
  /\ \/ /\ state[cmd[c].token] = "live" /\ IssuedBy[cmd[c].token] = cmd[c].host
        /\ Go(c, "saveRead")
     \/ End(c, "error")
  /\ UNCHANGED <<disk, server>>

-----------------------------------------------------------------------------
(* Store.read, Save and Delete.                                            *)

\* What the others hold is now older than the file.
Replace(c, doc, next) ==
  /\ file' = doc
  /\ usable' = TRUE
  /\ lost' = (lost \/ cmd[c].doc # file)
  /\ cmd' = [b \in Cli |-> IF b = c THEN next
                           ELSE [cmd[b] EXCEPT !.stale = At(b, "revoke") \/ At(b, "deleteRead") \/ @]]

\* No file is an empty document; a file that is refused ends the login.
SaveRead(c) ==
  /\ At(c, "saveRead")
  /\ IF Readable THEN Step(c, [cmd[c] EXCEPT !.at = "saveWrite", !.doc = file])
                 ELSE End(c, "error")
  /\ UNCHANGED <<disk, server>>

\* write looks at the file once more, then renames; the last chmod may fail
\* when the new document is already in place.
SaveWrite(c) ==
  /\ At(c, "saveWrite")
  /\ \/ /\ Readable
        /\ \E r \in {"ok", "error"} :
             Replace(c, [cmd[c].doc EXCEPT ![cmd[c].host] = cmd[c].token], Ended(r))
     \/ End(c, "error") /\ UNCHANGED disk
  /\ UNCHANGED server

DeleteRead(c) ==
  /\ At(c, "deleteRead")
  /\ IF ~Readable THEN End(c, "error")
     ELSE Step(c, [cmd[c] EXCEPT !.at = IF Absent THEN "forget" ELSE "deleteWrite",
                                 !.doc = file])
  /\ UNCHANGED <<disk, server>>

\* Without entries the file is removed, whatever it is by then; with some the
\* document is written.
DeleteWrite(c) ==
  LET doc == [cmd[c].doc EXCEPT ![cmd[c].host] = None]
  IN  /\ At(c, "deleteWrite")
      /\ \/ /\ IF doc = Empty THEN ~Absent ELSE Readable
            /\ Replace(c, doc, [cmd[c] EXCEPT !.at = "forget"])
         \/ /\ doc # Empty /\ Readable
            /\ Replace(c, doc, Ended("error"))
         \/ End(c, "error") /\ UNCHANGED disk
      /\ UNCHANGED server

-----------------------------------------------------------------------------
(* authenticatedClient, and what runs with it.                             *)

\* DAEMONS_TOKEN goes to the host given or to production; the file is not read.
StartWith(c, k, h, t) ==
  /\ k \in Runs[c] /\ At(c, "idle")
  /\ state[t] # "unused"
  /\ Step(c, [Idle EXCEPT !.kind = k, !.env = TRUE, !.token = t,
                          !.at = IF k = "logout" THEN "revoke" ELSE "use",
                          !.host = IF h = None THEN Production ELSE h])
  /\ UNCHANGED <<disk, server>>

Start(c, k, h) ==
  /\ k \in Runs[c] /\ At(c, "idle")
  /\ Step(c, [Idle EXCEPT !.kind = k, !.host = h, !.at = IF h = None THEN "pick" ELSE "load"])
  /\ UNCHANGED <<disk, server>>

\* defaultStoredHost: production when it is stored, or else the only host.
Pick(c) ==
  /\ At(c, "pick")
  /\ \/ \E h \in Host :
          /\ Readable
          /\ IF Stored = {} \/ Production \in Stored THEN h = Production ELSE Stored = {h}
          /\ Step(c, [cmd[c] EXCEPT !.at = "load", !.host = h])
     \/ /\ ~Readable \/ (Production \notin Stored /\ \E g, h \in Stored : g # h)
        /\ End(c, "noToken")
  /\ UNCHANGED <<disk, server>>

\* Mutant: a missing entry is an empty credential.
MLoadMissing(c) ==
  /\ At(c, "load")
  /\ IF Readable THEN Step(c, [cmd[c] EXCEPT !.token = file[cmd[c].host], !.at = "use"])
                 ELSE End(c, "noToken")
  /\ UNCHANGED <<disk, server>>

\* Mutant: the document's only token is the token of any host.
MLoadOnly(c) ==
  /\ At(c, "load")
  /\ IF Readable /\ Stored # {}
     THEN LET h == IF cmd[c].host \in Stored THEN cmd[c].host ELSE CHOOSE g \in Stored : TRUE
          IN Step(c, [cmd[c] EXCEPT !.token = file[h],
                                    !.at = IF cmd[c].kind = "logout" THEN "revoke" ELSE "use"])
     ELSE End(c, "noToken")
  /\ UNCHANGED <<disk, server>>

\* A second reading of the file.  The expiry stored with a dead token may have
\* passed and ends the command; one that does not parse is not looked at.
Load(c) ==
  /\ At(c, "load")
  /\ \/ /\ Readable /\ cmd[c].host \in Stored
        /\ Step(c, [cmd[c] EXCEPT !.token = file[cmd[c].host],
                                  !.at = IF cmd[c].kind = "logout" THEN "revoke" ELSE "use"])
     \/ /\ \/ ~Readable \/ cmd[c].host \notin Stored
           \/ cmd[c].host \in Stored /\ state[file[cmd[c].host]] = "dead"
        /\ End(c, "noToken")
  /\ UNCHANGED <<disk, server>>

\* whoami, capabilities and every other command: one request and its answer.
Use(c) ==
  /\ At(c, "use")
  /\ \E r \in {"ok", "error"} : (r = "ok" => state[cmd[c].token] = "live") /\ End(c, r)
  /\ UNCHANGED <<disk, server>>

\* Mutant: an unknown outcome counts as revoked.
MRevokeAnyway(c) ==
  /\ At(c, "revoke")
  /\ Go(c, IF cmd[c].env THEN "forget" ELSE "deleteRead")
  /\ UNCHANGED <<disk, server>>

\* DELETE /tokens/current: done and answered, done or not and no answer (exit
\* 8), or an answer that is no success.  Local credentials stay unless it was
\* answered; DAEMONS_TOKEN has none.
Revoke(c) ==
  LET t == cmd[c].token
      here == state[t] = "live" /\ IssuedBy[t] = cmd[c].host
  IN  /\ At(c, "revoke")
      /\ \/ /\ here
            /\ state' = [state EXCEPT ![t] = "dead"]
            /\ Go(c, IF cmd[c].env THEN "forget" ELSE "deleteRead") \/ End(c, "unknown")
         \/ UNCHANGED state /\ (End(c, "unknown") \/ End(c, "error"))
      /\ UNCHANGED <<disk, device>>

\* The lock store forgets the host (module WorkspaceLock).
Forget(c) ==
  /\ At(c, "forget")
  /\ End(c, "ok") \/ End(c, "error")
  /\ UNCHANGED <<disk, server>>

\* The output is printed and the process ends.
Exit(c) ==
  /\ At(c, "out")
  /\ Step(c, Idle)
  /\ device' = [device EXCEPT ![c] = NoDevice]
  /\ UNCHANGED <<disk, state>>

-----------------------------------------------------------------------------
(* The environment.                                                        *)

Kill(c) ==
  /\ cmd[c].at \notin {"idle", "out"}
  /\ Step(c, Idle)
  /\ device' = [device EXCEPT ![c] = NoDevice]
  /\ UNCHANGED <<disk, state>>

\* The user decides in the browser, in time; late is an approval that comes when
\* the host has sent an answer that says pending and the terminal has not read it.
Decide(c) ==
  /\ device[c].status = "pending" /\ device[c].left > 0
  /\ \E s \in {"rejected", IF At(c, "check") THEN "late" ELSE "approved"} :
       device' = [device EXCEPT ![c].status = s]
  /\ UNCHANGED <<disk, state, cmd>>

TokenExpires(t) ==
  /\ state[t] = "live"
  /\ state' = [state EXCEPT ![t] = "dead"]
  /\ UNCHANGED <<disk, device, cmd>>

\* Someone changes the file's mode or damages it, or repairs that.
Spoil ==
  /\ ~Absent
  /\ usable' = ~usable
  /\ UNCHANGED <<file, lost, server, cmd>>

Less(n) == IF n = 0 THEN 0 ELSE n - 1

Tick ==
  /\ \E c \in Cli : device[c].left > 0 \/ cmd[c].left > 0
  /\ device' = [c \in Cli |-> [device[c] EXCEPT !.left = Less(@)]]
  /\ cmd' = [c \in Cli |-> [cmd[c] EXCEPT !.left = Less(@)]]
  /\ UNCHANGED <<disk, state>>

-----------------------------------------------------------------------------

\* What a process does by itself once it runs.
LoginStep(c) == \/ Authorize(c) \/ Check(c) \/ Wake(c)
                \/ PollPending(c) \/ PollApproved(c) \/ PollEnds(c)
                \/ Verify(c) \/ SaveRead(c) \/ SaveWrite(c)

TokenStep(c) == \/ Pick(c) \/ Load(c) \/ Use(c) \/ Revoke(c)
                \/ DeleteRead(c) \/ DeleteWrite(c) \/ Forget(c)

User(c) ==
  \/ \E h \in Host : StartLogin(c, h)
  \/ \E h \in Host, t \in Token : StartStdin(c, h, t)
  \/ \E k \in {"logout", "use"}, h \in Host \cup {None} :
       Start(c, k, h) \/ \E t \in FromEnv : StartWith(c, k, h, t)
  \/ Kill(c) \/ Decide(c)

Next ==
  \/ \E c \in Cli : LoginStep(c) \/ TokenStep(c) \/ Exit(c) \/ User(c)
  \/ \E t \in Token : TokenExpires(t)
  \/ Spoil
  \/ Tick

Spec == Init /\ [][Next]_vars

-----------------------------------------------------------------------------

\* Every stored token was issued by the host it is stored under: it was proved
\* against that host's /me before it was saved (verifyAndStoreToken).  And it is
\* sent only there, although the host is chosen from one reading of the file and
\* the token taken from another (authenticatedClient).
EntriesVerified == \A h \in Stored : IssuedBy[file[h]] = h

TokenStaysHome ==
  /\ EntriesVerified
  /\ \A c \in Cli : cmd[c].at \in {"use", "revoke"} /\ ~cmd[c].env
                     => IssuedBy[cmd[c].token] = cmd[c].host

\* "The device authorization expired before approval" passes over an approval
\* given in time only when it came while a pending answer was on its way to the
\* terminal and the deadline went by too before that was read.  One given during
\* a sleep or a request is always polled, however late (loginCommand's loop).
ExpiredUnseen ==
  \A c \in Cli : At(c, "out") /\ cmd[c].result = "timeout" => device[c].status # "approved"

\* A live token leaves the file only because a login replaced it, or because the
\* logout of the host had loaded another one before: an unconfirmed revocation
\* preserves the credentials (logout).
LiveNotRemoved ==
  [][\A h \in Host :
       file[h] # None /\ file'[h] = None /\ state[file[h]] = "live" /\ ~lost'
         => \E c \in Cli : cmd[c].host = h /\ cmd[c].stale]_vars

=============================================================================
