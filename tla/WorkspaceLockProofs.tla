------------------------- MODULE WorkspaceLockProofs -------------------------
(***************************************************************************)
(* What the workspace lock store and its commands guarantee for every      *)
(* number of terminals, workspaces, identities, sessions and epochs.       *)
(***************************************************************************)
EXTENDS WorkspaceLock, TLAPS

-----------------------------------------------------------------------------
(* The invariant.                                                          *)

Writing    == {"prune write", "pin write", "grant write", "revoke write",
               "repair write", "unpin write", "forget write"}
Challenged == {"answer", "pin", "pin write", "grant", "accept", "repair",
               "challenged", "proving", "signed"}

Issuers     == [Session -> Origin \cup {None}]
Acceptances == [Workspace -> SUBSET (Identity \X Means)]

\* The record's grant was issued, and its pin accepted, as the record says.
True(w, r, iss, acc) ==
  /\ r # None /\ r.grant # None =>
       iss[r.grant.session] = [ws |-> w, identity |-> r.pin, epoch |-> r.grant.epoch]
  /\ r # None => <<r.pin, r.by>> \in acc[w]

\* The session was issued in that state, by an identity the user accepted.
Attributed(g, w, i, e, iss, acc) ==
  /\ i \in Identity
  /\ iss[g.session] = [ws |-> w, identity |-> i, epoch |-> e]
  /\ \E by \in Means : <<i, by>> \in acc[w]

\* What a terminal holds between two steps is as true as what is stored: the
\* document it read a while ago, the challenge it verified, the session it was
\* issued, the identity its user accepted, the grant it proves itself with.
Sound(r, iss, acc) ==
  /\ r.pc # "idle" => r.ws \in Workspace
  /\ r.pc \in Writing =>
       r.doc \in Store /\ \A w \in Workspace : True(w, r.doc[w], iss, acc)
  /\ r.pc \in Challenged => r.chal \in State
  /\ r.got # None =>
       /\ r.cmd = "unlock" /\ r.pc \in {"answer", "grant", "grant write"}
       /\ r.ws \in Workspace /\ r.chal \in State
       /\ iss[r.got.session] = [ws |-> r.ws, identity |-> r.chal.identity,
                                epoch |-> r.chal.epoch]
  /\ r.pc = "grant" \/ (r.pc = "answer" /\ r.cmd = "unlock" /\ r.did = "applied")
       => r.got \in Unlock
  /\ r.pc \in {"prune", "prune write", "begin", "ticket", "pin", "pin write"} => r.did = "none"
  /\ r.pc = "pin write" => <<r.chal.identity, "trust">> \in acc[r.ws]
  /\ r.pc = "repair" => <<r.chal.identity, "compare">> \in acc[r.ws]
  /\ r.pc = "proving" =>
       /\ r.auth \in Grant /\ Attributed(r.auth, r.ws, r.pin, r.auth.epoch, iss, acc)
  /\ r.pc = "signed" =>
       /\ r.auth \in Grant
       /\ Attributed(r.auth, r.ws, r.chal.identity, r.chal.epoch, iss, acc)

StoreTrue == \A w \in Workspace : True(w, store[w], issuer, accepted)
CliSound  == \A c \in CLI : Sound(cli[c], issuer, accepted)

LockInv == TypeOK /\ StoreTrue /\ CliSound /\ FactorsOnlyToAccepted

\* Nothing a guest issued or a user accepted is ever taken back.
Grows(iss1, iss2, acc1, acc2) ==
  /\ \A s \in Session : iss1[s] # None => iss2[s] = iss1[s]
  /\ \A w \in Workspace : acc1[w] \subseteq acc2[w]

-----------------------------------------------------------------------------
(* What a step of one terminal has to show.                                *)

LEMMA TrueStays ==
  ASSUME NEW w \in Workspace, NEW r \in Record \cup {None},
         NEW iss1 \in Issuers, NEW iss2 \in Issuers,
         NEW acc1 \in Acceptances, NEW acc2 \in Acceptances,
         Grows(iss1, iss2, acc1, acc2), True(w, r, iss1, acc1)
  PROVE  True(w, r, iss2, acc2)
<1>1. ASSUME r # None, r.grant # None
      PROVE  iss2[r.grant.session] = iss1[r.grant.session]
  <2>1. r.grant.session \in Session
    BY <1>1 DEF Record, Grant
  <2>2. [ws |-> w, identity |-> r.pin, epoch |-> r.grant.epoch] \in Origin
    BY <1>1 DEF Record, Grant, Origin
  <2>3. iss1[r.grant.session] # None
    BY <1>1, <2>2, LockAssumption DEF True
  <2> QED BY <2>1, <2>3 DEF Grows
<1>2. r # None => <<r.pin, r.by>> \in acc2[w]
  BY DEF True, Grows
<1> QED BY <1>1, <1>2 DEF True

LEMMA AttributedStays ==
  ASSUME NEW g \in Grant, NEW w \in Workspace, NEW i, NEW e \in Epoch,
         NEW iss1 \in Issuers, NEW iss2 \in Issuers,
         NEW acc1 \in Acceptances, NEW acc2 \in Acceptances,
         Grows(iss1, iss2, acc1, acc2), Attributed(g, w, i, e, iss1, acc1)
  PROVE  Attributed(g, w, i, e, iss2, acc2)
<1>1. [ws |-> w, identity |-> i, epoch |-> e] \in Origin
  BY DEF Attributed, Origin
<1>2. iss1[g.session] # None /\ g.session \in Session
  BY <1>1, LockAssumption DEF Attributed, Grant
<1> QED BY <1>2 DEF Attributed, Grows

LEMMA SoundStays ==
  ASSUME NEW r \in Cli,
         NEW iss1 \in Issuers, NEW iss2 \in Issuers,
         NEW acc1 \in Acceptances, NEW acc2 \in Acceptances,
         Grows(iss1, iss2, acc1, acc2), Sound(r, iss1, acc1)
  PROVE  Sound(r, iss2, acc2)
<1>1. ASSUME r.pc \in Writing, NEW w \in Workspace
      PROVE  True(w, r.doc[w], iss2, acc2)
  <2>1. r.doc[w] \in Record \cup {None} /\ True(w, r.doc[w], iss1, acc1)
    BY <1>1 DEF Sound, Store
  <2> QED BY <2>1, TrueStays
<1>2. ASSUME r.got # None PROVE iss2[r.got.session] = iss1[r.got.session]
  <2>1. r.got.session \in Session
    BY <1>2 DEF Cli, Unlock
  <2>2. [ws |-> r.ws, identity |-> r.chal.identity, epoch |-> r.chal.epoch] \in Origin
    BY <1>2 DEF Sound, Origin, State
  <2>3. iss1[r.got.session] # None
    BY <1>2, <2>2, LockAssumption DEF Sound
  <2> QED BY <2>1, <2>3 DEF Grows
<1>3. ASSUME r.pc = "pin write" \/ r.pc = "repair" PROVE acc1[r.ws] \subseteq acc2[r.ws]
  BY <1>3 DEF Sound, Grows
<1>4. ASSUME r.pc = "proving"
      PROVE  Attributed(r.auth, r.ws, r.pin, r.auth.epoch, iss2, acc2)
  BY <1>4, AttributedStays DEF Sound, Grant
<1>5. ASSUME r.pc = "signed"
      PROVE  Attributed(r.auth, r.ws, r.chal.identity, r.chal.epoch, iss2, acc2)
  BY <1>5, AttributedStays DEF Sound, State, Challenged
<1> QED BY <1>1, <1>2, <1>3, <1>4, <1>5 DEF Sound

\* A step in which one terminal moves: only its own record is to be looked at.
LEMMA OneTerminal ==
  ASSUME LockInv, NEW c \in CLI, NEW r \in Cli, Become(c, r),
         issuer' \in Issuers, accepted' \in Acceptances,
         Grows(issuer, issuer', accepted, accepted'), Sound(r, issuer', accepted')
  PROVE  cli' \in [CLI -> Cli] /\ CliSound'
<1>1. cli' \in [CLI -> Cli] /\ cli'[c] = r /\ \A d \in CLI \ {c} : cli'[d] = cli[d]
  BY DEF LockInv, TypeOK, Become
<1>2. ASSUME NEW d \in CLI \ {c} PROVE Sound(cli[d], issuer', accepted')
  <2>1. cli[d] \in Cli /\ Sound(cli[d], issuer, accepted)
    BY DEF LockInv, TypeOK, CliSound
  <2>2. issuer \in Issuers /\ accepted \in Acceptances
    BY DEF LockInv, TypeOK, Issuers, Acceptances
  <2> QED BY <2>1, <2>2, SoundStays
<1>3. ASSUME NEW d \in CLI PROVE Sound(cli'[d], issuer', accepted')
  BY <1>1, <1>2
<1> QED BY <1>1, <1>3 DEF CliSound

\* The step writes nothing and tells nobody.
LEMMA QuietStep ==
  ASSUME LockInv, NEW c \in CLI, NEW r \in Cli, Become(c, r),
         Sound(r, issuer, accepted), UNCHANGED <<disk, env, hist>>
  PROVE  LockInv'
<1>1. /\ issuer' \in Issuers /\ accepted' \in Acceptances
      /\ Grows(issuer, issuer', accepted, accepted') /\ Sound(r, issuer', accepted')
  BY DEF LockInv, TypeOK, Issuers, Acceptances, Grows, disk, env, hist
<1>2. cli' \in [CLI -> Cli] /\ CliSound'
  BY <1>1, OneTerminal
<1> QED BY <1>2 DEF LockInv, TypeOK, StoreTrue, FactorsOnlyToAccepted, disk, env, hist

\* The command ends, or only its program counter moves on.
LEMMA Ending ==
  ASSUME LockInv, NEW c \in CLI, Leave(c), UNCHANGED <<disk, env, hist>>
  PROVE  LockInv'
<1>1. Idle \in Cli
  BY DEF Idle, Cli, Label, Command
<1>2. Sound(Idle, issuer, accepted)
  BY DEF Sound, Idle, Writing, Challenged
<1> QED BY <1>1, <1>2, QuietStep DEF Leave, Become

LEMMA Moving ==
  ASSUME LockInv, NEW c \in CLI, NEW p \in Label \ (Writing \cup Challenged),
         ~At(c, "idle"), cli[c].got = None,
         p \in {"prune", "begin", "ticket"} => cli[c].did = "none",
         Move(c, p), UNCHANGED <<disk, env, hist>>
  PROVE  LockInv'
<1>1. cli[c] \in Cli /\ Sound(cli[c], issuer, accepted)
  BY DEF LockInv, TypeOK, CliSound
<1> DEFINE r == [cli[c] EXCEPT !.pc = p]
<1>2. r \in Cli
  BY <1>1 DEF Cli
<1>3. Sound(r, issuer, accepted)
  BY <1>1 DEF Sound, Cli, Writing, Challenged, At
<1>4. Become(c, r)
  BY DEF Move, Become
<1> QED BY <1>2, <1>3, <1>4, QuietStep

\* Only an unlock between its answer and its grant holds a session.
LEMMA HoldsSession ==
  ASSUME LockInv, NEW c \in CLI
  PROVE  /\ cli[c] \in Cli /\ Sound(cli[c], issuer, accepted)
         /\ \/ cli[c].cmd # "unlock" \/ cli[c].pc \notin {"answer", "grant", "grant write"}
            => cli[c].got = None
         /\ cli[c].pc \in {"prune", "prune write", "begin", "ticket", "pin", "pin write"}
            => cli[c].did = "none"
BY DEF LockInv, TypeOK, CliSound, Sound

\* A document read earlier is renamed into place; the command goes on or ends.
LEMMA Publishing ==
  ASSUME LockInv, NEW c \in CLI, NEW r \in Cli, Become(c, r),
         cli[c].pc \in Writing, Publish(c), Sound(r, issuer, accepted),
         UNCHANGED <<login, env, accepted>>, told' \in [Workspace -> SUBSET Identity],
         FactorsOnlyToAccepted'
  PROVE  LockInv'
<1>1. store' \in Store /\ StoreTrue'
  BY DEF LockInv, CliSound, Sound, Publish, StoreTrue, env
<1>2. /\ issuer' \in Issuers /\ accepted' \in Acceptances
      /\ Grows(issuer, issuer', accepted, accepted') /\ Sound(r, issuer', accepted')
  BY DEF LockInv, TypeOK, Issuers, Acceptances, Grows, env
<1>3. cli' \in [CLI -> Cli] /\ CliSound'
  BY <1>2, OneTerminal
<1> QED BY <1>1, <1>3 DEF LockInv, TypeOK, env

\* A command starts; what runs already is told that it is not alone.
LEMMA Entering ==
  ASSUME LockInv, NEW c \in CLI, Enter(c)
  PROVE  LockInv'
<1>1. PICK k \in Command, w \in Workspace, p \in {"token", "watch", "prune"}, a \in BOOLEAN :
        Join(c, [Idle EXCEPT !.cmd = k, !.ws = w, !.pc = p, !.alone = a])
  BY LockAssumption DEF Enter
<1> DEFINE r == [Idle EXCEPT !.cmd = k, !.ws = w, !.pc = p, !.alone = a]
<1>2. r \in Cli /\ Sound(r, issuer, accepted)
  BY DEF Cli, Idle, Label, Sound, Writing, Challenged
<1>3. ASSUME NEW d \in CLI \ {c}
      PROVE  cli'[d] \in Cli /\ Sound(cli'[d], issuer, accepted)
  <2>1. cli'[d] = [cli[d] EXCEPT !.alone = FALSE]
    BY <1>1 DEF Join
  <2>2. cli[d] \in Cli /\ Sound(cli[d], issuer, accepted)
    BY HoldsSession
  <2>3. cli'[d] \in Cli
    BY <2>1, <2>2 DEF Cli
  <2>4. Sound(cli'[d], issuer, accepted)
    BY <2>1, <2>2 DEF Sound, Cli
  <2> QED BY <2>3, <2>4
<1>4. cli' \in [CLI -> Cli] /\ \A d \in CLI : Sound(cli'[d], issuer, accepted)
  <2>1. cli'[c] = r
    BY <1>1 DEF Join
  <2>2. ASSUME NEW d \in CLI PROVE cli'[d] \in Cli /\ Sound(cli'[d], issuer, accepted)
    BY <1>2, <1>3, <2>1
  <2>3. cli' = [d \in CLI |-> cli'[d]]
    BY <1>1 DEF Join
  <2> HIDE DEF r
  <2> QED BY <2>2, <2>3
<1> QED BY <1>4 DEF Enter, LockInv, TypeOK, StoreTrue, CliSound, FactorsOnlyToAccepted,
                    disk, env, hist

LEMMA OpenSteps ==
  ASSUME LockInv, NEW c \in CLI, OpenStep(c)
  PROVE  LockInv'
<1>a. /\ cli[c] \in Cli /\ Sound(cli[c], issuer, accepted)
      /\ OpenStep(c) /\ ~At(c, "idle") => cli[c].got = None /\ cli[c].did = "none"
  BY HoldsSession DEF OpenStep, Enter, PruneRead, PruneWrite, Begin, BeginFails, At
<1>b. TypeOK /\ StoreTrue /\ FactorsOnlyToAccepted
  BY DEF LockInv
<1>1. CASE Enter(c)
  BY <1>1, Entering
<1>2. CASE PruneRead(c)
  <2> DEFINE doc == [w \in Workspace |-> IF Holds(w) THEN store[w] ELSE Drop(store[w])]
             r == [cli[c] EXCEPT !.pc = "prune write", !.doc = doc]
  <2>1. CASE Become(c, r)
    <3>1. ASSUME NEW w \in Workspace
          PROVE  Drop(store[w]) \in Record \cup {None} /\ True(w, Drop(store[w]), issuer, accepted)
      <4>1. store[w] \in Record \cup {None} /\ True(w, store[w], issuer, accepted)
        BY <1>b DEF TypeOK, Store, StoreTrue
      <4>2. CASE store[w] = None
        BY <4>1, <4>2 DEF Drop
      <4>3. CASE store[w] \in Record
        <5>1. /\ Drop(store[w]) \in Record /\ Drop(store[w]).pin = store[w].pin
              /\ Drop(store[w]).by = store[w].by /\ Drop(store[w]).grant = None
          BY <4>3, LockAssumption DEF Drop, Record
        <5> QED BY <4>1, <4>3, <5>1, LockAssumption DEF True
      <4> QED BY <4>1, <4>2, <4>3
    <3>2. doc \in Store /\ \A w \in Workspace : True(w, doc[w], issuer, accepted)
      BY <3>1, <1>b DEF TypeOK, Store, StoreTrue
    <3>3. r \in Cli
      BY <1>a, <3>2, ZenonT(40) DEF Cli, Label
    <3>4. Sound(r, issuer, accepted)
      BY <1>a, <1>2, <3>2 DEF Sound, Cli, Writing, Challenged, PruneRead, At
    <3> QED BY <1>2, <2>1, <3>3, <3>4, QuietStep DEF PruneRead
  <2>2. CASE Move(c, "begin")
    BY <1>a, <1>2, <2>2, Moving DEF PruneRead, At, Label, Writing, Challenged
  <2> QED BY <1>2, <2>1, <2>2 DEF PruneRead
<1>3. CASE Begin(c)
  <2>1. CASE \E p \in {"unpin", "ticket", "revoke"} : Move(c, p)
    BY <1>a, <1>3, <2>1, Moving DEF Begin, At, Label, Writing, Challenged
  <2>2. CASE Leave(c)
    BY <1>3, <2>2, Ending DEF Begin
  <2>3. Move(c, "unpin") \/ Move(c, "ticket") \/ Move(c, "revoke") \/ Leave(c)
    BY <1>3, Zenon DEF Begin
  <2> QED BY <2>1, <2>2, <2>3
<1>4. CASE BeginFails(c)
  BY <1>4, Ending DEF BeginFails
<1>5. CASE PruneWrite(c)
  <2> DEFINE r == [cli[c] EXCEPT !.pc = "begin", !.doc = None]
  <2>1. r \in Cli /\ Sound(r, issuer, accepted)
    BY <1>a, <1>5 DEF Cli, Label, Sound, Writing, Challenged, PruneWrite, At
  <2>2. FactorsOnlyToAccepted' /\ told' \in [Workspace -> SUBSET Identity]
    BY <1>5, <1>b DEF PruneWrite, hist, FactorsOnlyToAccepted, TypeOK
  <2>3. /\ Become(c, r) /\ Publish(c) /\ cli[c].pc \in Writing
        /\ UNCHANGED <<login, env, accepted>>
    BY <1>5 DEF PruneWrite, Writing, At, hist
  <2> QED BY <2>1, <2>2, <2>3, Publishing
<1> QED BY <1>1, <1>2, <1>3, <1>4, <1>5 DEF OpenStep

\* A factor is sealed to an identity the user accepted.
LEMMA Telling ==
  ASSUME TypeOK, FactorsOnlyToAccepted, accepted' \in Acceptances,
         NEW w \in Workspace, NEW i \in Identity, NEW by \in Means,
         <<i, by>> \in accepted'[w], Tell(w, i),
         \A v \in Workspace : accepted[v] \subseteq accepted'[v]
  PROVE  FactorsOnlyToAccepted' /\ told' \in [Workspace -> SUBSET Identity]
<1>1. told' \in [Workspace -> SUBSET Identity]
      /\ \A v \in Workspace : told'[v] \subseteq IF v = w THEN told[v] \cup {i} ELSE told[v]
  BY DEF TypeOK, Tell
<1> QED BY <1>1 DEF FactorsOnlyToAccepted

LEMMA ToldNobody ==
  ASSUME TypeOK, FactorsOnlyToAccepted, UNCHANGED told,
         \A v \in Workspace : accepted[v] \subseteq accepted'[v]
  PROVE  FactorsOnlyToAccepted' /\ told' \in [Workspace -> SUBSET Identity]
BY DEF FactorsOnlyToAccepted, TypeOK

\* The user accepts an identity.
LEMMA Accepting ==
  ASSUME TypeOK, NEW w \in Workspace, NEW i \in Identity, NEW by \in Means,
         Accept(w, i, by)
  PROVE  /\ accepted' \in Acceptances /\ <<i, by>> \in accepted'[w]
         /\ \A v \in Workspace : accepted[v] \subseteq accepted'[v]
BY DEF TypeOK, Accept, Acceptances

\* The step changes one terminal and the history, and no document.
LEMMA HistoryStep ==
  ASSUME LockInv, NEW c \in CLI, NEW r \in Cli, Become(c, r),
         UNCHANGED <<disk, env>>, accepted' \in Acceptances,
         \A v \in Workspace : accepted[v] \subseteq accepted'[v],
         Sound(r, issuer, accepted'),
         FactorsOnlyToAccepted', told' \in [Workspace -> SUBSET Identity]
  PROVE  LockInv'
<1>1. issuer' = issuer /\ issuer \in Issuers /\ accepted \in Acceptances
  BY DEF LockInv, TypeOK, Issuers, Acceptances, env
<1>2. Grows(issuer, issuer', accepted, accepted') /\ Sound(r, issuer', accepted')
  BY <1>1 DEF Grows
<1>3. cli' \in [CLI -> Cli] /\ CliSound'
  BY <1>1, <1>2, OneTerminal
<1>4. ASSUME NEW w \in Workspace PROVE True(w, store[w], issuer', accepted')
  BY <1>1, <1>2, TrueStays DEF LockInv, TypeOK, Store, StoreTrue
<1> QED BY <1>3, <1>4 DEF LockInv, TypeOK, StoreTrue, Acceptances, disk, env

LEMMA PinSteps ==
  ASSUME LockInv, NEW c \in CLI, Seal(c) \/ Bootstrap(c) \/ PinRead(c) \/ PinWrite(c)
  PROVE  LockInv'
<1>0. cli[c] \in Cli
  BY HoldsSession
<1>a. /\ cli[c] \in Cli /\ Sound(cli[c], issuer, accepted)
      /\ cli[c].pc \in {"ticket", "pin", "pin write"} /\ cli[c].got = None
      /\ cli[c].did = "none" /\ cli[c].ws \in Workspace
  BY HoldsSession DEF Seal, Bootstrap, PinRead, PinWrite, At, Sound
<1>b. TypeOK /\ StoreTrue /\ FactorsOnlyToAccepted
  BY DEF LockInv
<1>c. accepted \in Acceptances
  BY <1>b DEF TypeOK, Acceptances
<1>1. CASE Seal(c)
  <2> DEFINE r == [cli[c] EXCEPT !.pc = "answer", !.chal = guest[cli[c].ws]]
  <2>1. guest[cli[c].ws] \in State /\ guest[cli[c].ws].identity \in Identity
    BY <1>a, <1>b DEF TypeOK, State
  <2>2. r \in Cli
    BY <1>0, <2>1, ZenonT(40) DEF Cli, Label
  <2>3. Sound(r, issuer, accepted)
    BY <1>1, <1>a, <2>1 DEF Sound, Cli, Writing, Challenged, Seal, At
  <2>4. PICK by \in Means : <<guest[cli[c].ws].identity, by>> \in accepted[cli[c].ws]
    <3>1. store[cli[c].ws] \in Record /\ store[cli[c].ws].pin = guest[cli[c].ws].identity
      BY <1>1, <1>a, <1>b DEF Seal, Pinned, TypeOK, Store
    <3>2. /\ store[cli[c].ws].by \in Means
          /\ <<store[cli[c].ws].pin, store[cli[c].ws].by>> \in accepted[cli[c].ws]
      BY <3>1, <1>a, <1>b, LockAssumption DEF StoreTrue, True, Record
    <3> QED BY <3>1, <3>2
  <2>5. FactorsOnlyToAccepted' /\ told' \in [Workspace -> SUBSET Identity]
    BY <1>1, <1>a, <1>b, <1>c, <2>1, <2>4, Telling, ToldNobody DEF Seal, TellIf
  <2> QED BY <1>1, <1>c, <2>2, <2>3, <2>5, HistoryStep DEF Seal
<1>2. CASE Bootstrap(c)
  <2> DEFINE r == [cli[c] EXCEPT !.pc = "pin", !.chal = guest[cli[c].ws]]
  <2>1. guest[cli[c].ws] \in State
    BY <1>a, <1>b DEF TypeOK
  <2>2. r \in Cli
    BY <1>0, <2>1, ZenonT(40) DEF Cli, Label
  <2>3. Sound(r, issuer, accepted)
    BY <1>2, <1>a, <2>1 DEF Sound, Cli, Writing, Challenged, Bootstrap, At
  <2> QED BY <1>2, <2>2, <2>3, QuietStep DEF Bootstrap
<1>3. CASE PinRead(c)
  <2> DEFINE w == cli[c].ws
             i == cli[c].chal.identity
  <2>1. w \in Workspace /\ i \in Identity /\ cli[c].chal \in State
    BY <1>3, <1>a DEF PinRead, At, Sound, Challenged, State
  <2>2. CASE Leave(c) /\ UNCHANGED hist
    BY <1>3, <2>2, Ending DEF PinRead
  <2>3. CASE store[w] # None /\ store[w].pin = i /\ Move(c, "answer") /\ Tell(w, i)
             /\ UNCHANGED accepted
    <3> DEFINE r == [cli[c] EXCEPT !.pc = "answer"]
    <3>1. r \in Cli
      BY <1>0, ZenonT(40) DEF Cli, Label
    <3>2. Sound(r, issuer, accepted)
      BY <1>3, <1>a, <2>1 DEF Sound, Cli, Writing, Challenged, PinRead, At
    <3>3. store[w] \in Record /\ store[w].by \in Means
      BY <1>b, <2>1, <2>3 DEF TypeOK, Store, Record
    <3>4. <<i, store[w].by>> \in accepted[w]
      BY <1>b, <2>1, <2>3 DEF StoreTrue, True
    <3>5. FactorsOnlyToAccepted' /\ told' \in [Workspace -> SUBSET Identity]
      BY <1>b, <1>c, <2>1, <2>3, <3>3, <3>4, Telling
    <3> QED BY <1>3, <1>c, <2>3, <3>1, <3>2, <3>5, HistoryStep DEF PinRead, Move, Become
  <2>4. CASE /\ store[w] = None
             /\ Become(c, [cli[c] EXCEPT !.pc = "pin write",
                  !.doc = [store EXCEPT ![w] = [pin |-> i, by |-> "trust", grant |-> None]]])
             /\ Accept(w, i, "trust") /\ UNCHANGED told
    <3> DEFINE doc == [store EXCEPT ![w] = [pin |-> i, by |-> "trust", grant |-> None]]
               r == [cli[c] EXCEPT !.pc = "pin write", !.doc = doc]
    <3>1. /\ accepted' \in Acceptances /\ <<i, "trust">> \in accepted'[w]
          /\ \A v \in Workspace : accepted[v] \subseteq accepted'[v]
      BY <1>b, <2>1, <2>4, Accepting DEF Means
    <3>2. doc \in Store
      BY <1>b, <2>1 DEF TypeOK, Store, Record, Means
    <3>3. ASSUME NEW v \in Workspace PROVE True(v, doc[v], issuer, accepted')
      <4>1. CASE v = w
        BY <1>b, <2>1, <3>1, <4>1 DEF TypeOK, Store, True
      <4>2. CASE v # w
        BY <1>b, <2>1, <3>1, <4>2 DEF TypeOK, Store, StoreTrue, True
      <4> QED BY <4>1, <4>2
    <3>4. r \in Cli
      BY <1>0, <3>2, ZenonT(40) DEF Cli, Label
    <3>5. Sound(r, issuer, accepted')
      BY <1>3, <1>a, <2>1, <3>1, <3>2, <3>3
         DEF Sound, Cli, Writing, Challenged, PinRead, At
    <3>6. FactorsOnlyToAccepted' /\ told' \in [Workspace -> SUBSET Identity]
      BY <1>b, <2>4, <3>1, ToldNobody
    <3> QED BY <1>3, <2>4, <3>1, <3>4, <3>5, <3>6, HistoryStep DEF PinRead
  <2> QED BY <1>3, <2>2, <2>3, <2>4, Zenon DEF PinRead
<1>4. CASE PinWrite(c)
  <2> DEFINE r == [cli[c] EXCEPT !.pc = "answer", !.doc = None]
  <2>1. /\ cli[c].chal \in State /\ cli[c].chal.identity \in Identity
        /\ <<cli[c].chal.identity, "trust">> \in accepted[cli[c].ws]
    BY <1>4, <1>a DEF PinWrite, At, Sound, Challenged, State
  <2>2. r \in Cli
    BY <1>0, ZenonT(40) DEF Cli, Label
  <2>3. Sound(r, issuer, accepted)
    BY <1>4, <1>a, <2>1 DEF Sound, Cli, Writing, Challenged, PinWrite, At
  <2>4. FactorsOnlyToAccepted' /\ told' \in [Workspace -> SUBSET Identity]
    BY <1>4, <1>a, <1>b, <1>c, <2>1, Telling DEF PinWrite, Means
  <2> QED BY <1>4, <2>2, <2>3, <2>4, Publishing DEF PinWrite, Writing, At
<1> QED BY <1>1, <1>2, <1>3, <1>4

LEMMA ExchangeSteps ==
  ASSUME LockInv, NEW c \in CLI, ExchangeStep(c)
  PROVE  LockInv'
<1>0. cli[c] \in Cli
  BY HoldsSession
<1>a. Sound(cli[c], issuer, accepted)
  BY HoldsSession
<1>b. cli[c].cmd # "unlock" \/ cli[c].pc \notin {"answer", "grant", "grant write"}
        => cli[c].got = None
  BY HoldsSession
<1>1. CASE Seal(c) \/ Bootstrap(c) \/ PinRead(c) \/ PinWrite(c)
  BY <1>1, PinSteps
<1>2. CASE ExchangeFails(c)
  <2>1. CASE Runs(c, "lock") /\ Move(c, "revoke")
    BY <1>2, <1>b, <2>1, Moving DEF ExchangeFails, At, Runs, Label, Writing, Challenged
  <2>2. CASE Leave(c)
    BY <1>2, <2>2, Ending DEF ExchangeFails
  <2> QED BY <1>2, <2>1, <2>2 DEF ExchangeFails
<1>3. CASE NotAdmitted(c)
  BY <1>3, Ending DEF NotAdmitted
<1>4. CASE Unlocked(c)
  <2>1. CASE Leave(c)
    BY <1>4, <2>1, Ending DEF Unlocked
  <2>2. CASE Move(c, "grant")
    <3> DEFINE r == [cli[c] EXCEPT !.pc = "grant"]
    <3>1. r \in Cli
      BY <1>0, ZenonT(40) DEF Cli, Label
    <3>2. Sound(r, issuer, accepted)
      BY <1>4, <1>0, <1>a DEF Sound, Cli, Writing, Challenged, Unlocked, At, Runs
    <3> QED BY <1>4, <2>2, <3>1, <3>2, QuietStep DEF Unlocked, Move, Become
  <2> QED BY <1>4, <2>1, <2>2 DEF Unlocked
<1>5. CASE PhraseSaved(c)
  <2> DEFINE r == [cli[c] EXCEPT !.cmd = "confirm", !.pc = "ticket", !.chal = None,
                                 !.did = "none"]
  <2>1. r \in Cli
    BY <1>0, ZenonT(40) DEF Cli, Label
  <2>2. Sound(r, issuer, accepted)
    BY <1>5, <1>0, <1>a, <1>b DEF Sound, Cli, Writing, Challenged, PhraseSaved, At, Runs
  <2> QED BY <1>5, <2>1, <2>2, QuietStep DEF PhraseSaved
<1>6. CASE Answered(c)
  <2> DEFINE r == [cli[c] EXCEPT !.pc = "revoke", !.ok = TRUE]
  <2>1. r \in Cli
    BY <1>0, ZenonT(40) DEF Cli, Label
  <2>2. Sound(r, issuer, accepted)
    BY <1>6, <1>0, <1>a, <1>b DEF Sound, Cli, Writing, Challenged, Answered, At
  <2> QED BY <1>6, <2>1, <2>2, QuietStep DEF Answered
<1>7. CASE AnswerRead(c)
  BY <1>7, Ending DEF AnswerRead
<1> QED BY <1>1, <1>2, <1>3, <1>4, <1>5, <1>6, <1>7 DEF ExchangeStep

\* The guest acts on what it is sent, or moves on by itself; what it issued
\* before stays issued.
LEMMA GuestIssues ==
  ASSUME TypeOK, NEW s \in Session, NEW o \in Origin, issuer[s] = None,
         issuer' = [issuer EXCEPT ![s] = o], UNCHANGED accepted
  PROVE  /\ issuer' \in Issuers /\ accepted' \in Acceptances /\ issuer'[s] = o
         /\ Grows(issuer, issuer', accepted, accepted')
BY DEF TypeOK, Issuers, Acceptances, Grows

LEMMA GuestSteps ==
  ASSUME LockInv, NEW c \in CLI, GuestStep(c)
  PROVE  LockInv'
<1>0. cli[c] \in Cli
  BY HoldsSession
<1>a. Sound(cli[c], issuer, accepted)
  BY HoldsSession
<1>b. cli[c].cmd # "unlock" => cli[c].got = None
  BY HoldsSession
<1>c. TypeOK /\ StoreTrue /\ FactorsOnlyToAccepted
  BY DEF LockInv
<1>d. /\ At(c, "answer") /\ cli[c].did = "none"
      /\ cli[c].ws \in Workspace /\ cli[c].chal \in State
  BY <1>0, <1>a DEF GuestStep, GuestUnlocks, GuestLocks, GuestAgrees, GuestRefuses, GuestHears,
                    At, Sound, Challenged
<1>1. CASE GuestUnlocks(c)
  <2>1. PICK s \in Session, e \in Deadline :
          /\ issuer[s] = None
          /\ issuer' = [issuer EXCEPT ![s] = [ws |-> cli[c].ws,
                          identity |-> cli[c].chal.identity, epoch |-> cli[c].chal.epoch]]
          /\ Become(c, [cli[c] EXCEPT !.did = "applied",
                                        !.got = [session |-> s, expires |-> e]])
    BY <1>1 DEF GuestUnlocks
  <2> DEFINE o == [ws |-> cli[c].ws, identity |-> cli[c].chal.identity,
                   epoch |-> cli[c].chal.epoch]
             r == [cli[c] EXCEPT !.did = "applied", !.got = [session |-> s, expires |-> e]]
  <2>2. o \in Origin
    BY <1>d DEF Origin, State
  <2>3. /\ issuer' \in Issuers /\ accepted' \in Acceptances /\ issuer'[s] = o
        /\ Grows(issuer, issuer', accepted, accepted')
    BY <1>1, <1>c, <2>1, <2>2, GuestIssues DEF GuestUnlocks, hist
  <2>4. r \in Cli
    BY <1>0 DEF Cli, Unlock
  <2>5. Sound(r, issuer', accepted')
    BY <1>1, <1>0, <1>d, <2>3, <2>4
       DEF Sound, Cli, Writing, Challenged, GuestUnlocks, At, Runs, Unlock
  <2>6. cli' \in [CLI -> Cli] /\ CliSound'
    BY <2>1, <2>3, <2>4, <2>5, OneTerminal
  <2>7. ASSUME NEW w \in Workspace PROVE True(w, store[w], issuer', accepted')
    <3>1. /\ store[w] \in Record \cup {None} /\ True(w, store[w], issuer, accepted)
          /\ issuer \in Issuers /\ accepted \in Acceptances
      BY <1>c DEF TypeOK, Store, StoreTrue, Issuers, Acceptances
    <3> QED BY <2>3, <3>1, TrueStays
  <2> QED BY <1>1, <1>c, <2>3, <2>6, <2>7
          DEF GuestUnlocks, LockInv, TypeOK, StoreTrue, FactorsOnlyToAccepted, Issuers, disk, hist
<1>2. CASE GuestLocks(c)
  <2> DEFINE r == [cli[c] EXCEPT !.did = "applied"]
  <2>1. r \in Cli
    BY <1>0 DEF Cli
  <2>2. Sound(r, issuer, accepted)
    BY <1>2, <1>0, <1>a, <1>b, <1>d DEF Sound, Cli, Writing, Challenged, GuestLocks, At
  <2>3. /\ issuer' \in Issuers /\ accepted' \in Acceptances
        /\ Grows(issuer, issuer', accepted, accepted')
        /\ issuer' = issuer /\ accepted' = accepted
    BY <1>2, <1>c DEF GuestLocks, TypeOK, Issuers, Acceptances, Grows, hist
  <2>4. cli' \in [CLI -> Cli] /\ CliSound'
    BY <1>2, <2>1, <2>2, <2>3, OneTerminal DEF GuestLocks, Become
  <2>5. guest' \in [Workspace -> State]
    BY <1>2, <1>c, <1>d, LockAssumption DEF GuestLocks, TypeOK, State, Epoch
  <2> QED BY <1>2, <1>c, <2>3, <2>4, <2>5
          DEF GuestLocks, LockInv, TypeOK, StoreTrue, FactorsOnlyToAccepted, disk, hist
<1>3. CASE GuestAgrees(c)
  <2> DEFINE r == [cli[c] EXCEPT !.did = "applied"]
  <2>1. r \in Cli
    BY <1>0 DEF Cli
  <2>2. Sound(r, issuer, accepted)
    BY <1>3, <1>0, <1>a, <1>b, <1>d DEF Sound, Cli, Writing, Challenged, GuestAgrees, At
  <2> QED BY <1>3, <2>1, <2>2, QuietStep DEF GuestAgrees, Become
<1>4. CASE GuestRefuses(c)
  <2> DEFINE r == [cli[c] EXCEPT !.did = "refused"]
  <2>1. r \in Cli
    BY <1>0 DEF Cli
  <2>2. Sound(r, issuer, accepted)
    BY <1>4, <1>0, <1>a, <1>d DEF Sound, Cli, Writing, Challenged, GuestRefuses, At
  <2> QED BY <1>4, <2>1, <2>2, QuietStep DEF GuestRefuses, Become
<1> QED BY <1>1, <1>2, <1>3, <1>4 DEF GuestStep

-----------------------------------------------------------------------------
(* What the commands write.                                                *)

\* A document that is true is ready to be written.
LEMMA Drafting ==
  ASSUME LockInv, NEW c \in CLI, NEW p \in Writing \ {"pin write"}, NEW doc \in Store,
         ~At(c, "idle"), p = "prune write" => cli[c].did = "none",
         cli[c].got # None => At(c, "grant") /\ p = "grant write",
         \A w \in Workspace : True(w, doc[w], issuer, accepted),
         Become(c, [cli[c] EXCEPT !.pc = p, !.doc = doc]), UNCHANGED <<disk, env, hist>>
  PROVE  LockInv'
<1>1. cli[c] \in Cli /\ Sound(cli[c], issuer, accepted)
  BY HoldsSession
<1> DEFINE r == [cli[c] EXCEPT !.pc = p, !.doc = doc]
<1>2. r \in Cli
  BY <1>1, ZenonT(40) DEF Cli, Label, Writing
<1>3. Sound(r, issuer, accepted)
  BY <1>1 DEF Sound, Cli, Writing, Challenged, At
<1> QED BY <1>2, <1>3, QuietStep

\* One record of the store is replaced by another that is true.
LEMMA TrueUpdate ==
  ASSUME TypeOK, StoreTrue, NEW w \in Workspace, NEW r \in Record \cup {None},
         True(w, r, issuer, accepted)
  PROVE  /\ [store EXCEPT ![w] = r] \in Store
         /\ \A v \in Workspace : True(v, [store EXCEPT ![w] = r][v], issuer, accepted)
<1>1. ASSUME NEW v \in Workspace
      PROVE  True(v, [store EXCEPT ![w] = r][v], issuer, accepted)
  <2>1. CASE v = w
    BY <2>1 DEF TypeOK, Store
  <2>2. CASE v # w
    BY <2>2 DEF TypeOK, Store, StoreTrue
  <2> QED BY <2>1, <2>2
<1>2. [store EXCEPT ![w] = r] \in Store
  BY DEF TypeOK, Store
<1> QED BY <1>1, <1>2

LEMMA NothingTrue == ASSUME NEW w \in Workspace PROVE True(w, None, issuer, accepted)
BY DEF True

LEMMA StoreReads ==
  ASSUME LockInv, NEW c \in CLI,
         GrantRead(c) \/ RevokeRead(c) \/ RepairRead(c) \/ UnpinRead(c) \/ ForgetRead(c)
  PROVE  LockInv'
<1>a. Sound(cli[c], issuer, accepted) /\ ~At(c, "idle")
  BY HoldsSession DEF GrantRead, RevokeRead, RepairRead, UnpinRead, ForgetRead, At
<1>b. At(c, "grant") \/ cli[c].got = None
  BY HoldsSession DEF GrantRead, RevokeRead, RepairRead, UnpinRead, ForgetRead, At
<1>c. TypeOK /\ StoreTrue
  BY DEF LockInv
<1>d. cli[c].ws \in Workspace
  BY <1>a DEF Sound, At
<1> DEFINE w == cli[c].ws
<1>1. CASE GrantRead(c)
  <2> DEFINE g == [session |-> cli[c].got.session, epoch |-> cli[c].chal.epoch,
                   issued |-> now, expires |-> cli[c].got.expires]
  <2>1. CASE Leave(c)
    BY <1>1, <2>1, Ending DEF GrantRead
  <2>2. CASE /\ store[w] # None /\ store[w].pin = cli[c].chal.identity
             /\ Become(c, [cli[c] EXCEPT !.pc = "grant write",
                             !.doc = [store EXCEPT ![w].grant = g]])
    <3>1. cli[c].got \in Unlock /\ cli[c].chal \in State
      BY <1>1, <1>a DEF GrantRead, At, Sound, Challenged
    <3>2. g \in Grant
      BY <3>1, <1>c DEF Unlock, State, Grant, TypeOK
    <3>3. issuer[g.session] = [ws |-> w, identity |-> store[w].pin, epoch |-> g.epoch]
      <4>1. cli[c].got # None =>
              issuer[cli[c].got.session] = [ws |-> w, identity |-> cli[c].chal.identity,
                                            epoch |-> cli[c].chal.epoch]
        BY <1>a DEF Sound
      <4>2. CASE cli[c].got = None
        BY <3>1, <4>2, LockAssumption
      <4> QED BY <2>2, <4>1, <4>2
    <3> DEFINE x == [store[w] EXCEPT !.grant = g]
    <3>4. store[w] \in Record /\ True(w, store[w], issuer, accepted)
      BY <1>c, <1>d, <2>2 DEF TypeOK, Store, StoreTrue
    <3>5. x \in Record /\ x.grant = g /\ x.pin = store[w].pin /\ x.by = store[w].by
      BY <3>2, <3>4 DEF Record
    <3>6. True(w, x, issuer, accepted)
      BY <2>2, <3>3, <3>4, <3>5 DEF True
    <3>7. [store EXCEPT ![w].grant = g] = [store EXCEPT ![w] = x]
      BY <1>c, <1>d DEF TypeOK, Store
    <3> QED BY <1>1, <1>a, <1>c, <1>d, <2>2, <3>5, <3>6, <3>7, TrueUpdate, Drafting
            DEF GrantRead, Writing, At
  <2> QED BY <1>1, <2>1, <2>2 DEF GrantRead
<1>2. CASE RevokeRead(c)
  <2>1. CASE Move(c, "report")
    BY <1>2, <1>a, <1>b, <2>1, Moving DEF RevokeRead, At, Label, Writing, Challenged
  <2>2. CASE /\ HoldsGrant(w)
             /\ Become(c, [cli[c] EXCEPT !.pc = "revoke write",
                             !.doc = [store EXCEPT ![w].grant = None]])
    <3> DEFINE x == [store[w] EXCEPT !.grant = None]
    <3>1. store[w] \in Record /\ True(w, store[w], issuer, accepted)
      BY <1>c, <1>d, <2>2 DEF TypeOK, Store, StoreTrue, HoldsGrant
    <3>2. x \in Record /\ x.grant = None /\ x.pin = store[w].pin /\ x.by = store[w].by
      BY <3>1 DEF Record
    <3>3. True(w, x, issuer, accepted)
      BY <2>2, <3>1, <3>2 DEF True, HoldsGrant
    <3>4. [store EXCEPT ![w].grant = None] = [store EXCEPT ![w] = x]
      BY <1>c, <1>d DEF TypeOK, Store
    <3> QED BY <1>2, <1>a, <1>b, <1>c, <1>d, <2>2, <3>2, <3>3, <3>4, TrueUpdate, Drafting
            DEF RevokeRead, Writing, At
  <2> QED BY <1>2, <2>1, <2>2 DEF RevokeRead
<1>3. CASE RepairRead(c)
  <2> DEFINE x == [pin |-> cli[c].chal.identity, by |-> "compare", grant |-> None]
  <2>1. cli[c].chal \in State /\ <<cli[c].chal.identity, "compare">> \in accepted[w]
    BY <1>3, <1>a DEF RepairRead, At, Sound, Challenged
  <2>2. x \in Record /\ True(w, x, issuer, accepted)
    BY <2>1 DEF Record, State, True, Means
  <2> QED BY <1>3, <1>a, <1>b, <1>c, <1>d, <2>2, TrueUpdate, Drafting
          DEF RepairRead, Writing, At
<1>4. CASE UnpinRead(c)
  <2>1. CASE Leave(c)
    BY <1>4, <2>1, Ending DEF UnpinRead
  <2>2. CASE Become(c, [cli[c] EXCEPT !.pc = "unpin write",
                             !.doc = [store EXCEPT ![w] = None]])
    <3> DEFINE doc == [store EXCEPT ![w] = None]
    <3>1. doc \in Store /\ \A v \in Workspace : True(v, doc[v], issuer, accepted)
      BY <1>c, <1>d, NothingTrue, TrueUpdate
    <3>2. "unpin write" \in Writing /\ cli[c].got = None /\ UNCHANGED <<disk, env, hist>>
      BY <1>4, <1>b DEF UnpinRead, At, Writing
    <3>3. Become(c, [cli[c] EXCEPT !.pc = "unpin write", !.doc = doc])
      BY <2>2
    <3> HIDE DEF doc
    <3> QED BY <1>a, <3>1, <3>2, <3>3, Drafting
  <2> QED BY <1>4, <2>1, <2>2 DEF UnpinRead
<1>5. CASE ForgetRead(c)
  <2>1. CASE Move(c, "report")
    BY <1>5, <1>a, <1>b, <2>1, Moving DEF ForgetRead, At, Label, Writing, Challenged
  <2>2. CASE Become(c, [cli[c] EXCEPT !.pc = "forget write",
                             !.doc = [v \in Workspace |-> None]])
    <3> DEFINE doc == [v \in Workspace |-> None]
    <3>1. doc \in Store /\ \A v \in Workspace : True(v, doc[v], issuer, accepted)
      BY NothingTrue DEF Store
    <3>2. "forget write" \in Writing /\ cli[c].got = None /\ UNCHANGED <<disk, env, hist>>
      BY <1>5, <1>b DEF ForgetRead, At, Writing
    <3>3. Become(c, [cli[c] EXCEPT !.pc = "forget write", !.doc = doc])
      BY <2>2
    <3> HIDE DEF doc
    <3> QED BY <1>a, <3>1, <3>2, <3>3, Drafting
  <2> QED BY <1>5, <2>1, <2>2 DEF ForgetRead
<1> QED BY <1>1, <1>2, <1>3, <1>4, <1>5

LEMMA StoreSteps ==
  ASSUME LockInv, NEW c \in CLI, StoreStep(c)
  PROVE  LockInv'
<1>1. CASE GrantRead(c) \/ RevokeRead(c) \/ RepairRead(c) \/ UnpinRead(c) \/ ForgetRead(c)
  BY <1>1, StoreReads
<1>2. CASE Report(c) \/ StoreFails(c)
  BY <1>2, Ending DEF Report, StoreFails
<1>3. ASSUME UNCHANGED hist
      PROVE  FactorsOnlyToAccepted' /\ told' \in [Workspace -> SUBSET Identity]
  BY <1>3 DEF LockInv, TypeOK, FactorsOnlyToAccepted, hist
<1>4. CASE LastWrite(c)
  <2>1. Idle \in Cli
    BY DEF Idle, Cli, Label, Command
  <2>2. Sound(Idle, issuer, accepted)
    BY DEF Sound, Idle, Writing, Challenged
  <2>3. Become(c, Idle) /\ Publish(c) /\ cli[c].pc \in Writing
    BY <1>4 DEF LastWrite, Leave, Become, Writing
  <2> QED BY <1>3, <1>4, <2>1, <2>2, <2>3, Publishing DEF LastWrite, hist
<1>5. CASE ReportedWrite(c)
  <2> DEFINE r == [cli[c] EXCEPT !.pc = "report", !.doc = None]
  <2>1. cli[c] \in Cli /\ Sound(cli[c], issuer, accepted)
    BY HoldsSession
  <2>2. r \in Cli
    BY <2>1, ZenonT(40) DEF Cli, Label
  <2>3. Sound(r, issuer, accepted)
    BY <1>5, <2>1 DEF Sound, Cli, Writing, Challenged, ReportedWrite
  <2>4. cli[c].pc \in Writing
    BY <1>5 DEF ReportedWrite, Writing
  <2> QED BY <1>3, <1>5, <2>2, <2>3, <2>4, Publishing DEF ReportedWrite, hist
<1> QED BY <1>1, <1>2, <1>4, <1>5 DEF StoreStep

-----------------------------------------------------------------------------
(* Pairing, working transports, logout, and what happens around them.      *)

LEMMA PairSteps ==
  ASSUME LockInv, NEW c \in CLI, PairStep(c)
  PROVE  LockInv'
<1>0. cli[c] \in Cli
  BY HoldsSession
<1>a. /\ Sound(cli[c], issuer, accepted) /\ cli[c].ws \in Workspace
      /\ cli[c].got = None
  BY HoldsSession DEF PairStep, Probe, Compared, NotAccepted, At, Sound
<1>b. TypeOK /\ FactorsOnlyToAccepted
  BY DEF LockInv
<1>1. CASE Probe(c)
  <2> DEFINE r == [cli[c] EXCEPT !.pc = "accept", !.chal = guest[cli[c].ws]]
  <2>1. CASE Leave(c)
    BY <1>1, <2>1, Ending DEF Probe
  <2>2. CASE Become(c, r)
    <3>1. guest[cli[c].ws] \in State
      BY <1>a, <1>b DEF TypeOK
    <3>2. r \in Cli
      BY <1>0, <3>1, ZenonT(40) DEF Cli, Label
    <3>3. Sound(r, issuer, accepted)
      BY <1>1, <1>a, <1>0, <3>1 DEF Sound, Cli, Writing, Challenged, Probe, At
    <3> QED BY <1>1, <2>2, <3>2, <3>3, QuietStep DEF Probe
  <2> QED BY <1>1, <2>1, <2>2 DEF Probe
<1>2. CASE Compared(c)
  <2> DEFINE r == [cli[c] EXCEPT !.pc = "repair"]
  <2>1. cli[c].chal \in State /\ cli[c].chal.identity \in Identity
    BY <1>2, <1>a DEF Compared, At, Sound, Challenged, State
  <2>2. /\ accepted' \in Acceptances /\ <<cli[c].chal.identity, "compare">> \in accepted'[cli[c].ws]
        /\ \A v \in Workspace : accepted[v] \subseteq accepted'[v]
    BY <1>2, <1>a, <1>b, <2>1, Accepting DEF Compared, Means
  <2>3. r \in Cli
    BY <1>0, ZenonT(40) DEF Cli, Label
  <2>4. Sound(r, issuer, accepted')
    BY <1>2, <1>0, <1>a, <2>1, <2>2 DEF Sound, Cli, Writing, Challenged, Compared, At
  <2>5. FactorsOnlyToAccepted' /\ told' \in [Workspace -> SUBSET Identity]
    BY <1>2, <1>b, <2>2, ToldNobody DEF Compared
  <2> QED BY <1>2, <2>2, <2>3, <2>4, <2>5, HistoryStep DEF Compared, Move, Become
<1>3. CASE NotAccepted(c)
  BY <1>3, Ending DEF NotAccepted
<1> QED BY <1>1, <1>2, <1>3 DEF PairStep

LEMMA UseSteps ==
  ASSUME LockInv, NEW c \in CLI, UseStep(c)
  PROVE  LockInv'
<1>0. cli[c] \in Cli
  BY HoldsSession
<1>a. /\ Sound(cli[c], issuer, accepted) /\ cli[c].ws \in Workspace
      /\ cli[c].got = None
      /\ cli[c].pc \in {"watch", "watching", "challenged", "proving", "signed"}
  BY HoldsSession DEF UseStep, Watch, Challenge, Authority, Prove, EndUse, At, Sound
<1>b. TypeOK /\ StoreTrue
  BY DEF LockInv
<1>1. CASE Watch(c) \/ EndUse(c)
  <2>1. CASE Leave(c)
    BY <1>1, <2>1, Ending DEF Watch, EndUse
  <2>2. CASE Move(c, "watching")
    BY <1>1, <1>a, <2>2, Moving DEF Watch, EndUse, At, Label, Writing, Challenged
  <2> QED BY <1>1, <2>1, <2>2 DEF Watch, EndUse
<1>2. CASE Challenge(c)
  <2> DEFINE r == [cli[c] EXCEPT !.pc = "challenged", !.chal = guest[cli[c].ws], !.auth = None]
  <2>1. guest[cli[c].ws] \in State
    BY <1>a, <1>b DEF TypeOK
  <2>2. r \in Cli
    BY <1>0, <2>1, ZenonT(40) DEF Cli, Label
  <2>3. Sound(r, issuer, accepted)
    BY <1>0, <1>a, <2>1 DEF Sound, Cli, Writing, Challenged
  <2> QED BY <1>2, <2>2, <2>3, QuietStep DEF Challenge
<1>3. CASE Authority(c)
  <2> DEFINE w == cli[c].ws
             r == [cli[c] EXCEPT !.pc = "proving", !.auth = store[w].grant, !.pin = store[w].pin]
  <2>1. store[w] \in Record /\ store[w].grant \in Grant /\ True(w, store[w], issuer, accepted)
    BY <1>3, <1>a, <1>b DEF Authority, Holds, HoldsGrant, TypeOK, Store, StoreTrue, Record
  <2>2. Attributed(store[w].grant, w, store[w].pin, store[w].grant.epoch, issuer, accepted)
    BY <2>1, LockAssumption DEF Attributed, True, Record
  <2>3. store[w].pin \in Identity
    BY <2>1 DEF Record
  <2>4. r \in Cli
    BY <1>0, <2>1, <2>3, ZenonT(40) DEF Cli, Label
  <2>5. Sound(r, issuer, accepted)
    <3>1. /\ r.pc = "proving" /\ r.ws = w /\ r.auth = store[w].grant /\ r.pin = store[w].pin
          /\ r.got = None /\ r.chal = cli[c].chal
      BY <1>0, <1>a DEF Cli
    <3>2. cli[c].chal \in State
      BY <1>3, <1>a DEF Authority, At, Sound, Challenged
    <3> HIDE DEF r
    <3> QED BY <1>a, <2>1, <2>2, <3>1, <3>2 DEF Sound, Writing, Challenged
  <2> QED BY <1>3, <2>4, <2>5, QuietStep DEF Authority
<1>4. CASE Prove(c)
  <2> DEFINE r == [cli[c] EXCEPT !.pc = "signed", !.pin = None]
  <2>1. /\ cli[c].auth \in Grant /\ cli[c].chal \in State
        /\ Attributed(cli[c].auth, cli[c].ws, cli[c].chal.identity, cli[c].chal.epoch,
                      issuer, accepted)
    BY <1>4, <1>a DEF Prove, At, Sound, Challenged
  <2>2. r \in Cli
    BY <1>0, ZenonT(40) DEF Cli, Label
  <2>3. Sound(r, issuer, accepted)
    <3>1. /\ r.pc = "signed" /\ r.ws = cli[c].ws /\ r.auth = cli[c].auth
          /\ r.got = None /\ r.chal = cli[c].chal
      BY <1>0, <1>a DEF Cli
    <3> HIDE DEF r
    <3> QED BY <1>a, <2>1, <3>1 DEF Sound, Writing, Challenged
  <2> QED BY <1>4, <2>2, <2>3, QuietStep DEF Prove
<1> QED BY <1>1, <1>2, <1>3, <1>4 DEF UseStep

\* The stored token, the clock and the guests are no part of what is proved.
LEMMA OutsideSteps ==
  ASSUME LockInv, LogIn \/ TokenEnds \/ ClockMoves \/ \E w \in Workspace : GuestMovesOn(w)
  PROVE  LockInv'
<1>1. CASE LogIn \/ TokenEnds
  BY <1>1 DEF LogIn, TokenEnds, LockInv, TypeOK, StoreTrue, CliSound, FactorsOnlyToAccepted,
              env, hist
<1>2. CASE ClockMoves
  BY <1>2 DEF ClockMoves, LockInv, TypeOK, StoreTrue, CliSound, FactorsOnlyToAccepted,
              disk, hist
<1>3. ASSUME NEW w \in Workspace, GuestMovesOn(w) PROVE LockInv'
  <2>1. guest' \in [Workspace -> State]
    BY <1>3, LockAssumption DEF GuestMovesOn, LockInv, TypeOK, State, Epoch
  <2> QED BY <1>3, <2>1 DEF GuestMovesOn, LockInv, TypeOK, StoreTrue, CliSound,
                            FactorsOnlyToAccepted, disk, hist
<1> QED BY <1>1, <1>2, <1>3

LEMMA LogoutSteps ==
  ASSUME LockInv, NEW c \in CLI, LogoutStep(c) \/ Crash(c)
  PROVE  LockInv'
<1>1. CASE LogoutFails(c) \/ Crash(c)
  BY <1>1, Ending DEF LogoutFails, Crash
<1>2. ASSUME NEW p \in {"delete", "forget"}, Move(c, p), login' \in {"none", "dead"},
             cli[c].pc \in {"token", "delete"}, UNCHANGED <<store, env, hist>>
      PROVE  LockInv'
  <2> DEFINE r == [cli[c] EXCEPT !.pc = p]
  <2>1. cli[c] \in Cli /\ Sound(cli[c], issuer, accepted)
    BY HoldsSession
  <2>2. r \in Cli
    BY <2>1, ZenonT(40) DEF Cli, Label
  <2>3. Sound(r, issuer, accepted)
    BY <1>2, <2>1 DEF Sound, Cli, Writing, Challenged
  <2>4. /\ issuer' \in Issuers /\ accepted' \in Acceptances /\ Sound(r, issuer', accepted')
        /\ Grows(issuer, issuer', accepted, accepted')
    BY <1>2, <2>3 DEF LockInv, TypeOK, Issuers, Acceptances, Grows, env, hist
  <2>5. cli' \in [CLI -> Cli] /\ CliSound'
    BY <1>2, <2>2, <2>4, OneTerminal DEF Move, Become
  <2> QED BY <1>2, <2>5 DEF LockInv, TypeOK, StoreTrue, FactorsOnlyToAccepted, env, hist
<1> QED BY <1>1, <1>2 DEF LogoutStep, TokenRevoked, CredentialDeleted, At

-----------------------------------------------------------------------------
(* The theorems.                                                           *)

\* The invariant that holds with any number of terminals.
THEOREM LockInvariant == Spec => []LockInv
<1>1. Init => LockInv
  <2> SUFFICES ASSUME Init PROVE LockInv
    OBVIOUS
  <2>1. Idle \in Cli
    BY DEF Idle, Cli, Label, Command
  <2>2. Sound(Idle, issuer, accepted)
    BY DEF Sound, Idle, Writing, Challenged
  <2>3. guest \in [Workspace -> State]
    BY LockAssumption DEF Init, State, Epoch
  <2>4. TypeOK
    BY <2>1, <2>3, LockAssumption DEF Init, TypeOK, Store, Time
  <2> QED BY <2>2, <2>4
          DEF Init, LockInv, StoreTrue, True, CliSound, FactorsOnlyToAccepted
<1>2. LockInv /\ [Next]_vars => LockInv'
  <2> SUFFICES ASSUME LockInv, [Next]_vars PROVE LockInv'
    OBVIOUS
  <2>1. CASE UNCHANGED vars
    BY <2>1 DEF vars, disk, env, hist, LockInv, TypeOK, StoreTrue, CliSound,
                FactorsOnlyToAccepted
  <2>2. ASSUME NEW c \in CLI,
               OpenStep(c) \/ ExchangeStep(c) \/ GuestStep(c) \/ StoreStep(c)
        PROVE  LockInv'
    BY <2>2, OpenSteps, ExchangeSteps, GuestSteps, StoreSteps
  <2>3. ASSUME NEW c \in CLI, PairStep(c) \/ UseStep(c) \/ LogoutStep(c) \/ Crash(c)
        PROVE  LockInv'
    BY <2>3, PairSteps, UseSteps, LogoutSteps
  <2> QED BY <2>1, <2>2, <2>3, OutsideSteps DEF Next
<1> QED BY <1>1, <1>2, PTL DEF Spec

\* The store, the processes and the guests keep their types through every
\* command and every failure, for any number of workspaces and terminals.
THEOREM LockTypeCorrect == Spec => []TypeOK
<1>1. LockInv => TypeOK
  BY DEF LockInv
<1> QED BY <1>1, LockInvariant, PTL

\* Every stored grant is a session issued by the guest under the record's pin,
\* in the epoch the grant names, for any number of terminals that read, decide
\* and rename the document over each other (Grant, Pin, Repair, Revoke, Prune).
THEOREM GrantGenuineCorrect == Spec => []GrantGenuine
<1>1. LockInv => GrantGenuine
  BY DEF LockInv, StoreTrue, True, GrantGenuine, Genuine
<1> QED BY <1>1, LockInvariant, PTL

\* The confirmation a record shows is how the user accepted its identity
\* (LockPinConfirmation), whatever terminals write over each other.
THEOREM HonestPinCorrect == Spec => []HonestPin
<1>1. LockInv => HonestPin
  BY DEF LockInv, StoreTrue, True, HonestPin
<1> QED BY <1>1, LockInvariant, PTL

\* No PIN and no phrase is ever sealed to an identity the user did not accept
\* (verifyChallenge and bootstrapPin before SealLockRequest).
THEOREM FactorsOnlyToAcceptedCorrect == Spec => []FactorsOnlyToAccepted
<1>1. LockInv => FactorsOnlyToAccepted
  BY DEF LockInv
<1> QED BY <1>1, LockInvariant, PTL

\* Whatever other terminals write between a challenge, the reading of the grant
\* and the signature, the proof of a working transport names a session that the
\* challenging guest issued in the state it signed (lockResponder, Prove).
THEOREM ProofsAreWelcomeCorrect == Spec => []ProofsAreWelcome
<1>1. LockInv => ProofsAreWelcome
  BY DEF LockInv, CliSound, Sound, Attributed, ProofsAreWelcome, At
<1> QED BY <1>1, LockInvariant, PTL

-----------------------------------------------------------------------------
(* A command that runs alone: what a stale document of another could undo.  *)

\* A step of a command that runs.
CommandStep(c) ==
  \/ PruneRead(c) \/ PruneWrite(c) \/ Begin(c) \/ BeginFails(c)
  \/ ExchangeStep(c) \/ GuestStep(c) \/ StoreStep(c)
  \/ PairStep(c) \/ UseStep(c) \/ LogoutStep(c) \/ Crash(c)

\* The command's terminal moves, no other one does, and a command that did not
\* run alone so far does not begin to.
Alone(c) ==
  /\ ~At(c, "idle")
  /\ \A d \in CLI \ {c} : cli'[d] = cli[d]
  /\ cli'[c].alone => cli[c].alone

LEMMA OneMoves ==
  ASSUME TypeOK, NEW c \in CLI, CommandStep(c)
  PROVE  Alone(c)
<1>0. cli \in [CLI -> Cli] /\ cli[c] \in Cli
  BY DEF TypeOK
<1>a. ASSUME ~At(c, "idle"), Leave(c) PROVE Alone(c)
  BY <1>0, <1>a DEF Leave, Idle, Alone
<1>b. ASSUME ~At(c, "idle"), NEW p, Move(c, p) PROVE Alone(c)
  BY <1>0, <1>b DEF Move, Alone, Cli
<1>c. ASSUME ~At(c, "idle"), NEW p, NEW doc, Become(c, [cli[c] EXCEPT !.pc = p, !.doc = doc])
      PROVE  Alone(c)
  BY <1>0, <1>c DEF Become, Alone, Cli
<1>1. CASE PruneRead(c) \/ PruneWrite(c) \/ Begin(c) \/ BeginFails(c)
  <2>1. CASE PruneRead(c)
    <3>1. ~At(c, "idle")
      BY <2>1 DEF PruneRead, At
    <3> QED BY <1>a, <1>b, <1>c, <2>1, <3>1, Zenon DEF PruneRead
  <2>2. CASE PruneWrite(c)
    BY <1>0, <1>a, <2>2 DEF PruneWrite, Become, Move, Alone, Cli, At
  <2>3. CASE Begin(c)
    BY <1>0, <1>a, <2>3 DEF Begin, Become, Move, Alone, Cli, At
  <2>4. CASE BeginFails(c)
    BY <1>0, <1>a, <2>4 DEF BeginFails, Become, Move, Alone, Cli, At
  <2> QED BY <1>1, <2>1, <2>2, <2>3, <2>4
<1>2. CASE ExchangeStep(c)
  <2>1. CASE Seal(c)
    BY <1>0, <1>a, <2>1 DEF Seal, Become, Move, Alone, Cli, At
  <2>2. CASE Bootstrap(c)
    BY <1>0, <1>a, <2>2 DEF Bootstrap, Become, Move, Alone, Cli, At
  <2>3. CASE PinRead(c)
    <3>1. ~At(c, "idle")
      BY <2>3 DEF PinRead, At
    <3> QED BY <1>a, <1>b, <1>c, <2>3, <3>1, Zenon DEF PinRead
  <2>4. CASE PinWrite(c)
    BY <1>0, <1>a, <2>4 DEF PinWrite, Become, Move, Alone, Cli, At
  <2>5. CASE ExchangeFails(c)
    BY <1>0, <1>a, <2>5 DEF ExchangeFails, Become, Move, Alone, Cli, At
  <2>6. CASE NotAdmitted(c)
    BY <1>0, <1>a, <2>6 DEF NotAdmitted, Become, Move, Alone, Cli, At
  <2>7. CASE Unlocked(c)
    BY <1>0, <1>a, <2>7 DEF Unlocked, Become, Move, Alone, Cli, At
  <2>8. CASE PhraseSaved(c)
    BY <1>0, <1>a, <2>8 DEF PhraseSaved, Become, Move, Alone, Cli, At
  <2>9. CASE Answered(c)
    BY <1>0, <1>a, <2>9 DEF Answered, Become, Move, Alone, Cli, At
  <2>10. CASE AnswerRead(c)
    BY <1>0, <1>a, <2>10 DEF AnswerRead, Become, Move, Alone, Cli, At
  <2> QED BY <1>2, <2>1, <2>2, <2>3, <2>4, <2>5, <2>6, <2>7, <2>8, <2>9, <2>10 DEF ExchangeStep
<1>3. CASE GuestStep(c)
  <2>1. CASE GuestUnlocks(c)
    BY <1>0, <1>a, <2>1 DEF GuestUnlocks, GuestHears, Become, Move, Alone, Cli, At
  <2>2. CASE GuestLocks(c)
    BY <1>0, <1>a, <2>2 DEF GuestLocks, GuestHears, Become, Move, Alone, Cli, At
  <2>3. CASE GuestAgrees(c)
    BY <1>0, <1>a, <2>3 DEF GuestAgrees, GuestHears, Become, Move, Alone, Cli, At
  <2>4. CASE GuestRefuses(c)
    BY <1>0, <1>a, <2>4 DEF GuestRefuses, GuestHears, Become, Move, Alone, Cli, At
  <2> QED BY <1>3, <2>1, <2>2, <2>3, <2>4 DEF GuestStep
<1>4. CASE StoreStep(c)
  <2>1. CASE GrantRead(c)
    <3>1. ~At(c, "idle")
      BY <2>1 DEF GrantRead, At
    <3> QED BY <1>a, <1>b, <1>c, <2>1, <3>1, Zenon DEF GrantRead
  <2>2. CASE RevokeRead(c)
    <3>1. ~At(c, "idle")
      BY <2>2 DEF RevokeRead, At
    <3> QED BY <1>a, <1>b, <1>c, <2>2, <3>1, Zenon DEF RevokeRead
  <2>3. CASE RepairRead(c)
    BY <1>0, <1>a, <2>3 DEF RepairRead, Become, Move, Alone, Cli, At
  <2>4. CASE UnpinRead(c)
    <3>1. ~At(c, "idle")
      BY <2>4 DEF UnpinRead, At
    <3> QED BY <1>a, <1>c, <2>4, <3>1, Zenon DEF UnpinRead
  <2>5. CASE ForgetRead(c)
    <3>1. ~At(c, "idle")
      BY <2>5 DEF ForgetRead, At
    <3> QED BY <1>a, <1>b, <1>c, <2>5, <3>1, Zenon DEF ForgetRead
  <2>6. CASE LastWrite(c)
    BY <1>0, <1>a, <2>6 DEF LastWrite, Become, Move, Alone, Cli, At
  <2>7. CASE ReportedWrite(c)
    BY <1>0, <1>a, <2>7 DEF ReportedWrite, Become, Move, Alone, Cli, At
  <2>8. CASE Report(c)
    BY <1>0, <1>a, <2>8 DEF Report, Become, Move, Alone, Cli, At
  <2>9. CASE StoreFails(c)
    BY <1>0, <1>a, <2>9 DEF StoreFails, Become, Move, Alone, Cli, At
  <2> QED BY <1>4, <2>1, <2>2, <2>3, <2>4, <2>5, <2>6, <2>7, <2>8, <2>9 DEF StoreStep
<1>5. CASE PairStep(c)
  <2>1. CASE Probe(c)
    BY <1>0, <1>a, <2>1 DEF Probe, Become, Move, Alone, Cli, At
  <2>2. CASE Compared(c)
    BY <1>0, <1>a, <2>2 DEF Compared, Become, Move, Alone, Cli, At
  <2>3. CASE NotAccepted(c)
    BY <1>0, <1>a, <2>3 DEF NotAccepted, Become, Move, Alone, Cli, At
  <2> QED BY <1>5, <2>1, <2>2, <2>3 DEF PairStep
<1>6. CASE UseStep(c)
  <2>1. CASE Watch(c)
    BY <1>0, <1>a, <2>1 DEF Watch, Become, Move, Alone, Cli, At
  <2>2. CASE Challenge(c)
    BY <1>0, <1>a, <2>2 DEF Challenge, Become, Move, Alone, Cli, At
  <2>3. CASE Authority(c)
    BY <1>0, <1>a, <2>3 DEF Authority, Become, Move, Alone, Cli, At
  <2>4. CASE Prove(c)
    BY <1>0, <1>a, <2>4 DEF Prove, Become, Move, Alone, Cli, At
  <2>5. CASE EndUse(c)
    BY <1>0, <1>a, <2>5 DEF EndUse, Become, Move, Alone, Cli, At
  <2> QED BY <1>6, <2>1, <2>2, <2>3, <2>4, <2>5 DEF UseStep
<1>7. CASE LogoutStep(c) \/ Crash(c)
  <2>1. CASE LogoutFails(c)
    BY <1>0, <1>a, <2>1 DEF LogoutFails, Become, Move, Alone, Cli, At
  <2>2. CASE TokenRevoked(c)
    BY <1>0, <1>a, <2>2 DEF TokenRevoked, Become, Move, Alone, Cli, At
  <2>3. CASE CredentialDeleted(c)
    BY <1>0, <1>a, <2>3 DEF CredentialDeleted, Become, Move, Alone, Cli, At
  <2>4. CASE Crash(c)
    BY <1>0, <1>a, <2>4 DEF Crash, Become, Move, Alone, Cli, At
  <2> QED BY <1>7, <2>1, <2>2, <2>3, <2>4 DEF LogoutStep
<1> QED BY <1>1, <1>2, <1>3, <1>4, <1>5, <1>6, <1>7 DEF CommandStep

\* The document replaces a pin only by one that was compared, and has given up
\* what the command gives up.
Current(r, st, acc) ==
  /\ r.pc \in Writing =>
       \A w \in Workspace :
         st[w] # None /\ r.doc[w] # None /\ r.doc[w].pin # st[w].pin =>
           r.doc[w].by = "compare" /\ <<r.doc[w].pin, "compare">> \in acc[w]
  /\ r.pc = "revoke write" => r.doc[r.ws] = None \/ r.doc[r.ws].grant = None
  /\ r.pc = "forget write" => \A w \in Workspace : r.doc[w] = None
  /\ r.cmd = "logout" => r.pc \in {"token", "delete", "forget", "forget write", "report"}
  /\ r.pc = "report" /\ r.cmd = "lock" => st[r.ws] = None \/ st[r.ws].grant = None
  /\ r.pc = "report" /\ r.cmd = "logout" => \A w \in Workspace : st[w] = None

AloneInv ==
  \A c \in CLI : cli[c].alone =>
    /\ \A d \in CLI \ {c} : At(d, "idle")
    /\ Current(cli[c], store, accepted)

LEMMA NothingWritten ==
  ASSUME NEW r, NEW st, NEW acc, r.pc \notin Writing \cup {"report"},
         r.cmd = "logout" => r.pc \in {"token", "delete", "forget"}
  PROVE  Current(r, st, acc)
BY DEF Current, Writing

LEMMA QuietIsCurrent ==
  ASSUME LockInv, NEW c \in CLI, Current(cli[c], store, accepted),
         \/ PruneRead(c) \/ PruneWrite(c) \/ Begin(c) \/ BeginFails(c)
         \/ ExchangeStep(c) \/ GuestStep(c) \/ PairStep(c) \/ UseStep(c)
  PROVE  Current(cli'[c], store', accepted')
<1>0. cli \in [CLI -> Cli] /\ Current(cli[c], store, accepted)
  BY DEF LockInv, TypeOK
<1>a. cli[c].cmd # "logout"
  BY <1>0 DEF Current, PruneRead, PruneWrite, Begin, BeginFails, ExchangeStep,
     Seal, Bootstrap, PinRead, PinWrite, ExchangeFails, NotAdmitted, Unlocked, PhraseSaved,
     Answered, AnswerRead, GuestStep, GuestUnlocks, GuestLocks, GuestAgrees, GuestRefuses,
     GuestHears, PairStep, Probe, Compared, NotAccepted, UseStep, Watch, Challenge,
     Authority, Prove, EndUse, At
<1>1. CASE Leave(c)
  BY <1>0, <1>1, NothingWritten DEF Leave, Idle, Writing
<1>3. CASE PruneRead(c)
  <2> DEFINE doc == [w \in Workspace |-> IF Holds(w) THEN store[w] ELSE Drop(store[w])]
  <2>1. CASE Move(c, "begin")
    <3>1. cli'[c].pc = "begin" /\ cli'[c].cmd # "logout"
      BY <1>0, <1>3, <1>a, <2>1 DEF PruneRead, At, Move, Cli
    <3> QED BY <3>1, NothingWritten DEF Writing
  <2>2. CASE Become(c, [cli[c] EXCEPT !.pc = "prune write", !.doc = doc])
    <3>1. ASSUME NEW w \in Workspace, store[w] # None PROVE doc[w].pin = store[w].pin
      <4>1. store[w] \in Record
        BY <3>1 DEF LockInv, TypeOK, Store
      <4> QED BY <3>1, <4>1 DEF Drop, Record
    <3>2. /\ cli'[c].pc = "prune write" /\ cli'[c].doc = doc /\ cli'[c].cmd # "logout"
          /\ store' = store
      BY <1>0, <1>3, <1>a, <2>2 DEF PruneRead, At, Become, Cli, disk
    <3> HIDE DEF doc
    <3> QED BY <3>1, <3>2 DEF Current
  <2> QED BY <1>3, <2>1, <2>2 DEF PruneRead
<1>4. CASE PruneWrite(c) \/ Begin(c) \/ BeginFails(c)
  <2>1. CASE PruneWrite(c)
    BY <1>0, <1>1, <1>a, <2>1, NothingWritten, ZenonT(40)
       DEF PruneWrite, At, Become, Cli, Writing
  <2>2. CASE Begin(c)
    <3>1. Move(c, "unpin") \/ Move(c, "ticket") \/ Move(c, "revoke") \/ Leave(c)
      BY <2>2, Zenon DEF Begin
    <3>2. ASSUME NEW p \in {"unpin", "ticket", "revoke"}, Move(c, p)
          PROVE  Current(cli'[c], store', accepted')
      <4>1. cli'[c].pc = p /\ cli'[c].cmd = cli[c].cmd
        BY <1>0, <3>2 DEF Move, Cli
      <4> QED BY <1>a, <3>2, <4>1, NothingWritten DEF Writing
    <3> QED BY <1>1, <3>1, <3>2
  <2>3. CASE BeginFails(c)
    BY <1>0, <1>1, <1>a, <2>3, NothingWritten
       DEF BeginFails, At, Become, Cli, Writing
  <2> QED BY <1>4, <2>1, <2>2, <2>3
<1>5. CASE PinRead(c)
  <2> DEFINE w == cli[c].ws
             doc == [store EXCEPT ![w] = [pin |-> cli[c].chal.identity, by |-> "trust",
                                          grant |-> None]]
  <2>1. CASE Move(c, "answer")
    <3>1. cli'[c].pc = "answer" /\ cli'[c].cmd # "logout"
      BY <1>0, <1>5, <1>a, <2>1 DEF PinRead, At, Move, Cli
    <3> QED BY <3>1, NothingWritten DEF Writing
  <2>2. CASE store[w] = None /\ Become(c, [cli[c] EXCEPT !.pc = "pin write", !.doc = doc])
    <3>1. \A v \in Workspace : store[v] # None => doc[v] = store[v]
      BY <2>2 DEF LockInv, TypeOK, Store
    <3>2. /\ cli'[c].pc = "pin write" /\ cli'[c].doc = doc /\ cli'[c].cmd # "logout"
          /\ store' = store
      BY <1>0, <1>5, <1>a, <2>2 DEF PinRead, At, Become, Cli, disk
    <3> HIDE DEF doc
    <3> QED BY <3>1, <3>2 DEF Current
  <2> QED BY <1>1, <1>5, <2>1, <2>2, Zenon DEF PinRead
<1>6. CASE \/ Seal(c) \/ Bootstrap(c) \/ PinWrite(c) \/ ExchangeFails(c) \/ NotAdmitted(c)
           \/ Unlocked(c) \/ PhraseSaved(c) \/ Answered(c) \/ AnswerRead(c)
  <2>1. CASE Seal(c)
    BY <1>0, <1>1, <1>a, <2>1, NothingWritten
       DEF Seal, At, Become, Cli, Writing
  <2>2. CASE Bootstrap(c)
    <3>1. cli'[c].pc = "pin" /\ cli'[c].cmd = cli[c].cmd
      BY <1>0, <2>2 DEF Bootstrap, Become, Cli
    <3> QED BY <1>a, <3>1, NothingWritten DEF Writing
  <2>3. CASE PinWrite(c)
    BY <1>0, <1>1, <1>a, <2>3, NothingWritten
       DEF PinWrite, At, Become, Cli, Writing
  <2>4. CASE ExchangeFails(c)
    BY <1>0, <1>1, <1>a, <2>4, NothingWritten
       DEF ExchangeFails, Move, At, Become, Cli, Writing
  <2>5. CASE NotAdmitted(c)
    BY <1>0, <1>1, <1>a, <2>5, NothingWritten
       DEF NotAdmitted, At, Become, Cli, Writing
  <2>6. CASE Unlocked(c)
    BY <1>0, <1>1, <1>a, <2>6, NothingWritten
       DEF Unlocked, Move, At, Become, Cli, Writing
  <2>7. CASE PhraseSaved(c)
    BY <1>0, <1>1, <1>a, <2>7, NothingWritten
       DEF PhraseSaved, At, Become, Cli, Writing
  <2>8. CASE Answered(c)
    BY <1>0, <1>1, <1>a, <2>8, NothingWritten, ZenonT(40)
       DEF Answered, At, Become, Cli, Writing
  <2>9. CASE AnswerRead(c)
    BY <1>0, <1>1, <1>a, <2>9, NothingWritten
       DEF AnswerRead, At, Become, Cli, Writing
  <2> QED BY <1>6, <2>1, <2>2, <2>3, <2>4, <2>5, <2>6, <2>7, <2>8, <2>9
<1>7. CASE GuestStep(c)
  <2>1. CASE GuestUnlocks(c)
    BY <1>0, <1>1, <1>a, <2>1, NothingWritten, ZenonT(40)
       DEF GuestUnlocks, GuestHears, At, Become, Cli, Writing
  <2>2. CASE GuestLocks(c)
    BY <1>0, <1>1, <1>a, <2>2, NothingWritten
       DEF GuestLocks, GuestHears, At, Become, Cli, Writing
  <2>3. CASE GuestAgrees(c)
    BY <1>0, <1>1, <1>a, <2>3, NothingWritten
       DEF GuestAgrees, GuestHears, At, Become, Cli, Writing
  <2>4. CASE GuestRefuses(c)
    BY <1>0, <1>1, <1>a, <2>4, NothingWritten
       DEF GuestRefuses, GuestHears, At, Become, Cli, Writing
  <2> QED BY <1>7, <2>1, <2>2, <2>3, <2>4 DEF GuestStep
<1>8. CASE PairStep(c) \/ UseStep(c)
  <2>1. CASE Probe(c)
    BY <1>0, <1>1, <1>a, <2>1, NothingWritten, ZenonT(40)
       DEF Probe, At, Become, Cli, Writing
  <2>2. CASE Compared(c)
    BY <1>0, <1>1, <1>a, <2>2, NothingWritten
       DEF Compared, Move, At, Become, Cli, Writing
  <2>3. CASE NotAccepted(c)
    BY <1>0, <1>1, <1>a, <2>3, NothingWritten
       DEF NotAccepted, At, Become, Cli, Writing
  <2>4. CASE Watch(c)
    BY <1>0, <1>1, <1>a, <2>4, NothingWritten
       DEF Watch, At, Move, Cli, Writing
  <2>5. CASE Challenge(c) \/ Authority(c) \/ Prove(c)
    <3>1. cli'[c].pc \in {"challenged", "proving", "signed"} /\ cli'[c].cmd = cli[c].cmd
      <4>1. CASE Challenge(c)
        BY <1>0, <4>1 DEF Challenge, Become, Cli
      <4>2. CASE Authority(c)
        BY <1>0, <4>2 DEF Authority, Become, Cli
      <4>3. CASE Prove(c)
        BY <1>0, <4>3 DEF Prove, Become, Cli
      <4> QED BY <2>5, <4>1, <4>2, <4>3
    <3> QED BY <1>a, <3>1, NothingWritten DEF Writing
  <2>6. CASE EndUse(c)
    BY <1>0, <1>1, <1>a, <2>6, NothingWritten
       DEF EndUse, At, Become, Cli, Writing
  <2> QED BY <1>8, <2>1, <2>2, <2>3, <2>4, <2>5, <2>6 DEF PairStep, UseStep
<1> QED BY <1>3, <1>4, <1>5, <1>6, <1>7, <1>8 DEF ExchangeStep

LEMMA StoreIsCurrent ==
  ASSUME LockInv, NEW c \in CLI, Current(cli[c], store, accepted), StoreStep(c)
  PROVE  Current(cli'[c], store', accepted')
<1>0. cli \in [CLI -> Cli] /\ Current(cli[c], store, accepted)
  BY DEF LockInv, TypeOK
<1>a. store \in Store /\ cli[c] \in Cli /\ Sound(cli[c], issuer, accepted)
  BY DEF LockInv, TypeOK, CliSound
<1> DEFINE w == cli[c].ws
<1>1. CASE Leave(c)
  BY <1>0, <1>1, NothingWritten DEF Leave, Idle, Writing
<1>2. CASE GrantRead(c) /\ ~Leave(c)
  <2> DEFINE g == [session |-> cli[c].got.session, epoch |-> cli[c].chal.epoch,
                   issued |-> now, expires |-> cli[c].got.expires]
             doc == [store EXCEPT ![w].grant = g]
  <2>1. store[w] # None /\ store[w].pin = cli[c].chal.identity
        /\ Become(c, [cli[c] EXCEPT !.pc = "grant write", !.doc = doc])
    BY <1>2 DEF GrantRead
  <2>2. ASSUME NEW v \in Workspace, store[v] # None PROVE doc[v].pin = store[v].pin
    <3>1. store[v] \in Record
      BY <1>a, <2>2 DEF Store
    <3> QED BY <1>a, <3>1 DEF Store, Record
  <2>3. /\ cli'[c].pc = "grant write" /\ cli'[c].doc = doc /\ cli'[c].cmd # "logout"
        /\ store' = store
    BY <1>0, <1>a, <1>2, <2>1 DEF GrantRead, At, Become, Cli, Current, disk
  <2> HIDE DEF doc
  <2> QED BY <2>2, <2>3 DEF Current
<1>3. CASE RevokeRead(c)
  <2> DEFINE doc == [store EXCEPT ![w].grant = None]
  <2>1. CASE HoldsGrant(w) /\ Become(c, [cli[c] EXCEPT !.pc = "revoke write", !.doc = doc])
    <3>1. ASSUME NEW v \in Workspace, store[v] # None
          PROVE  doc[v].pin = store[v].pin /\ (v = w => doc[v].grant = None)
      <4>1. store[v] \in Record
        BY <1>a, <3>1 DEF Store
      <4> QED BY <1>a, <4>1 DEF Store, Record
    <3>2. w \in Workspace /\ store[w] # None
      BY <1>3, <1>a, <2>1 DEF RevokeRead, At, Sound, HoldsGrant
    <3>3. /\ cli'[c].pc = "revoke write" /\ cli'[c].doc = doc /\ cli'[c].cmd # "logout"
          /\ cli'[c].ws = w /\ store' = store
      BY <1>0, <1>a, <1>3, <2>1 DEF RevokeRead, At, Become, Cli, Current, disk
    <3> HIDE DEF doc
    <3> QED BY <3>1, <3>2, <3>3 DEF Current
  <2>2. CASE ~HoldsGrant(w) /\ Move(c, "report")
    <3>1. /\ cli'[c].pc = "report" /\ cli'[c].cmd # "logout" /\ cli'[c].ws = w
          /\ store' = store
      BY <1>0, <1>a, <1>3, <2>2 DEF RevokeRead, At, Move, Cli, Current, disk
    <3> QED BY <2>2, <3>1 DEF Current, Writing, HoldsGrant
  <2> QED BY <1>3, <2>1, <2>2 DEF RevokeRead
<1>4. CASE RepairRead(c)
  <2> DEFINE x == [pin |-> cli[c].chal.identity, by |-> "compare", grant |-> None]
             doc == [store EXCEPT ![w] = x]
  <2>1. <<cli[c].chal.identity, "compare">> \in accepted[w] /\ w \in Workspace
    BY <1>4, <1>a DEF RepairRead, At, Sound
  <2>2. \A v \in Workspace : doc[v] = IF v = w THEN x ELSE store[v]
    BY <1>a DEF Store
  <2>3. /\ cli'[c].pc = "repair write" /\ cli'[c].doc = doc /\ cli'[c].cmd # "logout"
        /\ store' = store /\ accepted' = accepted
    BY <1>0, <1>a, <1>4 DEF RepairRead, At, Become, Cli, Current, disk, hist
  <2>4. \A v \in Workspace :
          \/ doc[v] = store[v]
          \/ doc[v].by = "compare" /\ <<doc[v].pin, "compare">> \in accepted[v]
    BY <2>1, <2>2
  <2> HIDE DEF doc, x
  <2> QED BY <2>3, <2>4 DEF Current
<1>5. CASE UnpinRead(c) /\ ~Leave(c)
  <2> DEFINE doc == [store EXCEPT ![w] = None]
  <2>1. \A v \in Workspace : doc[v] = IF v = w THEN None ELSE store[v]
    BY <1>a DEF Store
  <2>2. Become(c, [cli[c] EXCEPT !.pc = "unpin write", !.doc = doc])
    BY <1>5 DEF UnpinRead
  <2>3. /\ cli'[c].pc = "unpin write" /\ cli'[c].doc = doc /\ cli'[c].cmd # "logout"
        /\ store' = store
    BY <1>0, <1>a, <1>5, <2>2 DEF UnpinRead, At, Become, Cli, Current, disk
  <2> HIDE DEF doc
  <2> QED BY <2>1, <2>3 DEF Current
<1>6. CASE ForgetRead(c)
  <2> DEFINE doc == [v \in Workspace |-> None]
  <2>1. CASE Become(c, [cli[c] EXCEPT !.pc = "forget write", !.doc = doc])
    <3>1. cli'[c].pc = "forget write" /\ cli'[c].doc = doc
      BY <1>0, <1>a, <2>1 DEF Become, Cli
    <3>2. \A v \in Workspace : doc[v] = None
      OBVIOUS
    <3> HIDE DEF doc
    <3> QED BY <3>1, <3>2 DEF Current
  <2>2. CASE (\A v \in Workspace : store[v] = None) /\ Move(c, "report")
    <3>1. cli'[c].pc = "report" /\ store' = store /\ cli'[c].ws \in Workspace
      BY <1>0, <1>a, <1>6, <2>2 DEF ForgetRead, At, Move, Cli, Sound, disk
    <3> QED BY <2>2, <3>1 DEF Current, Writing
  <2> QED BY <1>6, <2>1, <2>2 DEF ForgetRead
<1>7. CASE ReportedWrite(c)
  <2>1. /\ cli'[c].pc = "report" /\ cli'[c].cmd = cli[c].cmd /\ cli'[c].ws = w
        /\ store' = cli[c].doc /\ w \in Workspace
    BY <1>0, <1>a, <1>7 DEF ReportedWrite, Publish, Become, Cli, Sound
  <2> QED BY <1>0, <1>7, <2>1 DEF Current, Writing, ReportedWrite
<1> QED BY <1>1, <1>2, <1>3, <1>4, <1>5, <1>6, <1>7
        DEF StoreStep, LastWrite, Report, StoreFails

LEMMA LogoutIsCurrent ==
  ASSUME LockInv, NEW c \in CLI, LogoutStep(c) \/ Crash(c)
  PROVE  Current(cli'[c], store', accepted')
<1>0. cli \in [CLI -> Cli]
  BY DEF LockInv, TypeOK
<1>1. \/ cli'[c] = Idle
      \/ cli'[c].pc \in {"delete", "forget"}
  BY <1>0 DEF LogoutStep, LogoutFails, TokenRevoked, CredentialDeleted, Crash, Leave, Move, Cli
<1> QED BY <1>1, NothingWritten DEF Idle, Writing

\* What holds of a command that runs alone, besides LockInv.
THEOREM AloneInvariant == Spec => [](LockInv /\ AloneInv)
<1>1. Init => AloneInv
  BY DEF Init, AloneInv, Idle
<1>2. LockInv /\ AloneInv /\ [Next]_vars => AloneInv'
  <2> SUFFICES ASSUME LockInv, AloneInv, [Next]_vars, NEW c \in CLI, cli'[c].alone
               PROVE  /\ \A d \in CLI \ {c} : At(d, "idle")'
                      /\ Current(cli'[c], store', accepted')
    BY DEF AloneInv
  <2>0. TypeOK
    BY DEF LockInv
  <2>1. CASE CommandStep(c)
    <3>1. /\ cli[c].alone /\ \A d \in CLI \ {c} : cli'[d] = cli[d]
      BY <2>0, <2>1, OneMoves DEF Alone
    <3>2. Current(cli[c], store, accepted) /\ \A d \in CLI \ {c} : At(d, "idle")
      BY <3>1 DEF AloneInv
    <3>3. Current(cli'[c], store', accepted')
      BY <2>1, <3>2, QuietIsCurrent, StoreIsCurrent, LogoutIsCurrent DEF CommandStep
    <3> QED BY <3>1, <3>2, <3>3 DEF At
  <2>2. ASSUME NEW d \in CLI \ {c}, CommandStep(d) PROVE FALSE
    <3>1. cli'[c] = cli[c] /\ ~At(d, "idle")
      BY <2>0, <2>2, OneMoves DEF Alone
    <3> QED BY <3>1 DEF AloneInv
  <2>3. ASSUME NEW d \in CLI \ {c}, Enter(d) PROVE FALSE
    <3>1. cli'[c] = [cli[c] EXCEPT !.alone = FALSE] /\ cli[c] \in Cli
      BY <2>0, <2>3 DEF Enter, Join, TypeOK
    <3> QED BY <3>1 DEF Cli
  <2>4. CASE Enter(c)
    <3>1. PICK k \in Command, w \in Workspace, q \in {"token", "watch", "prune"}, a \in BOOLEAN :
            /\ Join(c, [Idle EXCEPT !.cmd = k, !.ws = w, !.pc = q, !.alone = a])
            /\ k = "logout" => q = "token"
            /\ a => \A d \in CLI \ {c} : At(d, "idle")
      BY <2>4, LockAssumption DEF Enter
    <3>2. cli'[c] = [Idle EXCEPT !.cmd = k, !.ws = w, !.pc = q, !.alone = a]
      BY <3>1 DEF Join
    <3>3. cli'[c].cmd = k /\ cli'[c].pc = q /\ cli'[c].alone = a
      BY <3>2 DEF Idle
    <3>4. Current(cli'[c], store', accepted')
      BY <3>1, <3>3, NothingWritten DEF Writing
    <3>5. ASSUME NEW d \in CLI \ {c} PROVE cli'[d].pc = "idle"
      <4>1. cli'[d] = [cli[d] EXCEPT !.alone = FALSE] /\ cli[d] \in Cli
        BY <2>0, <3>1 DEF Join, TypeOK
      <4>2. cli[d].pc = "idle"
        BY <3>1, <3>3 DEF At
      <4> QED BY <4>1, <4>2 DEF Cli
    <3> QED BY <3>4, <3>5 DEF At
  <2>5. CASE UNCHANGED <<cli, store, accepted>>
    BY <2>5 DEF AloneInv, At
  <2>6. \/ \E d \in CLI : CommandStep(d) \/ Enter(d)
        \/ UNCHANGED <<cli, store, accepted>>
    BY DEF Next, OpenStep, CommandStep, LogIn, TokenEnds, ClockMoves, GuestMovesOn,
           vars, disk, env, hist
  <2> QED BY <2>1, <2>2, <2>3, <2>4, <2>5, <2>6
<1>3. Spec => []LockInv
  BY LockInvariant
<1> QED BY <1>1, <1>2, <1>3, PTL DEF Spec

\* While a command runs alone a pin is replaced only by one the user compared
\* (Pin, Repair and every other write of the document).
THEOREM PinsChangeByComparisonCorrect == Spec => PinsChangeByComparison
<1>1. ASSUME LockInv, AloneInv, [Next]_vars, NEW c \in CLI, cli[c].alone, NEW w \in Workspace,
             store[w] # None, store'[w] # None, store'[w].pin # store[w].pin
      PROVE  store'[w].by = "compare" /\ <<store'[w].pin, "compare">> \in accepted[w]
  <2>1. PICK d \in CLI : cli[d].pc \in Writing /\ store' = cli[d].doc
    <3>1. store' # store
      BY <1>1
    <3>2. PICK d \in CLI : CommandStep(d)
      BY <1>1, <3>1 DEF Next, OpenStep, Enter, vars, disk, CommandStep, LogIn, TokenEnds,
                        ClockMoves, GuestMovesOn
    <3>3. ~PruneRead(d) /\ ~Begin(d) /\ ~BeginFails(d)
      BY <3>1 DEF PruneRead, Begin, BeginFails, disk
    <3>4. ~ExchangeStep(d) \/ PinWrite(d)
      BY <3>1 DEF ExchangeStep, Seal, Bootstrap, PinRead, ExchangeFails, NotAdmitted, Unlocked,
                  PhraseSaved, Answered, AnswerRead, disk
    <3>5. ~StoreStep(d) \/ LastWrite(d) \/ ReportedWrite(d)
      BY <3>1 DEF StoreStep, GrantRead, RevokeRead, RepairRead, UnpinRead, ForgetRead, Report,
                  StoreFails, disk
    <3>6. ~GuestStep(d) /\ ~PairStep(d) /\ ~UseStep(d) /\ ~LogoutStep(d) /\ ~Crash(d)
      BY <3>1 DEF GuestStep, GuestUnlocks, GuestLocks, GuestAgrees, GuestRefuses, PairStep,
                  Probe, Compared, NotAccepted, UseStep, Watch, Challenge, Authority, Prove,
                  EndUse, LogoutStep, LogoutFails, TokenRevoked, CredentialDeleted, Crash, disk
    <3>7. PruneWrite(d) \/ PinWrite(d) \/ LastWrite(d) \/ ReportedWrite(d)
      BY <3>2, <3>3, <3>4, <3>5, <3>6 DEF CommandStep
    <3> QED BY <3>7 DEF PruneWrite, PinWrite, LastWrite, ReportedWrite, Publish, At, Writing
  <2>2. d = c
    BY <1>1, <2>1 DEF AloneInv, At, Writing
  <2> QED BY <1>1, <2>1, <2>2 DEF AloneInv, Current
<1>2. LockInv /\ AloneInv /\ [Next]_vars =>
        [\A c \in CLI : cli[c].alone =>
           \A w \in Workspace :
             store[w] # None /\ store'[w] # None /\ store'[w].pin # store[w].pin =>
               store'[w].by = "compare" /\ <<store'[w].pin, "compare">> \in accepted[w]]_vars
  BY <1>1
<1> QED BY <1>2, AloneInvariant, PTL DEF Spec, PinsChangeByComparison

\* A lock that ran alone has given its grant up when it ends, whatever failed on
\* the way to the guest (relockWorkspace, Revoke).
THEOREM RelockGivesUpCorrect == Spec => []RelockGivesUp
<1>1. AloneInv => RelockGivesUp
  BY DEF AloneInv, Current, RelockGivesUp, At, Runs, HoldsGrant
<1> QED BY <1>1, AloneInvariant, PTL

\* A logout that ran alone and succeeds leaves no record (Forget).
THEOREM LogoutForgetsCorrect == Spec => []LogoutForgets
<1>1. AloneInv => LogoutForgets
  BY DEF AloneInv, Current, LogoutForgets, At, Runs
<1> QED BY <1>1, AloneInvariant, PTL

=============================================================================
