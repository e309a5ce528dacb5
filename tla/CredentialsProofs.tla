--------------------------- MODULE CredentialsProofs ---------------------------
(***************************************************************************)
(* What the credential file guarantees for every number of terminals,      *)
(* hosts and tokens.                                                       *)
(***************************************************************************)
EXTENDS Credentials, TLAPS

-----------------------------------------------------------------------------
(* The inductive invariant: what every command may take for granted.       *)

\* Every entry of a document was issued by the host it is stored under.
Verified(doc) == \A h \in Host : doc[h] # None => IssuedBy[doc[h]] = h

\* The token of a command belongs to its host, and the document it is about to
\* change came from the file.
Homely(r) ==
  /\ r.at \in {"saveRead", "saveWrite"} => IssuedBy[r.token] = r.host
  /\ r.at \in {"use", "revoke"} /\ ~r.env => IssuedBy[r.token] = r.host
  /\ r.at \in {"saveWrite", "deleteWrite"} => Verified(r.doc)

\* What a logout removes is the token it revoked, unless the file changed since.
Deleting(r) == r.at \in {"deleteRead", "deleteWrite"}

Removes(r, f, s) ==
  /\ r.at = "revoke" /\ ~r.env /\ ~r.stale => f[r.host] = r.token
  /\ Deleting(r) => r.host \in Host /\ r.token \in Token
  /\ Deleting(r) /\ ~r.stale =>
       /\ s[r.token] = "dead"
       /\ r.token = IF r.at = "deleteRead" THEN f[r.host] ELSE r.doc[r.host]

\* When the loop's condition is evaluated no approval waits that a poll could
\* have seen; at the deadline no further one can come.
OnTime(r, d) ==
  /\ r.at = "check" => d.status # "approved"
  /\ r.at = "out" /\ r.result = "timeout" => d.left = 0 /\ d.status # "approved"

Fine(r, f, s, d) == Homely(r) /\ Removes(r, f, s) /\ OnTime(r, d)

CredInv ==
  /\ TypeOK
  /\ EntriesVerified
  /\ \A c \in Cli : Fine(cmd[c], file, state, device[c])

-----------------------------------------------------------------------------
(* Moving one command.                                                     *)

Devices == [status : {"none", "pending", "approved", "late", "rejected"}, left : 0..Life]
Typed(r) == r \in Cmd /\ (r.at \in {"verify", "saveRead", "saveWrite", "revoke", "use"}
                            => r.token # None /\ r.host # None)

\* A dead token stays dead.
Mortal == /\ state' \in [Token -> {"unused", "live", "dead"}]
          /\ \A t \in Token : state[t] = "dead" => state'[t] = "dead"

LEMMA StaysFine ==
  ASSUME CredInv, Mortal, NEW c \in Cli, NEW d, OnTime(cmd[c], d)
  PROVE  Fine(cmd[c], file, state', d)
<1>1. Homely(cmd[c]) /\ Removes(cmd[c], file, state) /\ cmd[c] \in Cmd
  BY DEF CredInv, Fine, TypeOK
<1>2. Removes(cmd[c], file, state')
  BY <1>1 DEF Removes, Mortal, Deleting
<1> QED BY <1>1, <1>2 DEF Fine

\* Only the record of the command that moved has to be looked at.
LEMMA OneCommand ==
  ASSUME CredInv, NEW c \in Cli, NEW r, Step(c, r), Typed(r), UNCHANGED disk, Mortal,
         device' \in [Cli -> Devices], \A b \in Cli \ {c} : device'[b] = device[b],
         Fine(r, file, state', device'[c])
  PROVE  CredInv'
<1>1. cmd' \in [Cli -> Cmd] /\ cmd'[c] = r /\ \A b \in Cli \ {c} : cmd'[b] = cmd[b]
  BY DEF CredInv, TypeOK, Step, Typed
<1>2. TypeOK'
  BY <1>1 DEF CredInv, TypeOK, Typed, Mortal, Devices, disk
<1>3. EntriesVerified'
  BY DEF CredInv, EntriesVerified, Stored, disk
<1>4. ASSUME NEW b \in Cli PROVE Fine(cmd'[b], file', state', device'[b])
  <2>1. CASE b = c
    BY <1>1, <2>1 DEF disk
  <2>2. CASE b # c
    <3>1. OnTime(cmd[b], device'[b])
      BY <2>2 DEF CredInv, Fine
    <3>2. Fine(cmd[b], file, state', device'[b])
      BY <3>1, StaysFine
    <3> QED BY <1>1, <2>2, <3>2 DEF disk
  <2> QED BY <2>1, <2>2
<1> QED BY <1>2, <1>3, <1>4 DEF CredInv

LEMMA IdleFine ==
  ASSUME NEW f, NEW s, NEW d
  PROVE  Typed(Idle) /\ Fine(Idle, f, s, d)
BY CredentialsAssumption
DEF Typed, Idle, Cmd, Document, Empty, Fine, Homely, Removes, Deleting, OnTime

\* A command that ends has nothing left to answer for but its deadline.
LEMMA EndedFine ==
  ASSUME NEW r \in {"ok", "refused", "error", "unknown", "noToken"},
         NEW f, NEW s, NEW d
  PROVE  Typed(Ended(r)) /\ Fine(Ended(r), f, s, d)
<1>1. Typed(Idle)
  BY IdleFine
<1>2. /\ Ended(r).at = "out" /\ Ended(r).result = r /\ Ended(r) \in Cmd
  BY <1>1 DEF Ended, Idle, Typed, Cmd
<1> QED BY <1>2 DEF Typed, Fine, Homely, Removes, Deleting, OnTime

LEMMA Ends ==
  ASSUME CredInv, NEW c \in Cli, NEW r \in {"ok", "refused", "error", "unknown", "noToken"},
         End(c, r), UNCHANGED disk, Mortal,
         device' \in [Cli -> Devices], \A b \in Cli \ {c} : device'[b] = device[b]
  PROVE  CredInv'
<1>1. Typed(Ended(r)) /\ Fine(Ended(r), file, state', device'[c])
  BY EndedFine
<1> QED BY <1>1, OneCommand DEF End

\* A step of one command that changes neither the file nor the hosts.
LEMMA Moves ==
  ASSUME CredInv, NEW c \in Cli, NEW r, Step(c, r), Typed(r), UNCHANGED <<disk, server>>,
         Homely(r), Removes(r, file, state), OnTime(r, device[c])
  PROVE  CredInv'
<1>1. Mortal /\ device' \in [Cli -> Devices] /\ device' = device /\ state' = state
  BY DEF Mortal, CredInv, TypeOK, Devices, server
<1> QED BY <1>1, OneCommand DEF Fine, disk

LEMMA Quits ==
  ASSUME CredInv, NEW c \in Cli, NEW r \in {"ok", "refused", "error", "unknown", "noToken"},
         End(c, r), UNCHANGED <<disk, server>>
  PROVE  CredInv'
<1>1. Mortal /\ device' \in [Cli -> Devices] /\ device' = device
  BY DEF Mortal, CredInv, TypeOK, Devices, server
<1> QED BY <1>1, Ends

-----------------------------------------------------------------------------
(* login.                                                                  *)

LEMMA LoginSteps ==
  ASSUME CredInv, NEW c \in Cli,
         Authorize(c) \/ Check(c) \/ Wake(c) \/ PollPending(c) \/ PollEnds(c)
         \/ Verify(c) \/ SaveRead(c)
  PROVE  CredInv'
<1>0. /\ cmd[c] \in Cmd /\ Typed(cmd[c]) /\ Fine(cmd[c], file, state, device[c])
      /\ device[c] \in Devices
  BY DEF CredInv, TypeOK, Typed, Devices
<1>1. CASE Authorize(c)
  <2>1. CASE End(c, "error") /\ UNCHANGED device
    BY <1>1, <2>1, Quits DEF Authorize, server
  <2>2. CASE ~(End(c, "error") /\ UNCHANGED device)
    <3> DEFINE r == [cmd[c] EXCEPT !.at = "check"]
    <3>1. Typed(r) /\ Step(c, r) /\ UNCHANGED disk /\ state' = state
      BY <1>0, <1>1, <2>2 DEF Authorize, Go, Typed, Cmd
    <3>2. device' = [device EXCEPT ![c] = [status |-> "pending", left |-> Life]]
      BY <1>1, <2>2 DEF Authorize
    <3>3. [status |-> "pending", left |-> Life] \in Devices
      BY CredentialsAssumption DEF Devices
    <3>4. device' \in [Cli -> Devices] /\ device'[c].status = "pending"
          /\ \A b \in Cli \ {c} : device'[b] = device[b]
      BY <3>2, <3>3 DEF CredInv, TypeOK, Devices
    <3>5. r.at = "check"
      BY <1>0 DEF Cmd
    <3>6. Fine(r, file, state', device'[c])
      BY <3>4, <3>5 DEF Fine, Homely, Removes, Deleting, OnTime
    <3>7. Mortal
      BY <3>1 DEF Mortal, CredInv, TypeOK
    <3> HIDE DEF r
    <3> QED BY <3>1, <3>4, <3>6, <3>7, OneCommand
  <2> QED BY <2>1, <2>2
<1>2. CASE Check(c)
  <2>1. CASE device[c].left > 0
    <3> DEFINE r == [cmd[c] EXCEPT !.at = "sleep", !.left = cmd[c].pause]
    <3>0. cmd[c].pause \in 0..Life
      BY <1>0 DEF Cmd
    <3>1. r \in Cmd /\ r.at = "sleep"
      BY <1>0, <3>0 DEF Cmd
    <3>2. Step(c, r) /\ UNCHANGED <<disk, server>>
      BY <1>2, <2>1 DEF Check
    <3> HIDE DEF r
    <3> QED BY <3>1, <3>2, Moves DEF Typed, Homely, Removes, Deleting, OnTime
  <2>2. CASE ~(device[c].left > 0)
    <3>1. Ended("timeout") \in Cmd /\ Ended("timeout").at = "out"
          /\ Step(c, Ended("timeout")) /\ UNCHANGED <<disk, server>>
      BY <1>2, <2>2, IdleFine DEF Check, End, Ended, Idle, Typed, Cmd
    <3>2. device[c].left = 0 /\ device[c].status # "approved"
      BY <1>0, <1>2, <2>2, CredentialsAssumption DEF Check, At, Fine, OnTime, Devices
    <3> QED BY <3>1, <3>2, Moves DEF Typed, Homely, Removes, Deleting, OnTime
  <2> QED BY <2>1, <2>2
<1>3. CASE Wake(c)
  <2> DEFINE r == [cmd[c] EXCEPT !.at = "poll"]
  <2>1. r \in Cmd /\ r.at = "poll"
    BY <1>0 DEF Cmd
  <2>2. Step(c, r) /\ UNCHANGED <<disk, server>>
    BY <1>3 DEF Wake, Go
  <2> HIDE DEF r
  <2> QED BY <2>1, <2>2, Moves DEF Typed, Homely, Removes, Deleting, OnTime
<1>4. CASE PollPending(c)
  <2>1. PICK p \in {cmd[c].pause, cmd[c].pause + 1} :
          Step(c, [cmd[c] EXCEPT !.at = "check", !.pause = IF p > Life THEN Life ELSE p])
    BY <1>4 DEF PollPending
  <2> DEFINE q == IF p > Life THEN Life ELSE p
             r == [cmd[c] EXCEPT !.at = "check", !.pause = q]
  <2>2. q \in 1..Life
    BY <1>0, CredentialsAssumption DEF Cmd
  <2>3. r \in Cmd /\ r.at = "check"
    BY <1>0, <2>2 DEF Cmd
  <2>4. Step(c, r) /\ UNCHANGED <<disk, server>> /\ device[c].status = "pending"
    BY <1>4, <2>1 DEF PollPending
  <2> HIDE DEF r
  <2> QED BY <2>3, <2>4, Moves DEF Typed, Homely, Removes, Deleting, OnTime
<1>5. CASE PollEnds(c)
  BY <1>5, Quits DEF PollEnds
<1>6. CASE Verify(c)
  <2>1. CASE End(c, "error")
    BY <1>6, <2>1, Quits DEF Verify
  <2>2. CASE ~End(c, "error")
    <3> DEFINE r == [cmd[c] EXCEPT !.at = "saveRead"]
    <3>1. r \in Cmd /\ r.at = "saveRead" /\ r.token = cmd[c].token /\ r.host = cmd[c].host
      BY <1>0 DEF Cmd
    <3>2. Step(c, r) /\ UNCHANGED <<disk, server>> /\ cmd[c].token # None /\ cmd[c].host # None
          /\ IssuedBy[cmd[c].token] = cmd[c].host
      BY <1>0, <1>6, <2>2 DEF Verify, Go, At, Typed
    <3> HIDE DEF r
    <3> QED BY <3>1, <3>2, Moves DEF Typed, Homely, Removes, Deleting, OnTime
  <2> QED BY <2>1, <2>2
<1>7. CASE SaveRead(c)
  <2>1. CASE End(c, "error")
    BY <1>7, <2>1, Quits DEF SaveRead
  <2>2. CASE ~End(c, "error")
    <3> DEFINE r == [cmd[c] EXCEPT !.at = "saveWrite", !.doc = file]
    <3>1. r \in Cmd /\ r.at = "saveWrite" /\ r.token = cmd[c].token /\ r.host = cmd[c].host
          /\ r.doc = file
      BY <1>0 DEF Cmd, CredInv, TypeOK
    <3>2. Step(c, r) /\ UNCHANGED <<disk, server>> /\ cmd[c].token # None /\ cmd[c].host # None
          /\ IssuedBy[cmd[c].token] = cmd[c].host
      BY <1>0, <1>7, <2>2 DEF SaveRead, At, Typed, Fine, Homely
    <3>3. Verified(file)
      BY DEF CredInv, EntriesVerified, Stored, Verified
    <3> HIDE DEF r
    <3> QED BY <3>1, <3>2, <3>3, Moves DEF Typed, Homely, Removes, Deleting, OnTime
  <2> QED BY <2>1, <2>2
<1> QED BY <1>1, <1>2, <1>3, <1>4, <1>5, <1>6, <1>7

LEMMA ApprovedStep ==
  ASSUME CredInv, NEW c \in Cli, PollApproved(c)
  PROVE  CredInv'
<1>1. PICK t \in Token :
        /\ state[t] = "unused" /\ IssuedBy[t] = cmd[c].host
        /\ state' = [state EXCEPT ![t] = "live"]
        /\ \/ Step(c, [cmd[c] EXCEPT !.at = "verify", !.token = t])
           \/ End(c, "error")
  BY DEF PollApproved
<1>2. Mortal
  BY <1>1 DEF Mortal, CredInv, TypeOK
<1>3. /\ device' \in [Cli -> Devices] /\ \A b \in Cli \ {c} : device'[b] = device[b]
      /\ UNCHANGED disk
  BY CredentialsAssumption DEF PollApproved, NoDevice, CredInv, TypeOK, Devices
<1>4. CASE End(c, "error")
  BY <1>2, <1>3, <1>4, Ends
<1>5. CASE Step(c, [cmd[c] EXCEPT !.at = "verify", !.token = t])
  <2> DEFINE r == [cmd[c] EXCEPT !.at = "verify", !.token = t]
  <2>1. cmd[c].host \in Host /\ t # None
    BY <1>1, CredentialsAssumption
  <2>0. cmd[c] \in Cmd
    BY DEF CredInv, TypeOK
  <2>2. r \in Cmd /\ r.at = "verify" /\ r.token = t /\ r.host = cmd[c].host
    BY <2>0 DEF Cmd
  <2>3. Typed(r)
    BY <2>1, <2>2, CredentialsAssumption DEF Typed
  <2>4. Step(c, r)
    BY <1>5
  <2> HIDE DEF r
  <2>5. Fine(r, file, state', device'[c])
    BY <2>2 DEF Fine, Homely, Removes, Deleting, OnTime
  <2> QED BY <1>2, <1>3, <2>3, <2>4, <2>5, OneCommand
<1> QED BY <1>1, <1>4, <1>5

-----------------------------------------------------------------------------
(* The commands that need a token.                                         *)

LEMMA Starts ==
  ASSUME CredInv, NEW c \in Cli, User(c), ~Kill(c), ~Decide(c)
  PROVE  CredInv'
<1>0. Typed(Idle) /\ Idle \in Cmd /\ ~Idle.env
  BY IdleFine DEF Typed, Idle
<1>1. ASSUME NEW h \in Host, StartLogin(c, h) PROVE CredInv'
  <2> DEFINE r == [Idle EXCEPT !.kind = "login", !.at = "authorize", !.host = h]
  <2>1. r \in Cmd /\ r.at = "authorize"
    BY <1>0 DEF Cmd
  <2>2. Step(c, r) /\ UNCHANGED <<disk, server>>
    BY <1>1 DEF StartLogin
  <2> HIDE DEF r
  <2> QED BY <2>1, <2>2, Moves DEF Typed, Homely, Removes, Deleting, OnTime
<1>2. ASSUME NEW h \in Host, NEW t \in Token, StartStdin(c, h, t) PROVE CredInv'
  <2> DEFINE r == [Idle EXCEPT !.kind = "login", !.at = "verify", !.host = h, !.token = t]
  <2>1. r \in Cmd /\ r.at = "verify" /\ r.host = h /\ r.token = t
    BY <1>0 DEF Cmd
  <2>2. Step(c, r) /\ UNCHANGED <<disk, server>>
    BY <1>2 DEF StartStdin
  <2> HIDE DEF r
  <2> QED BY <2>1, <2>2, Moves, CredentialsAssumption
          DEF Typed, Homely, Removes, Deleting, OnTime
<1>3. ASSUME NEW k \in {"logout", "use"}, NEW h \in Host \cup {None}, Start(c, k, h)
      PROVE  CredInv'
  <2> DEFINE r == [Idle EXCEPT !.kind = k, !.host = h,
                               !.at = IF h = None THEN "pick" ELSE "load"]
  <2>1. r \in Cmd /\ r.at \in {"pick", "load"}
    BY <1>0 DEF Cmd
  <2>2. Step(c, r) /\ UNCHANGED <<disk, server>>
    BY <1>3 DEF Start
  <2> HIDE DEF r
  <2> QED BY <2>1, <2>2, Moves DEF Typed, Homely, Removes, Deleting, OnTime
<1>4. ASSUME NEW k \in {"logout", "use"}, NEW h \in Host \cup {None}, NEW t \in FromEnv,
             StartWith(c, k, h, t)
      PROVE  CredInv'
  <2> DEFINE g == IF h = None THEN Production ELSE h
             l == IF k = "logout" THEN "revoke" ELSE "use"
             r == [Idle EXCEPT !.kind = k, !.env = TRUE, !.token = t, !.at = l, !.host = g]
  <2>1. g \in Host /\ t \in Token /\ l \in {"revoke", "use"}
    BY CredentialsAssumption
  <2>2. Step(c, r) /\ UNCHANGED <<disk, server>>
    BY <1>4 DEF StartWith
  <2> HIDE DEF g, l
  <2>3. r \in Cmd /\ r.at = l /\ r.host = g /\ r.token = t /\ r.env
    BY <1>0, <2>1, ZenonT(40) DEF Cmd
  <2> HIDE DEF r
  <2> QED BY <2>1, <2>2, <2>3, Moves, CredentialsAssumption
          DEF Typed, Homely, Removes, Deleting, OnTime
<1> QED BY <1>1, <1>2, <1>3, <1>4 DEF User

LEMMA TokenSteps ==
  ASSUME CredInv, NEW c \in Cli, Pick(c) \/ Load(c) \/ Use(c) \/ DeleteRead(c) \/ Forget(c)
  PROVE  CredInv'
<1>0. /\ cmd[c] \in Cmd /\ Typed(cmd[c]) /\ Fine(cmd[c], file, state, device[c])
      /\ file \in Document /\ Verified(file)
  BY DEF CredInv, TypeOK, Typed, EntriesVerified, Stored, Verified
<1>1. CASE Pick(c)
  <2>1. CASE End(c, "noToken")
    BY <1>1, <2>1, Quits DEF Pick
  <2>2. ASSUME NEW h \in Host, Step(c, [cmd[c] EXCEPT !.at = "load", !.host = h])
        PROVE  CredInv'
    <3> DEFINE r == [cmd[c] EXCEPT !.at = "load", !.host = h]
    <3>1. r \in Cmd /\ r.at = "load"
      BY <1>0 DEF Cmd
    <3>2. Step(c, r) /\ UNCHANGED <<disk, server>>
      BY <1>1, <2>2 DEF Pick
    <3> HIDE DEF r
    <3> QED BY <3>1, <3>2, Moves DEF Typed, Homely, Removes, Deleting, OnTime
  <2> QED BY <1>1, <2>1, <2>2 DEF Pick
<1>2. CASE Load(c)
  <2>1. CASE End(c, "noToken")
    BY <1>2, <2>1, Quits DEF Load
  <2>2. CASE ~End(c, "noToken")
    <3> DEFINE h == cmd[c].host
               l == IF cmd[c].kind = "logout" THEN "revoke" ELSE "use"
               r == [cmd[c] EXCEPT !.token = file[h], !.at = l]
    <3>1. h \in Host /\ file[h] \in Token /\ IssuedBy[file[h]] = h /\ l \in {"revoke", "use"}
      BY <1>0, <1>2, <2>2 DEF Load, Stored, Document, Verified
    <3>2. Step(c, r) /\ UNCHANGED <<disk, server>>
      BY <1>2, <2>2 DEF Load
    <3> HIDE DEF l
    <3>3. r \in Cmd /\ r.at = l /\ r.host = h /\ r.token = file[h]
      BY <1>0, <3>1 DEF Cmd
    <3> HIDE DEF r
    <3> QED BY <3>1, <3>2, <3>3, Moves, CredentialsAssumption
            DEF Typed, Homely, Removes, Deleting, OnTime
  <2> QED BY <2>1, <2>2
<1>3. CASE Use(c)
  BY <1>3, Quits DEF Use
<1>4. CASE DeleteRead(c)
  <2>1. CASE End(c, "error")
    BY <1>4, <2>1, Quits DEF DeleteRead
  <2>2. CASE ~End(c, "error")
    <3> DEFINE l == IF Absent THEN "forget" ELSE "deleteWrite"
               r == [cmd[c] EXCEPT !.at = l, !.doc = file]
    <3>1. l \in {"forget", "deleteWrite"}
      OBVIOUS
    <3>2. Step(c, r) /\ UNCHANGED <<disk, server>>
      BY <1>4, <2>2 DEF DeleteRead
    <3> HIDE DEF l
    <3>3. r \in Cmd /\ r.at = l /\ r.host = cmd[c].host /\ r.token = cmd[c].token
          /\ r.doc = file /\ r.stale = cmd[c].stale
      BY <1>0, <3>1 DEF Cmd
    <3>4. Removes(cmd[c], file, state) /\ cmd[c].at = "deleteRead"
      BY <1>0, <1>4 DEF DeleteRead, At, Fine
    <3>5. Removes(r, file, state)
      BY <3>1, <3>3, <3>4 DEF Removes, Deleting
    <3> HIDE DEF r
    <3> QED BY <1>0, <3>1, <3>2, <3>3, <3>5, Moves DEF Typed, Homely, OnTime
  <2> QED BY <2>1, <2>2
<1>5. CASE Forget(c)
  BY <1>5, Quits DEF Forget
<1> QED BY <1>1, <1>2, <1>3, <1>4, <1>5

LEMMA RevokeStep ==
  ASSUME CredInv, NEW c \in Cli, Revoke(c)
  PROVE  CredInv'
<1>0. cmd[c] \in Cmd /\ Fine(cmd[c], file, state, device[c]) /\ cmd[c].at = "revoke"
      /\ cmd[c].token \in Token /\ cmd[c].host \in Host
  BY DEF CredInv, TypeOK, Revoke, At, Cmd
<1>1. UNCHANGED disk /\ device' \in [Cli -> Devices] /\ device' = device
  BY DEF Revoke, CredInv, TypeOK, Devices
<1>2. state' = state \/ state' = [state EXCEPT ![cmd[c].token] = "dead"]
  BY DEF Revoke
<1>3. Mortal
  BY <1>2 DEF Mortal, CredInv, TypeOK
<1>4. CASE End(c, "unknown") \/ End(c, "error")
  BY <1>1, <1>3, <1>4, Ends
<1>5. CASE ~(End(c, "unknown") \/ End(c, "error"))
  <2> DEFINE l == IF cmd[c].env THEN "forget" ELSE "deleteRead"
             r == [cmd[c] EXCEPT !.at = l]
  <2>1. Step(c, r) /\ state' = [state EXCEPT ![cmd[c].token] = "dead"]
    BY <1>5 DEF Revoke, Go
  <2>2. state'[cmd[c].token] = "dead"
    BY <1>0, <2>1 DEF CredInv, TypeOK
  <2>3. l \in {"forget", "deleteRead"} /\ (l = "deleteRead" => ~cmd[c].env)
    BY <1>0 DEF Cmd
  <2> HIDE DEF l
  <2>4. r \in Cmd /\ r.at = l /\ r.host = cmd[c].host /\ r.token = cmd[c].token
        /\ r.stale = cmd[c].stale
    BY <1>0, <2>3 DEF Cmd
  <2> HIDE DEF r
  <2>5. Removes(cmd[c], file, state)
    BY <1>0 DEF Fine
  <2>6. Removes(r, file, state')
    BY <1>0, <2>2, <2>3, <2>4, <2>5 DEF Removes, Deleting
  <2>7. Typed(r) /\ Homely(r) /\ OnTime(r, device'[c])
    BY <2>3, <2>4 DEF Typed, Homely, OnTime
  <2> QED BY <1>1, <1>3, <2>1, <2>6, <2>7, OneCommand DEF Fine
<1> QED BY <1>4, <1>5

-----------------------------------------------------------------------------
(* The writes.                                                             *)

\* The others see that the file changed; the writer ends or goes on to Forget.
LEMMA Replaced ==
  ASSUME CredInv, NEW c \in Cli, NEW doc \in Document, NEW r \in Cmd, Replace(c, doc, r),
         UNCHANGED server, r.at \in {"out", "forget"}, r.result # "timeout" \/ r.at = "forget",
         Verified(doc)
  PROVE  CredInv'
<1>1. /\ file' = doc /\ usable' = TRUE /\ lost' \in BOOLEAN /\ state' = state /\ device' = device
      /\ cmd' = [b \in Cli |-> IF b = c THEN r
                               ELSE [cmd[b] EXCEPT !.stale = At(b, "revoke") \/ At(b, "deleteRead") \/ @]]
  BY DEF Replace, server, CredInv, TypeOK
<1>2. ASSUME NEW b \in Cli PROVE Typed(cmd'[b]) /\ Fine(cmd'[b], file', state', device'[b])
  <2>1. CASE b = c
    BY <1>1, <2>1 DEF Typed, Fine, Homely, Removes, Deleting, OnTime
  <2>2. CASE b # c
    <3> DEFINE s == At(b, "revoke") \/ At(b, "deleteRead") \/ cmd[b].stale
               q == [cmd[b] EXCEPT !.stale = s]
    <3>0. cmd[b] \in Cmd /\ Typed(cmd[b]) /\ Fine(cmd[b], file, state, device[b])
      BY DEF CredInv, TypeOK, Typed
    <3>1. s \in BOOLEAN /\ (cmd[b].at \in {"revoke", "deleteRead"} => s) /\ (cmd[b].stale => s)
      BY <3>0 DEF At, Cmd
    <3>2. cmd'[b] = q
      BY <1>1, <2>2
    <3> HIDE DEF s
    <3>3. q \in Cmd /\ q.stale = s /\ q.at = cmd[b].at /\ q.host = cmd[b].host
          /\ q.token = cmd[b].token /\ q.env = cmd[b].env /\ q.doc = cmd[b].doc
          /\ q.result = cmd[b].result
      BY <3>0, <3>1 DEF Cmd
    <3> HIDE DEF q
    <3>4. Typed(q) /\ Homely(q) /\ OnTime(q, device[b])
      BY <3>0, <3>3 DEF Typed, Fine, Homely, OnTime
    <3>5. Removes(cmd[b], file, state)
      BY <3>0 DEF Fine
    <3>6. Removes(q, doc, state)
      BY <3>1, <3>3, <3>5 DEF Removes, Deleting
    <3> QED BY <1>1, <3>2, <3>4, <3>6 DEF Fine
  <2> QED BY <2>1, <2>2
<1>3. cmd' \in [Cli -> Cmd]
  BY <1>1, <1>2 DEF Typed
<1>4. TypeOK'
  BY <1>1, <1>2, <1>3 DEF CredInv, TypeOK, Typed
<1>5. EntriesVerified'
  BY <1>1 DEF EntriesVerified, Stored, Verified
<1> QED BY <1>2, <1>4, <1>5 DEF CredInv

LEMMA SaveWriteStep ==
  ASSUME CredInv, NEW c \in Cli, SaveWrite(c)
  PROVE  CredInv'
<1>0. cmd[c] \in Cmd /\ Homely(cmd[c]) /\ cmd[c].at = "saveWrite"
      /\ cmd[c].token \in Token /\ cmd[c].host \in Host
  BY DEF CredInv, TypeOK, Fine, SaveWrite, At, Cmd
<1>1. CASE End(c, "error") /\ UNCHANGED disk
  BY <1>1, Quits DEF SaveWrite
<1>2. ASSUME NEW r \in {"ok", "error"},
             Replace(c, [cmd[c].doc EXCEPT ![cmd[c].host] = cmd[c].token], Ended(r))
      PROVE  CredInv'
  <2> DEFINE doc == [cmd[c].doc EXCEPT ![cmd[c].host] = cmd[c].token]
  <2>1. cmd[c].doc \in Document /\ Verified(cmd[c].doc)
        /\ IssuedBy[cmd[c].token] = cmd[c].host
    BY <1>0 DEF Homely, Cmd
  <2>2. doc \in Document /\ Verified(doc)
    BY <1>0, <2>1 DEF Document, Verified
  <2>3. Ended(r) \in Cmd /\ Ended(r).at = "out" /\ Ended(r).result # "timeout"
    BY IdleFine DEF Typed, Ended, Idle, Cmd
  <2> QED BY <1>2, <2>2, <2>3, Replaced DEF SaveWrite
<1> QED BY <1>1, <1>2 DEF SaveWrite

LEMMA DeleteWriteStep ==
  ASSUME CredInv, NEW c \in Cli, DeleteWrite(c)
  PROVE  CredInv'
<1> DEFINE doc == [cmd[c].doc EXCEPT ![cmd[c].host] = None]
           q == [cmd[c] EXCEPT !.at = "forget"]
<1>0. cmd[c] \in Cmd /\ Homely(cmd[c]) /\ cmd[c].at = "deleteWrite"
  BY DEF CredInv, TypeOK, Fine, DeleteWrite, At
<1>1. doc \in Document /\ Verified(doc)
  BY <1>0 DEF Homely, Cmd, Document, Verified
<1>2. q \in Cmd /\ q.at = "forget"
  BY <1>0 DEF Cmd
<1>3. Ended("error") \in Cmd /\ Ended("error").at = "out" /\ Ended("error").result # "timeout"
  BY IdleFine DEF Typed, Ended, Idle, Cmd
<1>4. UNCHANGED server
      /\ (Replace(c, doc, q) \/ Replace(c, doc, Ended("error"))
          \/ (End(c, "error") /\ UNCHANGED disk))
  BY DEF DeleteWrite
<1> HIDE DEF doc, q
<1>5. CASE Replace(c, doc, q)
  BY <1>1, <1>2, <1>4, <1>5, Replaced
<1>6. CASE Replace(c, doc, Ended("error"))
  BY <1>1, <1>3, <1>4, <1>6, Replaced
<1> QED BY <1>4, <1>5, <1>6, Quits

-----------------------------------------------------------------------------
(* The environment.                                                        *)

LEMMA ProcessEnds ==
  ASSUME CredInv, NEW c \in Cli, Kill(c) \/ Exit(c)
  PROVE  CredInv'
<1>1. Step(c, Idle) /\ UNCHANGED disk /\ state' = state
      /\ device' = [device EXCEPT ![c] = NoDevice]
  BY DEF Kill, Exit
<1>2. Mortal /\ device' \in [Cli -> Devices] /\ \A b \in Cli \ {c} : device'[b] = device[b]
  BY <1>1, CredentialsAssumption DEF Mortal, CredInv, TypeOK, Devices, NoDevice
<1> QED BY <1>1, <1>2, IdleFine, OneCommand

LEMMA WorldSteps ==
  ASSUME CredInv, UNCHANGED <<file, cmd>>, usable' \in BOOLEAN, lost' = lost, Mortal,
         device' \in [Cli -> Devices], \A c \in Cli : OnTime(cmd[c], device'[c])
  PROVE  CredInv'
<1>1. TypeOK' /\ EntriesVerified'
  BY DEF CredInv, TypeOK, Mortal, Devices, EntriesVerified, Stored
<1>2. \A c \in Cli : Fine(cmd[c], file, state', device'[c])
  BY StaysFine
<1> QED BY <1>1, <1>2 DEF CredInv

LEMMA DecideStep ==
  ASSUME CredInv, NEW c \in Cli, Decide(c)
  PROVE  CredInv'
<1>1. PICK s \in {"approved", "late", "rejected"} :
        /\ device' = [device EXCEPT ![c].status = s]
        /\ cmd[c].at = "check" => s # "approved"
  BY DEF Decide, At
<1>2. device[c] \in Devices /\ device[c].left > 0
  BY DEF CredInv, TypeOK, Devices, Decide
<1> DEFINE d == [device[c] EXCEPT !.status = s]
<1>3. d \in Devices /\ d.left = device[c].left /\ d.status = s
  BY <1>2 DEF Devices
<1>4. device' = [device EXCEPT ![c] = d]
  BY <1>1
<1> HIDE DEF d
<1>5. device' \in [Cli -> Devices] /\ device'[c] = d
      /\ \A b \in Cli \ {c} : device'[b] = device[b]
  BY <1>3, <1>4 DEF CredInv, TypeOK, Devices
<1>6. ASSUME NEW b \in Cli PROVE OnTime(cmd[b], device'[b])
  <2>1. OnTime(cmd[b], device[b])
    BY DEF CredInv, Fine
  <2>2. d.left > 0 /\ d.left \in Nat
    BY <1>2, <1>3, CredentialsAssumption DEF Devices
  <2> QED BY <1>1, <1>2, <1>3, <1>5, <2>1, <2>2 DEF OnTime
<1> QED BY <1>5, <1>6, WorldSteps DEF Decide, Mortal, CredInv, TypeOK, disk

LEMMA TickStep ==
  ASSUME CredInv, Tick
  PROVE  CredInv'
<1>1. ASSUME NEW n \in 0..Life PROVE Less(n) \in 0..Life /\ (n = 0 => Less(n) = 0)
  BY <1>1, CredentialsAssumption DEF Less
<1>2. ASSUME NEW c \in Cli
      PROVE  /\ cmd'[c] \in Cmd /\ Typed(cmd'[c])
             /\ device'[c] \in Devices
             /\ Fine(cmd'[c], file, state, device'[c])
  <2> DEFINE m == Less(cmd[c].left)
             n == Less(device[c].left)
             q == [cmd[c] EXCEPT !.left = m]
             d == [device[c] EXCEPT !.left = n]
  <2>1. cmd[c] \in Cmd /\ Typed(cmd[c]) /\ Fine(cmd[c], file, state, device[c])
        /\ device[c] \in Devices
    BY DEF CredInv, TypeOK, Typed, Devices
  <2>2. m \in 0..Life /\ n \in 0..Life /\ (device[c].left = 0 => n = 0)
    BY <1>1, <2>1 DEF Cmd, Devices
  <2>3. cmd'[c] = q /\ device'[c] = d
    BY DEF Tick
  <2> HIDE DEF m, n
  <2>4. d \in Devices /\ d.status = device[c].status /\ d.left = n
    BY <2>1, <2>2 DEF Devices
  <2>5. q \in Cmd /\ q.at = cmd[c].at /\ q.host = cmd[c].host /\ q.token = cmd[c].token
        /\ q.env = cmd[c].env /\ q.doc = cmd[c].doc /\ q.stale = cmd[c].stale
        /\ q.result = cmd[c].result
    BY <2>1, <2>2 DEF Cmd
  <2> HIDE DEF q, d
  <2>6. OnTime(q, d) /\ Typed(q) /\ Homely(q)
    BY <2>1, <2>2, <2>4, <2>5 DEF Fine, OnTime, Typed, Homely
  <2>7. Removes(cmd[c], file, state)
    BY <2>1 DEF Fine
  <2>8. Removes(q, file, state)
    BY <2>5, <2>7 DEF Removes, Deleting
  <2> QED BY <2>3, <2>4, <2>5, <2>6, <2>8 DEF Fine
<1>3. cmd' \in [Cli -> Cmd] /\ device' \in [Cli -> Devices]
  <2>1. cmd' = [c \in Cli |-> cmd'[c]] /\ device' = [c \in Cli |-> device'[c]]
    BY DEF Tick
  <2> QED BY <1>2, <2>1
<1>4. UNCHANGED <<disk, state>>
  BY DEF Tick
<1>5. TypeOK' /\ EntriesVerified'
  BY <1>2, <1>3, <1>4 DEF CredInv, TypeOK, Typed, Devices, disk, EntriesVerified, Stored
<1> QED BY <1>2, <1>4, <1>5 DEF CredInv, disk

LEMMA OutsideSteps ==
  ASSUME CredInv, Spoil \/ (\E t \in Token : TokenExpires(t)) \/ UNCHANGED vars
  PROVE  CredInv'
<1>0. \A c \in Cli : OnTime(cmd[c], device[c])
  BY DEF CredInv, Fine
<1>1. CASE Spoil
  BY <1>0, <1>1, WorldSteps DEF Spoil, Mortal, CredInv, TypeOK, Devices, server
<1>2. ASSUME NEW t \in Token, TokenExpires(t) PROVE CredInv'
  <2>1. Mortal
    BY <1>2 DEF TokenExpires, Mortal, CredInv, TypeOK
  <2> QED BY <1>0, <1>2, <2>1, WorldSteps DEF TokenExpires, CredInv, TypeOK, Devices, disk
<1>3. CASE UNCHANGED vars
  BY <1>0, <1>3, WorldSteps DEF vars, disk, server, Mortal, CredInv, TypeOK, Devices
<1> QED BY <1>1, <1>2, <1>3

-----------------------------------------------------------------------------
(* The theorems.                                                           *)

\* The invariant that the theorems on the stored tokens rest on.
THEOREM CredInvariant == Spec => []CredInv
<1>1. Init => CredInv
  <2> SUFFICES ASSUME Init PROVE CredInv
    OBVIOUS
  <2>1. file \in Document /\ EntriesVerified
    BY DEF Init, EntriesVerified, Stored
  <2>2. Idle \in Cmd /\ Idle.at = "idle"
    BY IdleFine DEF Typed, Idle
  <2>3. NoDevice \in Devices
    BY CredentialsAssumption DEF NoDevice, Devices
  <2>4. state \in [Token -> {"unused", "live", "dead"}]
    BY DEF Init
  <2>5. TypeOK
    BY <2>1, <2>2, <2>3, <2>4 DEF Init, TypeOK, Devices
  <2> QED BY <2>1, <2>5, IdleFine DEF Init, CredInv
<1>2. CredInv /\ [Next]_vars => CredInv'
  <2> SUFFICES ASSUME CredInv, [Next]_vars PROVE CredInv'
    OBVIOUS
  <2>1. ASSUME NEW c \in Cli, LoginStep(c) \/ TokenStep(c) \/ Exit(c) \/ User(c)
        PROVE  CredInv'
    BY <2>1, LoginSteps, ApprovedStep, SaveWriteStep, Starts, TokenSteps, RevokeStep,
       DeleteWriteStep, ProcessEnds, DecideStep
    DEF LoginStep, TokenStep
  <2> QED BY <2>1, TickStep, OutsideSteps DEF Next
<1> QED BY <1>1, <1>2, PTL DEF Spec

\* The file, the hosts and every command keep their types, and no command sends
\* or saves a token it does not have (loginCommand, authenticatedClient, Store).
THEOREM CredTypeCorrect == Spec => []TypeOK
<1>1. CredInv => TypeOK
  BY DEF CredInv
<1> QED BY <1>1, CredInvariant, PTL

\* A token that was stored is stored under, and sent to, the host that issued it
\* only, for any number of hosts and of terminals that read and replace the file
\* over each other (verifyAndStoreToken, Save, authenticatedClient).
THEOREM TokenStaysHomeCorrect == Spec => []TokenStaysHome
<1>1. CredInv => TokenStaysHome
  BY DEF CredInv, Fine, Homely, TokenStaysHome
<1> QED BY <1>1, CredInvariant, PTL

\* A login that reports an expired device authorization passed over no approval
\* but one that came while an answer was on its way to the terminal, however
\* slow_down stretches the pauses of the poll loop and whenever time passes.
THEOREM ExpiredUnseenCorrect == Spec => []ExpiredUnseen
<1>1. CredInv => ExpiredUnseen
  BY DEF CredInv, Fine, OnTime, ExpiredUnseen, At
<1> QED BY <1>1, CredInvariant, PTL

\* Who changes the file, and how.
LEMMA FileChanges ==
  ASSUME CredInv, [Next]_vars, file' # file
  PROVE  \E c \in Cli :
           /\ At(c, "saveWrite") \/ At(c, "deleteWrite")
           /\ lost' = (lost \/ cmd[c].doc # file)
           /\ cmd'[c].at \in {"out", "forget"}
           /\ file' = [cmd[c].doc EXCEPT ![cmd[c].host] =
                         IF At(c, "saveWrite") THEN cmd[c].token ELSE None]
<1>1. PICK c \in Cli : (SaveWrite(c) \/ DeleteWrite(c)) /\ ~UNCHANGED disk
  BY ZenonT(40) DEF Next, LoginStep, TokenStep, User, Authorize, Check, Wake, PollPending,
         PollApproved, PollEnds, Verify, SaveRead, Pick, Load, Use, Revoke, DeleteRead,
         Forget, Exit, Kill, Decide, StartLogin, StartStdin, Start, StartWith,
         TokenExpires, Spoil, Tick, vars, disk
<1>2. cmd[c] \in Cmd
  BY DEF CredInv, TypeOK
<1>3. [cmd[c] EXCEPT !.at = "forget"].at = "forget"
      /\ \A r : Ended(r).at = "out"
  BY <1>2 DEF Ended, Idle, Cmd
<1>4. ASSUME NEW doc, NEW r, Replace(c, doc, r)
      PROVE  file' = doc /\ cmd'[c] = r /\ lost' = (lost \/ cmd[c].doc # file)
  BY <1>4 DEF Replace
<1>5. CASE SaveWrite(c)
  BY <1>1, <1>3, <1>4, <1>5 DEF SaveWrite, At
<1>6. CASE DeleteWrite(c)
  <2> DEFINE doc == [cmd[c].doc EXCEPT ![cmd[c].host] = None]
  <2>1. PICK r \in {[cmd[c] EXCEPT !.at = "forget"], Ended("error")} : Replace(c, doc, r)
    BY <1>1, <1>6 DEF DeleteWrite
  <2>2. r.at \in {"out", "forget"}
    BY <1>3, <2>1
  <2> QED BY <1>4, <1>6, <2>1, <2>2 DEF DeleteWrite, At
<1> QED BY <1>1, <1>5, <1>6

\* A logout whose revocation was not confirmed leaves the file alone: what it
\* removes is dead, unless a login of that host came in between (logout, Delete).
THEOREM LiveNotRemovedCorrect == Spec => LiveNotRemoved
<1>1. ASSUME CredInv, [Next]_vars, ~lost', NEW h \in Host, file[h] # None, file'[h] = None,
             state[file[h]] = "live"
      PROVE  \E c \in Cli : cmd[c].host = h /\ cmd[c].stale
  <2>1. PICK c \in Cli :
           /\ At(c, "saveWrite") \/ At(c, "deleteWrite")
           /\ lost' = (lost \/ cmd[c].doc # file)
           /\ cmd'[c].at \in {"out", "forget"}
           /\ file' = [cmd[c].doc EXCEPT ![cmd[c].host] =
                         IF At(c, "saveWrite") THEN cmd[c].token ELSE None]
    BY <1>1, FileChanges
  <2>2. cmd[c].doc = file /\ file \in Document
    BY <1>1, <2>1 DEF CredInv, TypeOK
  <2>3. cmd[c].host = h
    BY <1>1, <2>1, <2>2 DEF Document
  <2>4. At(c, "deleteWrite")
    BY <1>1, <2>1, <2>2, <2>3 DEF CredInv, TypeOK, At, Document
  <2>5. Removes(cmd[c], file, state)
    BY <1>1 DEF CredInv, Fine
  <2>6. cmd[c].stale
    BY <1>1, <2>2, <2>3, <2>4, <2>5 DEF Removes, Deleting, At
  <2> QED BY <2>3, <2>6
<1>2. CredInv /\ [Next]_vars
      => [\A h \in Host :
            file[h] # None /\ file'[h] = None /\ state[file[h]] = "live" /\ ~lost'
              => \E c \in Cli : cmd[c].host = h /\ cmd[c].stale]_vars
  BY <1>1
<1> QED BY <1>2, CredInvariant, PTL DEF Spec, LiveNotRemoved

=============================================================================
