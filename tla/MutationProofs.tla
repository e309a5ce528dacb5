---------------------------- MODULE MutationProofs ----------------------------
(***************************************************************************)
(* What the commands that change a workspace guarantee for every number of *)
(* workspaces, keys, changes by others and ticks.                          *)
(***************************************************************************)
EXTENDS Mutation, TLAPS

-----------------------------------------------------------------------------
(* The inductive invariant, in parts.                                      *)

\* The command and what the user was told go together: a key that the CLI made
\* belongs to a first run, the ETag given is the one of the guidance, a task and
\* a bulk stop have none, and a task is over when its answer was printed.
RunInv ==
  /\ given \subseteq used
  /\ told.status # "new" => told.key \in Key
  /\ cmd.at = "idle" => ~cmd.seen
  /\ cmd.at # "idle" =>
       /\ cmd.key \in Key /\ cmd.key = told.key
       /\ ~cmd.given => told.status \in {"new", "refused"} /\ ~cmd.pinned
       /\ IF cmd.pinned THEN told.etag # None /\ cmd.etag = told.etag ELSE told.etag = None
  /\ ~want.fenced => told.etag = None /\ (~want.task => cmd.etag = None)
  /\ cmd.reply # "none" => cmd.at = "sent"
  /\ cmd.at \in {"children", "show", "wait"} => cmd.seen
  /\ want.task /\ cmd.seen => cmd.at = "out" /\ cmd.result = "ok"

\* Requests carry ETags that are no newer than what the user is told to replay.
FenceInv ==
  want.fenced =>
    /\ cmd.at = "send" => cmd.etag # None
    /\ told.etag # None => told.etag <= rev
    /\ cmd.etag # None => cmd.etag <= rev
    /\ \A r \in net : /\ r.etag # None /\ r.etag <= rev
                      /\ told.etag # None => r.etag <= told.etag
                      /\ cmd.etag # None => r.etag <= cmd.etag

\* A known key stands for every workspace wanted; only a bulk stop is refused
\* in part.
KnownInv ==
  \A k \in Key : Known(k) => \A d \in want.targets :
    op[k][d] # "none" /\ (op[k][d] = "refused" => Bulk)

Done(d) == IF want.waits THEN op[cmd.key][d] = "succeeded" ELSE Taken(op[cmd.key][d])

\* Where the command is, and which workspaces it still has to handle.
ShapeInv ==
  /\ cmd.at = "sent" /\ cmd.reply = "accepted" => Known(cmd.key)
  /\ cmd.at \in {"read", "send", "sent"} => cmd.child = None
  /\ cmd.at \in {"children", "show", "wait"} => Known(cmd.key)
  /\ cmd.at = "children" => Bulk /\ cmd.todo \subseteq want.targets
  /\ cmd.at \in {"show", "wait"} =>
       /\ want.waits
       /\ IF Bulk THEN cmd.child \in want.targets /\ cmd.todo \subseteq want.targets
                  ELSE cmd.child = None
  /\ cmd.at = "show" => Bulk

\* A wait that ended has read the status that its operation still has.
FinalInv ==
  /\ cmd.at = "wait" /\ wait.at = "final"
       => \A d \in want.targets : cmd.child \in {None, d} => op[cmd.key][d] = wait.last
  /\ wait.at = "final" => wait.last \in Terminal

\* What the result so far says of the workspaces handled so far.
ResultInv ==
  /\ cmd.at = "children" /\ cmd.result = "ok" => \A d \in want.targets \ cmd.todo : Done(d)
  /\ cmd.at \in {"show", "wait"} /\ Bulk /\ cmd.result = "ok"
       => \A d \in want.targets \ (cmd.todo \cup {cmd.child}) : Done(d)
  /\ cmd.at = "out" /\ cmd.result = "ok" => \A d \in want.targets : Done(d)

DoneInv == ShapeInv /\ FinalInv /\ ResultInv

\* The sleep lasts as long as the Retry-After that is heard of asks, or to the
\* deadline.
PauseInv ==
  wait.at = "sleep" => wait.hold <= wait.pause \/ wait.left <= wait.pause \/ ~Hears

\* Nothing was done and nothing is on its way.
Nothing == \A k \in Key : ~Known(k)
Quiet   == net = {} /\ Nothing

\* A first run, or one after definite refusals, owns all there is.
FirstInv ==
  told.status \in {"new", "refused"} /\ ~cmd.seen =>
    /\ cmd.at \in {"idle", "read", "send"} => Quiet
    /\ cmd.at = "sent" =>
         \/ /\ Nothing
            /\ \A r \in net : r.key = cmd.key /\ r.etag = cmd.etag /\ cmd.reply = "none"
            /\ cmd.reply # "accepted"
         \/ /\ net = {} /\ \A k \in Key : Known(k) => k = cmd.key
            /\ cmd.reply \in {"none", "accepted"}
    /\ cmd.at = "out" => cmd.result \in {"unknown", "confirm"} \/ Quiet

\* Everything that happened, or may still, does so under the key the user knows.
KeyInv ==
  used \subseteq given \/ want.task =>
    /\ \A r \in net : r.key = told.key
    /\ \A k \in Key : Known(k) => k = told.key

-----------------------------------------------------------------------------
(* Types, and the command and what the user was told.                      *)

LEMMA IdleTyped ==
  /\ Idle \in Cmd /\ Idle.at = "idle" /\ ~Idle.seen /\ Idle.reply = "none"
  /\ Idle.etag = None /\ Idle.child = None /\ ~Idle.pinned
  /\ NoWait \in Wait /\ NoWait.at = "off"
BY MutationAssumption, WaitAssumption
DEF Idle, Cmd, Reply, Result, NoWait, Wait, Terminal

\* A command that ends keeps all but its place, its result and its reply.
Ending(r) ==
  /\ cmd' \in Cmd /\ cmd'.at = "out" /\ cmd'.result = r /\ cmd'.reply = "none"
  /\ cmd'.key = cmd.key /\ cmd'.given = cmd.given /\ cmd'.etag = cmd.etag
  /\ cmd'.pinned = cmd.pinned /\ cmd'.opted = cmd.opted /\ cmd'.seen = cmd.seen

LEMMA Ends ==
  ASSUME cmd \in Cmd, NEW r \in Result, End(r)
  PROVE  Ending(r)
BY DEF End, Ending, Cmd, Reply

LEMMA OutcomeTyped == \A s : Outcome(s) \in Result
BY DEF Outcome, Result

LEMMA EnteredTyped ==
  ASSUME NEW s, NEW n \in 0..MaxPause, NEW l \in 0..Limit,
         NEW f \in {"answer", "poll"}
  PROVE  Entered(s, n, l, f) \in Wait
BY WaitAssumption DEF Entered, Wait, IsTerminal, Terminal

LEMMA AnnounceTyped ==
  ASSUME TypeOK, RunInv, NEW k \in Key, NEW g \in BOOLEAN, Announce(k, g)
  PROVE  /\ used' \in SUBSET Key /\ given' \in SUBSET Key /\ told' \in Told
         /\ told'.key = k /\ told'.etag = None /\ told'.status = told.status
         /\ want' = want /\ given' \subseteq used'
         /\ k \in used' /\ (~g => k \notin given')
<1>1. want.opted \in BOOLEAN
  BY MutationAssumption DEF TypeOK, Want
<1> QED BY <1>1 DEF Announce, TypeOK, RunInv, Told, Fresh

RunType == TypeOK /\ RunInv

LEMMA UserRuns ==
  ASSUME RunType, Start \/ Rerun \/ Kill \/ Relogin \/ Exit
  PROVE  RunType'
<1> USE DEF RunType
<1>0. want \in Want /\ told \in Told /\ cmd \in Cmd
  BY MutationAssumption DEF TypeOK
<1>1. CASE Start
  <2>1. PICK k \in Key, g \in BOOLEAN :
          /\ Announce(k, g)
          /\ cmd' = [Idle EXCEPT !.at = "read", !.key = k, !.given = g, !.opted = want.opted]
    BY <1>1 DEF Start
  <2>2. /\ cmd' \in Cmd /\ cmd'.at = "read" /\ cmd'.key = k /\ ~cmd'.seen /\ ~cmd'.pinned
        /\ cmd'.reply = "none" /\ cmd'.etag = None
    BY <1>0, <2>1, IdleTyped DEF Cmd, Want
  <2>3. /\ want' = want /\ given' \subseteq used' /\ told'.key = k /\ told'.etag = None
        /\ told'.status = told.status
        /\ used' \in SUBSET Key /\ given' \in SUBSET Key /\ told' \in Told
    BY <2>1, AnnounceTyped
  <2>4. TypeOK'
    BY <1>1, <2>2, <2>3 DEF Start, server, TypeOK
  <2>5. RunInv'
    BY <1>1, <2>2, <2>3 DEF Start, RunInv
  <2> QED BY <2>4, <2>5
<1>2. CASE Rerun
  <2> DEFINE p == told.etag # None
             r == [Idle EXCEPT !.at = "read", !.key = told.key, !.given = TRUE,
                         !.etag = told.etag, !.pinned = p, !.opted = told.opted]
  <2>1. p \in BOOLEAN
    OBVIOUS
  <2>2. cmd' = r
    BY <1>2 DEF Rerun
  <2> HIDE DEF p
  <2>3. r \in Cmd /\ r.at = "read" /\ r.key = told.key /\ r.given /\ r.etag = told.etag
        /\ r.pinned = p /\ ~r.seen /\ r.reply = "none"
    BY <1>0, <2>1, IdleTyped DEF Cmd, Told
  <2> HIDE DEF r
  <2> USE DEF p
  <2> QED BY <1>2, <2>2, <2>3 DEF Rerun, MustReplay, server, user, TypeOK, RunInv
<1>3. CASE Kill
  <2>1. told' \in Told /\ told'.key = told.key
    BY <1>0, <1>3 DEF Kill, Told
  <2> QED BY <1>3, <2>1, IdleTyped DEF Kill, server, TypeOK, RunInv
<1>4. CASE Relogin
  <2>1. PICK k \in Key :
          /\ \/ cmd.given /\ k = cmd.key /\ UNCHANGED user
             \/ ~cmd.given /\ Announce(k, FALSE)
          /\ cmd' = [Idle EXCEPT !.at = "read", !.key = k, !.given = cmd.given,
                       !.pinned = cmd.pinned,
                       !.etag = IF cmd.pinned THEN cmd.etag ELSE None,
                       !.opted = cmd.opted, !.again = TRUE, !.seen = cmd.seen]
    BY <1>4 DEF Relogin
  <2> DEFINE e == IF cmd.pinned THEN cmd.etag ELSE None
  <2>2. e \in Rev \cup {None}
    BY <1>0 DEF Cmd
  <2>3. cmd' = [Idle EXCEPT !.at = "read", !.key = k, !.given = cmd.given,
                       !.pinned = cmd.pinned, !.etag = e,
                       !.opted = cmd.opted, !.again = TRUE, !.seen = cmd.seen]
    BY <2>1
  <2> HIDE DEF e
  <2>4. /\ cmd' \in Cmd /\ cmd'.at = "read" /\ cmd'.key = k /\ cmd'.given = cmd.given
        /\ cmd'.pinned = cmd.pinned /\ cmd'.etag = e /\ cmd'.seen = cmd.seen
        /\ cmd'.reply = "none"
    BY <1>0, <2>2, <2>3, IdleTyped DEF Cmd
  <2> USE DEF e
  <2>5. CASE cmd.given /\ k = cmd.key /\ UNCHANGED user
    <3>1. TypeOK'
      BY <1>4, <2>4, <2>5 DEF Relogin, server, user, TypeOK
    <3>2. RunInv'
      BY <1>4, <2>4, <2>5, ZenonT(40) DEF Relogin, user, RunInv
    <3> QED BY <3>1, <3>2
  <2>6. CASE ~cmd.given /\ Announce(k, FALSE)
    BY <1>4, <2>4, <2>6, AnnounceTyped DEF Relogin, server, TypeOK, RunInv
  <2> QED BY <2>1, <2>5, <2>6
<1>5. CASE Exit
  <2>1. cmd.key \in Key /\ cmd.key = told.key
    BY <1>5 DEF Exit, RunInv
  <2>2. told' \in Told /\ told'.key = told.key /\ (~want.fenced => told'.etag = None)
    <3>1. CASE cmd.seen
      BY <1>0, <1>5, <3>1 DEF Exit, Told, RunInv
    <3>2. CASE ~cmd.seen /\ cmd.result \in {"unknown", "confirm"}
      <4>1. /\ Guide(cmd.result) \in Told /\ Guide(cmd.result).key = cmd.key
            /\ Guide(cmd.result).etag = IF want.task THEN None ELSE cmd.etag
        BY <1>0, <2>1, <3>2 DEF Guide, TaskGuide, Told, Cmd
      <4> QED BY <1>5, <2>1, <3>2, <4>1 DEF Exit, RunInv
    <3>3. CASE ~cmd.seen /\ cmd.result \notin {"unknown", "confirm"}
      BY <1>0, <1>5, <3>3 DEF Exit, Told, RunInv
    <3> QED BY <3>1, <3>2, <3>3
  <2>3. TypeOK'
    BY <1>5, <2>2, IdleTyped DEF Exit, server, TypeOK
  <2>4. RunInv'
    BY <1>5, <2>1, <2>2, IdleTyped DEF Exit, RunInv
  <2> QED BY <2>3, <2>4
<1> QED BY <1>1, <1>2, <1>3, <1>4, <1>5

\* A step of the command that is no new run keeps what a run is.
SameRun ==
  /\ cmd' \in Cmd /\ cmd'.key = cmd.key /\ cmd'.given = cmd.given
  /\ cmd'.pinned = cmd.pinned /\ (cmd.pinned => cmd'.etag = cmd.etag)

LEMMA RequestRuns ==
  ASSUME RunType, RequestStep
  PROVE  RunType'
<1> USE DEF RunType
<1>0. cmd \in Cmd /\ want \in Want /\ cmd.key \in Key
  BY MutationAssumption DEF TypeOK, RunInv, RequestStep, ReadState, ReadTask, ReadFails, Send
<1>1. CASE ReadState \/ ReadTask
  <2> DEFINE e == IF want.task THEN IF cmd.opted THEN None ELSE rev
                  ELSE IF want.fenced /\ ~cmd.pinned THEN rev ELSE cmd.etag
  <2>1. want.task => ~want.fenced
    BY MutationAssumption DEF TypeOK
  <2>2. e \in Rev \cup {None} /\ (cmd.pinned => e = cmd.etag)
        /\ (~want.fenced /\ ~want.task => e = None)
    BY <1>0, <1>1, <2>1 DEF ReadState, ReadTask, TypeOK, RunInv, Cmd
  <2>3. cmd' = [cmd EXCEPT !.at = "send", !.etag = e]
    BY <1>1 DEF ReadState, ReadTask
  <2> HIDE DEF e
  <2>4. SameRun /\ cmd'.at = "send" /\ cmd'.seen = cmd.seen /\ cmd'.reply = cmd.reply
        /\ cmd'.etag = e
    BY <1>0, <2>2, <2>3 DEF SameRun, Cmd
  <2> QED BY <1>1, <2>2, <2>4 DEF ReadState, ReadTask, SameRun, server, user, TypeOK, RunInv
<1>2. CASE ReadFails
  <2>1. \E r \in Result : Ending(r) /\ r # "ok"
    BY <1>0, <1>2, Ends DEF ReadFails, Result
  <2> QED BY <1>2, <2>1 DEF ReadFails, Ending, server, user, TypeOK, RunInv
<1>3. CASE Send
  <2>1. /\ SameRun /\ cmd'.at = "sent" /\ cmd'.seen = cmd.seen /\ cmd'.reply = cmd.reply
        /\ cmd'.etag = cmd.etag
    BY <1>0, <1>3 DEF Send, SameRun, Cmd
  <2>2. [key |-> cmd.key, etag |-> cmd.etag] \in Request
    BY <1>0 DEF Request, Cmd
  <2> QED BY <1>3, <2>1, <2>2 DEF Send, SameRun, server, user, TypeOK, RunInv
<1> QED BY <1>1, <1>2, <1>3 DEF RequestStep

\* An answer that arrives is all that happens to the command.
Answered ==
  \/ cmd' = cmd
  \/ /\ cmd.at = "sent" /\ cmd.reply = "none"
     /\ SameRun /\ cmd'.at = "sent" /\ cmd'.etag = cmd.etag /\ cmd'.seen = cmd.seen
     /\ cmd'.child = cmd.child

LEMMA Answers ==
  ASSUME cmd \in Cmd, NEW r, NEW s \in Reply, Answer(r, s)
  PROVE  /\ Answered
         /\ \/ cmd' = cmd
            \/ cmd'.reply = s /\ cmd.key = r.key /\ cmd.etag = r.etag
         /\ cmd.at = "sent" /\ cmd.key = r.key /\ cmd.etag = r.etag /\ cmd.reply = "none"
              => cmd'.reply = s
BY DEF Answer, Answered, SameRun, Cmd

LEMMA NetworkRuns ==
  ASSUME RunType, NEW r \in net, NetworkStep(r)
  PROVE  RunType'
<1> USE DEF RunType
<1>1. Answered
  <2>1. \/ \E s \in Reply : Answer(r, s)
        \/ cmd' = cmd
    BY DEF NetworkStep, ArriveAgain, ArriveConflict, ArriveNew, ArriveRefused, ArriveNever, Reply
  <2> QED BY <2>1, Answers DEF TypeOK, Answered
<1>2. /\ UNCHANGED <<user, wait>> /\ net' \subseteq net /\ rev' \in Rev
      /\ op' \in [Key -> [Daemon -> Status \cup {"none", "refused"}]]
      /\ made' \in [Key -> Rev \cup {None}]
  <2>1. CASE ArriveNew(r)
    <3>1. PICK A \in SUBSET want.targets :
            op' = [op EXCEPT ![r.key] = [d \in Daemon |->
                     IF d \in A THEN "running"
                     ELSE IF d \in want.targets THEN "refused" ELSE "none"]]
      BY <2>1 DEF ArriveNew
    <3>2. op' \in [Key -> [Daemon -> Status \cup {"none", "refused"}]]
      BY <3>1 DEF TypeOK, Status
    <3>3. rev' \in Rev
      BY <2>1, MutationAssumption DEF ArriveNew, TypeOK, Rev
    <3>4. r.etag \in Rev \cup {None}
      BY DEF TypeOK, Request
    <3> QED BY <2>1, <3>2, <3>3, <3>4 DEF ArriveNew, TypeOK
  <2> QED BY <2>1 DEF NetworkStep, ArriveAgain, ArriveConflict, ArriveRefused, ArriveNever,
                      server, TypeOK
<1>3. TypeOK'
  BY <1>1, <1>2 DEF TypeOK, Answered, SameRun, user
<1>4. RunInv'
  BY <1>1, <1>2 DEF RunInv, Answered, SameRun, user
<1> QED BY <1>3, <1>4

\* What the commands do with an answer, and with what they wait for.
LEMMA WaitResultTyped ==
  ASSUME wait \in Wait, WaitOver
  PROVE  WaitResult \in Result
BY OutcomeTyped DEF WaitOver, WaitResult, Result

LEMMA AnswerRuns ==
  ASSUME RunType, AnswerStep \/ BrokenOff
  PROVE  RunType'
<1> USE DEF RunType
<1>0. cmd \in Cmd /\ want \in Want /\ UNCHANGED <<server, net, user>>
  BY MutationAssumption DEF TypeOK, AnswerStep, AnswerOne, AnswerBulk, AnswerTask,
     AnswerRefused, OutcomeUnknown, BrokenOff
<1>1. ASSUME SameRun, cmd'.at # "idle", cmd.at # "idle", cmd'.reply = "none", cmd'.etag = cmd.etag,
             cmd'.at \in {"children", "show", "wait"} => cmd'.seen,
             want.task /\ cmd'.seen => cmd'.at = "out" /\ cmd'.result = "ok",
             wait' \in Wait
      PROVE  RunType'
  <2>1. TypeOK'
    BY <1>0, <1>1 DEF TypeOK, SameRun, server, user
  <2>2. RunInv'
    BY <1>0, <1>1 DEF RunInv, SameRun, server, user
  <2> QED BY <2>1, <2>2
<1>2. CASE AnswerOne
  <2>1. PICK d \in want.targets, retry \in 0..MaxPause :
          IF want.waits
          THEN /\ cmd' = [cmd EXCEPT !.at = "wait", !.seen = TRUE, !.reply = "none"]
               /\ wait' = Entered(op[cmd.key][d], retry, Limit, "answer")
          ELSE /\ cmd' = [cmd EXCEPT !.at = "out", !.seen = TRUE, !.reply = "none",
                                     !.result = Outcome(op[cmd.key][d])]
               /\ UNCHANGED wait
    BY <1>2 DEF AnswerOne
  <2> DEFINE o == Outcome(op[cmd.key][d])
  <2>2. o \in Result
    BY OutcomeTyped
  <2>3. wait' \in Wait
    BY <2>1, EnteredTyped, WaitAssumption DEF TypeOK
  <2>4. CASE want.waits
    <3>1. cmd' = [cmd EXCEPT !.at = "wait", !.seen = TRUE, !.reply = "none"]
      BY <2>1, <2>4
    <3>2. SameRun /\ cmd'.at = "wait" /\ cmd'.reply = "none" /\ cmd'.etag = cmd.etag /\ cmd'.seen
      BY <1>0, <3>1 DEF SameRun, Cmd, Reply
    <3>3. cmd.at = "sent" /\ ~want.task
      BY <1>2 DEF AnswerOne
    <3> QED BY <1>1, <2>3, <3>2, <3>3
  <2>5. CASE ~want.waits
    <3>1. cmd' = [cmd EXCEPT !.at = "out", !.seen = TRUE, !.reply = "none", !.result = o]
      BY <2>1, <2>5
    <3> HIDE DEF o
    <3>2. SameRun /\ cmd'.at = "out" /\ cmd'.reply = "none" /\ cmd'.etag = cmd.etag
      BY <1>0, <2>2, <3>1 DEF SameRun, Cmd, Reply
    <3> QED BY <1>1, <1>2, <2>3, <3>2 DEF AnswerOne
  <2> QED BY <2>4, <2>5
<1>3. CASE AnswerBulk
  <2>1. want.targets \in SUBSET Daemon /\ Limit \in 0..Limit
    BY <1>0, WaitAssumption DEF Want
  <2>2. /\ SameRun /\ cmd'.at = "children" /\ cmd'.reply = "none" /\ cmd'.etag = cmd.etag
        /\ cmd'.seen
    BY <1>0, <1>3, <2>1 DEF AnswerBulk, SameRun, Cmd, Reply
  <2>3. ~want.task
    <3>1. ASSUME want.task PROVE \E d \in Daemon : want.targets = {d}
      BY <3>1, MutationAssumption DEF TypeOK
    <3> QED BY <1>3, <3>1 DEF AnswerBulk, Bulk
  <2> QED BY <1>1, <1>3, <2>2, <2>3 DEF AnswerBulk, TypeOK
<1>4. CASE AnswerTask
  <2>1. /\ SameRun /\ cmd'.at = "out" /\ cmd'.reply = "none" /\ cmd'.etag = cmd.etag
        /\ cmd'.result = "ok"
    BY <1>0, <1>4 DEF AnswerTask, SameRun, Cmd, Reply, Result
  <2> QED BY <1>1, <1>4, <2>1 DEF AnswerTask, TypeOK
<1>5. CASE AnswerRefused \/ OutcomeUnknown \/ BrokenOff
  <2>1. PICK r \in Result : Ending(r)
    BY <1>0, <1>5, Ends DEF AnswerRefused, OutcomeUnknown, BrokenOff, Result
  <2> QED BY <1>1, <1>5, <2>1
          DEF AnswerRefused, OutcomeUnknown, BrokenOff, Ending, SameRun, TypeOK, RunInv
<1> QED BY <1>2, <1>3, <1>4, <1>5 DEF AnswerStep

\* The commands that read, or wait for, several operations.
ChildFields ==
  /\ SameRun /\ cmd'.etag = cmd.etag /\ cmd'.reply = cmd.reply /\ cmd'.seen = cmd.seen

LEMMA PassFields ==
  ASSUME RunType, PassChild
  PROVE  /\ ChildFields /\ cmd'.at = "children" /\ cmd'.todo = cmd.todo \ {Following}
         /\ cmd'.result = IF op[cmd.key][Following] = "refused" /\ cmd.result = "ok"
                          THEN "failed" ELSE cmd.result
<1> DEFINE res == IF op[cmd.key][Following] = "refused" /\ cmd.result = "ok"
                  THEN "failed" ELSE cmd.result
<1>1. cmd \in Cmd
  BY DEF RunType, TypeOK
<1>2. res \in Result
  BY <1>1 DEF Cmd, Result
<1>3. cmd' = [cmd EXCEPT !.todo = cmd.todo \ {Following}, !.result = res]
  BY <1>1 DEF PassChild, Cmd
<1> HIDE DEF res
<1>4. ChildFields /\ cmd'.at = cmd.at /\ cmd'.todo = cmd.todo \ {Following} /\ cmd'.result = res
  BY <1>1, <1>2, <1>3 DEF ChildFields, SameRun, Cmd
<1> QED BY <1>4 DEF PassChild, res

LEMMA FollowingIn ==
  ASSUME cmd.todo # {}
  PROVE  Following \in cmd.todo
BY DEF Following

LEMMA ShowFields ==
  ASSUME RunType, ShowChild, cmd.total # 0
  PROVE  /\ ChildFields /\ cmd'.at = "show" /\ cmd'.todo = cmd.todo \ {Following}
         /\ cmd'.child = Following /\ cmd'.result = cmd.result
         /\ wait' = [NoWait EXCEPT !.left = cmd.total]
         /\ wait' \in Wait /\ wait'.at = "off"
<1>1. cmd \in Cmd /\ cmd.total \in 0..Limit /\ cmd.todo \subseteq Daemon
  BY DEF RunType, TypeOK, Cmd
<1>2. Following \in Daemon
  BY <1>1, FollowingIn DEF ShowChild
<1>3. cmd' = [cmd EXCEPT !.at = "show", !.todo = cmd.todo \ {Following},
                         !.child = Following, !.total = 0]
  BY DEF ShowChild
<1>4. 0 \in 0..Limit
  BY WaitAssumption
<1>5. /\ ChildFields /\ cmd'.at = "show" /\ cmd'.todo = cmd.todo \ {Following}
      /\ cmd'.child = Following /\ cmd'.result = cmd.result
  BY <1>1, <1>2, <1>3, <1>4 DEF ChildFields, SameRun, Cmd
<1>6. wait' = [NoWait EXCEPT !.left = cmd.total]
  BY DEF ShowChild
<1>7. wait' \in Wait /\ wait'.at = "off"
  BY <1>1, <1>6, IdleTyped DEF Wait
<1> QED BY <1>5, <1>6, <1>7

LEMMA AnswersFields ==
  ASSUME RunType, ShowAnswers
  PROVE  /\ ChildFields /\ cmd'.at = "wait" /\ cmd'.todo = cmd.todo
         /\ cmd'.child = cmd.child /\ cmd'.result = cmd.result
BY DEF RunType, TypeOK, ShowAnswers, ChildFields, SameRun, Cmd

LEMMA WaitedFields ==
  ASSUME RunType, WaitedChild
  PROVE  /\ ChildFields /\ cmd'.child = None /\ cmd'.todo = cmd.todo
         /\ cmd'.at = IF WaitResult = "unknown" THEN "out" ELSE "children"
         /\ cmd'.result = IF WaitResult = "ok" THEN cmd.result ELSE WaitResult
<1> DEFINE l == IF WaitResult = "unknown" THEN "out" ELSE "children"
           res == IF WaitResult = "ok" THEN cmd.result ELSE WaitResult
<1>1. cmd \in Cmd /\ wait \in Wait /\ wait.left \in 0..Limit
  BY DEF RunType, TypeOK, Wait
<1>2. l \in {"out", "children"} /\ res \in Result
  BY <1>1, WaitResultTyped DEF WaitedChild, Cmd
<1>3. cmd' = [cmd EXCEPT !.at = l, !.child = None, !.total = wait.left, !.result = res]
  BY DEF WaitedChild
<1> HIDE DEF l, res
<1>4. /\ ChildFields /\ cmd'.child = None /\ cmd'.todo = cmd.todo /\ cmd'.at = l
      /\ cmd'.result = res
  BY <1>1, <1>2, <1>3 DEF ChildFields, SameRun, Cmd
<1> QED BY <1>4 DEF l, res

LEMMA BulkRuns ==
  ASSUME RunType, BulkStep
  PROVE  RunType'
<1> USE DEF RunType
<1>0. cmd \in Cmd /\ wait \in Wait /\ UNCHANGED <<server, net, user>>
      /\ cmd.at \in {"children", "show", "wait"}
  BY DEF TypeOK, BulkStep, PassChild, ShowChild, ShowAnswers, ShowFails,
         WaitOver, WaitedChild, AllChildren
<1>1. ASSUME SameRun, cmd'.at # "idle", cmd'.reply = "none", cmd'.etag = cmd.etag,
             cmd'.seen = cmd.seen, wait' \in Wait
      PROVE  RunType'
  <2>1. TypeOK'
    BY <1>0, <1>1 DEF TypeOK, SameRun, server, user
  <2>2. RunInv'
    BY <1>0, <1>1 DEF RunInv, SameRun, server, user
  <2> QED BY <2>1, <2>2
<1>2. cmd.reply = "none"
  BY <1>0 DEF RunInv
<1>3. ASSUME NEW r \in Result, End(r), wait' \in Wait PROVE RunType'
  <2>1. Ending(r)
    BY <1>0, <1>3, Ends
  <2> QED BY <1>1, <1>3, <2>1 DEF Ending, SameRun
<1>4. CASE PassChild
  BY <1>1, <1>2, <1>4, PassFields DEF ChildFields, PassChild, TypeOK
<1>5. CASE ShowChild
  <2>1. CASE cmd.total = 0
    BY <1>0, <1>3, <1>5, <2>1 DEF ShowChild, Result
  <2> QED BY <1>1, <1>2, <1>5, <2>1, ShowFields DEF ChildFields
<1>6. CASE ShowAnswers
  <2>1. wait' \in Wait
    BY <1>0, <1>6, EnteredTyped DEF ShowAnswers, Wait
  <2> QED BY <1>1, <1>2, <1>6, <2>1, AnswersFields DEF ChildFields
<1>7. CASE ShowFails
  BY <1>3, <1>7, IdleTyped DEF ShowFails, Result
<1>8. CASE WaitedChild
  BY <1>1, <1>2, <1>8, WaitedFields, IdleTyped DEF ChildFields, WaitedChild
<1>9. CASE AllChildren
  BY <1>0, <1>3, <1>9 DEF AllChildren, Cmd
<1> QED BY <1>4, <1>5, <1>6, <1>7, <1>8, <1>9 DEF BulkStep

\* The wait, and everything that is no step of the command.
LEMMA WaitTypes ==
  ASSUME wait \in Wait, WaitStep \/ Tick
  PROVE  wait' \in Wait
<1>0. /\ wait.left \in 0..Limit /\ wait.pause \in 0..Limit /\ wait.hold \in 0..MaxPause
      /\ wait.last \in Terminal \cup {"running"}
  BY DEF Wait
<1>1. CASE Loop(Hears)
  <2>1. CASE wait.left = 0
    BY <1>1, <2>1 DEF Loop, Wait
  <2>2. CASE wait.left # 0
    <3>1. PICK p \in IF Hears /\ wait.hold > 0 THEN {wait.hold} ELSE 1..MaxPause :
            wait' = [wait EXCEPT !.at = "sleep", !.pause = Least(p, wait.left)]
      BY <1>1, <2>2 DEF Loop
    <3> DEFINE n == Least(p, wait.left)
    <3>2. n \in 0..Limit
      BY <1>0, WaitAssumption DEF Least
    <3>3. wait' = [wait EXCEPT !.at = "sleep", !.pause = n]
      BY <3>1
    <3> HIDE DEF n
    <3> QED BY <3>2, <3>3 DEF Wait
  <2> QED BY <2>1, <2>2
<1>2. CASE Awake
  <2>1. PICK a \in {"late", "poll"} : wait' = [wait EXCEPT !.at = a]
    BY <1>2 DEF Awake
  <2> QED BY <2>1 DEF Wait
<1>3. CASE PollFails
  <2>1. PICK a \in {"error", "unauth", "late"} : wait' = [wait EXCEPT !.at = a]
    BY <1>3 DEF PollFails
  <2> QED BY <2>1 DEF Wait
<1>4. ASSUME NEW s, NEW n \in 0..MaxPause, PollAnswers(s, n) PROVE wait' \in Wait
  BY <1>0, <1>4, EnteredTyped DEF PollAnswers
<1>5. CASE WaitTicks
  <2>1. /\ Down(wait.left) \in 0..Limit /\ Down(wait.pause) \in 0..Limit
        /\ Down(wait.hold) \in 0..MaxPause
    BY <1>0, WaitAssumption DEF Down
  <2> DEFINE a == Down(wait.left)
             b == Down(wait.pause)
             h == Down(wait.hold)
  <2>2. wait' = [wait EXCEPT !.left = a, !.pause = b, !.hold = h]
    BY <1>5 DEF WaitTicks
  <2>3. a \in 0..Limit /\ b \in 0..Limit /\ h \in 0..MaxPause
    BY <2>1
  <2> HIDE DEF a, b, h
  <2> QED BY <2>2, <2>3 DEF Wait
<1> QED BY <1>1, <1>2, <1>3, <1>4, <1>5 DEF WaitStep, Tick

LEMMA OtherRuns ==
  ASSUME RunType,
         \/ WaitStep \/ Tick \/ WaitedOne \/ OthersChange
         \/ (\E k \in Key, d \in Daemon : OpMoves(k, d))
         \/ UNCHANGED vars
  PROVE  RunType'
<1> USE DEF RunType
<1>1. CASE WaitStep \/ Tick
  <2>1. UNCHANGED <<server, net, user, cmd>> /\ wait' \in Wait
    BY <1>1, WaitTypes DEF WaitStep, Tick, TypeOK
  <2>2. TypeOK'
    BY <2>1 DEF TypeOK, server, user
  <2>3. RunInv'
    BY <2>1 DEF RunInv, user
  <2> QED BY <2>2, <2>3
<1>2. CASE WaitedOne
  <2>1. Ending(WaitResult)
    BY <1>2, Ends, WaitResultTyped DEF WaitedOne, TypeOK
  <2>2. UNCHANGED <<server, net, user>> /\ wait' \in Wait /\ cmd.at = "wait" /\ cmd.seen
    BY <1>2, IdleTyped DEF WaitedOne, WaitOver, RunInv
  <2>3. TypeOK'
    BY <2>1, <2>2 DEF Ending, TypeOK, server, user
  <2>4. RunInv'
    BY <2>1, <2>2 DEF Ending, RunInv, user
  <2> QED BY <2>3, <2>4
<1>3. CASE OthersChange
  <2>1. rev' \in Rev /\ UNCHANGED <<op, made, net, user, cmd, wait>>
    BY <1>3, MutationAssumption DEF OthersChange, TypeOK, Rev
  <2>2. TypeOK'
    BY <2>1 DEF TypeOK, user
  <2>3. RunInv'
    BY <2>1 DEF RunInv, user
  <2> QED BY <2>2, <2>3
<1>4. ASSUME NEW k \in Key, NEW d \in Daemon, OpMoves(k, d) PROVE RunType'
  <2>1. PICK s \in Status \ {"running"} : op' = [op EXCEPT ![k][d] = s]
    BY <1>4 DEF OpMoves
  <2>2. op' \in [Key -> [Daemon -> Status \cup {"none", "refused"}]]
    BY <2>1 DEF TypeOK
  <2>3. TypeOK'
    BY <1>4, <2>2 DEF OpMoves, TypeOK, user
  <2>4. RunInv'
    BY <1>4 DEF OpMoves, RunInv, user
  <2> QED BY <2>3, <2>4
<1>5. CASE UNCHANGED vars
  <2>1. TypeOK'
    BY <1>5 DEF vars, server, user, TypeOK
  <2>2. RunInv'
    BY <1>5 DEF vars, user, RunInv
  <2> QED BY <2>1, <2>2
<1> QED BY <1>1, <1>2, <1>3, <1>4, <1>5

\* The command and what it waits for keep their types in every step.
THEOREM RunInvariant == Spec => []RunType
<1>1. Init => RunType
  <2> SUFFICES ASSUME Init PROVE RunType
    OBVIOUS
  <2>1. told \in Told /\ told.status = "new" /\ told.etag = None
    BY DEF Init, Told
  <2>2. TypeOK
    BY <2>1, IdleTyped, MutationAssumption DEF Init, TypeOK, Rev
  <2> QED BY <2>1, <2>2, IdleTyped DEF Init, RunType, RunInv
<1>2. RunType /\ [Next]_vars => RunType'
  <2> SUFFICES ASSUME RunType, [Next]_vars PROVE RunType'
    OBVIOUS
  <2> QED BY UserRuns, RequestRuns, NetworkRuns, AnswerRuns, BulkRuns, OtherRuns
          DEF Next, CommandStep
<1> QED BY <1>1, <1>2, PTL DEF Spec

\* The command, the wait, the Control Plane's operations and what the user was
\* told keep their types, for any number of workspaces, keys and ticks.
THEOREM MutationTypeCorrect == Spec => []TypeOK
<1>1. RunType => TypeOK
  BY DEF RunType
<1> QED BY <1>1, RunInvariant, PTL

\* What the user wants does not change.
LEMMA WantStays ==
  ASSUME [Next]_vars
  PROVE  want' = want
BY DEF Next, CommandStep, RequestStep, ReadState, ReadTask, ReadFails, Send, AnswerStep,
       AnswerOne, AnswerBulk, AnswerTask, AnswerRefused, OutcomeUnknown, BrokenOff, BulkStep,
       PassChild, ShowChild, ShowAnswers, ShowFails, WaitedChild, AllChildren, WaitStep,
       WaitedOne, Relogin, Exit, Start, Rerun, Kill, Tick, NetworkStep, ArriveAgain,
       ArriveConflict, ArriveNew, ArriveRefused, ArriveNever, OpMoves, OthersChange, Announce,
       vars, user

-----------------------------------------------------------------------------
(* The fence: a replay carries the ETag that the first run had read.       *)

\* Every run starts from the state of a process, with the ETag of the guidance.
LEMMA NewRun ==
  ASSUME RunType, Start \/ Rerun \/ Relogin
  PROVE  /\ cmd'.at = "read" /\ cmd'.child = None /\ cmd'.reply = "none"
         /\ cmd'.etag \in {None, told'.etag}
         /\ UNCHANGED <<server, net, want, wait>>
         /\ \/ Start /\ ~cmd'.seen /\ told'.etag = None
               /\ \E k \in Key, g \in BOOLEAN : Announce(k, g)
            \/ Rerun /\ ~cmd'.seen /\ UNCHANGED user
            \/ Relogin /\ cmd'.seen = cmd.seen /\ cmd.given /\ UNCHANGED user
            \/ Relogin /\ cmd'.seen = cmd.seen /\ ~cmd.given /\ \E k \in Key : Announce(k, FALSE)
<1>0. want \in Want /\ told \in Told /\ cmd \in Cmd
  BY MutationAssumption DEF RunType, TypeOK
<1>1. CASE Start
  <2>1. PICK k \in Key, g \in BOOLEAN :
          /\ Announce(k, g)
          /\ cmd' = [Idle EXCEPT !.at = "read", !.key = k, !.given = g, !.opted = want.opted]
    BY <1>1 DEF Start
  <2>2. /\ cmd'.at = "read" /\ ~cmd'.seen /\ cmd'.reply = "none" /\ cmd'.etag = None
        /\ cmd'.child = None
    BY <2>1, IdleTyped DEF Cmd
  <2>3. told'.etag = None /\ want' = want
    BY <2>1, AnnounceTyped DEF RunType
  <2>4. UNCHANGED <<server, net, want, wait>>
    BY <1>1, <2>3 DEF Start
  <2> QED BY <1>1, <2>1, <2>2, <2>3, <2>4
<1>2. CASE Rerun
  <2> DEFINE p == told.etag # None
  <2>1. cmd' = [Idle EXCEPT !.at = "read", !.key = told.key, !.given = TRUE,
                            !.etag = told.etag, !.pinned = p, !.opted = told.opted]
    BY <1>2 DEF Rerun
  <2> HIDE DEF p
  <2>2. /\ cmd'.at = "read" /\ ~cmd'.seen /\ cmd'.reply = "none" /\ cmd'.etag = told.etag
        /\ cmd'.child = None
    BY <2>1, IdleTyped DEF Cmd
  <2> QED BY <1>2, <2>2 DEF Rerun, user
<1>3. CASE Relogin
  <2> DEFINE e == IF cmd.pinned THEN cmd.etag ELSE None
  <2>1. PICK k \in Key :
          /\ \/ cmd.given /\ k = cmd.key /\ UNCHANGED user
             \/ ~cmd.given /\ Announce(k, FALSE)
          /\ cmd' = [Idle EXCEPT !.at = "read", !.key = k, !.given = cmd.given,
                       !.pinned = cmd.pinned, !.etag = e,
                       !.opted = cmd.opted, !.again = TRUE, !.seen = cmd.seen]
    BY <1>3 DEF Relogin
  <2>2. cmd.pinned => cmd.given /\ cmd.etag = told.etag
    BY <1>3 DEF Relogin, RunType, RunInv
  <2>3. want' = want /\ (cmd.pinned => told' = told)
    BY <2>1, <2>2 DEF user, Announce
  <2>4. e \in {None, told'.etag}
    BY <2>2, <2>3
  <2> HIDE DEF e
  <2>5. /\ cmd'.at = "read" /\ cmd'.seen = cmd.seen /\ cmd'.reply = "none" /\ cmd'.etag = e
        /\ cmd'.child = None
    BY <2>1, IdleTyped DEF Cmd
  <2> QED BY <1>3, <2>1, <2>3, <2>4, <2>5 DEF Relogin
<1> QED BY <1>1, <1>2, <1>3

\* What the user is told of the ETag is what the run carried, or nothing new.
LEMMA ExitTells ==
  ASSUME RunType, Exit
  PROVE  /\ told'.etag \in {told.etag, cmd.etag, None}
         /\ cmd' = Idle
         /\ UNCHANGED <<server, net, want, used, given, wait>>
         /\ told'.status =
              IF cmd.seen THEN "accepted"
              ELSE IF cmd.result \in {"unknown", "confirm"} THEN cmd.result
              ELSE IF told.status = "new" THEN "refused" ELSE told.status
         /\ told'.key = told.key
<1>0. told \in Told /\ cmd.key = told.key
  BY DEF RunType, TypeOK, RunInv, Exit
<1>1. CASE cmd.seen
  BY <1>0, <1>1 DEF Exit, Told
<1>2. CASE ~cmd.seen /\ cmd.result \in {"unknown", "confirm"}
  <2>1. /\ Guide(cmd.result).etag \in {None, cmd.etag} /\ Guide(cmd.result).key = cmd.key
        /\ Guide(cmd.result).status = cmd.result
    BY DEF Guide, TaskGuide
  <2> QED BY <1>0, <1>2, <2>1 DEF Exit
<1>3. CASE ~cmd.seen /\ cmd.result \notin {"unknown", "confirm"}
  <2> DEFINE s == IF told.status = "new" THEN "refused" ELSE told.status
  <2>1. told' = [told EXCEPT !.status = s]
    BY <1>3 DEF Exit
  <2> HIDE DEF s
  <2>2. told'.etag = told.etag /\ told'.key = told.key /\ told'.status = s
    BY <1>0, <2>1 DEF Told
  <2> QED BY <1>3, <2>2 DEF Exit, s
<1> QED BY <1>1, <1>2, <1>3

LEMMA FenceStep ==
  ASSUME RunType, RunType', FenceInv, [Next]_vars
  PROVE  FenceInv'
<1> SUFFICES ASSUME want.fenced PROVE FenceInv'
  BY WantStays DEF FenceInv
<1>0. /\ cmd \in Cmd /\ told \in Told /\ rev \in Nat /\ MaxRev \in Nat /\ None \notin Rev
      /\ cmd.etag \in Rev \cup {None} /\ told.etag \in Rev \cup {None}
      /\ \A r \in net : r \in Request /\ r.etag \in Rev \cup {None}
      /\ ~want.task
  BY MutationAssumption DEF RunType, TypeOK, Cmd, Told, Rev, Request
<1>1. ASSUME net' \subseteq net, rev' \in Nat, rev <= rev', cmd'.at # "send",
             told'.etag \in {None, told.etag, cmd.etag},
             cmd'.etag \in {None, cmd.etag, told'.etag}
      PROVE  FenceInv'
  BY <1>0, <1>1 DEF FenceInv, Rev
<1>2. CASE Start \/ Rerun \/ Relogin
  <2>1. told'.etag \in {None, told.etag}
    BY <1>2, NewRun, AnnounceTyped DEF RunType, user
  <2>2. cmd'.at = "read" /\ cmd'.etag \in {None, told'.etag} /\ UNCHANGED <<rev, net>>
    BY <1>2, NewRun DEF server
  <2> QED BY <1>0, <1>1, <2>1, <2>2
<1>3. CASE Kill
  <2>1. told'.etag = told.etag
    BY <1>0, <1>3 DEF Kill, Told
  <2> QED BY <1>0, <1>1, <1>3, <2>1, IdleTyped DEF Kill, server
<1>4. CASE Exit
  BY <1>0, <1>1, <1>4, ExitTells, IdleTyped DEF server
<1>5. CASE ReadState
  <2> DEFINE e == IF want.fenced /\ ~cmd.pinned THEN rev ELSE cmd.etag
  <2>1. cmd' = [cmd EXCEPT !.at = "send", !.etag = e]
    BY <1>5 DEF ReadState
  <2>2. e # None /\ e \in Rev /\ (e = rev \/ e = cmd.etag)
    BY <1>0, <1>5 DEF ReadState, RunType, RunInv, TypeOK
  <2> HIDE DEF e
  <2>3. cmd'.etag = e /\ UNCHANGED <<rev, net, told>>
    BY <1>0, <1>5, <2>1 DEF ReadState, server, user, Cmd
  <2> QED BY <1>0, <2>2, <2>3 DEF FenceInv, Rev
<1>6. CASE Send
  <2>1. /\ cmd'.at = "sent" /\ cmd'.etag = cmd.etag /\ UNCHANGED <<rev, told>>
        /\ net' = net \cup {[key |-> cmd.key, etag |-> cmd.etag]}
        /\ cmd.etag # None
    BY <1>0, <1>6 DEF Send, server, user, FenceInv, Cmd
  <2>2. told.etag # None => told.etag = cmd.etag
    BY <1>6 DEF Send, RunType, RunInv
  <2> QED BY <1>0, <2>1, <2>2 DEF FenceInv, Rev
<1>7. ASSUME NEW r \in net, NetworkStep(r) PROVE FenceInv'
  <2>1. Answered
    <3>1. \/ \E s \in Reply : Answer(r, s)
          \/ cmd' = cmd
      BY <1>7 DEF NetworkStep, ArriveAgain, ArriveConflict, ArriveNew, ArriveRefused,
                  ArriveNever, Reply
    <3> QED BY <1>0, <3>1, Answers DEF Answered
  <2>2. net' \subseteq net /\ rev' \in Nat /\ rev <= rev' /\ told' = told
    BY <1>0, <1>7 DEF NetworkStep, ArriveAgain, ArriveConflict, ArriveNew, ArriveRefused,
                      ArriveNever, server, user
  <2>3. cmd'.etag = cmd.etag /\ (cmd'.at = "send" => cmd.at = "send")
    BY <2>1 DEF Answered
  <2> QED BY <1>0, <2>2, <2>3 DEF FenceInv, Rev
<1>8. CASE OthersChange
  BY <1>0, <1>8 DEF OthersChange, user, FenceInv, Rev
<1>9. ASSUME UNCHANGED <<rev, net, told>>, cmd'.etag = cmd.etag,
             cmd'.at = "send" => cmd.at = "send"
      PROVE  FenceInv'
  BY <1>0, <1>9 DEF FenceInv
<1>10. CASE ReadFails \/ AnswerRefused \/ OutcomeUnknown \/ BrokenOff
  <2>1. UNCHANGED <<rev, net, told>> /\ \E r \in Result : End(r)
    BY <1>10 DEF ReadFails, AnswerRefused, OutcomeUnknown, BrokenOff, Result, server, user
  <2> QED BY <1>0, <1>9, <2>1, Ends DEF Ending
<1>11. CASE AnswerOne \/ AnswerBulk \/ AnswerTask
  <2>1. UNCHANGED <<rev, net, told>>
    BY <1>11 DEF AnswerOne, AnswerBulk, AnswerTask, server, user
  <2>2. cmd'.etag = cmd.etag /\ cmd'.at # "send"
    <3>1. CASE AnswerOne
      BY <1>0, <3>1 DEF AnswerOne, Cmd
    <3>2. CASE AnswerBulk
      BY <1>0, <3>2 DEF AnswerBulk, Cmd
    <3>3. CASE AnswerTask
      BY <1>0, <3>3 DEF AnswerTask, Cmd
    <3> QED BY <1>11, <3>1, <3>2, <3>3
  <2> QED BY <1>9, <2>1, <2>2
<1>12. CASE BulkStep
  <2>1. UNCHANGED <<rev, net, told>>
    BY <1>12 DEF BulkStep, PassChild, ShowChild, ShowAnswers, ShowFails, WaitedChild,
                 AllChildren, server, user
  <2>2. CASE \E r \in Result : End(r)
    BY <1>0, <1>9, <2>1, <2>2, Ends DEF Ending
  <2>3. CASE ~\E r \in Result : End(r)
    <3>1. PassChild \/ (ShowChild /\ cmd.total # 0) \/ ShowAnswers \/ WaitedChild
      BY <1>0, <1>12, <2>3 DEF BulkStep, ShowChild, ShowFails, AllChildren, Result, Cmd
    <3>2. cmd'.etag = cmd.etag /\ cmd'.at # "send"
      BY <3>1, PassFields, ShowFields, AnswersFields, WaitedFields DEF ChildFields
    <3> QED BY <1>9, <2>1, <3>2
  <2> QED BY <2>2, <2>3
<1>13. CASE WaitedOne
  BY <1>0, <1>9, <1>13, Ends, WaitResultTyped
     DEF WaitedOne, Ending, RunType, TypeOK, server, user
<1>14. CASE WaitStep \/ Tick \/ (\E k \in Key, d \in Daemon : OpMoves(k, d)) \/ UNCHANGED vars
  BY <1>9, <1>14 DEF WaitStep, Tick, OpMoves, vars, server, user
<1>15. ~ReadTask
  BY <1>0 DEF ReadTask
<1> QED
  BY <1>2, <1>3, <1>4, <1>5, <1>6, <1>7, <1>8, <1>10, <1>11, <1>12, <1>13, <1>14, <1>15
  DEF Next, CommandStep, RequestStep, AnswerStep

LEMMA FenceInvariant == Spec => []FenceInv
<1>1. Init => FenceInv
  BY IdleTyped DEF Init, FenceInv
<1>2. RunType /\ RunType' /\ FenceInv /\ [Next]_vars => FenceInv'
  BY FenceStep
<1> QED BY <1>1, <1>2, RunInvariant, PTL DEF Spec

\* What takes effect under a key for the first time.
LEMMA FirstEffect ==
  ASSUME RunType, [Next]_vars, NEW k \in Key, NEW d \in Daemon,
         op[k][d] = "none", op'[k][d] # "none"
  PROVE  \E r \in net : ArriveNew(r)
<1>1. op' # op
  OBVIOUS
<1>2. ASSUME NEW l \in Key, NEW e \in Daemon, OpMoves(l, e) PROVE FALSE
  <2>1. PICK s : op' = [op EXCEPT ![l][e] = s]
    BY <1>2 DEF OpMoves
  <2>2. op[l][e] # "none"
    BY <1>2 DEF OpMoves
  <2> QED BY <2>1, <2>2 DEF RunType, TypeOK
<1> QED
  BY <1>1, <1>2
  DEF Next, CommandStep, RequestStep, ReadState, ReadTask, ReadFails, Send, AnswerStep,
      AnswerOne, AnswerBulk, AnswerTask, AnswerRefused, OutcomeUnknown, BrokenOff, BulkStep,
      PassChild,
      ShowChild, ShowAnswers, ShowFails, WaitedChild, AllChildren, WaitStep, WaitedOne,
      Relogin, Exit, Start, Rerun, Kill, Tick, NetworkStep, ArriveAgain, ArriveConflict,
      ArriveRefused, ArriveNever, OthersChange, vars, server

\* A replay takes effect only on the state that the first run had read, for any
\* number of keys, of late requests and of changes by others (mutationFailure,
\* reconcileGuide).
THEOREM ReplayKeepsStateCorrect == Spec => ReplayKeepsState
<1>1. ASSUME RunType, FenceInv, [Next]_vars, NEW k \in Key, NEW d \in Daemon,
             told.etag # None, op[k][d] = "none", op'[k][d] # "none"
      PROVE  rev = told.etag
  <2>1. PICK r \in net : ArriveNew(r)
    BY <1>1, FirstEffect
  <2>2. want.fenced
    BY <1>1 DEF RunType, RunInv
  <2>3. r.etag = rev /\ r.etag <= told.etag /\ told.etag <= rev
    BY <1>1, <2>1, <2>2 DEF ArriveNew, FenceInv
  <2>4. rev \in Nat /\ told.etag \in Nat
    BY <1>1, MutationAssumption DEF RunType, TypeOK, Told, Rev
  <2> QED BY <2>3, <2>4
<1>2. RunType /\ FenceInv /\ [Next]_vars
      => [\A k \in Key, d \in Daemon :
            told.etag # None /\ op[k][d] = "none" /\ op'[k][d] # "none" => rev = told.etag]_vars
  BY <1>1
<1> QED BY <1>2, RunInvariant, FenceInvariant, PTL DEF Spec, ReplayKeepsState

-----------------------------------------------------------------------------
(* The wait honours Retry-After.                                           *)

\* How a step of a command or of time moves the wait.
LEMMA WaitMoves ==
  ASSUME RunType, [Next]_vars
  PROVE  \/ wait' = wait
         \/ wait'.at \in {"off", "loop", "final", "late", "error", "unauth"}
         \/ Loop(Hears) \/ Awake \/ WaitTicks
<1>1. NoWait.at = "off"
  BY IdleTyped
<1>2. \A s, n, l, f : Entered(s, n, l, f).at \in {"loop", "final"}
  BY DEF Entered
<1>3. wait \in Wait /\ wait' \in Wait => (PollFails => wait'.at \in {"late", "error", "unauth"})
  <2> SUFFICES ASSUME wait \in Wait, PollFails PROVE wait'.at \in {"late", "error", "unauth"}
    OBVIOUS
  <2>1. PICK a \in {"error", "unauth", "late"} : wait' = [wait EXCEPT !.at = a]
    BY DEF PollFails
  <2> QED BY <2>1 DEF Wait
<1>4. wait \in Wait
  BY DEF RunType, TypeOK
<1>5. CASE WaitStep \/ Tick
  <2>1. wait' \in Wait
    BY <1>4, <1>5, WaitTypes
  <2> QED BY <1>2, <1>3, <1>4, <1>5, <2>1 DEF WaitStep, Tick, PollAnswers
<1>6. CASE ShowChild
  <2>1. CASE cmd.total = 0
    BY <1>6, <2>1 DEF ShowChild
  <2> QED BY <1>6, <2>1, ShowFields
<1>7. CASE AnswerOne \/ ShowAnswers
  <2>1. ASSUME NEW s, NEW n, NEW l, NEW f, wait' = Entered(s, n, l, f)
        PROVE  wait'.at \in {"loop", "final"}
    BY <1>2, <2>1
  <2>2. CASE AnswerOne
    BY <2>1, <2>2 DEF AnswerOne
  <2>3. CASE ShowAnswers
    BY <2>1, <2>3 DEF ShowAnswers
  <2> QED BY <1>7, <2>2, <2>3
<1>8. CASE Kill \/ ShowFails \/ WaitedOne \/ WaitedChild
  BY <1>1, <1>8 DEF Kill, ShowFails, WaitedOne, WaitedChild
<1> QED
  BY <1>5, <1>6, <1>7, <1>8
  DEF Next, CommandStep, RequestStep, ReadState, ReadTask, ReadFails, Send, AnswerStep,
      AnswerBulk, AnswerTask, AnswerRefused, OutcomeUnknown, BrokenOff, BulkStep, PassChild,
      AllChildren, Relogin, Exit, Start, Rerun, NetworkStep, ArriveAgain,
      ArriveConflict, ArriveNew, ArriveRefused, ArriveNever, OpMoves, OthersChange, vars

LEMMA PauseInvariant == Spec => []PauseInv
<1>1. Init => PauseInv
  BY IdleTyped DEF Init, PauseInv
<1>2. ASSUME RunType, PauseInv, [Next]_vars PROVE PauseInv'
  <2>0. /\ wait \in Wait /\ wait.left \in Nat /\ wait.pause \in Nat /\ wait.hold \in Nat
    BY <1>2, WaitAssumption DEF RunType, TypeOK, Wait
  <2>1. CASE wait' = wait
    BY <1>2, <2>1, WantStays DEF PauseInv, Hears
  <2>2. CASE Loop(Hears)
    <3>1. CASE wait.left = 0
      BY <2>0, <2>2, <3>1 DEF Loop, Wait, PauseInv
    <3>2. CASE wait.left # 0
      <4>1. PICK p \in IF Hears /\ wait.hold > 0 THEN {wait.hold} ELSE 1..MaxPause :
              wait' = [wait EXCEPT !.at = "sleep", !.pause = Least(p, wait.left)]
        BY <2>2, <3>2 DEF Loop
      <4> DEFINE n == Least(p, wait.left)
      <4>2. wait.hold <= n \/ wait.left <= n \/ ~Hears
        BY <2>0, <4>1, WaitAssumption DEF Least
      <4>3. wait' = [wait EXCEPT !.at = "sleep", !.pause = n]
        BY <4>1
      <4> HIDE DEF n
      <4>4. /\ wait'.pause = n /\ wait'.hold = wait.hold /\ wait'.left = wait.left
            /\ wait'.from = wait.from
        BY <2>0, <4>3 DEF Wait
      <4> QED BY <1>2, <4>2, <4>4, WantStays DEF PauseInv, Hears
    <3> QED BY <3>1, <3>2
  <2>3. CASE Awake
    BY <2>0, <2>3 DEF Awake, Wait, PauseInv
  <2>4. CASE WaitTicks
    <3>1. /\ wait'.at = wait.at /\ wait'.left = Down(wait.left)
          /\ wait'.pause = Down(wait.pause) /\ wait'.hold = Down(wait.hold)
          /\ wait'.from = wait.from
      BY <2>0, <2>4 DEF WaitTicks, Wait
    <3> QED BY <1>2, <2>0, <3>1, WantStays DEF PauseInv, Down, Hears
  <2> QED BY <1>2, <2>1, <2>2, <2>3, <2>4, WaitMoves DEF PauseInv
<1> QED BY <1>1, <1>2, RunInvariant, PTL DEF Spec

\* No poll before the last document's Retry-After is over, also when the
\* deadline of --wait-timeout comes first (Wait, nextDelay); only the Retry-After
\* that came with the answer to create is never heard of (spawnDaemon).
THEOREM RetryAfterKeptCorrect == Spec => RetryAfterKept
<1>1. ASSUME RunType, PauseInv, [Next]_vars, wait.at = "sleep", wait'.at = "poll"
      PROVE  wait.hold = 0 \/ (want.creates /\ wait.from = "answer")
  <2>0. /\ wait \in Wait /\ wait.left \in Nat /\ wait.pause \in Nat /\ wait.hold \in Nat
    BY <1>1, WaitAssumption DEF RunType, TypeOK, Wait
  <2>1. ~WaitTicks
    <3>1. WaitTicks => wait'.at = wait.at
      BY <2>0 DEF WaitTicks, Wait
    <3> QED BY <1>1, <3>1
  <2>2. Awake
    BY <1>1, <2>1, WaitMoves DEF Loop
  <2>3. wait.pause = 0 /\ wait.left # 0
    BY <1>1, <2>0, <2>2 DEF Awake, Wait
  <2> QED BY <1>1, <2>0, <2>3 DEF PauseInv, Hears
<1>2. RunType /\ PauseInv /\ [Next]_vars
      => [wait.at = "sleep" /\ wait'.at = "poll"
            => wait.hold = 0 \/ (want.creates /\ wait.from = "answer")]_vars
  BY <1>1
<1> QED BY <1>2, RunInvariant, PauseInvariant, PTL DEF Spec, RetryAfterKept

-----------------------------------------------------------------------------
(* Exit 0.                                                                 *)

\* The operations under a key change only as operations do.
OpKeeps(k) ==
  \A d \in want.targets :
    /\ op[k][d] \in Terminal \cup {"refused"} => op'[k][d] = op[k][d]
    /\ Taken(op[k][d]) => Taken(op'[k][d])

LEMMA WantsSome ==
  ASSUME TypeOK
  PROVE  want \in Want /\ want.targets \subseteq Daemon /\ want.targets # {}
BY MutationAssumption DEF TypeOK, Want

LEMMA OpMovesKeeps ==
  ASSUME RunType, KnownInv, NEW k \in Key, NEW d \in Daemon, OpMoves(k, d)
  PROVE  KnownInv' /\ \A l \in Key : OpKeeps(l) /\ (Known(l)' <=> Known(l))
<1>0. UNCHANGED <<want, cmd>>
  BY DEF OpMoves, user
<1>1. PICK s \in Status \ {"running"} : op' = [op EXCEPT ![k][d] = s]
  BY DEF OpMoves
<1>2. op[k][d] \in {"running", "reconciling"}
  BY DEF OpMoves
<1>3. ASSUME NEW l \in Key, NEW e \in Daemon
      PROVE  IF l = k /\ e = d THEN op'[l][e] = s ELSE op'[l][e] = op[l][e]
  BY <1>1 DEF RunType, TypeOK
<1>4. s \in Status /\ s \notin {"none", "refused"}
  BY <1>1 DEF Status, Terminal
<1>5. ASSUME NEW l \in Key PROVE OpKeeps(l)
  BY <1>2, <1>3, <1>4, WantsSome DEF OpKeeps, Taken, Terminal, RunType
<1>6. ASSUME NEW l \in Key PROVE Known(l)' <=> Known(l)
  BY <1>2, <1>3, <1>4 DEF Known
<1>7. KnownInv'
  <2> SUFFICES ASSUME NEW l \in Key, Known(l)', NEW e \in want.targets
               PROVE  op'[l][e] # "none" /\ (op'[l][e] = "refused" => Bulk)
    BY <1>0 DEF KnownInv, Bulk
  <2>1. e \in Daemon /\ op[l][e] # "none" /\ (op[l][e] = "refused" => Bulk)
    BY <1>6, WantsSome DEF KnownInv, RunType
  <2> QED BY <1>2, <1>3, <1>4, <2>1
<1> QED BY <1>5, <1>6, <1>7

LEMMA ArriveNewKeeps ==
  ASSUME RunType, KnownInv, NEW r \in net, ArriveNew(r)
  PROVE  /\ KnownInv' /\ Known(r.key)' /\ r.key \in Key
         /\ \A l \in Key : Known(l) => l # r.key /\ Known(l)' /\ OpKeeps(l)
         /\ \A l \in Key : Known(l)' => Known(l) \/ l = r.key
<1>0. r.key \in Key /\ ~Known(r.key) /\ want' = want
  BY DEF ArriveNew, RunType, TypeOK, Request, user
<1>1. PICK A \in SUBSET want.targets :
        /\ A = want.targets \/ Bulk
        /\ op' = [op EXCEPT ![r.key] = [d \in Daemon |->
                     IF d \in A THEN "running"
                     ELSE IF d \in want.targets THEN "refused" ELSE "none"]]
  BY DEF ArriveNew
<1>2. ASSUME NEW l \in Key, l # r.key PROVE op'[l] = op[l]
  BY <1>1, <1>2 DEF RunType, TypeOK
<1>3. ASSUME NEW d \in want.targets
      PROVE  op'[r.key][d] # "none" /\ (op'[r.key][d] = "refused" => Bulk)
  BY <1>0, <1>1, WantsSome DEF RunType, TypeOK
<1>4. Known(r.key)'
  BY <1>3, WantsSome DEF Known, RunType
<1>5. ASSUME NEW l \in Key, Known(l) PROVE l # r.key /\ Known(l)' /\ OpKeeps(l)
  BY <1>0, <1>2, <1>5 DEF Known, OpKeeps
<1>6. ASSUME NEW l \in Key, Known(l)' PROVE Known(l) \/ l = r.key
  BY <1>2, <1>6 DEF Known
<1>7. KnownInv'
  <2> SUFFICES ASSUME NEW l \in Key, Known(l)', NEW d \in want.targets
               PROVE  op'[l][d] # "none" /\ (op'[l][d] = "refused" => Bulk)
    BY <1>0 DEF KnownInv, Bulk
  <2>1. CASE l = r.key
    BY <1>3, <2>1
  <2>2. CASE l # r.key
    BY <1>2, <1>6, <2>2 DEF KnownInv
  <2> QED BY <2>1, <2>2
<1> QED BY <1>0, <1>4, <1>5, <1>6, <1>7

\* Every other step leaves the operations and what is wanted alone.
LEMMA OpChanges ==
  ASSUME RunType, [Next]_vars
  PROVE  /\ want' = want
         /\ \/ op' = op
            \/ \E k \in Key, d \in Daemon : OpMoves(k, d)
            \/ \E r \in net : ArriveNew(r)
<1>1. \/ op' = op
      \/ \E k \in Key, d \in Daemon : OpMoves(k, d)
      \/ \E r \in net : ArriveNew(r)
  BY DEF Next, CommandStep, RequestStep, ReadState, ReadTask, ReadFails, Send, AnswerStep,
      AnswerOne, AnswerBulk, AnswerTask, AnswerRefused, OutcomeUnknown, BrokenOff, BulkStep,
      PassChild,
      ShowChild, ShowAnswers, ShowFails, WaitedChild, AllChildren, WaitStep, WaitedOne,
      Relogin, Exit, Start, Rerun, Kill, Tick, NetworkStep, ArriveAgain, ArriveConflict,
      ArriveRefused, ArriveNever, OthersChange, vars, server
<1> QED BY <1>1, WantStays

LEMMA KnownStep ==
  ASSUME RunType, KnownInv, [Next]_vars
  PROVE  KnownInv' /\ \A k \in Key : Known(k) => Known(k)' /\ OpKeeps(k)
<1>1. CASE op' = op
  <2>1. want' = want
    BY OpChanges
  <2> QED BY <1>1, <2>1 DEF KnownInv, Known, Bulk, OpKeeps
<1> QED BY <1>1, OpChanges, OpMovesKeeps, ArriveNewKeeps

LEMMA KnownInvariant == Spec => []KnownInv
<1>1. Init => KnownInv
  BY DEF Init, KnownInv, Known
<1>2. RunType /\ KnownInv /\ [Next]_vars => KnownInv'
  BY KnownStep
<1> QED BY <1>1, <1>2, RunInvariant, PTL DEF Spec

\* An answer comes with what it answers.
LEMMA AcceptedKnown ==
  ASSUME RunType, KnownInv, NEW r \in net, NetworkStep(r)
  PROVE  Answered /\ (cmd' = cmd \/ (cmd'.reply = "accepted" => Known(cmd.key)'))
<1>0. cmd \in Cmd
  BY DEF RunType, TypeOK
<1>1. ASSUME NEW s \in Reply, Answer(r, s), s = "accepted" => Known(r.key)'
      PROVE  Answered /\ (cmd' = cmd \/ (cmd'.reply = "accepted" => Known(cmd.key)'))
  <2>1. Answered /\ (cmd' = cmd \/ (cmd'.reply = s /\ cmd.key = r.key))
    BY <1>0, <1>1, Answers
  <2>2. cmd' = cmd \/ cmd'.key = cmd.key
    BY <2>1 DEF Answered, SameRun
  <2> QED BY <1>1, <2>1, <2>2 DEF Known
<1>2. CASE ArriveNew(r)
  BY <1>1, <1>2, ArriveNewKeeps DEF ArriveNew, Reply
<1>3. CASE ArriveAgain(r)
  <2>1. Known(r.key)' <=> Known(r.key)
    BY <1>3 DEF ArriveAgain, server, Known
  <2> QED BY <1>1, <1>3, <2>1 DEF ArriveAgain, Reply
<1>4. CASE ArriveConflict(r) \/ ArriveRefused(r)
  <2>1. PICK s \in Reply \ {"accepted"} : Answer(r, s)
    BY <1>4 DEF ArriveConflict, ArriveRefused, Reply
  <2> QED BY <1>1, <2>1
<1>5. CASE ArriveNever(r)
  BY <1>5 DEF ArriveNever, Answered
<1> QED BY <1>2, <1>3, <1>4, <1>5 DEF NetworkStep

\* What was done stays done.
LEMMA DoneKept ==
  ASSUME RunType, KnownInv, [Next]_vars, cmd.key \in Key, cmd'.key = cmd.key
  PROVE  /\ want' = want
         /\ Known(cmd.key) => Known(cmd.key)'
         /\ \A d \in want.targets : Done(d) => Done(d)'
<1>1. want' = want /\ \A k \in Key : Known(k) => Known(k)' /\ OpKeeps(k)
  BY OpChanges, KnownStep
<1>2. Known(cmd.key) => Known(cmd.key)'
  BY <1>1 DEF Known
<1>3. ASSUME NEW d \in want.targets, Done(d) PROVE Done(d)'
  <2>1. d \in Daemon /\ op[cmd.key][d] \in Status
    BY <1>3, WantsSome DEF Done, Taken, Status, Terminal, RunType
  <2>2. OpKeeps(cmd.key)
    BY <1>1, <2>1 DEF Known, Status, Terminal
  <2> QED BY <1>1, <1>3, <2>2 DEF OpKeeps, Done, Terminal
<1> QED BY <1>1, <1>2, <1>3

\* A step that ends the command, or lets it go on where nothing is known yet.
LEMMA EndsDone ==
  ASSUME DoneInv, want' = want, cmd'.at \in {"idle", "out"}, wait' \in {wait, NoWait},
         cmd'.at = "out" /\ cmd'.result = "ok" => \A d \in want.targets : Done(d)'
  PROVE  DoneInv'
<1>1. wait'.at = "final" => wait' = wait
  BY IdleTyped
<1> QED BY <1>1 DEF DoneInv, ShapeInv, FinalInv, ResultInv

LEMMA BeginsDone ==
  ASSUME DoneInv, want' = want, wait' = wait, cmd'.at \in {"read", "send", "sent"},
         cmd'.child = None, cmd'.at = "sent" /\ cmd'.reply = "accepted" => Known(cmd.key)'
  PROVE  DoneInv'
BY DEF DoneInv, ShapeInv, FinalInv, ResultInv

LEMMA UserDone ==
  ASSUME RunType, DoneInv, Start \/ Rerun \/ Kill \/ Relogin \/ Exit
  PROVE  DoneInv'
<1>1. CASE Start \/ Rerun \/ Relogin
  <2>1. /\ cmd'.at = "read" /\ cmd'.child = None
        /\ want' = want /\ wait' = wait
    BY <1>1, NewRun
  <2> QED BY <2>1, BeginsDone
<1>2. CASE Kill \/ Exit
  <2>1. want' = want /\ cmd'.at = "idle" /\ wait' \in {wait, NoWait}
    BY <1>2, IdleTyped DEF Kill, Exit
  <2> QED BY <2>1, EndsDone
<1> QED BY <1>1, <1>2

LEMMA RequestDone ==
  ASSUME RunType, DoneInv, RequestStep
  PROVE  DoneInv'
<1>0. cmd \in Cmd /\ want' = want /\ wait' = wait
  BY DEF RunType, TypeOK, RequestStep, ReadState, ReadTask, ReadFails, Send, user
<1>1. cmd.at \in {"read", "send"} /\ cmd.child = None /\ cmd.reply = "none"
  BY DEF RequestStep, ReadState, ReadTask, ReadFails, Send, DoneInv, ShapeInv, RunType, RunInv
<1>2. CASE ReadFails
  <2>1. PICK r \in Result \ {"ok"} : End(r)
    BY <1>2 DEF ReadFails, Result
  <2> QED BY <1>0, <2>1, Ends, EndsDone DEF Ending
<1>3. CASE ReadState \/ ReadTask \/ Send
  <2>1. cmd'.at \in {"send", "sent"} /\ cmd'.child = None /\ cmd'.reply = "none"
    BY <1>0, <1>1, <1>3 DEF ReadState, ReadTask, Send, Cmd
  <2> QED BY <1>0, <2>1, BeginsDone
<1> QED BY <1>2, <1>3 DEF RequestStep

LEMMA AnswerDone ==
  ASSUME RunType, KnownInv, DoneInv, AnswerStep \/ BrokenOff
  PROVE  DoneInv'
<1>0. /\ cmd \in Cmd /\ want \in Wants /\ want' = want /\ op' = op /\ cmd.key \in Key
      /\ want.targets \subseteq Daemon
  BY WantsSome DEF RunType, TypeOK, RunInv, AnswerStep, AnswerOne, AnswerBulk, AnswerTask,
     AnswerRefused, OutcomeUnknown, BrokenOff, user, server
<1>1. cmd.at = "sent" /\ cmd.child = None
  BY DEF AnswerStep, AnswerOne, AnswerBulk, AnswerTask, AnswerRefused, OutcomeUnknown,
         BrokenOff, DoneInv, ShapeInv
<1>2. ASSUME cmd.reply = "accepted", NEW d \in want.targets
      PROVE  /\ op[cmd.key][d] \in Status \cup {"refused"}
             /\ op[cmd.key][d] = "refused" => Bulk
  <2>1. Known(cmd.key)
    BY <1>1, <1>2 DEF DoneInv, ShapeInv
  <2>2. op[cmd.key][d] \in Status \cup {"none", "refused"}
    BY <1>0 DEF RunType, TypeOK
  <2> QED BY <1>0, <2>1, <2>2 DEF KnownInv
<1>3. CASE AnswerOne
  <2>1. PICK d \in want.targets, retry \in 0..MaxPause :
          IF want.waits
          THEN /\ cmd' = [cmd EXCEPT !.at = "wait", !.seen = TRUE, !.reply = "none"]
               /\ wait' = Entered(op[cmd.key][d], retry, Limit, "answer")
          ELSE /\ cmd' = [cmd EXCEPT !.at = "out", !.seen = TRUE, !.reply = "none",
                                     !.result = Outcome(op[cmd.key][d])]
               /\ UNCHANGED wait
    BY <1>3 DEF AnswerOne
  <2>2. cmd.reply = "accepted" /\ ~Bulk /\ \A e \in want.targets : e = d
    BY <1>3 DEF AnswerOne, Bulk
  <2>3. CASE want.waits
    <3>1. cmd'.at = "wait" /\ cmd'.child = None /\ cmd'.key = cmd.key
      BY <1>0, <1>1, <2>1, <2>3 DEF Cmd
    <3>2. Known(cmd.key) /\ ~Bulk'
      BY <1>0, <1>1, <2>2 DEF DoneInv, ShapeInv, Bulk
    <3>3. wait'.at = "final" => wait'.last = op[cmd.key][d] /\ wait'.last \in Terminal
      BY <2>1, <2>3 DEF Entered, IsTerminal
    <3>4. ShapeInv'
      BY <1>0, <2>3, <3>1, <3>2 DEF ShapeInv, Known
    <3>5. FinalInv'
      BY <1>0, <2>2, <3>1, <3>3 DEF FinalInv
    <3>6. ResultInv'
      BY <3>1, <3>2 DEF ResultInv
    <3> QED BY <3>4, <3>5, <3>6 DEF DoneInv
  <2>4. CASE ~want.waits
    <3> DEFINE o == Outcome(op[cmd.key][d])
    <3>1. o = "ok" => Taken(op[cmd.key][d])
      BY <1>2, <2>2 DEF Outcome, Taken, Status, Terminal
    <3>2. cmd' = [cmd EXCEPT !.at = "out", !.seen = TRUE, !.reply = "none", !.result = o]
      BY <2>1, <2>4
    <3> HIDE DEF o
    <3>3. cmd'.at = "out" /\ cmd'.result = o /\ cmd'.key = cmd.key
      BY <1>0, <3>2 DEF Cmd
    <3>4. cmd'.result = "ok" => \A e \in want.targets : Done(e)'
      BY <1>0, <2>2, <2>4, <3>1, <3>3 DEF Done
    <3> QED BY <1>0, <2>1, <2>4, <3>3, <3>4, EndsDone
  <2> QED BY <2>3, <2>4
<1>4. CASE AnswerBulk
  <2>1. cmd'.at = "children" /\ cmd'.todo = want.targets /\ cmd'.key = cmd.key
    BY <1>0, <1>4 DEF AnswerBulk, Cmd
  <2>2. Known(cmd.key) /\ Bulk' /\ wait' = wait
    BY <1>0, <1>1, <1>4 DEF AnswerBulk, DoneInv, ShapeInv, Bulk
  <2>3. ShapeInv'
    BY <1>0, <2>1, <2>2 DEF ShapeInv, Known
  <2>4. FinalInv' /\ ResultInv'
    BY <1>0, <2>1, <2>2 DEF DoneInv, FinalInv, ResultInv
  <2> QED BY <2>3, <2>4 DEF DoneInv
<1>5. CASE AnswerTask
  <2>1. cmd'.at = "out" /\ cmd'.key = cmd.key /\ wait' = wait
    BY <1>0, <1>5 DEF AnswerTask, Cmd
  <2>2. ~want.waits /\ ~Bulk /\ cmd.reply = "accepted"
    <3>1. want.task /\ cmd.reply = "accepted"
      BY <1>5 DEF AnswerTask
    <3>2. ~want.waits /\ \E d \in Daemon : want.targets = {d}
      BY <1>0, <3>1, MutationAssumption
    <3> QED BY <3>1, <3>2 DEF Bulk
  <2>3. \A d \in want.targets : Done(d)'
    BY <1>0, <1>2, <2>1, <2>2 DEF Done, Taken
  <2> QED BY <1>0, <2>1, <2>3, EndsDone
<1>6. CASE AnswerRefused \/ OutcomeUnknown \/ BrokenOff
  <2>1. (\E r \in Result \ {"ok"} : End(r)) /\ wait' = wait
    BY <1>6 DEF AnswerRefused, OutcomeUnknown, BrokenOff, Result
  <2> QED BY <1>0, <2>1, Ends, EndsDone DEF Ending
<1> QED BY <1>3, <1>4, <1>5, <1>6 DEF AnswerStep

\* What a wait's result says of the operation waited for.
LEMMA WaitedOk ==
  ASSUME FinalInv, WaitOver, WaitResult = "ok"
  PROVE  \A d \in want.targets : cmd.child \in {None, d} => op[cmd.key][d] = "succeeded"
<1>1. wait.at = "final" /\ Outcome(wait.last) = "ok"
  BY DEF WaitOver, WaitResult
<1>2. wait.last = "succeeded"
  BY <1>1 DEF FinalInv, Outcome, Terminal
<1> QED BY <1>1, <1>2 DEF FinalInv, WaitOver

LEMMA BulkDone ==
  ASSUME RunType, KnownInv, DoneInv, BulkStep \/ WaitedOne
  PROVE  DoneInv'
<1>0. /\ cmd \in Cmd /\ wait \in Wait /\ want' = want /\ op' = op /\ cmd.key \in Key
      /\ want.targets \subseteq Daemon /\ Known(cmd.key) /\ Bulk' = Bulk
  BY WantsSome DEF RunType, TypeOK, RunInv, BulkStep, PassChild, ShowChild, ShowAnswers,
     ShowFails, WaitedChild, AllChildren, WaitedOne, WaitOver, DoneInv, ShapeInv, Bulk,
     user, server
<1>1. ASSUME cmd'.key = cmd.key, NEW d \in want.targets PROVE Done(d)' <=> Done(d)
  BY <1>0, <1>1 DEF Done
<1>2. ASSUME NEW d \in want.targets
      PROVE  op[cmd.key][d] \in Status \cup {"refused"}
  <2>1. op[cmd.key][d] \in Status \cup {"none", "refused"}
    BY <1>0 DEF RunType, TypeOK
  <2> QED BY <1>0, <2>1 DEF KnownInv
<1>3. CASE PassChild
  <2>1. /\ cmd.at = "children" /\ Bulk /\ Following \in cmd.todo /\ cmd.todo \subseteq want.targets
        /\ wait' = wait
    BY <1>3, FollowingIn DEF PassChild, DoneInv, ShapeInv
  <2>2. /\ cmd'.at = "children" /\ cmd'.todo = cmd.todo \ {Following} /\ cmd'.key = cmd.key
        /\ cmd'.result = "ok" => cmd.result = "ok" /\ op[cmd.key][Following] # "refused"
    BY <1>3, PassFields DEF ChildFields, SameRun
  <2>3. ShapeInv' /\ FinalInv'
    BY <1>0, <2>1, <2>2 DEF DoneInv, ShapeInv, FinalInv, Known
  <2>4. cmd'.result = "ok" => Done(Following)
    BY <1>2, <1>3, <2>1, <2>2 DEF PassChild, Done, Taken
  <2>5. ResultInv'
    BY <1>0, <1>1, <2>1, <2>2, <2>4 DEF DoneInv, ResultInv
  <2> QED BY <2>3, <2>5 DEF DoneInv
<1>4. CASE ShowChild
  <2>1. CASE cmd.total = 0
    BY <1>0, <1>4, <2>1, Ends, EndsDone DEF ShowChild, Ending, Result
  <2>2. CASE cmd.total # 0
    <3>1. /\ want.waits /\ cmd.at = "children" /\ Bulk /\ Following \in cmd.todo
          /\ cmd.todo \subseteq want.targets
      BY <1>4, FollowingIn DEF ShowChild, DoneInv, ShapeInv
    <3>2. /\ cmd'.at = "show" /\ cmd'.todo = cmd.todo \ {Following} /\ cmd'.key = cmd.key
          /\ cmd'.child = Following /\ cmd'.result = cmd.result /\ wait'.at = "off"
      BY <1>4, <2>2, ShowFields DEF ChildFields, SameRun
    <3>3. ShapeInv' /\ FinalInv'
      BY <1>0, <3>1, <3>2 DEF ShapeInv, FinalInv, Known
    <3>4. ResultInv'
      BY <1>0, <1>1, <3>1, <3>2 DEF DoneInv, ResultInv
    <3> QED BY <3>3, <3>4 DEF DoneInv
  <2> QED BY <2>1, <2>2
<1>5. CASE ShowAnswers
  <2>1. /\ want.waits /\ cmd.at = "show" /\ Bulk /\ cmd.child \in want.targets
        /\ cmd.todo \subseteq want.targets /\ cmd.child # None
    BY <1>0, <1>5, MutationAssumption DEF ShowAnswers, DoneInv, ShapeInv
  <2>2. /\ cmd'.at = "wait" /\ cmd'.todo = cmd.todo /\ cmd'.key = cmd.key
        /\ cmd'.child = cmd.child /\ cmd'.result = cmd.result
    BY <1>5, AnswersFields DEF ChildFields, SameRun
  <2>3. wait'.at = "final" => wait'.last = op[cmd.key][cmd.child] /\ wait'.last \in Terminal
    BY <1>5 DEF ShowAnswers, Entered, IsTerminal
  <2>4. ShapeInv' /\ FinalInv'
    BY <1>0, <2>1, <2>2, <2>3 DEF ShapeInv, FinalInv, Known
  <2>5. ResultInv'
    BY <1>0, <1>1, <2>1, <2>2 DEF DoneInv, ResultInv
  <2> QED BY <2>4, <2>5 DEF DoneInv
<1>6. CASE ShowFails
  <2>1. (\E r \in Result \ {"ok"} : End(r)) /\ wait' = NoWait
    BY <1>6 DEF ShowFails, Result
  <2> QED BY <1>0, <2>1, Ends, EndsDone DEF Ending
<1>7. CASE WaitedChild
  <2>1. /\ want.waits /\ cmd.at = "wait" /\ Bulk /\ cmd.child \in want.targets
        /\ cmd.todo \subseteq want.targets /\ wait' = NoWait /\ WaitOver
    BY <1>7 DEF WaitedChild, WaitOver, DoneInv, ShapeInv
  <2>2. /\ cmd'.at = IF WaitResult = "unknown" THEN "out" ELSE "children"
        /\ cmd'.todo = cmd.todo /\ cmd'.key = cmd.key
        /\ cmd'.result = IF WaitResult = "ok" THEN cmd.result ELSE WaitResult
    BY <1>7, WaitedFields DEF ChildFields, SameRun
  <2>3. WaitResult = "ok" => Done(cmd.child)
    BY <2>1, WaitedOk DEF DoneInv, Done
  <2>4. ShapeInv' /\ FinalInv'
    BY <1>0, <2>1, <2>2, IdleTyped DEF ShapeInv, FinalInv, Known
  <2>5. ResultInv'
    BY <1>0, <1>1, <2>1, <2>2, <2>3 DEF DoneInv, ResultInv
  <2> QED BY <2>4, <2>5 DEF DoneInv
<1>8. CASE AllChildren
  <2>1. cmd.at = "children" /\ cmd.todo = {} /\ End(cmd.result) /\ wait' = wait
    BY <1>8 DEF AllChildren
  <2>2. Ending(cmd.result)
    BY <1>0, <2>1, Ends DEF Cmd
  <2> QED BY <1>0, <1>1, <2>1, <2>2, EndsDone DEF Ending, DoneInv, ResultInv
<1>9. CASE WaitedOne
  <2>1. /\ want.waits /\ cmd.at = "wait" /\ cmd.child = None /\ wait' = NoWait /\ WaitOver
    BY <1>9 DEF WaitedOne, WaitOver, DoneInv, ShapeInv
  <2>2. Ending(WaitResult)
    BY <1>0, <1>9, Ends, WaitResultTyped DEF WaitedOne
  <2>3. WaitResult = "ok" => \A d \in want.targets : Done(d)
    BY <2>1, WaitedOk DEF DoneInv, Done
  <2> QED BY <1>0, <1>1, <2>1, <2>2, <2>3, EndsDone DEF Ending
<1> QED BY <1>3, <1>4, <1>5, <1>6, <1>7, <1>8, <1>9 DEF BulkStep

\* Steps that leave the command, or all but its answer, as it was.
LEMMA AroundDone ==
  ASSUME RunType, KnownInv, DoneInv, [Next]_vars, cmd' = cmd, wait' = wait
  PROVE  DoneInv'
<1>1. CASE cmd.at = "idle"
  <2>1. want' = want
    BY OpChanges
  <2> QED BY <1>1, <2>1, EndsDone
<1>2. CASE cmd.at # "idle"
  <2>0. cmd.key \in Key
    BY <1>2 DEF RunType, RunInv
  <2>1. /\ want' = want /\ (Known(cmd.key) => Known(cmd.key)')
        /\ \A d \in want.targets : Done(d) => Done(d)'
    BY <2>0, DoneKept
  <2>2. ShapeInv'
    BY <2>1 DEF DoneInv, ShapeInv, Bulk
  <2>3. ResultInv'
    BY <2>1 DEF DoneInv, ResultInv, Bulk
  <2>4. FinalInv'
    <3>1. cmd.at = "wait" => OpKeeps(cmd.key)
      BY <2>0, KnownStep DEF DoneInv, ShapeInv
    <3> QED BY <2>1, <3>1 DEF DoneInv, FinalInv, OpKeeps
  <2> QED BY <2>2, <2>3, <2>4 DEF DoneInv
<1> QED BY <1>1, <1>2

LEMMA WaitDone ==
  ASSUME RunType, DoneInv, WaitStep \/ Tick
  PROVE  DoneInv'
<1>0. /\ cmd' = cmd /\ want' = want /\ op' = op /\ cmd.at = "wait" /\ wait \in Wait
      /\ want.targets \subseteq Daemon
  BY WantsSome DEF WaitStep, Tick, user, server, RunType, TypeOK
<1>1. ShapeInv' /\ ResultInv'
  BY <1>0 DEF DoneInv, ShapeInv, ResultInv, Known, Done, Bulk
<1>2. ASSUME NEW d \in want.targets, NEW retry \in 0..MaxPause, cmd.child \in {None, d},
             PollAnswers(op[cmd.key][d], retry)
      PROVE  FinalInv'
  <2>1. \A e \in want.targets : cmd.child \in {None, e} => e = d
    BY <1>0, <1>2, MutationAssumption DEF DoneInv, ShapeInv, Bulk
  <2>2. wait'.at = "final" => wait'.last = op[cmd.key][d] /\ wait'.last \in Terminal
    BY <1>2 DEF PollAnswers, Entered, IsTerminal
  <2> QED BY <1>0, <2>1, <2>2 DEF FinalInv
<1>3. ASSUME wait'.at # "final" PROVE FinalInv'
  BY <1>3 DEF FinalInv
<1>4. ASSUME Loop(Hears) \/ Awake PROVE FinalInv'
  <2>1. wait'.at \in {"late", "sleep", "poll"}
    BY <1>0, <1>4 DEF Loop, Awake, Wait
  <2> QED BY <1>3, <2>1
<1>5. ASSUME PollFails PROVE FinalInv'
  <2>1. PICK a \in {"error", "unauth", "late"} : wait' = [wait EXCEPT !.at = a]
    BY <1>5 DEF PollFails
  <2> QED BY <1>0, <1>3, <2>1 DEF Wait
<1>6. ASSUME Tick PROVE FinalInv'
  <2>1. wait'.at = wait.at /\ wait.at # "final"
    BY <1>0, <1>6 DEF Tick, WaitTicks, Wait
  <2> QED BY <1>3, <2>1
<1>7. FinalInv'
  BY <1>2, <1>4, <1>5, <1>6 DEF WaitStep
<1> QED BY <1>1, <1>7 DEF DoneInv

LEMMA DoneStep ==
  ASSUME RunType, KnownInv, DoneInv, [Next]_vars
  PROVE  DoneInv'
<1>1. ASSUME NEW r \in net, NetworkStep(r) PROVE DoneInv'
  <2>1. Answered /\ (cmd' = cmd \/ (cmd'.reply = "accepted" => Known(cmd.key)'))
    BY <1>1, AcceptedKnown
  <2>2. want' = want /\ wait' = wait
    BY <1>1 DEF NetworkStep, ArriveAgain, ArriveConflict, ArriveNew, ArriveRefused,
                ArriveNever, user
  <2>3. CASE cmd' = cmd
    BY <2>2, <2>3, AroundDone
  <2>4. CASE cmd' # cmd
    BY <2>1, <2>2, <2>4, BeginsDone DEF Answered, DoneInv, ShapeInv
  <2> QED BY <2>3, <2>4
<1>2. ASSUME NEW k \in Key, NEW d \in Daemon, OpMoves(k, d) PROVE DoneInv'
  BY <1>2, AroundDone DEF OpMoves
<1>3. CASE OthersChange \/ UNCHANGED vars
  BY <1>3, AroundDone DEF OthersChange, vars
<1> QED
  BY <1>1, <1>2, <1>3, UserDone, RequestDone, AnswerDone, BulkDone, WaitDone
  DEF Next, CommandStep

\* Exit 0 means that every operation succeeded, or was accepted where nothing
\* is waited for: of one workspace, of a task, and of a bulk stop with any
\* number of workspaces and of polls (operationResult, bulkDaemons).
THEOREM ZeroIsDoneCorrect == Spec => []ZeroIsDone
<1>1. Init => DoneInv
  BY IdleTyped DEF Init, DoneInv, ShapeInv, FinalInv, ResultInv
<1>2. RunType /\ KnownInv /\ DoneInv /\ [Next]_vars => DoneInv'
  BY DoneStep
<1>3. DoneInv => ZeroIsDone
  BY DEF DoneInv, ResultInv, ZeroIsDone, Done
<1> QED BY <1>1, <1>2, <1>3, RunInvariant, KnownInvariant, PTL DEF Spec

-----------------------------------------------------------------------------
(* Refusals, and what is done once.                                        *)

\* What was on its way, and what is known, moves only when a request arrives.
LEMMA QuietStays ==
  ASSUME net' = net, op' = op
  PROVE  /\ Quiet' <=> Quiet
         /\ Nothing' <=> Nothing
         /\ \A k \in Key : Known(k)' <=> Known(k)
BY DEF Quiet, Nothing, Known

\* A step after which the answer is printed, or the user knows of more than
\* definite refusals, is beyond FirstInv.
LEMMA BeyondFirst ==
  ASSUME cmd'.seen \/ told'.status \notin {"new", "refused"}
  PROVE  FirstInv'
BY DEF FirstInv

LEMMA UserFirst ==
  ASSUME RunType, FirstInv, Start \/ Rerun \/ Kill \/ Relogin \/ Exit
  PROVE  FirstInv'
<1>0. told \in Told /\ cmd \in Cmd
  BY DEF RunType, TypeOK
<1>1. ASSUME net' = net, op' = op, cmd'.at \in {"idle", "read"},
             told'.status \in {"new", "refused"} /\ ~cmd'.seen => Quiet
      PROVE  FirstInv'
  BY <1>1, QuietStays DEF FirstInv
<1>2. CASE Start
  <2>1. cmd.at = "idle" /\ told.status \in {"new", "refused"} /\ ~cmd.seen
    BY <1>2 DEF Start, RunType, RunInv
  <2>2. Quiet
    BY <2>1 DEF FirstInv
  <2>3. cmd'.at = "read" /\ UNCHANGED <<net, op>>
    BY <1>2, NewRun DEF server
  <2> QED BY <1>1, <2>2, <2>3
<1>3. CASE Rerun
  <2>1. told' = told
    BY <1>3 DEF Rerun, user
  <2>2. told'.status \notin {"new", "refused"}
    BY <1>3, <2>1 DEF Rerun, MustReplay
  <2> QED BY <2>2, BeyondFirst
<1>4. CASE Kill
  <2> DEFINE s == IF cmd.seen THEN "accepted"
                  ELSE IF told.status \in {"new", "refused"} THEN "unknown" ELSE told.status
  <2>1. told' = [told EXCEPT !.status = s]
    BY <1>4 DEF Kill
  <2>2. s \notin {"new", "refused"}
    OBVIOUS
  <2> HIDE DEF s
  <2>3. told'.status = s
    BY <1>0, <2>1 DEF Told
  <2> QED BY <2>2, <2>3, BeyondFirst
<1>5. CASE Relogin
  <2>1. cmd.at = "out" /\ cmd.result = "unauth"
    BY <1>5 DEF Relogin
  <2>2. cmd'.at = "read" /\ cmd'.seen = cmd.seen /\ UNCHANGED <<net, op>>
    <3>1. ~Start /\ ~Rerun
      BY <2>1 DEF Start, Rerun, MustReplay
    <3> QED BY <1>5, <3>1, NewRun DEF server
  <2>3. told'.status = told.status
    <3>1. (\E k \in Key : Announce(k, FALSE)) => told'.status = told.status
      BY AnnounceTyped DEF RunType
    <3>2. UNCHANGED user \/ \E k \in Key : Announce(k, FALSE)
      BY <1>5 DEF Relogin
    <3> QED BY <3>1, <3>2 DEF user
  <2>4. told.status \in {"new", "refused"} /\ ~cmd.seen => Quiet
    BY <2>1 DEF FirstInv
  <2> QED BY <1>1, <2>2, <2>3, <2>4
<1>6. CASE Exit
  <2>1. /\ cmd' = Idle /\ UNCHANGED <<net, op>>
        /\ told'.status =
             IF cmd.seen THEN "accepted"
             ELSE IF cmd.result \in {"unknown", "confirm"} THEN cmd.result
             ELSE IF told.status = "new" THEN "refused" ELSE told.status
    BY <1>6, ExitTells DEF server
  <2>2. told'.status \in {"new", "refused"} => Quiet
    BY <1>6, <2>1 DEF FirstInv, Exit
  <2> QED BY <1>1, <2>1, <2>2, IdleTyped
<1> QED BY <1>2, <1>3, <1>4, <1>5, <1>6

LEMMA RequestFirst ==
  ASSUME RunType, FirstInv, RequestStep
  PROVE  FirstInv'
<1>0. /\ cmd \in Cmd /\ told' = told /\ op' = op /\ cmd.at \in {"read", "send"}
      /\ cmd.reply = "none"
  BY DEF RunType, TypeOK, RunInv, RequestStep, ReadState, ReadTask, ReadFails, Send, user, server
<1>1. CASE ReadFails
  <2>1. net' = net /\ \E r \in Result : End(r)
    BY <1>1 DEF ReadFails, Result
  <2> QED BY <1>0, <2>1, Ends, QuietStays DEF Ending, FirstInv
<1>2. CASE ReadState \/ ReadTask
  <2>1. cmd'.at = "send" /\ cmd'.seen = cmd.seen /\ net' = net
    BY <1>0, <1>2 DEF ReadState, ReadTask, Cmd
  <2> QED BY <1>0, <2>1, QuietStays DEF FirstInv
<1>3. CASE Send
  <2>1. /\ cmd'.at = "sent" /\ cmd'.seen = cmd.seen /\ cmd'.key = cmd.key
        /\ cmd'.etag = cmd.etag /\ cmd'.reply = "none" /\ cmd.at = "send"
        /\ net' = net \cup {[key |-> cmd.key, etag |-> cmd.etag]}
    BY <1>0, <1>3 DEF Send, Cmd
  <2>2. Nothing' <=> Nothing
    BY <1>0 DEF Nothing, Known
  <2> QED BY <1>0, <2>1, <2>2 DEF FirstInv, Quiet
<1> QED BY <1>1, <1>2, <1>3 DEF RequestStep

LEMMA AnswerFirst ==
  ASSUME RunType, FirstInv, ~BadAnswers, AnswerStep \/ BrokenOff
  PROVE  FirstInv'
<1>0. cmd \in Cmd /\ told' = told /\ op' = op /\ net' = net /\ cmd.at = "sent"
  BY DEF RunType, TypeOK, AnswerStep, AnswerOne, AnswerBulk, AnswerTask, AnswerRefused,
         OutcomeUnknown, BrokenOff, user, server
<1>1. CASE AnswerOne \/ AnswerBulk \/ AnswerTask
  <2>1. cmd'.seen
    BY <1>0, <1>1 DEF AnswerOne, AnswerBulk, AnswerTask, Cmd
  <2> QED BY <2>1, BeyondFirst
<1>2. CASE AnswerRefused
  <2>1. PICK r \in Result : End(r) /\ r = cmd.reply /\ r \in {"confirm", "refused", "unauth"}
    BY <1>2 DEF AnswerRefused, Result
  <2>2. told.status \in {"new", "refused"} /\ ~cmd.seen => Quiet
    BY <1>0, <2>1 DEF FirstInv, Quiet
  <2> QED BY <1>0, <2>1, <2>2, Ends, QuietStays DEF Ending, FirstInv
<1>3. CASE OutcomeUnknown \/ BrokenOff
  <2>1. Ending("unknown")
    BY <1>0, <1>3, Ends DEF OutcomeUnknown, BrokenOff, Result
  <2> QED BY <1>0, <2>1 DEF Ending, FirstInv
<1> QED BY <1>1, <1>2, <1>3 DEF AnswerStep

\* While the command still waits for its first answer there is one request, its
\* own: what it does and what it says of it come together.
LEMMA NetworkFirst ==
  ASSUME RunType, KnownInv, FirstInv, NEW r \in net, NetworkStep(r)
  PROVE  FirstInv'
<1>0. cmd \in Cmd /\ told' = told /\ net' = net \ {r} /\ r \in Request /\ net \subseteq Request
  BY DEF RunType, TypeOK, NetworkStep, ArriveAgain, ArriveConflict, ArriveNew, ArriveRefused,
         ArriveNever, user
<1>1. Answered
  <2>1. (\E s \in Reply : Answer(r, s)) \/ cmd' = cmd
    BY DEF NetworkStep, ArriveAgain, ArriveConflict, ArriveNew, ArriveRefused, ArriveNever, Reply
  <2> QED BY <1>0, <2>1, Answers DEF Answered
<1>2. /\ cmd'.result = cmd.result \/ cmd.at = "sent"
      /\ cmd'.at = cmd.at /\ cmd'.seen = cmd.seen /\ cmd'.key = cmd.key /\ cmd'.etag = cmd.etag
  BY <1>1 DEF Answered, SameRun
<1> SUFFICES ASSUME told.status \in {"new", "refused"}, ~cmd.seen PROVE FirstInv'
  BY <1>0, <1>2 DEF FirstInv
<1>3. CASE cmd.at = "sent"
  <2>1. /\ Nothing /\ cmd.reply = "none" /\ r.key = cmd.key /\ r.etag = cmd.etag
        /\ \A q \in net : q.key = cmd.key /\ q.etag = cmd.etag
    BY <1>3 DEF FirstInv
  <2>2. net' = {}
    BY <1>0, <2>1 DEF Request
  <2>3. r.key \in Key /\ ~Known(r.key)
    BY <1>0, <2>1 DEF Request, Nothing
  <2>4. CASE ArriveNew(r)
    <3>1. \A k \in Key : Known(k)' => k = r.key
      BY <2>1, <2>4, ArriveNewKeeps DEF Nothing
    <3>2. cmd'.reply = "accepted"
      BY <1>0, <1>3, <2>1, <2>4, Answers DEF ArriveNew, Reply
    <3> QED BY <1>0, <1>2, <1>3, <2>1, <2>2, <3>1, <3>2 DEF FirstInv
  <2>5. CASE ArriveRefused(r) \/ ArriveNever(r)
    <3>1. op' = op
      BY <2>5 DEF ArriveRefused, ArriveNever, server
    <3>2. Nothing'
      BY <2>1, <3>1 DEF Nothing, Known
    <3>3. cmd'.reply # "accepted"
      <4>1. CASE ArriveRefused(r)
        <5>1. PICK s \in Reply \ {"accepted"} : Answer(r, s)
          BY <4>1 DEF ArriveRefused, Reply
        <5> QED BY <1>0, <1>3, <2>1, <5>1, Answers
      <4>2. CASE ArriveNever(r)
        BY <2>1, <4>2 DEF ArriveNever
      <4> QED BY <2>5, <4>1, <4>2
    <3> QED BY <1>2, <1>3, <2>2, <3>2, <3>3 DEF FirstInv
  <2>6. ~ArriveAgain(r) /\ ~ArriveConflict(r)
    BY <2>3 DEF ArriveAgain, ArriveConflict
  <2> QED BY <2>4, <2>5, <2>6 DEF NetworkStep
<1>4. CASE cmd.at # "sent"
  <2>1. cmd' = cmd
    BY <1>1, <1>4 DEF Answered
  <2>2. cmd.at \notin {"idle", "read", "send"} /\ (cmd.at = "out" => ~Quiet)
    BY DEF FirstInv, Quiet
  <2> QED BY <1>0, <1>4, <2>1, <2>2 DEF FirstInv
<1> QED BY <1>3, <1>4

LEMMA FirstStep ==
  ASSUME RunType, KnownInv, FirstInv, ~BadAnswers, [Next]_vars
  PROVE  FirstInv'
<1>1. CASE BulkStep \/ WaitedOne \/ WaitStep \/ Tick
  <2>1. cmd \in Cmd /\ wait \in Wait /\ cmd.seen
    BY <1>1 DEF RunType, TypeOK, RunInv, BulkStep, PassChild, ShowChild, ShowAnswers,
       ShowFails, WaitedChild, AllChildren, WaitedOne, WaitOver, WaitStep, Tick
  <2>2. CASE \E r \in Result : End(r)
    BY <2>1, <2>2, Ends, BeyondFirst DEF Ending
  <2>3. CASE ~\E r \in Result : End(r)
    <3>1. \/ PassChild \/ (ShowChild /\ cmd.total # 0) \/ ShowAnswers \/ WaitedChild
          \/ cmd' = cmd
      BY <1>1, <2>1, <2>3, WaitResultTyped
      DEF BulkStep, ShowChild, ShowFails, AllChildren, WaitedOne, WaitStep, Tick, Result, Cmd
    <3>2. cmd'.seen
      BY <2>1, <3>1, PassFields, ShowFields, AnswersFields, WaitedFields DEF ChildFields
    <3> QED BY <3>2, BeyondFirst
  <2> QED BY <2>2, <2>3
<1>2. ASSUME NEW k \in Key, NEW d \in Daemon, OpMoves(k, d) PROVE FirstInv'
  <2>1. UNCHANGED <<net, told, cmd>>
    BY <1>2 DEF OpMoves, user
  <2>2. \A l \in Key : Known(l)' <=> Known(l)
    BY <1>2, OpMovesKeeps
  <2>3. (Nothing' <=> Nothing) /\ (Quiet' <=> Quiet)
    BY <2>1, <2>2 DEF Nothing, Quiet
  <2> QED BY <2>1, <2>2, <2>3 DEF FirstInv
<1>3. CASE OthersChange \/ UNCHANGED vars
  <2>1. UNCHANGED <<net, op, told, cmd>>
    BY <1>3 DEF OthersChange, vars, user, server
  <2> QED BY <2>1, QuietStays DEF FirstInv
<1> QED
  BY <1>1, <1>2, <1>3, UserFirst, RequestFirst, AnswerFirst, NetworkFirst
  DEF Next, CommandStep

LEMMA FirstInvariant == ~BadAnswers => (Spec => []FirstInv)
<1> SUFFICES ASSUME ~BadAnswers PROVE Spec => []FirstInv
  OBVIOUS
<1>1. Init => FirstInv
  BY IdleTyped DEF Init, FirstInv, Quiet, Nothing, Known
<1>2. RunType /\ KnownInv /\ FirstInv /\ [Next]_vars => FirstInv'
  BY FirstStep
<1> QED BY <1>1, <1>2, RunInvariant, KnownInvariant, PTL DEF Spec

\* A new key is announced when nothing is under way, or makes a run whose keys
\* the user did not all give.
LEMMA AnnounceKeyed ==
  ASSUME RunType, RunType', FirstInv, KeyInv, Start \/ Relogin
  PROVE  KeyInv'
<1>0. /\ UNCHANGED <<net, op, want>> /\ told \in Told
      /\ \A k \in Key : Known(k)' <=> Known(k)
  BY NewRun, QuietStays DEF server, RunType, TypeOK
<1>1. CASE Quiet
  BY <1>0, <1>1 DEF Quiet, Nothing, KeyInv
<1>2. CASE UNCHANGED user
  BY <1>0, <1>2 DEF user, KeyInv
<1>3. CASE Start
  <2>1. Quiet
    BY <1>3 DEF Start, RunType, RunInv, FirstInv
  <2> QED BY <1>1, <2>1
<1>4. ASSUME Relogin, ~cmd.given, NEW k \in Key, Announce(k, FALSE) PROVE KeyInv'
  <2>1. ~(used' \subseteq given')
    BY <1>4, AnnounceTyped DEF RunType
  <2>2. ASSUME want.task PROVE Quiet
    <3>1. cmd.at = "out" /\ cmd.result = "unauth"
      BY <1>4 DEF Relogin
    <3>2. ~cmd.seen /\ told.status \in {"new", "refused"}
      BY <1>4, <2>2, <3>1 DEF RunType, RunInv
    <3> QED BY <3>1, <3>2 DEF FirstInv
  <2> QED BY <1>0, <1>1, <2>1, <2>2 DEF KeyInv
<1> QED BY <1>2, <1>3, <1>4 DEF Relogin

LEMMA KeyStep ==
  ASSUME RunType, RunType', KnownInv, FirstInv, KeyInv, [Next]_vars
  PROVE  KeyInv'
<1>0. want' = want /\ told \in Told /\ cmd \in Cmd
  BY OpChanges DEF RunType, TypeOK
<1>1. ASSUME net' \subseteq net, \A k \in Key : Known(k)' => Known(k),
             UNCHANGED <<used, given>>, told'.key = told.key
      PROVE  KeyInv'
  BY <1>0, <1>1 DEF KeyInv
<1>2. CASE Rerun \/ Kill \/ Exit
  <2>1. told'.key = told.key
    BY <1>0, <1>2, ExitTells DEF Rerun, Kill, Told, user
  <2> QED BY <1>1, <1>2, <2>1, QuietStays DEF Rerun, Kill, Exit, user, server
<1>3. CASE Send
  <2>1. cmd.key = told.key /\ UNCHANGED <<op, user>>
    BY <1>3 DEF Send, RunType, RunInv, server
  <2>2. net' = net \cup {[key |-> cmd.key, etag |-> cmd.etag]}
    BY <1>3 DEF Send
  <2> QED BY <2>1, <2>2 DEF KeyInv, Known, user
<1>4. ASSUME NEW r \in net, ArriveNew(r) PROVE KeyInv'
  <2>1. net' \subseteq net /\ UNCHANGED user
    BY <1>4 DEF ArriveNew
  <2>2. \A k \in Key : Known(k)' => Known(k) \/ k = r.key
    BY <1>4, ArriveNewKeeps
  <2> QED BY <2>1, <2>2 DEF KeyInv, user
<1>5. ASSUME NEW k \in Key, NEW d \in Daemon, OpMoves(k, d) PROVE KeyInv'
  <2>1. UNCHANGED <<net, user>> /\ \A l \in Key : Known(l)' <=> Known(l)
    BY <1>5, OpMovesKeeps DEF OpMoves
  <2> QED BY <1>1, <2>1 DEF user
<1>6. ASSUME net' \subseteq net, UNCHANGED <<op, user>> PROVE KeyInv'
  BY <1>1, <1>6, QuietStays DEF Known, user
<1>7. ASSUME NEW r \in net, NetworkStep(r), ~ArriveNew(r) PROVE KeyInv'
  BY <1>6, <1>7 DEF NetworkStep, ArriveAgain, ArriveConflict, ArriveRefused, ArriveNever, server
<1>8. CASE ReadState \/ ReadTask \/ ReadFails \/ AnswerStep \/ BrokenOff \/ BulkStep \/ WaitedOne
           \/ WaitStep \/ Tick \/ OthersChange \/ UNCHANGED vars
  <2>1. UNCHANGED <<net, op, user>>
    BY <1>8 DEF ReadState, ReadTask, ReadFails, AnswerStep, AnswerOne, AnswerBulk, AnswerTask,
       AnswerRefused, OutcomeUnknown, BrokenOff, BulkStep, PassChild, ShowChild, ShowAnswers,
       ShowFails,
       WaitedChild, AllChildren, WaitedOne, WaitStep, Tick, OthersChange, vars, server
  <2> QED BY <1>6, <2>1
<1> QED
  BY <1>2, <1>3, <1>4, <1>5, <1>7, <1>8, AnnounceKeyed DEF Next, CommandStep, RequestStep

\* Where the Control Plane alone answers, what a user wants done once is done at
\* most once when the user gives the keys, or wants a task: over any number of
\* lost answers, kills, late requests, replays and logins (ensureIdempotencyKey,
\* app.Run, createGuestTask).
THEOREM OncePerWishCorrect == ~BadAnswers => (Spec => []OncePerWish)
<1> SUFFICES ASSUME ~BadAnswers PROVE Spec => []OncePerWish
  OBVIOUS
<1>1. Init => KeyInv
  BY DEF Init, KeyInv, Known
<1>2. RunType /\ RunType' /\ KnownInv /\ FirstInv /\ KeyInv /\ [Next]_vars => KeyInv'
  BY KeyStep
<1>3. KeyInv => OncePerWish
  BY DEF KeyInv, OncePerWish, Effects, Known, Taken, Status, Terminal
<1> QED BY <1>1, <1>2, <1>3, RunInvariant, KnownInvariant, FirstInvariant, PTL DEF Spec

=============================================================================
