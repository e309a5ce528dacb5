---------------------------- MODULE OperationWait ----------------------------
(***************************************************************************)
(* operation.Wait (internal/operation/wait.go), the loop behind --wait: it *)
(* sleeps, polls and stops when the status is terminal, the poll fails or  *)
(* the deadline has passed.  Mutation composes it with the commands and    *)
(* the Control Plane.                                                      *)
(*                                                                         *)
(* Time is counted in ticks that are left.  A pause is the server's        *)
(* Retry-After or a backoff with jitter, of which only that it is positive *)
(* and bounded is kept.  The interrupt of Wait's context is left out:      *)
(* main gives every command context.Background(), so Ctrl-C ends the       *)
(* process, which is Kill of Mutation.                                     *)
(***************************************************************************)
EXTENDS Naturals

CONSTANTS
  Limit,       \* --wait-timeout, in ticks
  MaxPause     \* bound on Retry-After and on the backoff, in ticks

ASSUME WaitAssumption == Limit \in Nat \ {0} /\ MaxPause \in Nat \ {0}

VARIABLE wait

\* "failed" stands for partially_succeeded, cancelled and timed_out too, which
\* exit alike; "running" for queued, waiting and every status not known.
Terminal == {"succeeded", "failed", "outcome_unknown"}
Status   == Terminal \cup {"running", "reconciling"}

Wait == [at    : {"off", "loop", "sleep", "poll", "final", "late", "error", "unauth"},
         last  : Terminal \cup {"running"},   \* of the last document read
         left  : 0..Limit,        \* to the deadline
         pause : 0..Limit,        \* to the end of the sleep
         hold  : 0..MaxPause,     \* of that document's Retry-After
         from  : {"answer", "poll"}]   \* the mutation's own answer, or read later

NoWait ==
  [at |-> "off", last |-> "running", left |-> 0, pause |-> 0, hold |-> 0, from |-> "poll"]

IsTerminal(s) == s \in Terminal
Least(m, n)   == IF m < n THEN m ELSE n
Down(n)       == IF n > 0 THEN n - 1 ELSE 0

\* Entered with the document the command already has.  What is not terminal is
\* all one to the wait.
Entered(s, retry, limit, from) ==
  [at |-> IF IsTerminal(s) THEN "final" ELSE "loop",
   last |-> IF IsTerminal(s) THEN s ELSE "running", left |-> limit, pause |-> 0,
   hold |-> retry, from |-> from]

\* Mutant: the backoff runs at its own pace.
MLoopIgnoresRetry(hears) ==
  /\ wait.at = "loop"
  /\ IF wait.left = 0 THEN wait' = [wait EXCEPT !.at = "late"]
     ELSE \E p \in 1..MaxPause :
            wait' = [wait EXCEPT !.at = "sleep", !.pause = Least(p, wait.left)]

\* The head of the loop: how long to sleep (nextDelay, cut to the deadline), if
\* the wait hears of the document's Retry-After.
Loop(hears) ==
  /\ wait.at = "loop"
  /\ IF wait.left = 0 THEN wait' = [wait EXCEPT !.at = "late"]
     ELSE \E p \in IF hears /\ wait.hold > 0 THEN {wait.hold} ELSE 1..MaxPause :
            wait' = [wait EXCEPT !.at = "sleep", !.pause = Least(p, wait.left)]

\* The sleep is over; at the deadline there is no further poll.
Awake ==
  /\ wait.at = "sleep" /\ wait.pause = 0
  /\ wait' = [wait EXCEPT !.at = IF wait.left = 0 THEN "late" ELSE "poll"]


PollAnswers(s, retry) ==
  /\ wait.at = "poll"
  /\ wait' = Entered(s, retry, wait.left, "poll")

\* The poll runs under the deadline too: an error after it is the timeout.  An
\* answer 504 exits like the timeout.
PollFails ==
  /\ wait.at = "poll"
  /\ \E e \in {"error", "unauth", "late"} :
       wait' = [wait EXCEPT !.at = IF wait.left = 0 THEN "late" ELSE e]

\* Time passes in a sleep, which may last longer than asked for, and in a poll.
WaitTicks ==
  wait' = [wait EXCEPT !.left = Down(@), !.pause = Down(@), !.hold = Down(@)]

=============================================================================
