----------------------------- MODULE MCMutation -----------------------------
(* Small instances of Mutation for TLC. *)
EXTENDS Mutation

CONSTANTS d1, d2

Wanted(t, f, w) ==
  [targets |-> t, fenced |-> f, waits |-> w, creates |-> FALSE, task |-> FALSE, opted |-> FALSE]

\* `daemons task run` with all its options.
TaskWant ==
  [targets |-> {d1}, fenced |-> FALSE, waits |-> FALSE, creates |-> FALSE, task |-> TRUE,
   opted |-> TRUE]

\* create: no ETag, and every effect is one more workspace.
CreateWant == [Wanted({d1}, FALSE, TRUE) EXCEPT !.creates = TRUE]

\* A command with an ETag, a bulk stop, which has none, a create and a task.
AnyWant ==
  {Wanted({d1}, TRUE, w) : w \in BOOLEAN} \cup {Wanted({d1, d2}, FALSE, w) : w \in BOOLEAN}
    \cup {CreateWant, TaskWant}

OneCreate == {CreateWant}

OneTask == {TaskWant}

=============================================================================
