---------------------------- MODULE UploadPromise ----------------------------
(***************************************************************************)
(* What the upload record promises, with no CLI, file or message in sight: *)
(* an operation is on record from before it can have an effect until its   *)
(* effect is decided, and it gets one chance to have one.                  *)
(***************************************************************************)
CONSTANT Op

VARIABLES
  entry,    \* "fresh", "recorded" or "closed"
  effect    \* "none", "possible", "done" or "never"

pvars == <<entry, effect>>

PInit ==
  /\ entry = [o \in Op |-> "fresh"]
  /\ effect = [o \in Op |-> "none"]

Become(o, e) == entry' = [entry EXCEPT ![o] = e] /\ UNCHANGED effect
Take(o, e)   == effect' = [effect EXCEPT ![o] = e] /\ UNCHANGED entry

Open(o) == entry[o] = "fresh" /\ Become(o, "recorded")

\* An operation that was never recorded has no effect to decide.
Abandon(o) == entry[o] = "fresh" /\ effect[o] = "none" /\ Become(o, "closed")

Send(o) == entry[o] = "recorded" /\ effect[o] = "none" /\ Take(o, "possible")

Decide(o) == effect[o] = "possible" /\ \E e \in {"done", "never"} : Take(o, e)

\* Only a decided effect lets the entry go.
Close(o) == entry[o] = "recorded" /\ effect[o] # "possible" /\ Become(o, "closed")

PNext == \E o \in Op : Open(o) \/ Abandon(o) \/ Send(o) \/ Decide(o) \/ Close(o)

PSpec == PInit /\ [][PNext]_pvars

=============================================================================
