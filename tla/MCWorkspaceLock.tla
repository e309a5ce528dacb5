--------------------------- MODULE MCWorkspaceLock ---------------------------
(* Small instances of WorkspaceLock for TLC. *)
EXTENDS WorkspaceLock, TLC

CONSTANTS c1, c2

\* Any command at the only terminal.
AnyCommand == [c \in CLI |-> Command]

\* Both terminals unlock; only one pairs, the other does everything else.
TwoTerminals ==
  [c \in CLI |-> IF c = c1 THEN Command \ {"pair"} ELSE {"unlock", "pair"}]

\* Workspaces, identities and sessions are interchangeable.
Symmetry ==
  Permutations(Workspace) \cup Permutations(Identity) \cup Permutations(Session)

=============================================================================
