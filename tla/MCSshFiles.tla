----------------------------- MODULE MCSshFiles -----------------------------
(* Small instances of SshFiles for TLC. *)
EXTENDS SshFiles, TLC

\* Each guest generates its own host key; no code compares the keys of two workspaces.
DistinctKeys == Init /\ \A v, w \in Workspace : v # w => offered[v] # offered[w]

DistinctKeysSpec == DistinctKeys /\ [][Next]_vars

\* Terminals, workspaces and keys are interchangeable; these runs check no liveness.
Alike == Permutations(Cli) \cup Permutations(Workspace) \cup Permutations(Key)

=============================================================================
