-------------------------- MODULE MCUploadRecovery --------------------------
(* Small instances of UploadRecovery for TLC. *)
EXTENDS UploadRecovery, TLC

CONSTANTS a, b

\* Operand lists: one file, two files of different names.
DistinctNames == {<<a>>, <<a, b>>}

\* UUIDs are interchangeable, and so are the CLI slots.
Symmetry == Permutations(Op) \cup Permutations(CLI)

=============================================================================
