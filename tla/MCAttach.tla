------------------------------ MODULE MCAttach ------------------------------
(* Small instances of Attach for TLC. *)
EXTENDS Attach

\* Window sizes within and beyond the limits.
GoodSizes == {"80x24", "100x30"}
BadSizes  == {"1x1"}

=============================================================================
