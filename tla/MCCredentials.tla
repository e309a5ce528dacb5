---------------------------- MODULE MCCredentials ----------------------------
(* Small instances of Credentials for TLC. *)
EXTENDS Credentials, TLC

CONSTANTS c1, c2, prod, other, p1, p2, o1

\* Production issues two tokens, the other host one.
Issuers == [t \in {p1, p2, o1} |-> IF t = o1 THEN other ELSE prod]

\* One terminal logs in with a browser, the other with a token and logs out.
Uses == [c \in {c1, c2} |-> IF c = c1 THEN {"login", "use"} ELSE {"stdin", "logout"}]

\* The tokens of one host are alike; these runs check no liveness.
Alike == Permutations({p1, p2})

=============================================================================
