---------------------------- MODULE MCCredentials ----------------------------
(* One account, two passwords that are allowed and one that is not. *)
EXTENDS Credentials, TLC

CONSTANTS p1, p2, weak, r1, r2

Quotas == [k \in Counters |-> CASE k = "login:ip" -> 3 [] k = "login:account" -> 2 [] OTHER -> 1]

Symmetry == Permutations({p1, p2}) \cup Permutations({r1, r2})
=============================================================================
