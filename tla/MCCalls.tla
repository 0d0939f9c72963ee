------------------------------- MODULE MCCalls -------------------------------
(* A caller and a callee, one slug, and three requests of any kind. *)
EXTENDS Calls, TLC

CONSTANTS q1, q2, q3, caller, callee, s1

\* Requests and users are interchangeable, independently of each other.
Symmetry == {p @@ q : p \in Permutations(Requests), q \in Permutations(Users)}
=============================================================================
