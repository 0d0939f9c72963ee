------------------------------- MODULE MCServer ------------------------------
(* Replicas that start together, migrations, and relay connections of the first one. *)
EXTENDS Server

CONSTANTS r1, r2, c1, f1, f2

OneFile == <<f1>>
TwoFiles == <<f1, f2>>
AtFirst == [c \in Conns |-> r1]
=============================================================================
