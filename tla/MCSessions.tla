----------------------------- MODULE MCSessions -----------------------------
(* Small instances of Sessions for TLC. *)
EXTENDS Sessions, TLC

CONSTANTS r1, r2

\* Two sessions grow old; a third one is there for the logins that trim at the same time.
LastTicks == 0 :> 4 @@ 1 :> 4 @@ 2 :> 4 @@ 3 :> 0

\* The requests are interchangeable.
Symmetry == Permutations(Requests)
=============================================================================
