----------------------------- MODULE MCSignaling -----------------------------
(* Small instances of Signaling for TLC. *)
EXTENDS Signaling, TLC

CONSTANTS c1, c2, c3, alice, bob, r1

\* One room: alice, and bob with two tabs.
TwoTabs == [c \in Clients |-> IF c = c1 THEN alice ELSE bob]
OneRoom == [c \in Clients |-> r1]

\* bob's two tabs are interchangeable.
Tabs == Permutations({c2, c3})
=============================================================================
