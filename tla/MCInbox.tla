------------------------------- MODULE MCInbox -------------------------------
(* A small instance of Inbox for TLC. *)
EXTENDS Inbox, TLC

CONSTANTS c1, c2, alice, bob

\* bob has every connection, alice has none.
AllBob == [c \in Conns |-> bob]
=============================================================================
