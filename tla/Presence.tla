------------------------------- MODULE Presence -------------------------------
(***************************************************************************)
(* What the relay promises the people in a room, without channels, buffers, *)
(* sockets or goroutines: membership changes one at a time, every member is *)
(* told of a change before the next one, and a member that cannot be told   *)
(* leaves before anybody else comes or goes. Signaling implements this      *)
(* specification (Signaling!Implements).                                    *)
(***************************************************************************)
EXTENDS Integers, FiniteSets

CONSTANTS Clients, Users, Rooms, UserOf, RoomOf

VARIABLES
  open,      \* whether the relay accepts connections
  members,   \* the connections in a room
  departed,  \* the connections that have left: they never come back
  view,      \* how many other connections of each user a member knows of
  lagging,   \* the members not yet told of the latest change
  doomed     \* the members that missed a frame and have to leave

vars == <<open, members, departed, view, lagging, doomed>>

NoOne == [u \in Users |-> 0]
Roster(P) == [u \in Users |-> Cardinality({d \in P : UserOf[d] = u})]
Peers(c) == {d \in members \ {c} : RoomOf[d] = RoomOf[c]}

Init ==
  /\ open = TRUE
  /\ members = {} /\ departed = {} /\ lagging = {} /\ doomed = {}
  /\ view = [c \in Clients |-> NoOne]

\* Nobody has to be told anything, and nobody has to leave.
Settled == lagging = {} /\ doomed = {}

\* A connection enters a settled room and learns at once who is there.
Enter(c) ==
  /\ open /\ Settled
  /\ c \notin members \cup departed
  /\ members' = members \cup {c}
  /\ view' = [view EXCEPT ![c] = Roster(Peers(c))]
  /\ lagging' = Peers(c)
  /\ UNCHANGED <<open, departed, doomed>>

\* A member is told: it now knows exactly who else is in the room.
Tell(c) ==
  /\ c \in lagging
  /\ view' = [view EXCEPT ![c] = Roster(Peers(c))]
  /\ lagging' = lagging \ {c}
  /\ UNCHANGED <<open, members, departed, doomed>>

\* A member misses a frame. What it knows no longer counts.
Doom(c) ==
  /\ c \in members \ doomed
  /\ doomed' = doomed \cup {c}
  /\ lagging' = lagging \ {c}
  /\ view' = [view EXCEPT ![c] = NoOne]
  /\ UNCHANGED <<open, members, departed>>

\* A member leaves for good: of its own accord, or because it is doomed. The doomed
\* go first.
Exit(c) ==
  /\ c \in members
  /\ lagging = {}
  /\ doomed # {} => c \in doomed
  /\ members' = members \ {c}
  /\ departed' = departed \cup {c}
  /\ doomed' = doomed \ {c}
  /\ lagging' = Peers(c) \ doomed
  /\ view' = [view EXCEPT ![c] = NoOne]
  /\ UNCHANGED open

\* The relay closes: everybody leaves at once and nobody enters any more.
CloseAll ==
  /\ open /\ Settled
  /\ open' = FALSE
  /\ departed' = departed \cup members
  /\ members' = {}
  /\ view' = [c \in Clients |-> NoOne]
  /\ UNCHANGED <<lagging, doomed>>

Next ==
  \/ \E c \in Clients : Enter(c) \/ Tell(c) \/ Doom(c) \/ Exit(c)
  \/ CloseAll

Spec == Init /\ [][Next]_vars
=============================================================================
