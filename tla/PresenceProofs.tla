---------------------------- MODULE PresenceProofs ----------------------------
(***************************************************************************)
(* TLAPS proof that the relay implements Presence, for every set of         *)
(* clients, users and rooms and every buffer size. It rests on what         *)
(* SignalingProofs shows of every reachable state.                          *)
(***************************************************************************)
EXTENDS SignalingProofs

\* The views the refinement mapping gives to Presence.
View == [c \in Clients |-> IF c \in members \ Doomed THEN presence[c] ELSE NoOne]

\* The doomed members are the members a frame could not be pushed to.
LEMMA DoomedUnserved == Doomed = members \cap Unserved
BY DEF Doomed, Unserved, Elems

\* Outside a loop of announce nobody lags.
LEMMA QuietLagging == todo = {} => Lagging = {}
BY DEF Lagging

\* Run in its select is a settled room.
LEMMA IdleSettled == HubIdle => Doomed = {} /\ Lagging = {}
BY QuietLagging DEF HubIdle, Doomed

\* The peers of Presence are the occupants an announce loop is started over.
LEMMA PeersOccupants ==
  ASSUME NEW c
  PROVE  Relay!Peers(c) = Occupants(RoomOf[c]) \ {c}
BY DEF Relay!Peers, Occupants

\* Counting connections per user means the same in both modules.
LEMMA SameRoster ==
  ASSUME NEW S
  PROVE  Relay!Roster(S) = Roster(S) /\ Relay!NoOne = NoOne
BY DEF Relay!Roster, Roster, Relay!NoOne, NoOne,
       Cardinality, Relay!Cardinality, IsFiniteSet, Relay!IsFiniteSet

\* A step that changes none of what the mapping reads is a stuttering step.
LEMMA Stutters ==
  ASSUME (hub = "running") = (hub' = "running"), UNCHANGED <<members, closed>>,
         Doomed' = Doomed, Lagging' = Lagging, View' = View
  PROVE  UNCHANGED Relay!vars
BY DEF Relay!vars, View

\* The announce loop leave starts is the one Presence expects of an exit.
LEMMA LeaveExits ==
  ASSUME TypeOK, Safe, NEW c \in members, Leave(c), todo = {},
         Doomed' = Doomed \ {c}, Doomed # {} => c \in Doomed,
         (hub = "running") = (hub' = "running")
  PROVE  Relay!Exit(c)
<1>1. /\ members' = members \ {c} /\ closed' = closed \cup {c}
      /\ presence' = [presence EXCEPT ![c] = NoOne]
      /\ todo' = Occupants(RoomOf[c]) \ {c}
      /\ todo' # {} => cur'.type = "peer-left"
  BY DEF Leave, FanOut
<1>2. Lagging = {}
  BY QuietLagging
<1>3. Lagging' = todo' \ Doomed'
  BY <1>1 DEF Lagging
<1>4. Lagging' = Relay!Peers(c) \ Doomed
  BY <1>1, <1>3, PeersOccupants
<1>5. View' = [View EXCEPT ![c] = Relay!NoOne]
  <2>1. c \in Clients /\ members \subseteq Clients
    BY DEF TypeOK
  <2>2. ASSUME NEW d \in Clients
        PROVE  View'[d] = IF d = c THEN NoOne ELSE View[d]
    BY <1>1, <2>1 DEF View, TypeOK
  <2> QED
    BY <2>1, <2>2, SameRoster DEF View
<1> QED
  BY <1>1, <1>2, <1>4, <1>5 DEF Relay!Exit, View

\* join is an entrance: the newcomer's welcome always fits its queue.
LEMMA RegisterEnters ==
  ASSUME TypeOK, Safe, Fresh, NEW c \in Clients, Register(c)
  PROVE  Relay!Enter(c)
<1>1. HasSpace(c) /\ HubIdle /\ c \notin members /\ c \notin closed
  BY BufferAssumption DEF Register, Fresh, HasSpace, Safe, NoGhost, Departed
<1>2. /\ members' = members \cup {c}
      /\ presence' = [presence EXCEPT ![c] = Roster(Occupants(RoomOf[c]))]
      /\ todo' = Occupants(RoomOf[c]) \ {c}
      /\ todo' # {} => cur'.type = "peer-joined"
      /\ UNCHANGED <<hub, closed, stalled, evict>>
  BY <1>1 DEF Register, FanOut, hubVars
<1>3. Doomed = {} /\ Lagging = {} /\ Doomed' = {}
  BY <1>1, <1>2, IdleSettled DEF Doomed, HubIdle
<1>4. Lagging' = Relay!Peers(c)
  BY <1>2, <1>3, PeersOccupants DEF Lagging
<1>5. Relay!Peers(c) = Occupants(RoomOf[c])
  BY <1>1, PeersOccupants DEF Occupants
<1>6. View' = [View EXCEPT ![c] = Relay!Roster(Relay!Peers(c))]
  <2>1. ASSUME NEW d \in Clients
        PROVE  View'[d] = IF d = c THEN Roster(Occupants(RoomOf[c])) ELSE View[d]
    BY <1>2, <1>3 DEF View, TypeOK
  <2> QED
    BY <1>5, <2>1, SameRoster DEF View
<1> QED
  BY <1>1, <1>2, <1>3, <1>4, <1>6 DEF Relay!Enter, Relay!Settled, View, HubIdle

\* A push of a membership frame tells its receiver exactly what Presence asks for; a
\* push of anything else, or to a doomed member, changes nothing that counts.
LEMMA PushTells ==
  ASSUME TypeOK, Safe, Told, NEW c \in Clients, Push(c)
  PROVE  Relay!Tell(c) \/ UNCHANGED Relay!vars
<1>1. /\ c \in todo /\ c \in members /\ todo' = todo \ {c}
      /\ todo' # {} => cur' = cur
      /\ presence' = [presence EXCEPT ![c] = Learn(@, cur)]
      /\ UNCHANGED <<hub, members, closed, stalled, evict>>
  BY DEF Push, Safe, Targets, hubVars, roomVars
<1>2. Doomed' = Doomed
  BY <1>1 DEF Doomed
<1>3. Lagging' = Lagging \ {c}
  <2>1. CASE todo' = {}
    BY <1>1, <2>1 DEF Lagging
  <2>2. CASE todo' # {}
    BY <1>1, <1>2, <2>2 DEF Lagging
  <2> QED
    BY <2>1, <2>2
<1>4. \A d \in Clients \ {c} : View'[d] = View[d]
  BY <1>1, <1>2 DEF View, TypeOK
<1>5. CASE c \in Lagging
  <2>1. c \notin Unserved
    BY <1>1, <1>5, DoomedUnserved DEF Lagging
  <2>2. Learn(presence[c], cur) = Roster(Occupants(RoomOf[c]) \ {c})
    BY <1>1, <2>1 DEF Told
  <2>3. View'[c] = Roster(Occupants(RoomOf[c]) \ {c})
    BY <1>1, <1>2, <2>1, <2>2, DoomedUnserved DEF View, TypeOK
  <2>4. View' = [View EXCEPT ![c] = Relay!Roster(Relay!Peers(c))]
    BY <1>4, <2>3, SameRoster, PeersOccupants DEF View
  <2> QED
    BY <1>1, <1>2, <1>3, <1>5, <2>4 DEF Relay!Tell, View
<1>6. CASE c \notin Lagging
  <2>1. c \in Doomed \/ Learn(presence[c], cur) = presence[c]
    <3>1. CASE cur.type \in {"peer-joined", "peer-left"}
      BY <1>1, <1>6, <3>1 DEF Lagging
    <3>2. CASE cur.type \notin {"peer-joined", "peer-left"}
      BY <3>2 DEF Learn
    <3> QED
      BY <3>1, <3>2
  <2>2. View'[c] = View[c]
    BY <1>1, <1>2, <2>1 DEF View, TypeOK
  <2>3. View' = View
    BY <1>4, <2>2 DEF View
  <2> QED
    BY <1>1, <1>2, <1>3, <1>6, <2>3, Stutters
<1> QED
  BY <1>5, <1>6

\* A push that finds a full buffer dooms its receiver, if it is not doomed already.
LEMMA PushFullDooms ==
  ASSUME TypeOK, Safe, NEW c \in Clients, PushFull(c)
  PROVE  Relay!Doom(c) \/ UNCHANGED Relay!vars
<1>1. /\ c \in todo /\ c \in members /\ todo' = todo \ {c}
      /\ todo' # {} => cur' = cur
      /\ stalled' = Append(stalled, c)
      /\ UNCHANGED <<hub, members, closed, evict, presence>>
  BY DEF PushFull, Safe, Targets, hubVars, roomVars
<1>2. Unserved' = Unserved \cup {c}
  BY <1>1, ElemsAppend DEF Unserved, TypeOK
<1>3. Doomed' = Doomed \cup {c}
  <2>1. Doomed' = members' \cap Unserved'
    BY DEF Doomed, Unserved, Elems
  <2> QED
    BY <1>1, <1>2, <2>1, DoomedUnserved
<1>4. Lagging' = Lagging \ {c}
  <2>1. CASE todo' = {}
    BY <1>1, <2>1 DEF Lagging
  <2>2. CASE todo' # {}
    BY <1>1, <1>3, <2>2 DEF Lagging
  <2> QED
    BY <2>1, <2>2
<1>5. View' = [View EXCEPT ![c] = Relay!NoOne]
  <2>1. ASSUME NEW d \in Clients
        PROVE  View'[d] = IF d = c THEN NoOne ELSE View[d]
    BY <1>1, <1>3 DEF View
  <2> QED
    BY <2>1, SameRoster DEF View
<1>6. CASE c \notin Doomed
  BY <1>1, <1>3, <1>4, <1>5, <1>6 DEF Relay!Doom, View
<1>7. CASE c \in Doomed
  <2>1. View' = View
    BY <1>5, <1>7, SameRoster DEF View
  <2>2. Lagging' = Lagging
    BY <1>4, <1>7 DEF Lagging
  <2> QED
    BY <1>1, <1>3, <1>7, <2>1, <2>2, Stutters
<1> QED
  BY <1>6, <1>7

\* One iteration of dropStalled is the exit of a doomed member, or nothing when a
\* nested cascade was faster.
LEMMA EvictExits ==
  ASSUME TypeOK, Safe, Evict
  PROVE  (\E c \in Clients : Relay!Exit(c)) \/ UNCHANGED Relay!vars
<1> DEFINE c == Head(evict)
<1>1. /\ todo = {} /\ evict # <<>> /\ evict' = Tail(evict)
      /\ UNCHANGED <<hub, stalled>> /\ c \in Clients
      /\ (c \in members /\ Leave(c)) \/ AlreadyLeft(c)
  BY DEF Evict, TypeOK, hubVars
<1>2. Elems(evict) = {c} \cup Elems(evict')
  BY <1>1, ElemsTail DEF TypeOK
<1>3. Unserved = {c} \cup Unserved'
  BY <1>1, <1>2 DEF Unserved
<1>4. Doomed' = members' \cap Unserved'
  BY DEF Doomed, Unserved, Elems
<1>5. CASE c \in members /\ Leave(c)
  <2>1. members' = members \ {c}
    BY <1>5 DEF Leave
  <2>2. Doomed' = Doomed \ {c} /\ c \in Doomed
    BY <1>3, <1>4, <1>5, <2>1, DoomedUnserved
  <2> QED
    BY <1>1, <1>5, <2>2, LeaveExits
<1>6. CASE AlreadyLeft(c)
  <2>1. c \notin members /\ UNCHANGED <<members, closed, cur, todo, presence>>
    BY <1>6 DEF AlreadyLeft, roomVars
  <2>2. Doomed' = Doomed
    BY <1>3, <1>4, <2>1, DoomedUnserved
  <2>3. Lagging' = Lagging /\ View' = View
    BY <2>1, <2>2 DEF Lagging, View
  <2> QED
    BY <1>1, <2>1, <2>2, <2>3, Stutters
<1> QED
  BY <1>1, <1>5, <1>6

\* Every step of Run and of the pumps is a step of Presence or a stuttering step.
LEMMA StepRefines ==
  ASSUME TypeOK, Safe, Fresh, Told, [Next]_vars
  PROVE  [Relay!Next]_(Relay!vars)
<1> USE DEF hubVars, roomVars, fanVars, pumpVars, pumpRest, writerRest
<1>1. ASSUME NEW c \in Clients, Register(c) PROVE Relay!Next
  BY <1>1, RegisterEnters DEF Relay!Next
<1>2. ASSUME NEW c \in Clients, Unregister(c) PROVE [Relay!Next]_(Relay!vars)
  <2>1. /\ HubIdle /\ UNCHANGED <<hub, stalled, evict>>
        /\ (c \in members /\ Leave(c)) \/ AlreadyLeft(c)
    BY <1>2 DEF Unregister
  <2>2. Doomed = {} /\ Doomed' = {} /\ todo = {}
    BY <2>1, IdleSettled DEF HubIdle, Doomed
  <2>3. CASE c \in members /\ Leave(c)
    BY <2>1, <2>2, <2>3, LeaveExits DEF Relay!Next
  <2>4. CASE AlreadyLeft(c)
    <3>1. UNCHANGED <<members, closed, cur, todo, presence>>
      BY <2>4 DEF AlreadyLeft
    <3>2. Lagging' = Lagging /\ View' = View
      BY <2>2, <3>1 DEF Lagging, View
    <3> QED
      BY <2>1, <2>2, <3>1, <3>2, Stutters
  <2> QED
    BY <2>1, <2>3, <2>4
<1>3. ASSUME NEW c \in Clients, Broadcast(c) PROVE UNCHANGED Relay!vars
  <2>1. /\ UNCHANGED <<hub, members, closed, stalled, evict, presence>> /\ todo = {}
        /\ todo' # {} => cur'.type = "relay"
    BY <1>3 DEF Broadcast, FanOut, HubIdle
  <2>2. Doomed' = Doomed
    BY <2>1 DEF Doomed
  <2>3. View' = View
    BY <2>1, <2>2 DEF View
  <2>4. Lagging = {} /\ Lagging' = {}
    BY <2>1 DEF Lagging
  <2> QED
    BY <2>1, <2>2, <2>3, <2>4, Stutters
<1>4. ASSUME NEW c \in Clients, Push(c) PROVE [Relay!Next]_(Relay!vars)
  BY <1>4, PushTells DEF Relay!Next
<1>5. ASSUME NEW c \in Clients, PushFull(c) PROVE [Relay!Next]_(Relay!vars)
  BY <1>5, PushFullDooms DEF Relay!Next
<1>6. CASE DropStalled
  <2>1. /\ stalled' = <<>> /\ evict' = stalled \o evict
        /\ UNCHANGED <<hub, members, closed, todo, cur, presence>>
    BY <1>6 DEF DropStalled
  <2>2. Elems(<<>>) = {}
    BY DEF Elems
  <2>3. Unserved' = Unserved
    BY <2>1, <2>2, ElemsConcat DEF Unserved, TypeOK
  <2>4. Doomed' = members' \cap Unserved'
    BY DEF Doomed, Unserved, Elems
  <2>5. Doomed' = Doomed
    BY <2>1, <2>3, <2>4, DoomedUnserved
  <2>6. Lagging' = Lagging /\ View' = View
    BY <2>1, <2>5 DEF Lagging, View
  <2> QED
    BY <2>1, <2>5, <2>6, Stutters
<1>7. CASE Evict
  BY <1>7, EvictExits DEF Relay!Next
<1>8. CASE Stop
  <2>1. /\ HubIdle /\ hub' = "closed" /\ closed' = closed \cup members /\ members' = {}
        /\ presence' = [c \in Clients |-> NoOne]
        /\ UNCHANGED <<todo, cur, stalled, evict>>
    BY <1>8 DEF Stop
  <2>2. Doomed = {} /\ Lagging = {} /\ Doomed' = {} /\ Lagging' = {}
    BY <2>1, IdleSettled DEF Doomed, Lagging, HubIdle
  <2>3. View' = [c \in Clients |-> Relay!NoOne]
    BY <2>1, SameRoster DEF View
  <2> QED
    BY <2>1, <2>2, <2>3 DEF Relay!Next, Relay!CloseAll, Relay!Settled, View, HubIdle
<1>9. CASE \/ \E c \in Clients : ReadPump(c) \/ WritePump(c) \/ PeerGone(c)
           \/ CloseDone \/ Cancel \/ Finished \/ UNCHANGED vars
  <2>1. /\ UNCHANGED <<members, closed, todo, cur, stalled, evict, presence>>
        /\ (hub = "running") = (hub' = "running")
    BY <1>9
    DEF ReadPump, Upgrade, AddRefused, ReadFrame, ReadFails, GiveUp, ReaderClose,
        WritePump, WriteFrame, WriteFails, PingFails, WriterClose, PeerGone,
        CloseDone, Cancel, Finished, vars
  <2>2. Doomed' = Doomed
    BY <2>1 DEF Doomed
  <2>3. Lagging' = Lagging /\ View' = View
    BY <2>1, <2>2 DEF Lagging, View
  <2> QED
    BY <2>1, <2>2, <2>3, Stutters
<1> QED
  BY <1>1, <1>2, <1>3, <1>4, <1>5, <1>6, <1>7, <1>8, <1>9 DEF Next, Run

\* The relay implements Presence: membership changes reach every member one at a time
\* and in order, and who cannot be told leaves before anybody else comes or goes,
\* whatever the pumps do during Run's loops.
THEOREM RelayImplementsPresence == Spec => Implements
<1>1. Init => Relay!Init
  BY DEF Init, Relay!Init, Relay!NoOne, NoOne, Doomed, Lagging, View
<1>2. Init => Fresh /\ Told
  BY DEF Init, Fresh, Told
<1>3. TypeOK /\ Safe /\ Fresh /\ Told /\ [Next]_vars => [Relay!Next]_(Relay!vars)
  BY StepRefines
<1> QED
  BY <1>1, <1>2, <1>3, FreshNext, ToldNext, TypeCorrect, SafeAlways, PTL
  DEF Spec, Implements, Relay!Spec
=============================================================================
