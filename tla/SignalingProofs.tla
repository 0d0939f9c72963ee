--------------------------- MODULE SignalingProofs ---------------------------
(***************************************************************************)
(* TLAPS proofs about Signaling, for every set of clients, users and rooms  *)
(* and every buffer size.                                                  *)
(***************************************************************************)
EXTENDS Signaling, FiniteSetTheorems, TLAPS

-----------------------------------------------------------------------------
(* Type correctness *)

\* The number of connections of each user is a natural number.
LEMMA RosterType ==
  ASSUME NEW P \in SUBSET Clients
  PROVE  Roster(P) \in [Users -> Int]
<1> SUFFICES ASSUME NEW u \in Users
             PROVE  Cardinality({d \in P : UserOf[d] = u}) \in Int
  BY DEF Roster
<1>1. IsFiniteSet({d \in P : UserOf[d] = u})
  BY FS_Subset, ClientsAssumption
<1> QED
  BY <1>1, FS_CardinalityType

\* Learning from a message, or from none, keeps a view a view.
LEMMA LearnType ==
  ASSUME NEW view \in [Users -> Int], NEW m \in Message \cup {NoMessage}
  PROVE  Learn(view, m) \in [Users -> Int]
<1>1. CASE m \in Message
  <2>1. UserOf[m.src] \in Users
    BY <1>1, UserAssumption DEF Message
  <2> QED
    BY <2>1 DEF Learn
<1>2. CASE m = NoMessage
  BY <1>2 DEF Learn, NoMessage
<1> QED
  BY <1>1, <1>2

\* A loop that is started has targets among the clients and carries a message.
LEMMA FanOutType ==
  ASSUME NEW targets \in SUBSET Clients, NEW c \in Clients,
         NEW type \in {"peer-joined", "peer-left", "relay"},
         NEW to \in Users \cup {Everyone},
         FanOut(targets, type, c, to)
  PROVE  todo' \in SUBSET Clients /\ cur' \in Message \cup {NoMessage}
BY DEF FanOut, Message

\* leave keeps the types, whoever asked for it.
LEMMA LeaveType ==
  ASSUME TypeOK, NEW c \in Clients, (c \in members /\ Leave(c)) \/ AlreadyLeft(c)
  PROVE  /\ members' \subseteq Clients /\ roomKeys' \subseteq Rooms /\ count' \in Int
         /\ closed' \subseteq Clients /\ panicked' \in BOOLEAN
         /\ todo' \subseteq Clients /\ cur' \in Message \cup {NoMessage}
         /\ presence' \in [Clients -> [Users -> Int]]
<1>1. CASE Leave(c)
  <2>1. todo' \subseteq Clients /\ cur' \in Message \cup {NoMessage}
    <3>1. Occupants(RoomOf[c]) \ {c} \in SUBSET Clients
      BY DEF TypeOK, Occupants
    <3>2. FanOut(Occupants(RoomOf[c]) \ {c}, "peer-left", c, Everyone)
      BY <1>1 DEF Leave
    <3> QED
      BY <3>1, <3>2, FanOutType
  <2>2. NoOne \in [Users -> Int]
    BY DEF NoOne
  <2>3. panicked' \in BOOLEAN
    BY <1>1 DEF Leave, TypeOK
  <2> QED
    BY <1>1, <2>1, <2>2, <2>3 DEF Leave, TypeOK
<1>2. CASE AlreadyLeft(c)
  BY <1>2 DEF AlreadyLeft, TypeOK, roomVars
<1> QED
  BY <1>1, <1>2

\* The hub starts empty.
LEMMA TypeInit == Init => TypeOK
<1> SUFFICES ASSUME Init PROVE TypeOK
  OBVIOUS
<1>1. send \in [Clients -> 0 .. SendBufferSize] /\ published \in 0 .. MaxPublish
  BY BufferAssumption, BoundsAssumption DEF Init
<1>2. presence \in [Clients -> [Users -> Int]]
  BY DEF Init, NoOne
<1>3. panicked \in BOOLEAN
  BY DEF Init
<1>4. stalled \in Seq(Clients) /\ evict \in Seq(Clients)
  BY DEF Init
<1>5. reader \in [Clients -> ReaderStates] /\ writer \in [Clients -> WriterStates]
  BY DEF Init, ReaderStates, WriterStates
<1> QED
  BY <1>1, <1>2, <1>3, <1>4, <1>5 DEF Init, TypeOK

\* Every step keeps the types.
LEMMA TypeNext == TypeOK /\ [Next]_vars => TypeOK'
<1> SUFFICES ASSUME TypeOK, [Next]_vars PROVE TypeOK'
  OBVIOUS
<1> USE DEF hubVars, roomVars, fanVars, pumpVars, pumpRest, writerRest
<1>1. ASSUME NEW c \in Clients, Register(c) PROVE TypeOK'
  <2>1. Roster(Occupants(RoomOf[c])) \in [Users -> Int]
    BY RosterType DEF Occupants, TypeOK
  <2>2. todo' \subseteq Clients /\ cur' \in Message \cup {NoMessage}
    <3>1. CASE HasSpace(c)
      <4>1. Occupants(RoomOf[c]) \ {c} \in SUBSET Clients
        BY DEF TypeOK, Occupants
      <4>2. FanOut(Occupants(RoomOf[c]) \ {c}, "peer-joined", c, Everyone)
        BY <1>1, <3>1 DEF Register
      <4> QED
        BY <4>1, <4>2, FanOutType
    <3>2. CASE ~HasSpace(c)
      BY <1>1, <3>2 DEF Register, TypeOK
    <3> QED
      BY <3>1, <3>2
  <2>3. send' \in [Clients -> 0 .. SendBufferSize]
    <3>1. send' = send \/ (HasSpace(c) /\ send' = [send EXCEPT ![c] = @ + 1])
      BY <1>1 DEF Register
    <3>2. CASE HasSpace(c) /\ send' = [send EXCEPT ![c] = @ + 1]
      BY <3>2, BufferAssumption DEF TypeOK, HasSpace
    <3> QED
      BY <3>1, <3>2 DEF TypeOK
  <2>4. presence' \in [Clients -> [Users -> Int]] /\ evict' \in Seq(Clients)
    <3>1. /\ presence' \in {presence, [presence EXCEPT ![c] = Roster(Occupants(RoomOf[c]))]}
          /\ evict' \in {evict, <<c>>}
      BY <1>1 DEF Register
    <3>2. [presence EXCEPT ![c] = Roster(Occupants(RoomOf[c]))] \in [Clients -> [Users -> Int]]
      BY <2>1 DEF TypeOK
    <3>3. presence' \in [Clients -> [Users -> Int]]
      BY <3>1, <3>2 DEF TypeOK
    <3>4. <<c>> \in Seq(Clients)
      OBVIOUS
    <3>5. evict' \in Seq(Clients)
      BY <3>1, <3>4 DEF TypeOK
    <3> QED
      BY <3>3, <3>5
  <2>5. roomKeys' \subseteq Rooms /\ members' \subseteq Clients /\ count' \in Int
    <3>1. /\ members' = members \cup {c} /\ roomKeys' = roomKeys \cup {RoomOf[c]}
          /\ count' = count + 1
      BY <1>1 DEF Register
    <3> QED
      BY <3>1, RoomAssumption DEF TypeOK
  <2>6. panicked' \in BOOLEAN
    <3>1. panicked' = (panicked \/ c \in closed)
      BY <1>1 DEF Register
    <3> QED
      BY <3>1
  <2>7. reader' \in [Clients -> ReaderStates] /\ writer' \in [Clients -> WriterStates]
    <3>1. /\ reader' = [reader EXCEPT ![c] = "reading"]
          /\ writer' = [writer EXCEPT ![c] = "running"]
      BY <1>1 DEF Register
    <3> QED
      BY <3>1 DEF TypeOK, ReaderStates, WriterStates
  <2> QED
    BY <1>1, <2>2, <2>3, <2>4, <2>5, <2>6, <2>7 DEF Register, TypeOK
<1>2. ASSUME NEW c \in Clients, Unregister(c) PROVE TypeOK'
  <2>1. (c \in members /\ Leave(c)) \/ AlreadyLeft(c)
    BY <1>2 DEF Unregister
  <2>2. reader' \in [Clients -> ReaderStates]
    BY <1>2 DEF Unregister, TypeOK, ReaderStates
  <2> QED
    BY <1>2, <2>1, <2>2, LeaveType DEF Unregister, TypeOK
<1>3. ASSUME NEW c \in Clients, Broadcast(c) PROVE TypeOK'
  <2>1. todo' \subseteq Clients /\ cur' \in Message \cup {NoMessage}
    <3>1. Recipients(c, addressee[c]) \in SUBSET Clients
      BY DEF TypeOK, Recipients, Occupants
    <3>2. FanOut(Recipients(c, addressee[c]), "relay", c, addressee[c])
      BY <1>3 DEF Broadcast
    <3>3. addressee[c] \in Users \cup {Everyone}
      BY DEF TypeOK
    <3> QED
      BY <3>1, <3>2, <3>3, FanOutType
  <2> QED
    BY <1>3, <2>1 DEF Broadcast, TypeOK, ReaderStates
<1>4. ASSUME NEW c \in Clients, Push(c) PROVE TypeOK'
  <2>1. presence' \in [Clients -> [Users -> Int]]
    <3>1. Learn(presence[c], cur) \in [Users -> Int]
      BY LearnType DEF TypeOK
    <3> QED
      BY <1>4, <3>1 DEF Push, TypeOK
  <2>2. send' \in [Clients -> 0 .. SendBufferSize]
    BY <1>4, BufferAssumption DEF Push, TypeOK, HasSpace
  <2>3. panicked' \in BOOLEAN
    BY <1>4 DEF Push, TypeOK
  <2> QED
    BY <1>4, <2>1, <2>2, <2>3 DEF Push, TypeOK
<1>5. ASSUME NEW c \in Clients, PushFull(c) PROVE TypeOK'
  <2>1. panicked' \in BOOLEAN
    BY <1>5 DEF PushFull, TypeOK
  <2> QED
    BY <1>5, <2>1 DEF PushFull, TypeOK
<1>6. CASE DropStalled
  BY <1>6 DEF DropStalled, TypeOK
<1>7. CASE Evict
  <2>1. Head(evict) \in Clients /\ evict' \in Seq(Clients)
    BY <1>7 DEF Evict, TypeOK
  <2>2. (Head(evict) \in members /\ Leave(Head(evict))) \/ AlreadyLeft(Head(evict))
    BY <1>7 DEF Evict
  <2> QED
    BY <1>7, <2>1, <2>2, LeaveType DEF Evict, TypeOK
<1>8. CASE Stop
  <2>1. panicked' \in BOOLEAN
    BY <1>8 DEF Stop, TypeOK
  <2>2. presence' \in [Clients -> [Users -> Int]]
    BY <1>8 DEF Stop, NoOne
  <2> QED
    BY <1>8, <2>1, <2>2 DEF Stop, TypeOK
<1>9. CASE CloseDone
  BY <1>9 DEF CloseDone, TypeOK
<1>10. ASSUME NEW c \in Clients, ReadPump(c) PROVE TypeOK'
  <2>1. CASE Upgrade(c)
    BY <2>1 DEF Upgrade, TypeOK, ReaderStates
  <2>2. CASE AddRefused(c)
    BY <2>2 DEF AddRefused, TypeOK, ReaderStates
  <2>3. ASSUME NEW to \in Users \cup {Everyone}, ReadFrame(c, to) PROVE TypeOK'
    <3>1. published' \in 0 .. MaxPublish
      BY <2>3, BoundsAssumption DEF ReadFrame, TypeOK
    <3> QED
      BY <2>3, <3>1 DEF ReadFrame, TypeOK, ReaderStates
  <2>4. CASE ReadFails(c)
    BY <2>4 DEF ReadFails, TypeOK, ReaderStates
  <2>5. CASE GiveUp(c)
    BY <2>5 DEF GiveUp, TypeOK, ReaderStates
  <2>6. CASE ReaderClose(c)
    BY <2>6 DEF ReaderClose, TypeOK, ReaderStates
  <2> QED
    BY <1>10, <2>1, <2>2, <2>3, <2>4, <2>5, <2>6 DEF ReadPump
<1>11. ASSUME NEW c \in Clients, WritePump(c) PROVE TypeOK'
  <2>1. send' \in [Clients -> 0 .. SendBufferSize]
    <3>1. send' = send \/ (send[c] > 0 /\ send' = [send EXCEPT ![c] = @ - 1])
      BY <1>11, Zenon DEF WritePump, WriteFrame, WriteFails, PingFails, WriterClose
    <3>2. CASE send[c] > 0 /\ send' = [send EXCEPT ![c] = @ - 1]
      BY <3>2, BufferAssumption DEF TypeOK
    <3> QED
      BY <3>1, <3>2 DEF TypeOK
  <2>2. writer' \in [Clients -> WriterStates]
    BY <1>11 DEF WritePump, WriteFrame, WriteFails, PingFails, WriterClose, TypeOK, WriterStates
  <2>3. conn' \in [Clients -> {"none", "open", "gone", "closed"}]
    BY <1>11 DEF WritePump, WriteFrame, WriteFails, PingFails, WriterClose, TypeOK
  <2> QED
    BY <1>11, <2>1, <2>2, <2>3
    DEF WritePump, WriteFrame, WriteFails, PingFails, WriterClose, TypeOK
<1>12. ASSUME NEW c \in Clients, PeerGone(c) PROVE TypeOK'
  BY <1>12 DEF PeerGone, TypeOK
<1>13. CASE Cancel
  BY <1>13 DEF Cancel, TypeOK
<1>14. CASE UNCHANGED vars
  BY <1>14 DEF vars, TypeOK
<1>15. CASE Finished
  BY <1>14, <1>15 DEF Finished
<1> QED
  BY <1>1, <1>2, <1>3, <1>4, <1>5, <1>6, <1>7, <1>8, <1>9, <1>10, <1>11, <1>12,
     <1>13, <1>14, <1>15 DEF Next, Run

\* Every state Run and the pumps reach is well typed; in particular no send channel
\* ever holds more than SendBufferSize frames.
THEOREM TypeCorrect == Spec => []TypeOK
BY TypeInit, TypeNext, PTL DEF Spec

-----------------------------------------------------------------------------
(* No panic, and no ghost members *)

\* Only members are pushed to, and no member's channel is closed.
Targets == todo \subseteq members /\ members \cap closed = {}

\* A channel is closed only once its client has been registered.
Departed == \A c \in closed : reader[c] \notin {"none", "adding"}

\* Run leaves nothing behind when it returns.
Halted == hub # "running" => members = {} /\ todo = {} /\ stalled = <<>> /\ evict = <<>>

\* The inductive invariant behind NoPanic and NoGhost.
Safe == NoPanic /\ NoGhost /\ Targets /\ Departed /\ Halted

\* What leave does to the parts of Safe that it touches.
LEMMA LeaveSafe ==
  ASSUME TypeOK, Safe, NEW c \in Clients, todo = {}, reader[c] \notin {"none", "adding"},
         (c \in members /\ Leave(c)) \/ AlreadyLeft(c)
  PROVE  /\ ~panicked'
         /\ Targets'
         /\ members' \subseteq members /\ c \notin members'
         /\ closed' \subseteq closed \cup {c}
         /\ hub # "running" => members' = {} /\ todo' = {}
<1>1. CASE c \in members /\ Leave(c)
  <2>1. ~panicked'
    BY <1>1 DEF Leave, Safe, NoPanic, Targets
  <2>2. todo' = Occupants(RoomOf[c]) \ {c}
    BY <1>1 DEF Leave, FanOut
  <2>3. members' = members \ {c} /\ closed' = closed \cup {c}
    BY <1>1 DEF Leave
  <2> QED
    BY <1>1, <2>1, <2>2, <2>3 DEF Safe, Targets, Halted, Occupants
<1>2. CASE AlreadyLeft(c)
  BY <1>2 DEF AlreadyLeft, roomVars, Safe, NoPanic, Targets, Halted
<1> QED
  BY <1>1, <1>2

\* An empty hub is safe.
LEMMA SafeInit == Init => Safe
BY DEF Init, Safe, NoPanic, NoGhost, Targets, Departed, Halted

\* Every step keeps channels, rooms and pumps in agreement.
LEMMA SafeNext == TypeOK /\ Safe /\ [Next]_vars => Safe'
<1> SUFFICES ASSUME TypeOK, Safe, [Next]_vars PROVE Safe'
  OBVIOUS
<1> USE DEF hubVars, roomVars, fanVars, pumpVars, pumpRest, writerRest
<1>1. ASSUME NEW c \in Clients, Register(c) PROVE Safe'
  <2>1. /\ hub = "running" /\ hub' = hub /\ closed' = closed
        /\ members' = members \cup {c}
        /\ panicked' = (panicked \/ c \in closed)
        /\ reader[c] = "adding" /\ reader' = [reader EXCEPT ![c] = "reading"]
    BY <1>1 DEF Register, HubIdle
  <2>2. todo' \subseteq members
    <3>1. CASE HasSpace(c)
      BY <1>1, <3>1 DEF Register, FanOut, Occupants
    <3>2. CASE ~HasSpace(c)
      BY <1>1, <3>2 DEF Register, Safe, Targets
    <3> QED
      BY <3>1, <3>2
  <2>3. c \notin closed
    BY <2>1 DEF Safe, Departed
  <2>4. NoPanic'
    BY <2>1, <2>3 DEF Safe, NoPanic
  <2>5. Targets'
    BY <2>1, <2>2, <2>3 DEF Safe, Targets
  <2>6. NoGhost' /\ Departed'
    BY <2>1, <2>3 DEF Safe, NoGhost, Departed, TypeOK
  <2> QED
    BY <2>1, <2>4, <2>5, <2>6 DEF Safe, Halted
<1>2. ASSUME NEW c \in Clients, Unregister(c) PROVE Safe'
  <2>1. /\ todo = {} /\ reader[c] = "dropping" /\ hub = "running" /\ hub' = hub
        /\ reader' = [reader EXCEPT ![c] = "closing"]
        /\ (c \in members /\ Leave(c)) \/ AlreadyLeft(c)
    BY <1>2 DEF Unregister, HubIdle
  <2>2. /\ ~panicked' /\ Targets' /\ members' \subseteq members /\ c \notin members'
        /\ closed' \subseteq closed \cup {c}
    BY <2>1, LeaveSafe
  <2>3. NoGhost' /\ Departed'
    BY <2>1, <2>2 DEF Safe, NoGhost, Departed, TypeOK
  <2> QED
    BY <2>1, <2>2, <2>3 DEF Safe, NoPanic, Halted
<1>3. ASSUME NEW c \in Clients, Broadcast(c) PROVE Safe'
  <2>1. todo' \subseteq members
    BY <1>3 DEF Broadcast, FanOut, Recipients, Occupants
  <2>2. NoGhost' /\ Departed'
    BY <1>3 DEF Broadcast, Safe, NoGhost, Departed, TypeOK
  <2>3. hub = "running"
    BY <1>3 DEF Broadcast, HubIdle
  <2> QED
    BY <1>3, <2>1, <2>2, <2>3 DEF Broadcast, Safe, NoPanic, Targets, Halted
<1>4. ASSUME NEW c \in Clients, Push(c) \/ PushFull(c) PROVE Safe'
  <2>1. /\ c \in todo /\ todo' \subseteq todo /\ panicked' = (panicked \/ c \in closed)
        /\ UNCHANGED <<hub, members, closed, reader>>
    BY <1>4 DEF Push, PushFull
  <2>2. ~panicked' /\ hub = "running"
    BY <2>1 DEF Safe, NoPanic, Targets, Halted
  <2> QED
    BY <2>1, <2>2 DEF Safe, NoPanic, NoGhost, Targets, Departed, Halted
<1>5. CASE DropStalled
  BY <1>5 DEF DropStalled, Safe, NoPanic, NoGhost, Targets, Departed, Halted
<1>6. CASE Evict
  <2> DEFINE c == Head(evict)
  <2>1. /\ c \in Clients /\ todo = {} /\ evict # <<>>
        /\ (c \in members /\ Leave(c)) \/ AlreadyLeft(c)
        /\ UNCHANGED <<hub, reader>>
    BY <1>6 DEF Evict, TypeOK
  <2>2. hub = "running"
    BY <2>1 DEF Safe, Halted
  <2>3. CASE c \in members
    <3>1. reader[c] \notin {"none", "adding"}
      BY <2>3 DEF Safe, NoGhost
    <3>2. /\ ~panicked' /\ Targets' /\ members' \subseteq members
          /\ closed' \subseteq closed \cup {c}
      BY <2>1, <3>1, LeaveSafe
    <3> QED
      BY <2>1, <2>2, <3>1, <3>2 DEF Safe, NoPanic, NoGhost, Departed, Halted
  <2>4. CASE c \notin members
    <3>1. UNCHANGED <<members, closed, panicked, todo>>
      BY <2>1, <2>4 DEF AlreadyLeft
    <3> QED
      BY <2>1, <2>2, <3>1 DEF Safe, NoPanic, NoGhost, Targets, Departed, Halted
  <2> QED
    BY <2>3, <2>4
<1>7. CASE Stop
  <2>1. ~panicked'
    BY <1>7 DEF Stop, Safe, NoPanic, Targets
  <2>2. /\ members' = {} /\ closed' = closed \cup members /\ reader' = reader
        /\ todo' = {} /\ stalled' = <<>> /\ evict' = <<>>
    BY <1>7 DEF Stop, HubIdle
  <2> QED
    BY <2>1, <2>2 DEF Safe, NoPanic, NoGhost, Targets, Departed, Halted
<1>8. CASE CloseDone
  BY <1>8 DEF CloseDone, Safe, NoPanic, NoGhost, Targets, Departed, Halted
<1>9. ASSUME NEW c \in Clients, ReadPump(c) PROVE Safe'
  <2>1. UNCHANGED <<members, closed, panicked, todo, hub, stalled, evict>>
    BY <1>9
    DEF ReadPump, Upgrade, AddRefused, ReadFrame, ReadFails, GiveUp, ReaderClose
  <2>2. NoGhost' /\ Departed'
    <3>1. CASE Upgrade(c)
      BY <2>1, <3>1 DEF Upgrade, Safe, NoGhost, Departed, TypeOK
    <3>2. CASE AddRefused(c)
      BY <2>1, <3>2 DEF AddRefused, Safe, NoGhost, Departed, TypeOK
    <3>3. ASSUME NEW to, ReadFrame(c, to) PROVE NoGhost' /\ Departed'
      BY <2>1, <3>3 DEF ReadFrame, Safe, NoGhost, Departed, TypeOK
    <3>4. CASE ReadFails(c)
      BY <2>1, <3>4 DEF ReadFails, Safe, NoGhost, Departed, TypeOK
    <3>5. CASE GiveUp(c)
      BY <2>1, <3>5 DEF GiveUp, Safe, NoGhost, Departed, Halted, TypeOK
    <3>6. CASE ReaderClose(c)
      BY <2>1, <3>6 DEF ReaderClose, Safe, NoGhost, Departed, TypeOK
    <3> QED
      BY <1>9, <3>1, <3>2, <3>3, <3>4, <3>5, <3>6 DEF ReadPump
  <2> QED
    BY <2>1, <2>2 DEF Safe, NoPanic, Targets, Halted
<1>10. CASE \/ \E c \in Clients : WritePump(c) \/ PeerGone(c)
            \/ Cancel \/ Finished \/ UNCHANGED vars
  <2>1. UNCHANGED <<members, closed, panicked, todo, hub, stalled, evict, reader>>
    BY <1>10 DEF WritePump, WriteFrame, WriteFails, PingFails, WriterClose, PeerGone,
                 Cancel, Finished, vars
  <2> QED
    BY <2>1 DEF Safe, NoPanic, NoGhost, Targets, Departed, Halted
<1> QED
  BY <1>1, <1>2, <1>3, <1>4, <1>5, <1>6, <1>7, <1>8, <1>9, <1>10 DEF Next, Run

\* They agree throughout.
LEMMA SafeAlways == Spec => []Safe
BY TypeCorrect, SafeInit, SafeNext, PTL DEF Spec

\* Run never panics: no send channel is closed twice or pushed to once closed, in any
\* interleaving of evictions, unregistrations and the shutdown.
THEOREM NeverPanics == Spec => []NoPanic
<1>1. Safe => NoPanic
  BY DEF Safe
<1> QED
  BY <1>1, SafeAlways, PTL

\* A connection whose drop has returned is a member of no room.
THEOREM NoGhostMembers == Spec => []NoGhost
<1>1. Safe => NoGhost
  BY DEF Safe
<1> QED
  BY <1>1, SafeAlways, PTL

-----------------------------------------------------------------------------
(* Bookkeeping *)

\* leave keeps the count and the set of rooms exact.
LEMMA LeaveBooks ==
  ASSUME TypeOK, Bookkeeping, NEW c \in Clients, (c \in members /\ Leave(c)) \/ AlreadyLeft(c)
  PROVE  Bookkeeping'
<1>1. CASE c \in members /\ Leave(c)
  <2>1. /\ members' = members \ {c} /\ count' = count - 1
        /\ roomKeys' = IF Occupants(RoomOf[c]) = {c} THEN roomKeys \ {RoomOf[c]} ELSE roomKeys
    BY <1>1 DEF Leave
  <2>2. IsFiniteSet(members)
    BY ClientsAssumption, FS_Subset DEF TypeOK
  <2>3. Cardinality(members \ {c}) = Cardinality(members) - 1
    BY <1>1, <2>2, FS_RemoveElement
  <2>4. roomKeys' = {RoomOf[d] : d \in members \ {c}}
    <3>1. CASE Occupants(RoomOf[c]) = {c}
      BY <1>1, <2>1, <3>1 DEF Bookkeeping, Occupants
    <3>2. CASE Occupants(RoomOf[c]) # {c}
      <4>1. PICK d \in members : d # c /\ RoomOf[d] = RoomOf[c]
        BY <1>1, <3>2 DEF Occupants
      <4> QED
        BY <2>1, <3>2, <4>1 DEF Bookkeeping
    <3> QED
      BY <3>1, <3>2
  <2> QED
    BY <2>1, <2>3, <2>4 DEF Bookkeeping
<1>2. CASE AlreadyLeft(c)
  BY <1>2 DEF AlreadyLeft, roomVars, Bookkeeping
<1> QED
  BY <1>1, <1>2

\* Every step keeps the counts in agreement with the rooms.
LEMMA BooksNext == TypeOK /\ Safe /\ Bookkeeping /\ [Next]_vars => Bookkeeping'
<1> SUFFICES ASSUME TypeOK, Safe, Bookkeeping, [Next]_vars PROVE Bookkeeping'
  OBVIOUS
<1> USE DEF hubVars, roomVars, fanVars, pumpVars, pumpRest, writerRest
<1>1. ASSUME NEW c \in Clients, Register(c) PROVE Bookkeeping'
  <2>1. /\ members' = members \cup {c} /\ roomKeys' = roomKeys \cup {RoomOf[c]}
        /\ count' = count + 1 /\ reader[c] = "adding"
    BY <1>1 DEF Register
  <2>2. c \notin members
    BY <2>1 DEF Safe, NoGhost
  <2>3. IsFiniteSet(members)
    BY ClientsAssumption, FS_Subset DEF TypeOK
  <2>4. Cardinality(members \cup {c}) = Cardinality(members) + 1
    BY <2>2, <2>3, FS_AddElement
  <2> QED
    BY <2>1, <2>4 DEF Bookkeeping
<1>2. ASSUME NEW c \in Clients, Unregister(c) PROVE Bookkeeping'
  BY <1>2, LeaveBooks DEF Unregister
<1>3. CASE Evict
  <2>1. Head(evict) \in Clients
    BY <1>3 DEF Evict, TypeOK
  <2> QED
    BY <1>3, <2>1, LeaveBooks DEF Evict
<1>4. CASE Stop
  BY <1>4, FS_EmptySet DEF Stop, Bookkeeping
<1>5. CASE \/ \E c \in Clients : Broadcast(c) \/ Push(c) \/ PushFull(c)
           \/ DropStalled \/ CloseDone
  BY <1>5 DEF Broadcast, Push, PushFull, DropStalled, CloseDone, Bookkeeping
<1>6. CASE \/ \E c \in Clients : ReadPump(c) \/ WritePump(c) \/ PeerGone(c)
           \/ Cancel \/ Finished \/ UNCHANGED vars
  BY <1>6 DEF ReadPump, Upgrade, AddRefused, ReadFrame, ReadFails, GiveUp, ReaderClose,
              WritePump, WriteFrame, WriteFails, PingFails, WriterClose, PeerGone,
              Cancel, Finished, vars, Bookkeeping
<1> QED
  BY <1>1, <1>2, <1>3, <1>4, <1>5, <1>6 DEF Next, Run

\* ClientCount is exact and no empty room is kept, through every cascade of evictions.
THEOREM BookkeepingExact == Spec => []Bookkeeping
<1>1. Init => Bookkeeping
  BY FS_EmptySet DEF Init, Bookkeeping
<1> QED
  BY <1>1, BooksNext, TypeCorrect, SafeAlways, PTL DEF Spec

-----------------------------------------------------------------------------
(* Scope of a relayed message *)

\* The targets of a running deliver loop are those its message is addressed to.
Addressed ==
  cur.type = "relay" =>
    \A d \in todo : /\ d # cur.src /\ RoomOf[d] = RoomOf[cur.src]
                    /\ cur.to \in {Everyone, UserOf[d]}

\* Every step keeps the loop to the targets its message is addressed to.
LEMMA AddressedNext == Addressed /\ [Next]_vars => Addressed'
<1> SUFFICES ASSUME Addressed, [Next]_vars PROVE Addressed'
  OBVIOUS
<1> USE DEF hubVars, roomVars, fanVars, pumpVars, pumpRest, writerRest
<1>1. ASSUME NEW c, NEW S, FanOut(S, "peer-joined", c, Everyone) \/ FanOut(S, "peer-left", c, Everyone)
      PROVE  Addressed'
  BY <1>1 DEF FanOut, NoMessage, Addressed
<1>2. ASSUME NEW c, (c \in members /\ Leave(c)) \/ AlreadyLeft(c) PROVE Addressed'
  BY <1>1, <1>2 DEF Leave, AlreadyLeft, Addressed
<1>3. ASSUME NEW c \in Clients, Register(c) PROVE Addressed'
  <2>1. CASE HasSpace(c)
    BY <1>1, <1>3, <2>1 DEF Register
  <2>2. CASE ~HasSpace(c)
    BY <1>3, <2>2 DEF Register, Addressed
  <2> QED
    BY <2>1, <2>2
<1>4. ASSUME NEW c \in Clients, Broadcast(c) PROVE Addressed'
  <2>1. FanOut(Recipients(c, addressee[c]), "relay", c, addressee[c])
    BY <1>4 DEF Broadcast
  <2> QED
    BY <2>1 DEF FanOut, Recipients, Occupants, NoMessage, Addressed
<1>5. ASSUME NEW c \in Clients, Push(c) \/ PushFull(c) PROVE Addressed'
  <2>1. todo' \subseteq todo /\ cur' \in {cur, NoMessage}
    BY <1>5 DEF Push, PushFull
  <2> QED
    BY <2>1 DEF Addressed, NoMessage
<1>6. CASE (\E c \in Clients : Unregister(c)) \/ Evict
  BY <1>2, <1>6 DEF Unregister, Evict
<1>7. CASE \/ \E c \in Clients : ReadPump(c) \/ WritePump(c) \/ PeerGone(c)
           \/ DropStalled \/ Stop \/ CloseDone \/ Cancel \/ Finished \/ UNCHANGED vars
  BY <1>7 DEF ReadPump, Upgrade, AddRefused, ReadFrame, ReadFails, GiveUp, ReaderClose,
              WritePump, WriteFrame, WriteFails, PingFails, WriterClose, PeerGone,
              DropStalled, Stop, CloseDone, Cancel, Finished, vars, Addressed
<1> QED
  BY <1>3, <1>4, <1>5, <1>6, <1>7 DEF Next, Run

\* A relayed frame reaches only current members of the sender's own room, never the
\* sender's connection, and only the addressed user's connections.
THEOREM RelayIsScoped == Spec => RelayScoped
<1>1. Init => Addressed
  BY DEF Init, Addressed, NoMessage
<1>2. Safe /\ Addressed /\ [Next]_vars =>
        [\A c \in todo \ todo' : cur.type = "relay" =>
           /\ c # cur.src /\ RoomOf[c] = RoomOf[cur.src]
           /\ cur.to \in {Everyone, UserOf[c]}
           /\ c \in members]_vars
  BY DEF Safe, Targets, Addressed
<1> QED
  BY <1>1, <1>2, AddressedNext, SafeAlways, PTL DEF Spec, RelayScoped

-----------------------------------------------------------------------------
(* Presence *)

Elems(s) == {s[i] : i \in DOMAIN s}

\* The clients a frame could not be pushed to: their view no longer counts.
Unserved == Elems(stalled) \cup Elems(evict)

\* The inductive invariant behind PresenceExact: in the middle of a loop, a member that
\* is still to be pushed to lacks exactly what the frame in hand tells it.
Told ==
  \A d \in members \ Unserved :
    Roster(Occupants(RoomOf[d]) \ {d}) =
      IF d \in todo THEN Learn(presence[d], cur) ELSE presence[d]

\* One more connection among P is one more in its user's count.
LEMMA RosterAdd ==
  ASSUME NEW P \in SUBSET Clients, NEW c \in Clients \ P
  PROVE  Roster(P \cup {c}) = [Roster(P) EXCEPT ![UserOf[c]] = @ + 1]
<1>1. IsFiniteSet(P)
  BY FS_Subset, ClientsAssumption
<1>2. ASSUME NEW u \in Users
      PROVE  Roster(P \cup {c})[u] = IF u = UserOf[c] THEN Roster(P)[u] + 1 ELSE Roster(P)[u]
  <2> DEFINE S == {d \in P : UserOf[d] = u}
  <2>1. IsFiniteSet(S)
    BY <1>1, FS_Subset
  <2>2. CASE u = UserOf[c]
    <3>1. {d \in P \cup {c} : UserOf[d] = u} = S \cup {c} /\ c \notin S
      BY <2>2
    <3>2. Cardinality(S \cup {c}) = Cardinality(S) + 1
      BY <2>1, <3>1, FS_AddElement
    <3> QED
      BY <2>2, <3>1, <3>2 DEF Roster
  <2>3. CASE u # UserOf[c]
    <3>1. {d \in P \cup {c} : UserOf[d] = u} = S
      BY <2>3
    <3> QED
      BY <2>3, <3>1 DEF Roster
  <2> QED
    BY <2>2, <2>3
<1>3. Roster(P \cup {c}) = [u \in Users |-> IF u = UserOf[c] THEN Roster(P)[u] + 1 ELSE Roster(P)[u]]
  BY <1>2 DEF Roster
<1> QED
  BY <1>3, UserAssumption DEF Roster

\* One connection less among P is one less in its user's count.
LEMMA RosterRemove ==
  ASSUME NEW P \in SUBSET Clients, NEW c \in P
  PROVE  Roster(P \ {c}) = [Roster(P) EXCEPT ![UserOf[c]] = @ - 1]
<1>1. Roster(P) = [Roster(P \ {c}) EXCEPT ![UserOf[c]] = @ + 1]
  <2>1. (P \ {c}) \cup {c} = P
    OBVIOUS
  <2> QED
    BY <2>1, RosterAdd
<1>2. Roster(P \ {c}) \in [Users -> Int] /\ Roster(P) \in [Users -> Int] /\ UserOf[c] \in Users
  BY RosterType, UserAssumption
<1> DEFINE fewer == Roster(P \ {c})
           all == Roster(P)
<1> HIDE DEF fewer, all
<1>3. PICK u \in Users : u = UserOf[c]
  BY <1>2
<1>4. fewer \in [Users -> Int] /\ all \in [Users -> Int] /\ all = [fewer EXCEPT ![u] = @ + 1]
  BY <1>1, <1>2, <1>3 DEF fewer, all
<1>5. all[u] - 1 = fewer[u] /\ \A v \in Users : v # u => all[v] = fewer[v]
  BY <1>4
<1>6. fewer = [all EXCEPT ![u] = @ - 1]
  BY <1>4, <1>5
<1> QED
  BY <1>3, <1>6 DEF fewer, all

\* Elements of the sequences Run builds.
LEMMA ElemsAppend ==
  ASSUME NEW s \in Seq(Clients), NEW c \in Clients
  PROVE  Elems(Append(s, c)) = Elems(s) \cup {c}
<1>1. DOMAIN Append(s, c) = 1 .. Len(s) + 1 /\ DOMAIN s = 1 .. Len(s) /\ Len(s) \in Nat
  OBVIOUS
<1>2. Append(s, c)[Len(s) + 1] = c
  OBVIOUS
<1>3. \A i \in 1 .. Len(s) : Append(s, c)[i] = s[i]
  OBVIOUS
<1>4. 1 .. Len(s) + 1 = (1 .. Len(s)) \cup {Len(s) + 1}
  BY <1>1
<1> QED
  BY <1>1, <1>2, <1>3, <1>4 DEF Elems

\* What two sequences hold together.
LEMMA ElemsConcat ==
  ASSUME NEW s \in Seq(Clients), NEW t \in Seq(Clients)
  PROVE  Elems(s \o t) = Elems(s) \cup Elems(t)
<1>1. /\ DOMAIN (s \o t) = 1 .. Len(s) + Len(t) /\ DOMAIN s = 1 .. Len(s) /\ DOMAIN t = 1 .. Len(t)
      /\ Len(s) \in Nat /\ Len(t) \in Nat
  OBVIOUS
<1>2. \A i \in 1 .. Len(s) : (s \o t)[i] = s[i]
  OBVIOUS
<1>3. \A i \in 1 .. Len(t) : (s \o t)[Len(s) + i] = t[i]
  OBVIOUS
<1>4. \A i \in 1 .. Len(s) + Len(t) : i \in 1 .. Len(s) \/ \E j \in 1 .. Len(t) : i = Len(s) + j
  <2> SUFFICES ASSUME NEW i \in 1 .. Len(s) + Len(t), i \notin 1 .. Len(s)
               PROVE  i - Len(s) \in 1 .. Len(t) /\ i = Len(s) + (i - Len(s))
    OBVIOUS
  <2> QED
    BY <1>1
<1>5. Elems(s \o t) \subseteq Elems(s) \cup Elems(t)
  BY <1>1, <1>2, <1>3, <1>4 DEF Elems
<1>6. \A j \in 1 .. Len(t) : Len(s) + j \in 1 .. Len(s) + Len(t)
  BY <1>1
<1>7. \A i \in 1 .. Len(s) : i \in 1 .. Len(s) + Len(t)
  BY <1>1
<1>8. Elems(s) \cup Elems(t) \subseteq Elems(s \o t)
  BY <1>1, <1>2, <1>3, <1>6, <1>7 DEF Elems
<1> QED
  BY <1>5, <1>8

\* What a sequence holds besides its first element.
LEMMA ElemsTail ==
  ASSUME NEW s \in Seq(Clients), s # <<>>
  PROVE  Elems(s) = {Head(s)} \cup Elems(Tail(s))
<1>1. s = <<Head(s)>> \o Tail(s) /\ <<Head(s)>> \in Seq(Clients) /\ Tail(s) \in Seq(Clients)
  OBVIOUS
<1>2. Elems(<<Head(s)>>) = {Head(s)}
  BY DEF Elems
<1> QED
  BY <1>1, <1>2, ElemsConcat

\* A client that has not been registered has an empty queue, so its welcome fits.
Fresh == \A c \in Clients : reader[c] \in {"none", "adding"} => send[c] = 0

\* Only a registered client is pushed to.
LEMMA FreshNext == TypeOK /\ Safe /\ Fresh /\ [Next]_vars => Fresh'
<1> SUFFICES ASSUME TypeOK, Safe, Fresh, [Next]_vars PROVE Fresh'
  OBVIOUS
<1> USE DEF hubVars, roomVars, fanVars, pumpVars, pumpRest, writerRest
<1>1. ASSUME NEW c \in Clients, Register(c) PROVE Fresh'
  <2>1. /\ reader' = [reader EXCEPT ![c] = "reading"]
        /\ \A d \in Clients \ {c} : send'[d] = send[d]
    BY <1>1 DEF Register, TypeOK
  <2> QED
    BY <2>1 DEF Fresh, TypeOK
<1>2. ASSUME NEW c \in Clients, Push(c) PROVE Fresh'
  <2>1. reader[c] \notin {"none", "adding"}
    BY <1>2 DEF Push, Safe, Targets, NoGhost
  <2> QED
    BY <1>2, <2>1 DEF Push, Fresh, TypeOK
<1>3. ASSUME NEW c \in Clients, WritePump(c) PROVE Fresh'
  <2>1. reader' = reader
    BY <1>3 DEF WritePump, WriteFrame, WriteFails, PingFails, WriterClose
  <2>2. CASE WriteFrame(c) \/ WriteFails(c)
    <3>1. send[c] > 0 /\ send' = [send EXCEPT ![c] = @ - 1]
      BY <2>2 DEF WriteFrame, WriteFails
    <3>2. reader[c] \notin {"none", "adding"}
      BY <3>1 DEF Fresh
    <3> QED
      BY <2>1, <3>1, <3>2 DEF Fresh, TypeOK
  <2>3. CASE PingFails(c) \/ WriterClose(c)
    BY <2>1, <2>3 DEF PingFails, WriterClose, Fresh
  <2> QED
    BY <1>3, <2>2, <2>3 DEF WritePump
<1>4. ASSUME NEW c \in Clients, ReadPump(c) PROVE Fresh'
  <2>1. send' = send
    BY <1>4 DEF ReadPump, Upgrade, AddRefused, ReadFrame, ReadFails, GiveUp, ReaderClose
  <2>2. \A d \in Clients : reader'[d] \in {"none", "adding"} => reader[d] \in {"none", "adding"}
    BY <1>4 DEF ReadPump, Upgrade, AddRefused, ReadFrame, ReadFails, GiveUp, ReaderClose, TypeOK
  <2> QED
    BY <2>1, <2>2 DEF Fresh
<1>5. CASE \E c \in Clients : Unregister(c) \/ Broadcast(c)
  <2>1. send' = send
    BY <1>5 DEF Unregister, Broadcast
  <2>2. \A d \in Clients : reader'[d] \in {"none", "adding"} => reader[d] \in {"none", "adding"}
    BY <1>5 DEF Unregister, Broadcast, TypeOK
  <2> QED
    BY <2>1, <2>2 DEF Fresh
<1>6. CASE \/ \E c \in Clients : PushFull(c) \/ PeerGone(c)
           \/ DropStalled \/ Evict \/ Stop \/ CloseDone \/ Cancel \/ Finished \/ UNCHANGED vars
  BY <1>6 DEF PushFull, PeerGone, DropStalled, Evict, Stop, CloseDone, Cancel, Finished, vars, Fresh
<1> QED
  BY <1>1, <1>2, <1>3, <1>4, <1>5, <1>6 DEF Next, Run

\* leave keeps Told: those it does not announce the departure to do not need to know.
LEMMA LeaveTold ==
  ASSUME TypeOK, Told, todo = {}, NEW c \in members, Leave(c), Unserved \subseteq Unserved' \cup {c}
  PROVE  Told'
<1> SUFFICES ASSUME NEW d \in members' \ Unserved'
             PROVE  Roster((Occupants(RoomOf[d]))' \ {d}) =
                      IF d \in todo' THEN Learn(presence'[d], cur') ELSE presence'[d]
  BY DEF Told
<1>1. /\ members' = members \ {c} /\ presence' = [presence EXCEPT ![c] = NoOne]
      /\ todo' = Occupants(RoomOf[c]) \ {c}
      /\ todo' # {} => cur' = [type |-> "peer-left", src |-> c, to |-> Everyone]
  BY DEF Leave, FanOut
<1>2. d \in members \ Unserved /\ d # c /\ d \in Clients /\ c \in Clients
  BY <1>1 DEF TypeOK
<1>3. presence'[d] = presence[d]
  BY <1>1, <1>2 DEF TypeOK
<1>4. presence[d] = Roster(Occupants(RoomOf[d]) \ {d})
  BY <1>2 DEF Told
<1>5. CASE RoomOf[d] = RoomOf[c]
  <2> DEFINE P == Occupants(RoomOf[d]) \ {d}
  <2>1. d \in todo' /\ cur' = [type |-> "peer-left", src |-> c, to |-> Everyone]
    BY <1>1, <1>2, <1>5 DEF Occupants
  <2>2. (Occupants(RoomOf[d]))' \ {d} = P \ {c} /\ c \in P /\ P \in SUBSET Clients
    BY <1>1, <1>2, <1>5 DEF Occupants, TypeOK
  <2>3. Learn(presence[d], cur') = [presence[d] EXCEPT ![UserOf[c]] = @ - 1]
    BY <2>1 DEF Learn
  <2> QED
    BY <1>3, <1>4, <2>1, <2>2, <2>3, RosterRemove
<1>6. CASE RoomOf[d] # RoomOf[c]
  <2>1. d \notin todo' /\ (Occupants(RoomOf[d]))' = Occupants(RoomOf[d])
    BY <1>1, <1>6 DEF Occupants
  <2> QED
    BY <1>3, <1>4, <2>1
<1> QED
  BY <1>5, <1>6

\* join keeps Told: the newcomer learns the roster, the others learn of the newcomer.
LEMMA RegisterTold ==
  ASSUME TypeOK, Safe, Fresh, Told, NEW c \in Clients, Register(c)
  PROVE  Told'
<1>1. HasSpace(c) /\ c \notin members /\ todo = {}
  BY BufferAssumption DEF Register, HubIdle, Fresh, HasSpace, Safe, NoGhost
<1>2. /\ members' = members \cup {c}
      /\ presence' = [presence EXCEPT ![c] = Roster(Occupants(RoomOf[c]))]
      /\ todo' = Occupants(RoomOf[c]) \ {c}
      /\ todo' # {} => cur' = [type |-> "peer-joined", src |-> c, to |-> Everyone]
      /\ UNCHANGED <<stalled, evict>>
  BY <1>1 DEF Register, FanOut
<1> SUFFICES ASSUME NEW d \in members' \ Unserved'
             PROVE  Roster((Occupants(RoomOf[d]))' \ {d}) =
                      IF d \in todo' THEN Learn(presence'[d], cur') ELSE presence'[d]
  BY DEF Told
<1>3. CASE d = c
  <2>1. (Occupants(RoomOf[c]))' \ {c} = Occupants(RoomOf[c]) /\ c \notin todo'
    BY <1>1, <1>2 DEF Occupants
  <2>2. presence'[c] = Roster(Occupants(RoomOf[c]))
    BY <1>2 DEF TypeOK
  <2> QED
    BY <1>3, <2>1, <2>2
<1>4. CASE d # c
  <2>1. d \in members \ Unserved /\ d \in Clients
    BY <1>2, <1>4 DEF Unserved, TypeOK
  <2>2. presence'[d] = presence[d]
    BY <1>2, <1>4, <2>1 DEF TypeOK
  <2>3. presence[d] = Roster(Occupants(RoomOf[d]) \ {d})
    BY <1>1, <2>1 DEF Told
  <2>4. CASE RoomOf[d] = RoomOf[c]
    <3> DEFINE P == Occupants(RoomOf[d]) \ {d}
    <3>1. d \in todo' /\ cur' = [type |-> "peer-joined", src |-> c, to |-> Everyone]
      BY <1>2, <1>4, <2>1, <2>4 DEF Occupants
    <3>2. (Occupants(RoomOf[d]))' \ {d} = P \cup {c} /\ c \notin P /\ P \in SUBSET Clients
      BY <1>1, <1>2, <1>4, <2>4 DEF Occupants, TypeOK
    <3>3. Learn(presence[d], cur') = [presence[d] EXCEPT ![UserOf[c]] = @ + 1]
      BY <3>1 DEF Learn
    <3>4. Roster(P \cup {c}) = [Roster(P) EXCEPT ![UserOf[c]] = @ + 1]
      BY <3>2, RosterAdd
    <3> QED
      BY <2>2, <2>3, <3>1, <3>2, <3>3, <3>4
  <2>5. CASE RoomOf[d] # RoomOf[c]
    <3>1. d \notin todo' /\ (Occupants(RoomOf[d]))' = Occupants(RoomOf[d])
      BY <1>2, <2>5 DEF Occupants
    <3> QED
      BY <2>2, <2>3, <3>1
  <2> QED
    BY <2>4, <2>5
<1> QED
  BY <1>3, <1>4

\* Every step tells, or has yet to tell, each member what it changes.
LEMMA ToldNext == TypeOK /\ Safe /\ Fresh /\ Told /\ [Next]_vars => Told'
<1> SUFFICES ASSUME TypeOK, Safe, Fresh, Told, [Next]_vars PROVE Told'
  OBVIOUS
<1> USE DEF hubVars, roomVars, fanVars, pumpVars, pumpRest, writerRest
<1>1. ASSUME NEW c \in Clients, Register(c) PROVE Told'
  BY <1>1, RegisterTold
<1>2. ASSUME UNCHANGED <<members, todo, cur, presence, stalled, evict>> PROVE Told'
  BY <1>2 DEF Told, Occupants, Unserved
<1>3. ASSUME NEW c \in Clients, Unregister(c) PROVE Told'
  <2>1. todo = {} /\ UNCHANGED <<stalled, evict>>
    BY <1>3 DEF Unregister, HubIdle
  <2>2. CASE c \in members /\ Leave(c)
    BY <2>1, <2>2, LeaveTold DEF Unserved
  <2>3. CASE AlreadyLeft(c)
    BY <1>2, <2>1, <2>3 DEF AlreadyLeft
  <2> QED
    BY <1>3, <2>2, <2>3 DEF Unregister
<1>4. ASSUME NEW c \in Clients, Broadcast(c) PROVE Told'
  <2>1. /\ todo = {} /\ UNCHANGED <<members, presence, stalled, evict>>
        /\ todo' # {} => cur'.type = "relay"
    BY <1>4 DEF Broadcast, HubIdle, FanOut
  <2>2. ASSUME NEW d \in members \ Unserved
        PROVE  presence[d] = IF d \in todo' THEN Learn(presence[d], cur') ELSE presence[d]
    BY <2>1 DEF Learn
  <2> QED
    BY <2>1, <2>2 DEF Told, Occupants, Unserved
<1>5. ASSUME NEW c \in Clients, Push(c) PROVE Told'
  <2>1. /\ c \in todo /\ todo' = todo \ {c} /\ (todo' # {} => cur' = cur)
        /\ presence' = [presence EXCEPT ![c] = Learn(@, cur)]
        /\ UNCHANGED <<members, stalled, evict>>
    BY <1>5 DEF Push
  <2>2. ASSUME NEW d \in members \ Unserved
        PROVE  Roster(Occupants(RoomOf[d]) \ {d}) =
                 IF d \in todo' THEN Learn(presence'[d], cur') ELSE presence'[d]
    <3>1. d \in Clients
      BY DEF TypeOK
    <3>2. CASE d = c
      BY <2>1, <3>1, <3>2 DEF Told, TypeOK
    <3>3. CASE d # c
      <4>1. presence'[d] = presence[d] /\ (d \in todo' <=> d \in todo)
        BY <2>1, <3>1, <3>3 DEF TypeOK
      <4> QED
        BY <2>1, <4>1 DEF Told
    <3> QED
      BY <3>2, <3>3
  <2> QED
    BY <2>1, <2>2 DEF Told, Occupants, Unserved
<1>6. ASSUME NEW c \in Clients, PushFull(c) PROVE Told'
  <2>1. /\ c \in todo /\ todo' = todo \ {c} /\ (todo' # {} => cur' = cur)
        /\ stalled' = Append(stalled, c)
        /\ UNCHANGED <<members, presence, evict>>
    BY <1>6 DEF PushFull
  <2>2. Unserved' = Unserved \cup {c}
    BY <2>1, ElemsAppend DEF Unserved, TypeOK
  <2> QED
    BY <2>1, <2>2 DEF Told, Occupants
<1>7. CASE DropStalled
  <2>1. /\ stalled' = <<>> /\ evict' = stalled \o evict
        /\ UNCHANGED <<members, todo, cur, presence>>
    BY <1>7 DEF DropStalled
  <2>2. Elems(<<>>) = {}
    BY DEF Elems
  <2>3. Unserved' = Unserved
    BY <2>1, <2>2, ElemsConcat DEF Unserved, TypeOK
  <2> QED
    BY <2>1, <2>3 DEF Told, Occupants
<1>8. CASE Evict
  <2> DEFINE c == Head(evict)
  <2>1. todo = {} /\ evict # <<>> /\ evict' = Tail(evict) /\ stalled' = stalled
    BY <1>8 DEF Evict
  <2>2. Unserved \subseteq Unserved' \cup {c} /\ Unserved' \subseteq Unserved
    BY <2>1, ElemsTail DEF Unserved, TypeOK
  <2>3. CASE c \in members /\ Leave(c)
    BY <2>1, <2>2, <2>3, LeaveTold
  <2>4. CASE AlreadyLeft(c)
    <3>1. c \notin members /\ UNCHANGED <<members, todo, cur, presence>>
      BY <2>4 DEF AlreadyLeft
    <3> QED
      BY <2>2, <3>1 DEF Told, Occupants
  <2> QED
    BY <1>8, <2>3, <2>4 DEF Evict
<1>9. CASE Stop
  BY <1>9 DEF Stop, Told
<1>10. CASE \/ \E c \in Clients : ReadPump(c) \/ WritePump(c) \/ PeerGone(c)
            \/ CloseDone \/ Cancel \/ Finished \/ UNCHANGED vars
  <2>1. UNCHANGED <<members, todo, cur, presence, stalled, evict>>
    BY <1>10
    DEF ReadPump, Upgrade, AddRefused, ReadFrame, ReadFails, GiveUp, ReaderClose,
        WritePump, WriteFrame, WriteFails, PingFails, WriterClose, PeerGone,
        CloseDone, Cancel, Finished, vars
  <2> QED
    BY <1>2, <2>1
<1> QED
  BY <1>1, <1>3, <1>4, <1>5, <1>6, <1>7, <1>8, <1>9, <1>10 DEF Next, Run

\* No membership change is lost: between two messages, what every member was told adds
\* up to exactly who else is in its room.
THEOREM PresenceIsExact == Spec => []PresenceExact
<1>1. Init => Fresh /\ Told
  BY DEF Init, Fresh, Told
<1>2. Told => PresenceExact
  <2>1. Elems(<<>>) = {}
    BY DEF Elems
  <2> QED
    BY <2>1 DEF PresenceExact, HubIdle, Told, Unserved
<1> QED
  BY <1>1, <1>2, FreshNext, ToldNext, TypeCorrect, SafeAlways, PTL DEF Spec
=============================================================================
