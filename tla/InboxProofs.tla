----------------------------- MODULE InboxProofs -----------------------------
(***************************************************************************)
(* Proofs about Inbox, for any number of connections, users and events and  *)
(* any capacity of the send channels.                                       *)
(*                                                                         *)
(* The hub's promises hang together: no channel is closed twice because a   *)
(* registered connection's channel is open (Disjoint), and that is kept by  *)
(* Add because a connection that has not been registered yet has never been *)
(* touched (Untouched), which is also why nothing is owed to it.            *)
(***************************************************************************)
EXTENDS Inbox, FiniteSetTheorems, TLAPS

-----------------------------------------------------------------------------
(* Sequences: what is written and what is buffered, put together *)

\* An event put in the buffer is the last of what is written and buffered together.
LEMMA AppendBuffered ==
  ASSUME NEW S, NEW s \in Seq(S), NEW t \in Seq(S), NEW e \in S
  PROVE  s \o Append(t, e) = Append(s \o t, e)
  OBVIOUS

\* Writing the first buffered event moves it without changing the whole.
LEMMA WriteHead ==
  ASSUME NEW S, NEW s \in Seq(S), NEW t \in Seq(S), t # <<>>
  PROVE  Append(s, Head(t)) \o Tail(t) = s \o t
  OBVIOUS

\* What is left of a buffer once its first event is received.
LEMMA TailType ==
  ASSUME NEW S, NEW t \in Seq(S), t # <<>>
  PROVE  Head(t) \in S /\ Tail(t) \in Seq(S) /\ Len(Tail(t)) = Len(t) - 1 /\ Len(t) \in Nat
  OBVIOUS

-----------------------------------------------------------------------------
(* Types *)

\* The hub starts empty.
LEMMA InitType == Init => TypeOK
  <1> SUFFICES ASSUME Init PROVE TypeOK
    OBVIOUS
  <1>1. delivered \in 0 .. MaxEvents
    BY BoundsAssumption DEF Init
  <1>2. <<>> \in Seq(Events) /\ \A c \in Conns : Len(send[c]) <= SendBufferSize
    BY BufferAssumption DEF Init
  <1>3. /\ send \in [Conns -> Seq(Events)] /\ written \in [Conns -> Seq(Events)]
        /\ owed \in [Conns -> Seq(Events)]
    BY <1>2 DEF Init
  <1>4. /\ reader \in [Conns -> {"none", "adding", "reading", "removing", "closing", "done"}]
        /\ writer \in [Conns -> {"none", "running", "done"}]
        /\ ws \in [Conns -> {"none", "open", "gone", "closed"}]
    BY DEF Init
  <1>5. /\ count \in Int
        /\ members \subseteq Conns /\ userKeys \subseteq Users /\ closed \subseteq Conns
    BY DEF Init
  <1>6. stopped \in BOOLEAN /\ panicked \in BOOLEAN
    BY DEF Init
  <1>7. QED
    BY <1>1, <1>2, <1>3, <1>4, <1>5, <1>6 DEF TypeOK

\* Deliver queues one event per connection and never beyond the buffer.
LEMMA DeliverType ==
  ASSUME TypeOK, NEW u \in Users, Deliver(u)
  PROVE  /\ send' \in [Conns -> Seq(Events)] /\ owed' \in [Conns -> Seq(Events)]
         /\ \A c \in Conns : Len(send'[c]) <= SendBufferSize
         /\ delivered' \in 0 .. MaxEvents /\ delivered' = delivered + 1 /\ delivered' \in Events
  <1>1. delivered' = delivered + 1 /\ delivered' \in 0 .. MaxEvents /\ delivered' \in Events
    BY BoundsAssumption DEF Deliver, TypeOK, Events
  <1> DEFINE e == delivered + 1
             fits == {c \in Connections(u) : HasSpace(c)}
  <1>2. /\ send' = [c \in Conns |-> IF c \in fits THEN Append(send[c], e) ELSE send[c]]
        /\ owed' = [c \in Conns |-> IF c \in Connections(u) THEN Append(owed[c], e) ELSE owed[c]]
    BY DEF Deliver
  <1>3. \A c \in fits : Len(send[c]) < SendBufferSize
    BY DEF HasSpace
  <1>4. e \in Events
    BY <1>1
  <1> HIDE DEF e, fits
  <1>5. ASSUME NEW c \in Conns
        PROVE  /\ send[c] \in Seq(Events) /\ owed[c] \in Seq(Events)
               /\ Append(send[c], e) \in Seq(Events) /\ Append(owed[c], e) \in Seq(Events)
               /\ Len(Append(send[c], e)) = Len(send[c]) + 1 /\ Len(send[c]) \in Nat
               /\ Len(send[c]) <= SendBufferSize
    BY <1>4 DEF TypeOK
  <1>6. send' \in [Conns -> Seq(Events)] /\ owed' \in [Conns -> Seq(Events)]
    BY <1>2, <1>5
  <1>7. \A c \in Conns : Len(send'[c]) <= SendBufferSize
    BY <1>2, <1>3, <1>5, BufferAssumption
  <1>8. QED
    BY <1>1, <1>6, <1>7

\* removeLocked keeps the types of the registry.
LEMMA removeLockedType ==
  ASSUME TypeOK, NEW S \in SUBSET Conns, NEW sent, removeLocked(S, sent)
  PROVE  /\ members' \subseteq Conns /\ userKeys' \subseteq Users /\ count' \in Int
         /\ closed' \subseteq Conns /\ panicked' \in BOOLEAN
  <1>1. IsFiniteSet(S \cap members)
    BY ConnsAssumption, FS_Subset DEF TypeOK
  <1>2. Cardinality(S \cap members) \in Nat
    BY <1>1, FS_CardinalityType
  <1>3. count' \in Int
    BY <1>2 DEF removeLocked, TypeOK
  <1>4. QED
    BY <1>3 DEF removeLocked, TypeOK

\* Every step keeps the types.
LEMMA NextType == TypeOK /\ [Next]_vars => TypeOK'
  <1> SUFFICES ASSUME TypeOK, [Next]_vars PROVE TypeOK'
    OBVIOUS
  <1> USE DEF hubVars, histVars, pumpRest
  <1>1. ASSUME NEW u \in Users, Deliver(u)
        PROVE  TypeOK'
    <2> DEFINE S == Connections(u) \ {c \in Connections(u) : HasSpace(c)}
    <2>1. S \in SUBSET Conns /\ removeLocked(S, Connections(u))
      BY <1>1 DEF Deliver, Connections, TypeOK
    <2>2. UNCHANGED <<stopped, reader, writer, ws, written>>
      BY <1>1 DEF Deliver
    <2> HIDE DEF S
    <2>3. QED
      BY <1>1, <2>1, <2>2, DeliverType, removeLockedType DEF TypeOK
  <1>2. ASSUME NEW c \in Conns, Add(c)
        PROVE  TypeOK'
    <2>1. UserOf[c] \in Users
      BY UserAssumption
    <2>2. members' \subseteq Conns /\ userKeys' \subseteq Users /\ count' \in Int
      BY <1>2, <2>1 DEF Add, TypeOK
    <2>3. QED
      BY <1>2, <2>2 DEF Add, TypeOK
  <1>3. ASSUME NEW c \in Conns, Remove(c)
        PROVE  TypeOK'
    <2>1. removeLocked({c}, {}) /\ {c} \in SUBSET Conns
      BY <1>3 DEF Remove
    <2>2. QED
      BY <1>3, <2>1, removeLockedType DEF Remove, TypeOK
  <1>4. CASE Shutdown
    BY <1>4 DEF Shutdown, TypeOK
  <1>5. ASSUME NEW c \in Conns, ReadPump(c)
        PROVE  TypeOK'
    BY <1>5 DEF ReadPump, Upgrade, AddRefused, ReadFails, ReaderClose, TypeOK
  <1>6. ASSUME NEW c \in Conns, WriteFrame(c)
        PROVE  TypeOK'
    <2>1. send[c] \in Seq(Events) /\ written[c] \in Seq(Events) /\ send[c] # <<>>
      BY <1>6 DEF WriteFrame, TypeOK
    <2>2. /\ Head(send[c]) \in Events /\ Tail(send[c]) \in Seq(Events)
          /\ Len(Tail(send[c])) = Len(send[c]) - 1 /\ Len(send[c]) \in Nat
      BY <2>1, TailType
    <2>3. Append(written[c], Head(send[c])) \in Seq(Events)
      BY <2>1, <2>2
    <2>4. Len(Tail(send[c])) <= SendBufferSize
      BY <2>2, BufferAssumption DEF TypeOK
    <2>5. QED
      BY <1>6, <2>2, <2>3, <2>4 DEF WriteFrame, TypeOK
  <1>7. ASSUME NEW c \in Conns, WriteFails(c)
        PROVE  TypeOK'
    <2>1. send[c] \in Seq(Events) /\ send[c] # <<>>
      BY <1>7 DEF WriteFails, TypeOK
    <2>2. /\ Tail(send[c]) \in Seq(Events)
          /\ Len(Tail(send[c])) = Len(send[c]) - 1 /\ Len(send[c]) \in Nat
      BY <2>1, TailType
    <2>3. Len(Tail(send[c])) <= SendBufferSize
      BY <2>2, BufferAssumption DEF TypeOK
    <2>4. QED
      BY <1>7, <2>2, <2>3 DEF WriteFails, TypeOK
  <1>8. ASSUME NEW c \in Conns, PingFails(c) \/ WriterClose(c) \/ PeerGone(c)
        PROVE  TypeOK'
    BY <1>8 DEF PingFails, WriterClose, PeerGone, TypeOK
  <1>9. CASE UNCHANGED vars
    BY <1>9 DEF vars, TypeOK
  <1>10. QED
    BY <1>1, <1>2, <1>3, <1>4, <1>5, <1>6, <1>7, <1>8, <1>9 DEF Next, Hub, WritePump, Finished

\* The types hold, and no channel ever holds more than its capacity: Deliver looks for space
\* before it sends (the select with a default, inbox/hub.go).
THEOREM InboxTypeCorrect == Spec => []TypeOK
  BY InitType, NextType, PTL DEF Spec

-----------------------------------------------------------------------------
(* The hub *)

Disjoint == members \cap closed = {}

\* A connection whose add has not run yet.
Untouched(c) ==
  /\ c \notin closed
  /\ writer[c] = "none"
  /\ send[c] = <<>> /\ written[c] = <<>> /\ owed[c] = <<>>

Registry ==
  /\ NoPanic
  /\ Bookkeeping
  /\ NoGhost
  /\ Disjoint
  /\ \A c \in Conns : reader[c] \in {"none", "adding"} => Untouched(c)

\* An empty registry is consistent.
LEMMA InitRegistry == Init => Registry
  <1> SUFFICES ASSUME Init PROVE Registry
    OBVIOUS
  <1>1. Bookkeeping
    BY FS_EmptySet DEF Init, Bookkeeping
  <1>2. QED
    BY <1>1 DEF Init, Registry, NoPanic, NoGhost, Disjoint, Untouched

\* removeLocked, of whatever set of connections and after whichever sends to registered ones:
\* membership guards the close, and the channel of a registered connection is open.
LEMMA removeLockedKeeps ==
  ASSUME TypeOK, Registry, NEW S \in SUBSET Conns, NEW sent \in SUBSET members,
         removeLocked(S, sent)
  PROVE  /\ NoPanic' /\ Bookkeeping' /\ Disjoint'
         /\ members' = members \ S /\ closed' = closed \cup (S \cap members)
  <1>1. members' = members \ S /\ closed' = closed \cup (S \cap members)
    BY DEF removeLocked
  <1>2. NoPanic'
    BY DEF removeLocked, NoPanic, Registry, Disjoint
  <1>3. Disjoint'
    BY <1>1 DEF Registry, Disjoint
  <1>4. count' = Cardinality(members')
    <2>1. IsFiniteSet(members)
      BY ConnsAssumption, FS_Subset DEF TypeOK
    <2>2. Cardinality(members \ S) = Cardinality(members) - Cardinality(members \cap S)
      BY <2>1, FS_Difference
    <2>3. members \cap S = S \cap members
      OBVIOUS
    <2>4. QED
      BY <1>1, <2>2, <2>3 DEF removeLocked, Registry, Bookkeeping
  <1>5. userKeys' = {UserOf[c] : c \in members'}
    <2>1. userKeys' = userKeys \ {u \in Users : Connections(u) # {} /\ Connections(u) \subseteq S}
      BY DEF removeLocked
    <2>2. userKeys = {UserOf[c] : c \in members} /\ members \subseteq Conns
      BY DEF Registry, Bookkeeping, TypeOK
    <2>3. QED
      BY <1>1, <2>1, <2>2, UserAssumption DEF Connections
  <1>6. QED
    BY <1>1, <1>2, <1>3, <1>4, <1>5 DEF Bookkeeping

\* Every step keeps the registry consistent.
LEMMA NextRegistry == TypeOK /\ Registry /\ [Next]_vars => Registry'
  <1> SUFFICES ASSUME TypeOK, Registry, [Next]_vars PROVE Registry'
    OBVIOUS
  <1> USE DEF hubVars, histVars, pumpRest
  <1>1. ASSUME NEW u \in Users, Deliver(u)
        PROVE  Registry'
    <2> DEFINE S == Connections(u) \ {c \in Connections(u) : HasSpace(c)}
    <2>1. /\ S \in SUBSET Conns /\ S \subseteq members /\ removeLocked(S, Connections(u))
          /\ Connections(u) \in SUBSET members
      BY <1>1 DEF Deliver, Connections, TypeOK
    <2>2. UNCHANGED <<stopped, reader, writer, written>>
      BY <1>1 DEF Deliver
    <2>3. \A c \in Conns : c \notin members => send'[c] = send[c] /\ owed'[c] = owed[c]
      BY <1>1 DEF Deliver, Connections
    <2> HIDE DEF S
    <2>4. /\ NoPanic' /\ Bookkeeping' /\ Disjoint'
          /\ members' = members \ S /\ closed' = closed \cup (S \cap members)
      BY <2>1, removeLockedKeeps
    <2>5. NoGhost'
      BY <2>2, <2>4 DEF Registry, NoGhost
    <2>6. ASSUME NEW c \in Conns, reader'[c] \in {"none", "adding"}
          PROVE  Untouched(c)'
      <3>1. reader[c] \in {"none", "adding"} /\ c \notin members /\ Untouched(c)
        BY <2>2, <2>6 DEF Registry, NoGhost
      <3>2. QED
        BY <2>2, <2>3, <2>4, <3>1 DEF Untouched
    <2>7. QED
      BY <2>4, <2>5, <2>6 DEF Registry
  <1>2. ASSUME NEW c \in Conns, Add(c)
        PROVE  Registry'
    <2>1. c \notin members /\ c \notin closed
      BY <1>2 DEF Add, Registry, NoGhost, Untouched
    <2>2. IsFiniteSet(members)
      BY ConnsAssumption, FS_Subset DEF TypeOK
    <2>3. Cardinality(members \cup {c}) = Cardinality(members) + 1
      BY <2>1, <2>2, FS_AddElement
    <2>4. Bookkeeping'
      BY <1>2, <2>3 DEF Add, Registry, Bookkeeping
    <2>5. reader'[c] = "reading" /\ \A d \in Conns : d # c => reader'[d] = reader[d] /\ writer'[d] = writer[d]
      BY <1>2 DEF Add, TypeOK
    <2>6. NoPanic' /\ NoGhost' /\ Disjoint'
      BY <1>2, <2>1, <2>5 DEF Add, Registry, NoPanic, NoGhost, Disjoint, TypeOK
    <2>7. \A d \in Conns : reader'[d] \in {"none", "adding"} => Untouched(d)'
      BY <1>2, <2>5 DEF Add, Registry, Untouched
    <2>8. QED
      BY <2>4, <2>6, <2>7 DEF Registry
  <1>3. ASSUME NEW c \in Conns, Remove(c)
        PROVE  Registry'
    <2>1. removeLocked({c}, {}) /\ {c} \in SUBSET Conns
      BY <1>3 DEF Remove
    <2>2. /\ NoPanic' /\ Bookkeeping' /\ Disjoint'
          /\ members' = members \ {c} /\ closed' = closed \cup ({c} \cap members)
      BY <2>1, removeLockedKeeps
    <2>3. /\ reader'[c] = "closing" /\ \A d \in Conns : d # c => reader'[d] = reader[d]
          /\ UNCHANGED <<stopped, send, writer, written, owed>>
      BY <1>3 DEF Remove, TypeOK
    <2>4. NoGhost'
      BY <2>2, <2>3 DEF Registry, NoGhost, TypeOK
    <2>5. \A d \in Conns : reader'[d] \in {"none", "adding"} => Untouched(d)'
      BY <2>2, <2>3 DEF Registry, Untouched
    <2>6. QED
      BY <2>2, <2>4, <2>5 DEF Registry
  <1>4. CASE Shutdown
    <2>1. /\ members' = {} /\ closed' = closed \cup members /\ userKeys' = {} /\ count' = 0
          /\ UNCHANGED <<send, reader, writer, written, owed>>
      BY <1>4 DEF Shutdown
    <2>2. NoPanic'
      BY <1>4 DEF Shutdown, Registry, NoPanic, Disjoint
    <2>3. Bookkeeping'
      BY <2>1, FS_EmptySet DEF Bookkeeping
    <2>4. NoGhost' /\ Disjoint'
      BY <2>1 DEF NoGhost, Disjoint
    <2>5. \A d \in Conns : reader'[d] \in {"none", "adding"} => Untouched(d)'
      BY <2>1 DEF Registry, NoGhost, Untouched
    <2>6. QED
      BY <2>2, <2>3, <2>4, <2>5 DEF Registry
  <1>5. ASSUME UNCHANGED <<stopped, members, userKeys, count, closed, panicked>>,
               NEW c \in Conns,
               \A d \in Conns : d # c => /\ reader'[d] = reader[d] /\ writer'[d] = writer[d]
                                         /\ send'[d] = send[d] /\ written'[d] = written[d],
               UNCHANGED owed,
               c \in members => reader'[c] \in {"reading", "removing"},
               reader'[c] \in {"none", "adding"}
                 => reader[c] \in {"none", "adding"} /\ UNCHANGED <<writer, send, written>>
        PROVE  Registry'
    <2>1. NoPanic' /\ Bookkeeping' /\ Disjoint'
      BY <1>5 DEF Registry, NoPanic, Bookkeeping, Disjoint
    <2>2. NoGhost'
      BY <1>5 DEF Registry, NoGhost, TypeOK
    <2>3. \A d \in Conns : reader'[d] \in {"none", "adding"} => Untouched(d)'
      BY <1>5 DEF Registry, Untouched
    <2>4. QED
      BY <2>1, <2>2, <2>3 DEF Registry
  <1>6. ASSUME NEW c \in Conns, ReadPump(c)
        PROVE  Registry'
    <2>1. UNCHANGED <<stopped, members, userKeys, count, closed, panicked, send, writer, written, owed>>
      BY <1>6 DEF ReadPump, Upgrade, AddRefused, ReadFails, ReaderClose
    <2>2. \A d \in Conns : d # c => reader'[d] = reader[d]
      BY <1>6 DEF ReadPump, Upgrade, AddRefused, ReadFails, ReaderClose, TypeOK
    <2>3. c \in members => reader'[c] \in {"reading", "removing"}
      BY <1>6 DEF ReadPump, Upgrade, AddRefused, ReadFails, ReaderClose, TypeOK, Registry, NoGhost
    <2>4. reader'[c] \in {"none", "adding"} => reader[c] \in {"none", "adding"}
      BY <1>6 DEF ReadPump, Upgrade, AddRefused, ReadFails, ReaderClose, TypeOK
    <2>5. QED
      BY <1>5, <2>1, <2>2, <2>3, <2>4
  <1>7. ASSUME NEW c \in Conns, WritePump(c)
        PROVE  Registry'
    <2>1. UNCHANGED <<stopped, members, userKeys, count, closed, panicked, reader, owed>>
      BY <1>7 DEF WritePump, WriteFrame, WriteFails, PingFails, WriterClose
    <2>2. \A d \in Conns : d # c => /\ writer'[d] = writer[d] /\ send'[d] = send[d]
                                    /\ written'[d] = written[d]
      BY <1>7 DEF WritePump, WriteFrame, WriteFails, PingFails, WriterClose, TypeOK
    <2>3. writer[c] = "running"
      BY <1>7 DEF WritePump, WriteFrame, WriteFails, PingFails, WriterClose
    <2>4. reader[c] \notin {"none", "adding"}
      BY <2>3 DEF Registry, Untouched
    <2>5. c \in members => reader[c] \in {"reading", "removing"}
      BY DEF Registry, NoGhost
    <2>6. QED
      BY <1>5, <2>1, <2>2, <2>4, <2>5
  <1>8. CASE UNCHANGED vars \/ \E c \in Conns : PeerGone(c)
    BY <1>8 DEF vars, PeerGone, Registry, NoPanic, Bookkeeping, NoGhost, Disjoint, Untouched
  <1>9. QED
    BY <1>1, <1>2, <1>3, <1>4, <1>6, <1>7, <1>8 DEF Next, Hub, Finished

\* The registry is consistent throughout.
LEMMA RegistryAlways == Spec => [](TypeOK /\ Registry)
  <1>1. Init => TypeOK /\ Registry
    BY InitType, InitRegistry
  <1>2. (TypeOK /\ Registry) /\ [Next]_vars => (TypeOK /\ Registry)'
    BY NextType, NextRegistry
  <1>3. QED
    BY <1>1, <1>2, PTL DEF Spec

\* No channel is closed twice or sent to once closed, whoever removes the connection first:
\* Deliver, Shutdown or its own readPump.
THEOREM InboxNeverPanics == Spec => []NoPanic
  <1>1. TypeOK /\ Registry => NoPanic
    BY DEF Registry
  <1>2. QED
    BY <1>1, RegistryAlways, PTL

\* h.count and the keys of h.users agree with the registered connections after every step,
\* also after a Deliver that removes several connections at once.
THEOREM InboxBookkeeping == Spec => []Bookkeeping
  <1>1. TypeOK /\ Registry => Bookkeeping
    BY DEF Registry
  <1>2. QED
    BY <1>1, RegistryAlways, PTL

\* A registered connection has a live readPump to remove it, and Shutdown leaves none.
THEOREM InboxNoGhosts == Spec => []NoGhost
  <1>1. TypeOK /\ Registry => NoGhost
    BY DEF Registry
  <1>2. QED
    BY <1>1, RegistryAlways, PTL

-----------------------------------------------------------------------------
(* No event is missed *)

\* No step loses, repeats or reorders an event of a registered connection.
LEMMA NextMissed == TypeOK /\ Registry /\ NothingMissed /\ [Next]_vars => NothingMissed'
  <1> SUFFICES ASSUME TypeOK, Registry, NothingMissed, [Next]_vars,
                      NEW c \in members', writer'[c] = "running"
               PROVE  written'[c] \o send'[c] = owed'[c]
    BY DEF NothingMissed
  <1> USE DEF hubVars, histVars, pumpRest
  <1>0. TypeOK' /\ c \in Conns
    BY NextType DEF TypeOK
  <1>1. ASSUME NEW u \in Users, Deliver(u)
        PROVE  written'[c] \o send'[c] = owed'[c]
    <2> DEFINE e == delivered + 1
               fits == {d \in Connections(u) : HasSpace(d)}
    <2>1. /\ send'[c] = IF c \in fits THEN Append(send[c], e) ELSE send[c]
          /\ owed'[c] = IF c \in Connections(u) THEN Append(owed[c], e) ELSE owed[c]
          /\ written' = written /\ writer' = writer
          /\ members' = members \ (Connections(u) \ fits)
      BY <1>0, <1>1 DEF Deliver, removeLocked
    <2>2. c \in members /\ (c \in Connections(u) => c \in fits)
      BY <2>1
    <2>3. written[c] \o send[c] = owed[c]
      BY <2>1, <2>2 DEF NothingMissed
    <2>4. e \in Events /\ written[c] \in Seq(Events) /\ send[c] \in Seq(Events)
      BY <1>0, <1>1, DeliverType DEF TypeOK
    <2> HIDE DEF e
    <2>5. CASE c \in Connections(u)
      <3>1. PICK s \in Seq(Events), t \in Seq(Events), x \in Events :
              s = written[c] /\ t = send[c] /\ x = e
        BY <2>4
      <3>2. s \o Append(t, x) = Append(s \o t, x)
        BY AppendBuffered
      <3>3. QED
        BY <2>1, <2>2, <2>3, <2>5, <3>1, <3>2
    <2>6. CASE c \notin Connections(u)
      BY <2>1, <2>3, <2>6
    <2>7. QED
      BY <2>5, <2>6
  <1>2. ASSUME NEW d \in Conns, Add(d)
        PROVE  written'[c] \o send'[c] = owed'[c]
    <2>1. UNCHANGED <<written, send, owed>>
      BY <1>2 DEF Add
    <2>2. CASE c = d
      <3>1. written[c] = <<>> /\ send[c] = <<>> /\ owed[c] = <<>>
        BY <1>2, <2>2 DEF Add, Registry, Untouched
      <3>2. QED
        BY <2>1, <3>1
    <2>3. CASE c # d
      BY <1>0, <1>2, <2>1, <2>3 DEF Add, NothingMissed, TypeOK
    <2>4. QED
      BY <2>2, <2>3
  <1>3. ASSUME NEW d \in Conns, WriteFrame(d)
        PROVE  written'[c] \o send'[c] = owed'[c]
    <2>1. UNCHANGED <<members, writer, owed>> /\ written[c] \o send[c] = owed[c]
      BY <1>3 DEF WriteFrame, NothingMissed
    <2>2. CASE c = d
      <3>1. /\ written'[c] = Append(written[c], Head(send[c])) /\ send'[c] = Tail(send[c])
            /\ send[c] # <<>> /\ written[c] \in Seq(Events) /\ send[c] \in Seq(Events)
        BY <1>0, <1>3, <2>2 DEF WriteFrame, TypeOK
      <3>2. Append(written[c], Head(send[c])) \o Tail(send[c]) = written[c] \o send[c]
        BY <3>1, WriteHead
      <3>3. QED
        BY <2>1, <3>1, <3>2
    <2>3. CASE c # d
      BY <1>0, <1>3, <2>1, <2>3 DEF WriteFrame, TypeOK
    <2>4. QED
      BY <2>2, <2>3
  <1>4. ASSUME NEW d \in Conns, WriteFails(d)
        PROVE  written'[c] \o send'[c] = owed'[c]
    <2>1. c # d
      BY <1>0, <1>4 DEF WriteFails, TypeOK
    <2>2. QED
      BY <1>0, <1>4, <2>1 DEF WriteFails, NothingMissed, TypeOK
  <1>5. ASSUME UNCHANGED <<written, send, owed>>, members' \subseteq members, writer[c] = "running"
        PROVE  written'[c] \o send'[c] = owed'[c]
    BY <1>5 DEF NothingMissed
  <1>6. ASSUME NEW d \in Conns, ReadPump(d) \/ Remove(d) \/ PeerGone(d)
        PROVE  written'[c] \o send'[c] = owed'[c]
    <2>1. UNCHANGED <<written, send, owed, writer>> /\ members' \subseteq members
      BY <1>6 DEF ReadPump, Upgrade, AddRefused, ReadFails, ReaderClose, Remove, removeLocked, PeerGone
    <2>2. QED
      BY <1>5, <2>1
  <1>7. ASSUME NEW d \in Conns, PingFails(d) \/ WriterClose(d)
        PROVE  written'[c] \o send'[c] = owed'[c]
    <2>1. UNCHANGED <<written, send, owed, members>>
      BY <1>7 DEF PingFails, WriterClose
    <2>2. writer[c] = "running"
      BY <1>0, <1>7 DEF PingFails, WriterClose, TypeOK
    <2>3. QED
      BY <1>5, <2>1, <2>2
  <1>8. CASE Shutdown \/ UNCHANGED vars
    BY <1>8 DEF Shutdown, vars, NothingMissed
  <1>9. QED
    BY <1>1, <1>2, <1>3, <1>4, <1>6, <1>7, <1>8 DEF Next, Hub, WritePump, Finished

\* What a registered connection's writePump has written, followed by what is buffered, is
\* every event delivered to its user since it was added, in order and without a gap.
THEOREM NoEventMissed == Spec => []NothingMissed
  <1>1. Init => NothingMissed
    BY DEF Init, NothingMissed
  <1>2. (TypeOK /\ Registry) /\ NothingMissed /\ [Next]_vars => NothingMissed'
    BY NextMissed
  <1>3. QED
    BY <1>1, <1>2, RegistryAlways, PTL DEF Spec

=============================================================================
