-------------------------------- MODULE Inbox --------------------------------
(***************************************************************************)
(* The per-user event channel: internal/inbox/hub.go (the mutex-protected   *)
(* Hub) and internal/inbox/conn.go (the two pumps of every connection).     *)
(*                                                                         *)
(* Every Hub method holds the mutex from its first to its last line, so it  *)
(* is one step. The writePumps drain their channels while Deliver loops,    *)
(* but Deliver looks at each channel once and the drain of one channel      *)
(* commutes with its look at another, so a single step loses no behaviour.  *)
(***************************************************************************)
EXTENDS Integers, Sequences, FiniteSets

CONSTANTS
  Conns,           \* inbox connections; a reconnect is another connection
  Users,           \* user ids
  UserOf,          \* conn.userID, stamped at the upgrade
  MaxEvents,       \* bound of the model: calls of Deliver, whose events are numbered
  SendBufferSize,  \* capacity of conn.send, 16 in the code
  MayVanish        \* bound of the model: connections whose peer may silently vanish

ASSUME ConnsAssumption  == IsFiniteSet(Conns)
ASSUME UserAssumption   == UserOf \in [Conns -> Users]
ASSUME BufferAssumption == SendBufferSize \in Nat \ {0}
ASSUME BoundsAssumption == MaxEvents \in Nat /\ MayVanish \subseteq Conns

VARIABLES
  stopped,   \* h.closed
  members,   \* the union of the connection sets in h.users
  userKeys,  \* the keys of h.users
  count,     \* h.count
  send,      \* the events buffered in each conn.send
  closed,    \* the connections whose send channel has been closed
  panicked,  \* a send on, or a close of, a closed channel has happened
  reader,    \* program counter of ServeHTTP and then readPump
  writer,    \* program counter of writePump
  ws,        \* the socket: "none", "open", "gone" (the peer vanished), "closed" (by us)
  written,   \* history: the events writePump has written to the socket
  owed,      \* history: the events delivered to a member's user while it was one
  delivered  \* the number of events Deliver has been called with

hubVars  == <<stopped, members, userKeys, count, closed, panicked>>
histVars == <<written, owed, delivered>>
vars == <<hubVars, send, reader, writer, ws, histVars>>

Events == 1 .. MaxEvents

TypeOK ==
  /\ stopped \in BOOLEAN
  /\ members \subseteq Conns
  /\ userKeys \subseteq Users
  /\ count \in Int
  /\ send \in [Conns -> Seq(Events)]
  /\ \A c \in Conns : Len(send[c]) <= SendBufferSize
  /\ closed \subseteq Conns
  /\ panicked \in BOOLEAN
  /\ reader \in [Conns -> {"none", "adding", "reading", "removing", "closing", "done"}]
  /\ writer \in [Conns -> {"none", "running", "done"}]
  /\ ws \in [Conns -> {"none", "open", "gone", "closed"}]
  /\ written \in [Conns -> Seq(Events)]
  /\ owed \in [Conns -> Seq(Events)]
  /\ delivered \in 0 .. MaxEvents

Init ==
  /\ stopped = FALSE
  /\ members = {}
  /\ userKeys = {}
  /\ count = 0
  /\ send = [c \in Conns |-> <<>>]
  /\ closed = {}
  /\ panicked = FALSE
  /\ reader = [c \in Conns |-> "none"]
  /\ writer = [c \in Conns |-> "none"]
  /\ ws = [c \in Conns |-> "none"]
  /\ written = [c \in Conns |-> <<>>]
  /\ owed = [c \in Conns |-> <<>>]
  /\ delivered = 0

-----------------------------------------------------------------------------
(* The Hub *)

Connections(u) == {c \in members : UserOf[c] = u}

HasSpaceOffByOne(c) == Len(send[c]) <= SendBufferSize  \* mutant

HasSpace(c) == Len(send[c]) < SendBufferSize

RemoveKeepsEntry(S, sent) ==  \* mutant: send is closed and the connection stays in the map
  /\ count' = count - Cardinality(S \cap members)
  /\ closed' = closed \cup (S \cap members)
  /\ panicked' = (panicked \/ (sent \cup (S \cap members)) \cap closed # {})
  /\ UNCHANGED <<members, userKeys>>

RemoveKeepsUser(S, sent) ==  \* mutant: an emptied set stays in h.users
  /\ members' = members \ S
  /\ count' = count - Cardinality(S \cap members)
  /\ closed' = closed \cup (S \cap members)
  /\ panicked' = (panicked \/ (sent \cup (S \cap members)) \cap closed # {})
  /\ UNCHANGED userKeys

\* removeLocked, for every connection in S, after something was sent to those in sent:
\* membership guards the close of send. A send on a closed channel panics too.
removeLocked(S, sent) ==
  /\ members' = members \ S
  /\ userKeys' = userKeys \ {u \in Users : Connections(u) # {} /\ Connections(u) \subseteq S}
  /\ count' = count - Cardinality(S \cap members)
  /\ closed' = closed \cup (S \cap members)
  /\ panicked' = (panicked \/ (sent \cup (S \cap members)) \cap closed # {})

DeliverDiscards(u) ==  \* mutant: a full connection misses the event and stays
  LET e == delivered + 1
      fits == {c \in Connections(u) : HasSpace(c)}
  IN
  /\ delivered < MaxEvents
  /\ delivered' = e
  /\ send' = [c \in Conns |-> IF c \in fits THEN Append(send[c], e) ELSE send[c]]
  /\ owed' = [c \in Conns |-> IF c \in Connections(u) THEN Append(owed[c], e) ELSE owed[c]]
  /\ UNCHANGED <<hubVars, reader, writer, ws, written>>

\* Deliver: the connections with space accept the event, the others are removed. To select,
\* a send on a closed channel is always ready: whichever of them is closed, it panics.
Deliver(u) ==
  LET e == delivered + 1
      fits == {c \in Connections(u) : HasSpace(c)}
  IN
  /\ delivered < MaxEvents
  /\ delivered' = e
  /\ send' = [c \in Conns |-> IF c \in fits THEN Append(send[c], e) ELSE send[c]]
  /\ owed' = [c \in Conns |-> IF c \in Connections(u) THEN Append(owed[c], e) ELSE owed[c]]
  /\ removeLocked(Connections(u) \ fits, Connections(u))
  /\ UNCHANGED <<stopped, reader, writer, ws, written>>

AddToStopped(c) ==  \* mutant: add does not look at h.closed
  /\ reader[c] = "adding"
  /\ members' = members \cup {c}
  /\ userKeys' = userKeys \cup {UserOf[c]}
  /\ count' = count + 1
  /\ reader' = [reader EXCEPT ![c] = "reading"]
  /\ writer' = [writer EXCEPT ![c] = "running"]
  /\ UNCHANGED <<stopped, send, closed, panicked, ws, histVars>>

\* add reports true, and ServeHTTP starts the pumps.
Add(c) ==
  /\ reader[c] = "adding"
  /\ ~stopped
  /\ members' = members \cup {c}
  /\ userKeys' = userKeys \cup {UserOf[c]}
  /\ count' = count + 1
  /\ reader' = [reader EXCEPT ![c] = "reading"]
  /\ writer' = [writer EXCEPT ![c] = "running"]
  /\ UNCHANGED <<stopped, send, closed, panicked, ws, histVars>>

ShutdownForgetsClose ==  \* mutant: the map is emptied and no channel is closed
  /\ ~stopped
  /\ stopped' = TRUE
  /\ members' = {}
  /\ userKeys' = {}
  /\ count' = 0
  /\ UNCHANGED <<closed, panicked, send, reader, writer, ws, histVars>>

\* Shutdown, which main calls after the HTTP server has stopped.
Shutdown ==
  /\ ~stopped
  /\ stopped' = TRUE
  /\ closed' = closed \cup members
  /\ panicked' = (panicked \/ members \cap closed # {})
  /\ members' = {}
  /\ userKeys' = {}
  /\ count' = 0
  /\ UNCHANGED <<send, reader, writer, ws, histVars>>

-----------------------------------------------------------------------------
(* ServeHTTP and readPump *)

pumpRest == <<hubVars, send, histVars>>

\* Authenticated and upgraded; a rejection before that leaves no state.
Upgrade(c) ==
  /\ reader[c] = "none"
  /\ reader' = [reader EXCEPT ![c] = "adding"]
  /\ ws' = [ws EXCEPT ![c] = "open"]
  /\ UNCHANGED <<pumpRest, writer>>

\* add reports false: a close frame, close, and no pump is started.
AddRefused(c) ==
  /\ reader[c] = "adding"
  /\ stopped
  /\ reader' = [reader EXCEPT ![c] = "done"]
  /\ ws' = [ws EXCEPT ![c] = "closed"]
  /\ UNCHANGED <<pumpRest, writer>>

\* ReadMessage fails: the socket is dead, the frame too long, or nothing came for
\* pongWait. Frames that are read are discarded, which changes nothing.
ReadFails(c) ==
  /\ reader[c] = "reading"
  /\ reader' = [reader EXCEPT ![c] = "removing"]
  /\ UNCHANGED <<pumpRest, writer, ws>>

\* The deferred hub.remove.
Remove(c) ==
  /\ reader[c] = "removing"
  /\ removeLocked({c}, {})
  /\ reader' = [reader EXCEPT ![c] = "closing"]
  /\ UNCHANGED <<stopped, send, writer, ws, histVars>>

\* The deferred close, after remove.
ReaderClose(c) ==
  /\ reader[c] = "closing"
  /\ reader' = [reader EXCEPT ![c] = "done"]
  /\ ws' = [ws EXCEPT ![c] = "closed"]
  /\ UNCHANGED <<pumpRest, writer>>

-----------------------------------------------------------------------------
(* writePump *)

\* An event is taken from send and written. Close does not discard what is buffered,
\* and a write to a vanished peer may succeed.
WriteFrame(c) ==
  /\ writer[c] = "running"
  /\ send[c] # <<>>
  /\ ws[c] \in {"open", "gone"}
  /\ written' = [written EXCEPT ![c] = Append(@, Head(send[c]))]
  /\ send' = [send EXCEPT ![c] = Tail(@)]
  /\ UNCHANGED <<hubVars, reader, writer, ws, owed, delivered>>

\* An event is taken from send and its write fails or runs into writeWait.
WriteFails(c) ==
  /\ writer[c] = "running"
  /\ send[c] # <<>>
  /\ send' = [send EXCEPT ![c] = Tail(@)]
  /\ writer' = [writer EXCEPT ![c] = "done"]
  /\ ws' = [ws EXCEPT ![c] = "closed"]
  /\ UNCHANGED <<hubVars, reader, histVars>>

PingFails(c) ==
  /\ writer[c] = "running"
  /\ writer' = [writer EXCEPT ![c] = "done"]
  /\ ws' = [ws EXCEPT ![c] = "closed"]
  /\ UNCHANGED <<pumpRest, reader>>

WriterLeavesOpen(c) ==  \* mutant: writePump returns without closing the socket
  /\ writer[c] = "running"
  /\ c \in closed
  /\ send[c] = <<>>
  /\ writer' = [writer EXCEPT ![c] = "done"]
  /\ UNCHANGED <<pumpRest, reader, ws>>

\* send is closed and drained: a close frame, then close.
WriterClose(c) ==
  /\ writer[c] = "running"
  /\ c \in closed
  /\ send[c] = <<>>
  /\ writer' = [writer EXCEPT ![c] = "done"]
  /\ ws' = [ws EXCEPT ![c] = "closed"]
  /\ UNCHANGED <<pumpRest, reader>>

-----------------------------------------------------------------------------
(* The environment, and the specification *)

PeerGone(c) ==
  /\ c \in MayVanish
  /\ ws[c] = "open"
  /\ ws' = [ws EXCEPT ![c] = "gone"]
  /\ UNCHANGED <<pumpRest, reader, writer>>

\* The hub has stopped and every connection has come and gone.
Finished ==
  /\ stopped
  /\ \A c \in Conns : reader[c] = "done" /\ writer[c] # "running"
  /\ UNCHANGED vars

Hub == \/ \E u \in Users : Deliver(u)
       \/ \E c \in Conns : Add(c) \/ Remove(c)
       \/ Shutdown

ReadPump(c) == Upgrade(c) \/ AddRefused(c) \/ ReadFails(c) \/ ReaderClose(c)

WritePump(c) == WriteFrame(c) \/ WriteFails(c) \/ PingFails(c) \/ WriterClose(c)

Next ==
  \/ Hub
  \/ \E c \in Conns : ReadPump(c) \/ WritePump(c) \/ PeerGone(c)
  \/ Finished

Spec == Init /\ [][Next]_vars

\* The pumps are running goroutines and sync.Mutex starves nobody: weak fairness. A dead
\* socket ends readPump by an error or by pongWait. Nothing makes anyone call Deliver
\* or Shutdown, or a peer drain its queue.
Fairness ==
  \A c \in Conns :
    /\ WF_vars(Add(c) \/ AddRefused(c) \/ Remove(c) \/ ReaderClose(c))
    /\ WF_vars(ws[c] \in {"gone", "closed"} /\ ReadFails(c))
    /\ WF_vars(WriteFrame(c) \/ WriteFails(c) \/ WriterClose(c))

FairSpec == Spec /\ Fairness

-----------------------------------------------------------------------------
(* Safety *)

\* "only a caller holding it may close, and only while removing the connection from the
\* map" (Hub): no channel is closed twice, and Deliver sends on none that is closed, although
\* another Deliver, Shutdown and a connection's own readPump may all remove it.
NoPanic == ~panicked

\* ConnectionCount is the number of registered connections and no user without one is
\* kept in the map, through every removal.
Bookkeeping ==
  /\ count = Cardinality(members)
  /\ userKeys = {UserOf[c] : c \in members}

\* A connection is registered only while its readPump lives, so none is left behind to
\* be counted as reached; and none is registered once Shutdown has run.
NoGhost ==
  \A c \in members : ~stopped /\ reader[c] \in {"reading", "removing"}

\* No registered connection silently misses an event: what writePump wrote and what is
\* still buffered are all the events delivered to the user since, in order. A
\* connection that Deliver could not queue an event for is no longer registered.
NothingMissed ==
  \A c \in members : writer[c] = "running" => written[c] \o send[c] = owed[c]

-----------------------------------------------------------------------------
(* Liveness, under FairSpec *)

Reclaimed(c) == c \notin members /\ reader[c] = "done" /\ writer[c] # "running" /\ ws[c] = "closed"

\* A connection whose peer vanished, whose socket one pump closed, or which the hub
\* removed, ends with both pumps gone, the socket closed and no entry in the map.
ConnectionReclaimed ==
  \A c \in Conns : (ws[c] \in {"gone", "closed"} \/ c \in closed) ~> Reclaimed(c)

\* "Shutdown closes every connection and refuses new ones": also those upgraded but not
\* yet added when it ran.
ShutdownDrains ==
  stopped ~> \A c \in Conns : reader[c] = "none" \/ Reclaimed(c)
=============================================================================
