------------------------------ MODULE Signaling ------------------------------
(***************************************************************************)
(* The websocket relay: internal/signaling/hub.go (the Hub and its Run      *)
(* goroutine) and internal/signaling/client.go (the two pumps of every      *)
(* connection).                                                            *)
(*                                                                         *)
(* Three kinds of goroutine interleave here: Run, and one readPump and one  *)
(* writePump per connection. They meet on three unbuffered channels         *)
(* (register, unregister, broadcast), on one bounded channel per client     *)
(* (send) and on the socket. A meeting on an unbuffered channel is one      *)
(* step of both parties. What Run does after the meeting is split into one  *)
(* step per non-blocking push, because every writePump keeps draining its   *)
(* send channel meanwhile and so decides which pushes find a full buffer.   *)
(*                                                                         *)
(* The recursion dropStalled -> leave -> announce -> dropStalled works off  *)
(* the innermost list of stalled clients first and then resumes the outer   *)
(* one. That is a worklist to whose front every new list is added: evict.   *)
(***************************************************************************)
EXTENDS Integers, Sequences, FiniteSets

CONSTANTS
  Clients,         \* connections; a reconnect is another connection
  Users,           \* authenticated user ids
  Rooms,           \* room ids
  UserOf,          \* Client.userID, stamped at the upgrade
  RoomOf,          \* Client.roomID, resolved at the upgrade
  Everyone,        \* the empty "to" of an inbound frame: the whole room
  SendBufferSize,  \* capacity of Client.send, 64 in the code
  MaxPublish,      \* bound of the model: valid frames the peers send, together
  MayVanish        \* bound of the model: connections whose peer may silently vanish

ASSUME ClientsAssumption == IsFiniteSet(Clients)
ASSUME UserAssumption    == UserOf \in [Clients -> Users] /\ Everyone \notin Users
ASSUME RoomAssumption    == RoomOf \in [Clients -> Rooms]
ASSUME BufferAssumption  == SendBufferSize \in Nat \ {0}
ASSUME BoundsAssumption  == MaxPublish \in Nat /\ MayVanish \subseteq Clients

VARIABLES
  ctx,        \* the context Run selects on: "live" or "cancelled"
  hub,        \* Run: "running", "closed" (closeAll is done) or "done" (h.done closed)
  members,    \* the union of the member sets in h.rooms
  roomKeys,   \* the keys of h.rooms
  count,      \* h.count
  send,       \* the number of frames buffered in each Client.send
  closed,     \* the clients whose send channel has been closed
  panicked,   \* a send on, or a close of, a closed channel has happened
  cur,        \* the message being fanned out
  todo,       \* the clients the running announce/deliver loop has yet to push to
  stalled,    \* the clients that loop could not push to
  evict,      \* the clients dropStalled has yet to remove, innermost list first
  reader,     \* program counter of ServeHTTP and then readPump
  writer,     \* program counter of writePump
  conn,       \* the socket: "none", "open", "gone" (the peer vanished), "closed" (by us)
  addressee,  \* the "to" of the frame readPump is publishing
  published,  \* frames published so far, for the bound MaxPublish
  presence    \* history: the connections of each user a member was told of

hubVars  == <<ctx, hub>>
roomVars == <<members, roomKeys, count>>
fanVars  == <<cur, todo, stalled, evict>>
pumpVars == <<reader, writer, conn, addressee, published>>
vars == <<hubVars, roomVars, send, closed, panicked, fanVars, pumpVars, presence>>

\* What a fan-out carries. offer, answer, candidate, bye and chat are relayed alike:
\* "relay" stands for them. src is the connection the frame is from or about.
Message == [type : {"peer-joined", "peer-left", "relay"}, src : Clients,
            to : Users \cup {Everyone}]
NoMessage == [type |-> "none"]

ReaderStates == {"none", "adding", "reading", "publishing", "dropping", "closing", "done"}
WriterStates == {"none", "running", "done"}

TypeOK ==
  /\ ctx \in {"live", "cancelled"}
  /\ hub \in {"running", "closed", "done"}
  /\ members \subseteq Clients
  /\ roomKeys \subseteq Rooms
  /\ count \in Int
  /\ send \in [Clients -> 0 .. SendBufferSize]
  /\ closed \subseteq Clients
  /\ panicked \in BOOLEAN
  /\ cur \in Message \cup {NoMessage}
  /\ todo \subseteq Clients
  /\ stalled \in Seq(Clients)
  /\ evict \in Seq(Clients)
  /\ reader \in [Clients -> ReaderStates]
  /\ writer \in [Clients -> WriterStates]
  /\ conn \in [Clients -> {"none", "open", "gone", "closed"}]
  /\ addressee \in [Clients -> Users \cup {Everyone}]
  /\ published \in 0 .. MaxPublish
  /\ presence \in [Clients -> [Users -> Int]]

\* The connections in P, counted per user: the peers of a welcome.
NoOne == [u \in Users |-> 0]
Roster(P) == [u \in Users |-> Cardinality({d \in P : UserOf[d] = u})]

Init ==
  /\ ctx = "live"
  /\ hub = "running"
  /\ members = {}
  /\ roomKeys = {}
  /\ count = 0
  /\ send = [c \in Clients |-> 0]
  /\ closed = {}
  /\ panicked = FALSE
  /\ cur = NoMessage
  /\ todo = {}
  /\ stalled = <<>>
  /\ evict = <<>>
  /\ reader = [c \in Clients |-> "none"]
  /\ writer = [c \in Clients |-> "none"]
  /\ conn = [c \in Clients |-> "none"]
  /\ addressee = [c \in Clients |-> Everyone]
  /\ published = 0
  /\ presence = [c \in Clients |-> NoOne]

-----------------------------------------------------------------------------
(* Helpers of the hub *)

Occupants(r) == {c \in members : RoomOf[c] = r}

RecipientsIgnoringTo(c, to) == Occupants(RoomOf[c]) \ {c}  \* mutant

\* The set a deliver loop pushes to: everyone in the room but the sender, and
\* only the addressed user's connections when the message has a "to".
Recipients(c, to) ==
  {d \in Occupants(RoomOf[c]) \ {c} : to = Everyone \/ UserOf[d] = to}

\* What a frame tells its receiver: one connection of the sender's user more, or less.
Learn(view, m) ==
  CASE m.type = "peer-joined" -> [view EXCEPT ![UserOf[m.src]] = @ + 1]
    [] m.type = "peer-left"   -> [view EXCEPT ![UserOf[m.src]] = @ - 1]
    [] OTHER                  -> view

HasSpaceOffByOne(c) == send[c] <= SendBufferSize  \* mutant

HasSpace(c) == send[c] < SendBufferSize

\* Start an announce or deliver loop over `targets`.
FanOut(targets, type, c, to) ==
  /\ todo' = targets
  /\ cur' = IF targets = {} THEN NoMessage ELSE [type |-> type, src |-> c, to |-> to]

\* Run is back in its select: no loop is running and no eviction is pending.
HubIdle == hub = "running" /\ todo = {} /\ stalled = <<>> /\ evict = <<>>

LeaveKeepsRoom(c) ==  \* mutant: an emptied room stays in h.rooms
  /\ members' = members \ {c}
  /\ count' = count - 1
  /\ closed' = closed \cup {c}
  /\ panicked' = (panicked \/ c \in closed)
  /\ presence' = [presence EXCEPT ![c] = NoOne]
  /\ FanOut(Occupants(RoomOf[c]) \ {c}, "peer-left", c, Everyone)
  /\ UNCHANGED roomKeys

\* leave, for a client that is a member.
Leave(c) ==
  /\ members' = members \ {c}
  /\ roomKeys' = IF Occupants(RoomOf[c]) = {c} THEN roomKeys \ {RoomOf[c]} ELSE roomKeys
  /\ count' = count - 1
  /\ closed' = closed \cup {c}
  /\ panicked' = (panicked \/ c \in closed)
  /\ presence' = [presence EXCEPT ![c] = NoOne]
  /\ FanOut(Occupants(RoomOf[c]) \ {c}, "peer-left", c, Everyone)

CloseAgain(c) ==  \* mutant: send is closed without looking at membership
  /\ c \notin members
  /\ panicked' = (panicked \/ c \in closed)
  /\ UNCHANGED <<roomVars, closed, cur, todo, presence>>

\* leave, for a client that is not: membership guards the close of send.
AlreadyLeft(c) ==
  /\ c \notin members
  /\ UNCHANGED <<roomVars, closed, panicked, cur, todo, presence>>

-----------------------------------------------------------------------------
(* The Run goroutine *)

\* case c := <-h.register: join. add returns true to ServeHTTP, which starts the pumps.
Register(c) ==
  /\ HubIdle
  /\ reader[c] = "adding"
  /\ members' = members \cup {c}
  /\ roomKeys' = roomKeys \cup {RoomOf[c]}
  /\ count' = count + 1
  /\ panicked' = (panicked \/ c \in closed)
  /\ IF HasSpace(c)
     THEN /\ send' = [send EXCEPT ![c] = @ + 1]
          /\ presence' = [presence EXCEPT ![c] = Roster(Occupants(RoomOf[c]))]
          /\ FanOut(Occupants(RoomOf[c]) \ {c}, "peer-joined", c, Everyone)
          /\ UNCHANGED evict
     ELSE /\ evict' = <<c>>
          /\ UNCHANGED <<send, presence, cur, todo>>
  /\ reader' = [reader EXCEPT ![c] = "reading"]
  /\ writer' = [writer EXCEPT ![c] = "running"]
  /\ UNCHANGED <<hubVars, closed, stalled, conn, addressee, published>>

\* case c := <-h.unregister: leave, asked for by the deferred drop of readPump.
Unregister(c) ==
  /\ HubIdle
  /\ reader[c] = "dropping"
  /\ (c \in members /\ Leave(c)) \/ AlreadyLeft(c)
  /\ reader' = [reader EXCEPT ![c] = "closing"]
  /\ UNCHANGED <<hubVars, send, stalled, evict, writer, conn, addressee, published>>

\* case m := <-h.broadcast: deliver.
Broadcast(c) ==
  /\ HubIdle
  /\ reader[c] = "publishing"
  /\ FanOut(Recipients(c, addressee[c]), "relay", c, addressee[c])
  /\ reader' = [reader EXCEPT ![c] = "reading"]
  /\ addressee' = [addressee EXCEPT ![c] = Everyone]
  /\ UNCHANGED <<hubVars, roomVars, send, closed, panicked, stalled, evict,
                 writer, conn, published, presence>>

\* One iteration of the announce/deliver loop: push finds space. Map order is random.
Push(c) ==
  /\ c \in todo
  /\ HasSpace(c)
  /\ todo' = todo \ {c}
  /\ cur' = IF todo = {c} THEN NoMessage ELSE cur
  /\ send' = [send EXCEPT ![c] = @ + 1]
  /\ presence' = [presence EXCEPT ![c] = Learn(@, cur)]
  /\ panicked' = (panicked \/ c \in closed)
  /\ UNCHANGED <<hubVars, roomVars, closed, stalled, evict, pumpVars>>

PushFullDiscards(c) ==  \* mutant: the frame is dropped and the client kept
  /\ c \in todo
  /\ ~HasSpace(c)
  /\ todo' = todo \ {c}
  /\ cur' = IF todo = {c} THEN NoMessage ELSE cur
  /\ UNCHANGED <<hubVars, roomVars, send, closed, panicked, stalled, evict, pumpVars, presence>>

PushFullRetries(c) ==  \* mutant: push waits for space
  /\ c \in todo
  /\ ~HasSpace(c)
  /\ UNCHANGED vars

PushFullLeaves(c) ==  \* mutant: the client is dropped at once, inside the loop
  /\ c \in todo
  /\ ~HasSpace(c)
  /\ Leave(c)
  /\ UNCHANGED <<hubVars, send, stalled, evict, pumpVars>>

\* One iteration of the loop: push finds a full buffer.
PushFull(c) ==
  /\ c \in todo
  /\ ~HasSpace(c)
  /\ todo' = todo \ {c}
  /\ cur' = IF todo = {c} THEN NoMessage ELSE cur
  /\ stalled' = Append(stalled, c)
  /\ panicked' = (panicked \/ c \in closed)
  /\ UNCHANGED <<hubVars, roomVars, send, closed, evict, pumpVars, presence>>

\* The loop is over: its stalled clients go in front of those still to be dropped.
DropStalled ==
  /\ todo = {}
  /\ stalled # <<>>
  /\ evict' = stalled \o evict
  /\ stalled' = <<>>
  /\ UNCHANGED <<hubVars, roomVars, send, closed, panicked, cur, todo, pumpVars, presence>>

\* One iteration of dropStalled.
Evict ==
  /\ todo = {} /\ stalled = <<>> /\ evict # <<>>
  /\ LET c == Head(evict) IN (c \in members /\ Leave(c)) \/ AlreadyLeft(c)
  /\ evict' = Tail(evict)
  /\ UNCHANGED <<hubVars, send, stalled, pumpVars>>

StopForgetsClose ==  \* mutant: closeAll empties the map and closes no channel
  /\ HubIdle
  /\ ctx = "cancelled"
  /\ hub' = "closed"
  /\ members' = {}
  /\ roomKeys' = {}
  /\ count' = 0
  /\ presence' = [c \in Clients |-> NoOne]
  /\ UNCHANGED <<ctx, send, closed, panicked, fanVars, pumpVars>>

\* case <-ctx.Done(): the deferred closeAll.
Stop ==
  /\ HubIdle
  /\ ctx = "cancelled"
  /\ hub' = "closed"
  /\ closed' = closed \cup members
  /\ panicked' = (panicked \/ members \cap closed # {})
  /\ members' = {}
  /\ roomKeys' = {}
  /\ count' = 0
  /\ presence' = [c \in Clients |-> NoOne]
  /\ UNCHANGED <<ctx, send, fanVars, pumpVars>>

\* The deferred close(h.done), which runs after closeAll.
CloseDone ==
  /\ hub = "closed"
  /\ hub' = "done"
  /\ UNCHANGED <<ctx, roomVars, send, closed, panicked, fanVars, pumpVars, presence>>

Run == \/ \E c \in Clients : Register(c) \/ Unregister(c) \/ Broadcast(c)
       \/ \E c \in Clients : Push(c) \/ PushFull(c)
       \/ DropStalled \/ Evict \/ Stop \/ CloseDone

-----------------------------------------------------------------------------
(* ServeHTTP and readPump *)

pumpRest == <<hubVars, roomVars, send, closed, panicked, fanVars, presence>>

\* Authenticated, room resolved, upgraded; every rejection before that leaves no state.
Upgrade(c) ==
  /\ reader[c] = "none"
  /\ reader' = [reader EXCEPT ![c] = "adding"]
  /\ conn' = [conn EXCEPT ![c] = "open"]
  /\ UNCHANGED <<pumpRest, writer, addressee, published>>

\* add reports false: a close frame, close, and no pump is started.
AddRefused(c) ==
  /\ reader[c] = "adding"
  /\ hub = "done"
  /\ reader' = [reader EXCEPT ![c] = "done"]
  /\ conn' = [conn EXCEPT ![c] = "closed"]
  /\ UNCHANGED <<pumpRest, writer, addressee, published>>

\* A text frame within the budget that parses. What the peer sent before it
\* vanished can still be read; nothing can after our own close.
ReadFrame(c, to) ==
  /\ reader[c] = "reading"
  /\ conn[c] \in {"open", "gone"}
  /\ published < MaxPublish
  /\ reader' = [reader EXCEPT ![c] = "publishing"]
  /\ addressee' = [addressee EXCEPT ![c] = to]
  /\ published' = published + 1
  /\ UNCHANGED <<pumpRest, writer, conn>>

\* readPump returns: the frame is not text, too long or over the budget, nothing came
\* for pongWait, or the socket is dead.
ReadFails(c) ==
  /\ reader[c] = "reading"
  /\ reader' = [reader EXCEPT ![c] = "dropping"]
  /\ UNCHANGED <<pumpRest, writer, conn, addressee, published>>

GiveUpOnCancel(c) ==  \* mutant: drop selects on ctx.Done() instead of h.done
  /\ ctx = "cancelled"
  /\ \/ /\ reader[c] = "publishing"
        /\ reader' = [reader EXCEPT ![c] = "reading"]
     \/ /\ reader[c] = "dropping"
        /\ reader' = [reader EXCEPT ![c] = "closing"]
  /\ addressee' = [addressee EXCEPT ![c] = Everyone]
  /\ UNCHANGED <<pumpRest, writer, conn, published>>

\* publish, or drop, finds h.done closed.
GiveUp(c) ==
  /\ hub = "done"
  /\ \/ /\ reader[c] = "publishing"
        /\ reader' = [reader EXCEPT ![c] = "reading"]
     \/ /\ reader[c] = "dropping"
        /\ reader' = [reader EXCEPT ![c] = "closing"]
  /\ addressee' = [addressee EXCEPT ![c] = Everyone]
  /\ UNCHANGED <<pumpRest, writer, conn, published>>

\* The deferred close of readPump, after drop.
ReaderClose(c) ==
  /\ reader[c] = "closing"
  /\ reader' = [reader EXCEPT ![c] = "done"]
  /\ conn' = [conn EXCEPT ![c] = "closed"]
  /\ UNCHANGED <<pumpRest, writer, addressee, published>>

-----------------------------------------------------------------------------
(* writePump *)

writerRest == <<hubVars, roomVars, closed, panicked, fanVars, reader, addressee,
                published, presence>>

\* A frame is taken from send and written. Close does not discard what is buffered.
WriteFrame(c) ==
  /\ writer[c] = "running"
  /\ send[c] > 0
  /\ conn[c] \in {"open", "gone"}
  /\ send' = [send EXCEPT ![c] = @ - 1]
  /\ UNCHANGED <<writerRest, writer, conn>>

\* A frame is taken from send and its write fails or runs into writeWait.
WriteFails(c) ==
  /\ writer[c] = "running"
  /\ send[c] > 0
  /\ send' = [send EXCEPT ![c] = @ - 1]
  /\ writer' = [writer EXCEPT ![c] = "done"]
  /\ conn' = [conn EXCEPT ![c] = "closed"]
  /\ UNCHANGED writerRest

PingFails(c) ==
  /\ writer[c] = "running"
  /\ writer' = [writer EXCEPT ![c] = "done"]
  /\ conn' = [conn EXCEPT ![c] = "closed"]
  /\ UNCHANGED <<writerRest, send>>

WriterLeavesOpen(c) ==  \* mutant: writePump returns without closing the socket
  /\ writer[c] = "running"
  /\ c \in closed
  /\ send[c] = 0
  /\ writer' = [writer EXCEPT ![c] = "done"]
  /\ UNCHANGED <<writerRest, send, conn>>

\* send is closed and drained: a close frame, then close.
WriterClose(c) ==
  /\ writer[c] = "running"
  /\ c \in closed
  /\ send[c] = 0
  /\ writer' = [writer EXCEPT ![c] = "done"]
  /\ conn' = [conn EXCEPT ![c] = "closed"]
  /\ UNCHANGED <<writerRest, send>>

-----------------------------------------------------------------------------
(* The environment *)

\* The peer closes its end, or the network drops it.
PeerGone(c) ==
  /\ c \in MayVanish
  /\ conn[c] = "open"
  /\ conn' = [conn EXCEPT ![c] = "gone"]
  /\ UNCHANGED <<pumpRest, reader, writer, addressee, published>>

\* SIGINT or SIGTERM: main cancels the context.
Cancel ==
  /\ ctx = "live"
  /\ ctx' = "cancelled"
  /\ UNCHANGED <<hub, roomVars, send, closed, panicked, fanVars, pumpVars, presence>>

\* The hub has stopped and every connection has come and gone.
Finished ==
  /\ hub = "done"
  /\ \A c \in Clients : reader[c] = "done" /\ writer[c] \in {"none", "done"}
  /\ UNCHANGED vars

ReadPump(c) ==
  \/ Upgrade(c) \/ AddRefused(c)
  \/ \E to \in Users \cup {Everyone} : ReadFrame(c, to)
  \/ ReadFails(c) \/ GiveUp(c) \/ ReaderClose(c)

WritePump(c) == WriteFrame(c) \/ WriteFails(c) \/ PingFails(c) \/ WriterClose(c)

Next ==
  \/ Run
  \/ \E c \in Clients : ReadPump(c) \/ WritePump(c) \/ PeerGone(c)
  \/ Cancel \/ Finished

Spec == Init /\ [][Next]_vars

\* Run's own steps and each pump's steps are ordinary running goroutines: weak
\* fairness. A goroutine waiting on register, unregister or broadcast is served
\* although Run's select may find another case ready each time: senders wait on a
\* channel in order and select picks among the ready cases at random, hence strong
\* fairness, for the ctx.Done() case too. A dead socket ends readPump by an error
\* or by pongWait. Nothing makes a peer send, vanish or drain its queue.
Fairness ==
  /\ WF_vars((\E c \in Clients : Push(c) \/ PushFull(c)) \/ DropStalled \/ Evict \/ CloseDone)
  /\ SF_vars(Stop)
  /\ \A c \in Clients :
       /\ SF_vars(Register(c) \/ Unregister(c) \/ Broadcast(c))
       /\ WF_vars(AddRefused(c) \/ GiveUp(c) \/ ReaderClose(c))
       /\ WF_vars(conn[c] \in {"gone", "closed"} /\ ReadFails(c))
       /\ WF_vars(WriteFrame(c) \/ WriteFails(c) \/ WriterClose(c))

FairSpec == Spec /\ Fairness

-----------------------------------------------------------------------------
(* Safety *)

\* "the hub is the only closer, and it only closes a client it is removing from the
\* map" (Hub): no channel is closed twice and none is pushed to once closed, however
\* evictions, unregistrations and the shutdown interleave. Either would panic Run.
NoPanic == ~panicked

\* "A room exists only while it has at least one member" (Hub.rooms), and ClientCount
\* is the number of members, through every eviction and the shutdown.
Bookkeeping ==
  /\ count = Cardinality(members)
  /\ roomKeys = {RoomOf[c] : c \in members}

\* No membership change is ever silently lost: whenever Run is back in its select, the
\* welcome, peer-joined and peer-left frames pushed to a member add up to exactly the
\* other connections in its room. A member a frame could not be pushed to is gone.
PresenceExact ==
  HubIdle => \A c \in members : presence[c] = Roster(Occupants(RoomOf[c]) \ {c})

\* A connection whose readPump is past its deferred drop is out of its room: drop only
\* returns when Run has processed it, or when the hub has emptied its rooms for good.
NoGhost == \A c \in members : reader[c] \notin {"none", "adding", "closing", "done"}

\* deliver pushes a client's message only to other connections in its own room that the
\* message is addressed to, and never to one that has left since the loop began.
RelayScoped ==
  [][\A c \in todo \ todo' : cur.type = "relay" =>
       /\ c # cur.src /\ RoomOf[c] = RoomOf[cur.src]
       /\ cur.to \in {Everyone, UserOf[c]}
       /\ c \in members]_vars

\* The relay implements Presence: seen through this mapping, every step of Run and the
\* pumps is a step of that specification or none. A member waiting for its eviction is
\* doomed; one the running announce loop has yet to push to is lagging. So changes never
\* overtake each other, and no eviction cascade lets anybody in, or out, half-told.
Doomed  == {c \in members : \E i \in DOMAIN stalled : stalled[i] = c}
             \cup {c \in members : \E i \in DOMAIN evict : evict[i] = c}
Lagging == IF cur.type \in {"peer-joined", "peer-left"} THEN todo \ Doomed ELSE {}

Relay == INSTANCE Presence WITH
       open <- hub = "running",
       departed <- closed,
       doomed <- Doomed,
       lagging <- Lagging,
       view <- [c \in Clients |-> IF c \in members \ Doomed THEN presence[c] ELSE NoOne]

Implements == Relay!Spec

-----------------------------------------------------------------------------
(* Liveness, under FairSpec *)

Reclaimed(c) == c \notin members /\ reader[c] = "done" /\ writer[c] # "running" /\ conn[c] = "closed"

\* A connection whose peer vanished, whose socket one pump closed, or which the hub
\* dropped, ends with both pumps gone, the socket closed and the room left: each pump's
\* end brings the other one's about.
ConnectionReclaimed ==
  \A c \in Clients : (conn[c] \in {"gone", "closed"} \/ c \in closed) ~> Reclaimed(c)

\* "that recursion terminates" (dropStalled): whatever cascade of evictions a frame sets
\* off, and however slow the peers, Run returns to its select or stops.
HubReturns == ~HubIdle ~> (HubIdle \/ hub = "done")

\* Cancelling the context stops Run and every connection, the ones waiting in add,
\* publish or drop included ("callers blocked on the channels above can give up").
ShutdownCompletes ==
  ctx = "cancelled" ~> (hub = "done" /\ \A c \in Clients : reader[c] = "none" \/ Reclaimed(c))
=============================================================================
