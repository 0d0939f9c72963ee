------------------------------ MODULE Connection ------------------------------
(***************************************************************************)
(* One relay connection from the inside: what readPump does with a frame,   *)
(* the token bucket it meters the peer with (internal/signaling/ratelimit.go),*)
(* and the two pumps' writes to one socket (client.go), each of which takes *)
(* time: it begins in one step and ends in another.                         *)
(*                                                                         *)
(* Signaling has the same pumps with atomic writes and no budget, and the   *)
(* hub they work for; here the hub only queues frames and closes send.      *)
(***************************************************************************)
EXTENDS Integers, Sequences, FiniteSets

CONSTANTS
  Conns,        \* relay connections
  Burst,        \* messageBurst, in tokens
  Cost,         \* a token, in the units that the bucket is filled with
  RatePerTick,  \* messagesPerSecond, as units per tick of the model's clock
  MaxFrames,    \* bound of the model: text frames a peer sends
  MaxTicks      \* bound of the model: the clock

ASSUME BudgetAssumption == Burst \in Nat \ {0} /\ Cost \in Nat \ {0} /\ RatePerTick \in Nat
ASSUME ConnBoundsAssumption == MaxFrames \in Nat /\ MaxTicks \in Nat

VARIABLES
  now,       \* time.Now(), in ticks
  reader,    \* program counter of ServeHTTP after the upgrade, then readPump
  writer,    \* program counter of writePump
  queue,     \* a frame is buffered in send
  send,      \* the send channel: "none", "open" or "closed"
  sock,      \* the socket: "none", "open", "closing" (a close frame was sent), "closed"
  tokens,    \* tokenBucket.tokens, in units of 1/Cost
  last,      \* tokenBucket.last
  arrivals,  \* history: when each frame that was let through arrived, while readPump lives
  refused,   \* history: when the budget refused a frame, or Never, as long
  panicked   \* the websocket library found two writers

bucketVars == <<tokens, last, arrivals, refused>>
connVars == <<now, reader, writer, queue, send, sock, bucketVars, panicked>>

Never == -1
Capacity == Burst * Cost

ConnTypeOK ==
  /\ now \in 0 .. MaxTicks
  /\ reader \in [Conns -> {"none", "adding", "reading", "rejecting", "dropping", "done"}]
  /\ writer \in [Conns -> {"none", "idle", "writing", "closing", "done"}]
  /\ queue \in [Conns -> BOOLEAN]
  /\ send \in [Conns -> {"none", "open", "closed"}]
  /\ sock \in [Conns -> {"none", "open", "closing", "closed"}]
  /\ tokens \in [Conns -> 0 .. Capacity]
  /\ last \in [Conns -> 0 .. MaxTicks]
  /\ arrivals \in [Conns -> Seq(0 .. MaxTicks)]
  /\ refused \in [Conns -> 0 .. MaxTicks \cup {Never}]
  /\ panicked \subseteq Conns

ConnInit ==
  /\ now = 0
  /\ reader = [c \in Conns |-> "none"]
  /\ writer = [c \in Conns |-> "none"]
  /\ queue = [c \in Conns |-> FALSE]
  /\ send = [c \in Conns |-> "none"]
  /\ sock = [c \in Conns |-> "none"]
  /\ tokens = [c \in Conns |-> Capacity]
  /\ last = [c \in Conns |-> 0]
  /\ arrivals = [c \in Conns |-> <<>>]
  /\ refused = [c \in Conns |-> Never]
  /\ panicked = {}

-----------------------------------------------------------------------------
(* ratelimit.go *)

RefilledUncapped(c) == tokens[c] + (now - last[c]) * RatePerTick  \* mutant

\* The tokens after accruing for the time since the last call, up to the capacity.
Refilled(c) ==
  LET accrued == tokens[c] + (now - last[c]) * RatePerTick IN
  IF accrued > Capacity THEN Capacity ELSE accrued

AllowAccruesAgain(c) ==  \* mutant: b.last is not set when the frame is let through
  /\ Refilled(c) >= Cost
  /\ tokens' = [tokens EXCEPT ![c] = Refilled(c) - Cost]
  /\ arrivals' = [arrivals EXCEPT ![c] = Append(@, now)]
  /\ UNCHANGED <<last, refused>>

\* tokenBucket.allow lets the frame through, or does not.
Allow(c) ==
  /\ Refilled(c) >= Cost
  /\ tokens' = [tokens EXCEPT ![c] = Refilled(c) - Cost]
  /\ last' = [last EXCEPT ![c] = now]
  /\ arrivals' = [arrivals EXCEPT ![c] = Append(@, now)]
  /\ UNCHANGED refused

Refuse(c) ==
  /\ Refilled(c) < Cost
  /\ tokens' = [tokens EXCEPT ![c] = Refilled(c)]
  /\ last' = [last EXCEPT ![c] = now]
  /\ refused' = [refused EXCEPT ![c] = now]
  /\ UNCHANGED arrivals

-----------------------------------------------------------------------------
(* readPump *)

ReaderWrites(c) == reader[c] = "rejecting"
WriterWrites(c) == writer[c] \in {"writing", "closing"}

\* WriteMessage begins. The library panics if it finds another write under way; the two
\* goroutines share an unsynchronised flag, so it may also not find it.
BeginWrite(c, other) ==
  \/ UNCHANGED panicked
  \/ other /\ panicked' = panicked \cup {c}

\* A binary frame: readPump writes a close frame.
RejectBinary(c) ==
  /\ reader[c] = "reading" /\ sock[c] # "closed"
  /\ reader' = [reader EXCEPT ![c] = "rejecting"]
  /\ BeginWrite(c, WriterWrites(c))
  /\ UNCHANGED <<now, writer, queue, send, sock, bucketVars>>

\* A text frame within the budget: published, or discarded if it does not parse.
Receive(c) ==
  /\ reader[c] = "reading" /\ sock[c] # "closed"
  /\ Len(arrivals[c]) < MaxFrames
  /\ Allow(c)
  /\ UNCHANGED <<now, reader, writer, queue, send, sock, panicked>>

\* A text frame over the budget: readPump writes a close frame.
RejectExcess(c) ==
  /\ reader[c] = "reading" /\ sock[c] # "closed"
  /\ Refuse(c)
  /\ reader' = [reader EXCEPT ![c] = "rejecting"]
  /\ BeginWrite(c, WriterWrites(c))
  /\ UNCHANGED <<now, writer, queue, send, sock>>

\* writeClose returns; its error, if any, is only logged.
Rejected(c) ==
  /\ reader[c] = "rejecting"
  /\ reader' = [reader EXCEPT ![c] = "dropping"]
  /\ sock' = [sock EXCEPT ![c] = IF @ = "open" THEN "closing" ELSE @]
  /\ UNCHANGED <<now, writer, queue, send, bucketVars, panicked>>

\* ReadMessage fails.
ReadEnds(c) ==
  /\ reader[c] = "reading"
  /\ reader' = [reader EXCEPT ![c] = "dropping"]
  /\ UNCHANGED <<now, writer, queue, send, sock, bucketVars, panicked>>

\* The buckets of the readPumps that end with the step are gone.
Forget(S) ==
  /\ tokens' = [c \in Conns |-> IF c \in S THEN Capacity ELSE tokens[c]]
  /\ last' = [c \in Conns |-> IF c \in S THEN 0 ELSE last[c]]
  /\ arrivals' = [c \in Conns |-> IF c \in S THEN <<>> ELSE arrivals[c]]
  /\ refused' = [c \in Conns |-> IF c \in S THEN Never ELSE refused[c]]

\* The deferred drop, after which the hub has closed send, and close.
Drop(c) ==
  /\ reader[c] = "dropping"
  /\ reader' = [reader EXCEPT ![c] = "done"]
  /\ send' = [send EXCEPT ![c] = "closed"]
  /\ sock' = [sock EXCEPT ![c] = "closed"]
  /\ Forget({c})
  /\ UNCHANGED <<now, writer, queue, panicked>>

-----------------------------------------------------------------------------
(* writePump *)

writeRest == <<now, reader, send, bucketVars>>

\* A frame is taken from send and its write begins.
TakeFrame(c) ==
  /\ writer[c] = "idle" /\ queue[c]
  /\ queue' = [queue EXCEPT ![c] = FALSE]
  /\ writer' = [writer EXCEPT ![c] = "writing"]
  /\ BeginWrite(c, ReaderWrites(c))
  /\ UNCHANGED <<writeRest, sock>>

\* The ticker fires and the write of a ping begins.
Ping(c) ==
  /\ writer[c] = "idle"
  /\ writer' = [writer EXCEPT ![c] = "writing"]
  /\ BeginWrite(c, ReaderWrites(c))
  /\ UNCHANGED <<writeRest, queue, sock>>

\* The write returns nil; none does after a close frame.
WriteEnds(c) ==
  /\ writer[c] = "writing"
  /\ sock[c] = "open"
  /\ writer' = [writer EXCEPT ![c] = "idle"]
  /\ UNCHANGED <<writeRest, queue, sock, panicked>>

\* The write fails, at the latest after writeWait: writePump closes the socket.
WriteAborts(c) ==
  /\ writer[c] = "writing"
  /\ writer' = [writer EXCEPT ![c] = "done"]
  /\ sock' = [sock EXCEPT ![c] = "closed"]
  /\ UNCHANGED <<writeRest, queue, panicked>>

\* send is closed and drained: the write of a close frame begins, and ends.
TakeClose(c) ==
  /\ writer[c] = "idle" /\ ~queue[c] /\ send[c] = "closed"
  /\ writer' = [writer EXCEPT ![c] = "closing"]
  /\ BeginWrite(c, ReaderWrites(c))
  /\ UNCHANGED <<writeRest, queue, sock>>

CloseEnds(c) ==
  /\ writer[c] = "closing"
  /\ writer' = [writer EXCEPT ![c] = "done"]
  /\ sock' = [sock EXCEPT ![c] = "closed"]
  /\ UNCHANGED <<writeRest, queue, panicked>>

-----------------------------------------------------------------------------
(* The hub and the clock, as this connection sees them *)

\* push: a frame is buffered. A second one does not fit the model's buffer of one.
HubPushes(c) ==
  /\ send[c] = "open" /\ ~queue[c]
  /\ queue' = [queue EXCEPT ![c] = TRUE]
  /\ UNCHANGED <<now, reader, writer, send, sock, bucketVars, panicked>>

\* A push that finds the buffer full: the client is evicted.
HubEvicts(c) ==
  /\ send[c] = "open" /\ queue[c]
  /\ send' = [send EXCEPT ![c] = "closed"]
  /\ UNCHANGED <<now, reader, writer, queue, sock, bucketVars, panicked>>

ClockTicks ==
  /\ now < MaxTicks
  /\ \E c \in Conns : reader[c] = "reading"
  /\ now' = now + 1
  /\ UNCHANGED <<reader, writer, queue, send, sock, bucketVars, panicked>>

Pumps(c) ==
  \/ RejectBinary(c) \/ Receive(c) \/ RejectExcess(c) \/ Rejected(c) \/ ReadEnds(c) \/ Drop(c)
  \/ TakeFrame(c) \/ Ping(c) \/ WriteEnds(c) \/ WriteAborts(c) \/ TakeClose(c) \/ CloseEnds(c)
  \/ HubPushes(c) \/ HubEvicts(c)

-----------------------------------------------------------------------------
(* Properties *)

\* "a burst of 120 with sustained refill at 60/second" (README), stated over windows and
\* not over a bucket: between any two frames that were let through there are at most Burst
\* and what accrued meanwhile; and a frame is only refused, which closes the connection, if
\* it would be one too many for some window that ends with it.
BudgetExact ==
  \A c \in Conns :
    LET a == arrivals[c] IN
    /\ \A i, j \in DOMAIN a :
         i <= j => (j - i + 1) * Cost <= Capacity + (a[j] - a[i]) * RatePerTick
    /\ refused[c] # Never =>
         \E i \in DOMAIN a :
           (Len(a) - i + 2) * Cost > Capacity + (refused[c] - a[i]) * RatePerTick

\* "Failures are expected when the peer has already vanished, so they are logged at debug
\* level only" (writeClose), and "a panic anywhere below still returns a 500" (run): closing
\* a connection costs that connection only. The pumps' writes to one socket never overlap
\* in a way that makes the websocket library panic, which would end the process.
NoWriterPanic == panicked = {}
=============================================================================
