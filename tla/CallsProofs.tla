----------------------------- MODULE CallsProofs -----------------------------
(***************************************************************************)
(* Proofs about Calls, for any number of requests, users and slugs, any     *)
(* quota and any number of attempts at a slug.                              *)
(*                                                                         *)
(* The type invariant needs Counted: a room id is handed out at most once   *)
(* per answered request. The properties about what a request may not do     *)
(* after something was answered rest on Past, what a request saw when it    *)
(* began is still true, and on what each step of a handler has established  *)
(* by then (Fresh, Cleared). The two about counting rest on who holds a     *)
(* ticket (Tickets) and on who has passed the limiter (Limited).            *)
(***************************************************************************)
EXTENDS Calls, FiniteSetTheorems, TLAPS

-----------------------------------------------------------------------------
(* Helpers: the end of a handler, its moves, and its beginning *)

\* Answering a request counts it once, and no more are answered than there are.
LEMMA AnswerCounts ==
  ASSUME NEW r \in Requests, answered \subseteq Requests, r \notin answered
  PROVE  /\ Cardinality(answered) \in Nat
         /\ Cardinality(Requests) \in Nat
         /\ Cardinality(answered \cup {r}) = Cardinality(answered) + 1
         /\ Cardinality(answered \cup {r}) <= Cardinality(Requests)
  <1>1. IsFiniteSet(Requests)
    BY RequestsAssumption
  <1>2. IsFiniteSet(answered)
    BY <1>1, FS_Subset
  <1>3. Cardinality(answered \cup {r}) = Cardinality(answered) + 1
    BY <1>2, FS_AddElement
  <1>4. answered \cup {r} \subseteq Requests
    OBVIOUS
  <1>5. Cardinality(answered \cup {r}) <= Cardinality(Requests)
    BY <1>1, <1>4, FS_Subset
  <1>6. QED
    BY <1>1, <1>2, <1>3, <1>5, FS_CardinalityType

\* Only the fields a step assigns change, and only those of its own request.
LEMMA GotoMoves ==
  ASSUME job \in [Requests -> Jobs], NEW r \in Requests, NEW pc \in Steps, Goto(r, pc)
  PROVE  /\ job' \in [Requests -> Jobs]
         /\ \A q \in Requests : q # r => job'[q] = job[q]
         /\ job'[r].pc = pc
         /\ job'[r].op = job[r].op /\ job'[r].user = job[r].user /\ job'[r].to = job[r].to
         /\ job'[r].slug = job[r].slug /\ job'[r].ticket = job[r].ticket
         /\ job'[r].room = job[r].room
  <1>1. job[r] \in Jobs /\ [job[r] EXCEPT !.pc = pc] \in Jobs
    BY DEF Jobs
  <1>2. job' = [job EXCEPT ![r] = [job[r] EXCEPT !.pc = pc]]
    BY DEF Goto
  <1>3. job'[r] = [job[r] EXCEPT !.pc = pc]
    BY <1>2
  <1>4. QED
    BY <1>1, <1>2, <1>3 DEF Jobs

\* What a request is when it begins.
Opening(j) ==
  /\ j \in Jobs
  /\ j.pc \in {"user", "redeem"}
  /\ j.op \in Events \cup {"delete", "join"} => j.slug \in Slugs
  /\ j.ticket # None => j.pc = "redeem" /\ j.ticket \in answered
  /\ j.room = NoRoom

\* What a request starts as.
LEMMA NewJobType == NewJob \in Jobs
  BY LimitAssumption DEF NewJob, Jobs, Steps

\* Whatever is asked for, the request begins in the first step of its handler.
LEMMA AskBegins ==
  ASSUME TypeOK, NEW r \in Requests, Ask(r)
  PROVE  \E j \in Jobs : Opening(j) /\ Begin(r, j)
  <1>1. ASSUME NEW u \in Users, AskCreate(r, u)
        PROVE  \E j \in Jobs : Opening(j) /\ Begin(r, j)
    <2> DEFINE j == [NewJob EXCEPT !.op = "create", !.user = u, !.pc = "user"]
    <2>1. j \in Jobs
      BY NewJobType DEF Jobs, Steps, Events
    <2>2. Opening(j)
      BY <2>1 DEF Opening, NewJob, Events
    <2>3. QED
      BY <2>1, <2>2, <1>1 DEF AskCreate, Opening
  <1>2. ASSUME NEW u \in Users, AskTicket(r, u)
        PROVE  \E j \in Jobs : Opening(j) /\ Begin(r, j)
    <2> DEFINE j == [NewJob EXCEPT !.op = "ticket", !.user = u, !.pc = "user"]
    <2>1. j \in Jobs
      BY NewJobType DEF Jobs, Steps, Events
    <2>2. Opening(j)
      BY <2>1 DEF Opening, NewJob, Events
    <2>3. QED
      BY <2>1, <2>2, <1>2 DEF AskTicket, Opening
  <1>3. ASSUME NEW u \in Users, NEW s \in Slugs, AskDelete(r, u, s)
        PROVE  \E j \in Jobs : Opening(j) /\ Begin(r, j)
    <2> DEFINE j == [NewJob EXCEPT !.op = "delete", !.user = u, !.slug = s, !.pc = "user"]
    <2>1. j \in Jobs
      BY NewJobType DEF Jobs, Steps, Events
    <2>2. Opening(j)
      BY <2>1 DEF Opening, NewJob, Events
    <2>3. QED
      BY <2>1, <2>2, <1>3 DEF AskDelete, Opening
  <1>4. ASSUME NEW u \in Users, NEW s \in Slugs, JoinWithSession(r, u, s)
        PROVE  \E j \in Jobs : Opening(j) /\ Begin(r, j)
    <2> DEFINE j == [NewJob EXCEPT !.op = "join", !.user = u, !.slug = s, !.pc = "user"]
    <2>1. j \in Jobs
      BY NewJobType DEF Jobs, Steps, Events
    <2>2. Opening(j)
      BY <2>1 DEF Opening, NewJob, Events
    <2>3. QED
      BY <2>1, <2>2, <1>4 DEF JoinWithSession, Opening
  <1>5. ASSUME NEW type \in Events, NEW u \in Users, NEW to \in Users, NEW s \in Slugs,
               Ring(r, type, u, to, s)
        PROVE  \E j \in Jobs : Opening(j) /\ Begin(r, j)
    <2> DEFINE j == [NewJob EXCEPT !.op = type, !.user = u, !.to = to, !.slug = s, !.pc = "user"]
    <2>1. j \in Jobs
      BY NewJobType DEF Jobs, Steps, Events
    <2>2. Opening(j)
      BY <2>1 DEF Opening, NewJob, Events
    <2>3. QED
      BY <2>1, <2>2, <1>5 DEF Ring, Opening
  <1>6. ASSUME NEW t \in Requests, NEW s \in Slugs, JoinWithTicket(r, t, s)
        PROVE  \E j \in Jobs : Opening(j) /\ Begin(r, j)
    <2> DEFINE j == [NewJob EXCEPT !.op = "join", !.ticket = t, !.slug = s, !.pc = "redeem"]
    <2>1. j \in Jobs
      BY NewJobType DEF Jobs, Steps, Events
    <2>2. Opening(j)
      BY <2>1, <1>6 DEF JoinWithTicket, Opening, NewJob, Events
    <2>3. QED
      BY <2>1, <2>2, <1>6 DEF JoinWithTicket, Opening
  <1>7. QED
    BY <1>1, <1>2, <1>3, <1>4, <1>5, <1>6 DEF Ask

\* Beginning a request leaves the others as they were.
LEMMA BeginMoves ==
  ASSUME job \in [Requests -> Jobs], NEW r \in Requests, NEW j \in Jobs, Begin(r, j)
  PROVE  /\ job' \in [Requests -> Jobs]
         /\ \A q \in Requests : q # r => job'[q] = job[q]
         /\ job'[r] = j
         /\ job[r].pc = "new"
  BY DEF Begin, NewJob

\* The kinds of step, and the request they are of.
LEMMA StepKinds ==
  ASSUME TypeOK, Next
  PROVE  \/ \E r \in Requests, j \in Jobs : Opening(j) /\ Begin(r, j)
         \/ \E r \in Requests : Step(r)
         \/ \E t \in Requests : TicketExpires(t)
         \/ \E u \in Users : WindowEnds(u)
         \/ \E u \in Users : Disable(u)
         \/ UNCHANGED vars
  BY AskBegins DEF Next, Finished

-----------------------------------------------------------------------------
(* Types *)

Shaped(r) ==
  /\ job[r].op \in Events \cup {"delete", "join"} => job[r].slug \in Slugs
  /\ job[r].pc = "delete" => job[r].op = "delete"
  /\ job[r].pc = "done" <=> r \in answered

\* A room id is handed out by a create, which answers. The first room is Init's.
Counted == created <= 1 + Cardinality(answered)

Typed ==
  /\ TypeOK
  /\ \A r \in Requests : Shaped(r)
  /\ Counted

\* Nothing has been asked for yet.
LEMMA InitTyped == Init => Typed
  <1> SUFFICES ASSUME Init PROVE Typed
    OBVIOUS
  <1>1. Cardinality(Requests) \in Nat
    BY RequestsAssumption, FS_CardinalityType
  <1>2. NoRoom = 0 /\ RoomIDs \subseteq Nat /\ 1 \in RoomIDs
    BY <1>1 DEF NoRoom, RoomIDs
  <1>3. TypeOK
    BY <1>2, NewJobType DEF Init, TypeOK, Unseen
  <1>4. \A r \in Requests : Shaped(r)
    BY DEF Init, Shaped, NewJob, Events
  <1>5. Cardinality(answered) = 0
    BY FS_EmptySet DEF Init
  <1>6. Counted
    BY <1>5 DEF Init, Counted
  <1>7. QED
    BY <1>3, <1>4, <1>6 DEF Typed

\* NoRoom is not the id of a room.
LEMMA IDFacts == NoRoom = 0 /\ RoomIDs \subseteq Nat /\ NoRoom \notin RoomIDs
  <1>1. Cardinality(Requests) \in Nat
    BY RequestsAssumption, FS_CardinalityType
  <1>2. QED
    BY <1>1 DEF NoRoom, RoomIDs

\* The response is the last thing a handler does.
LEMMA AnswerTyped ==
  ASSUME Typed, NEW r \in Requests, job[r].pc # "done", Answer(r)
  PROVE  /\ job' \in [Requests -> Jobs]
         /\ r \notin answered /\ answered' = answered \cup {r} /\ answered' \subseteq Requests
         /\ \A q \in Requests : Shaped(q)'
         /\ created \in Nat
         /\ created + 1 <= 1 + Cardinality(answered') /\ created + 1 \in RoomIDs
         /\ created' = created => Counted'
  <1>1. Goto(r, "done") /\ "done" \in Steps
    BY DEF Answer, Steps
  <1>2. /\ job' \in [Requests -> Jobs]
        /\ \A q \in Requests : q # r => job'[q] = job[q]
        /\ job'[r].pc = "done" /\ job'[r].op = job[r].op /\ job'[r].slug = job[r].slug
    BY <1>1, GotoMoves DEF Typed, TypeOK
  <1>3. r \notin answered /\ answered' = answered \cup {r} /\ answered' \subseteq Requests
    BY DEF Typed, TypeOK, Shaped, Answer
  <1>4. \A q \in Requests : Shaped(q)'
    BY <1>2, <1>3 DEF Typed, Shaped
  <1>5. answered \subseteq Requests
    BY DEF Typed, TypeOK
  <1>6. /\ Cardinality(answered) \in Nat /\ Cardinality(Requests) \in Nat
        /\ Cardinality(answered') = Cardinality(answered) + 1
        /\ Cardinality(answered') <= Cardinality(Requests)
    BY <1>3, <1>5, AnswerCounts
  <1>7. created \in Nat /\ created <= 1 + Cardinality(answered)
    BY DEF Typed, TypeOK, Counted
  <1>8. created + 1 <= 1 + Cardinality(answered') /\ created + 1 \in RoomIDs
    BY <1>6, <1>7 DEF RoomIDs
  <1>9. ASSUME created' = created
        PROVE  Counted'
    BY <1>6, <1>7, <1>9 DEF Counted
  <1>10. QED
    BY <1>2, <1>3, <1>4, <1>7, <1>8, <1>9

\* A handler that goes on to its next step keeps its job well typed.
LEMMA MoveTyped ==
  ASSUME Typed, NEW r \in Requests, job[r].pc # "done", NEW pc \in Steps \ {"done"},
         pc = "delete" => job[r].op = "delete", Goto(r, pc), UNCHANGED answered
  PROVE  job' \in [Requests -> Jobs] /\ \A q \in Requests : Shaped(q)'
  <1>1. /\ job' \in [Requests -> Jobs]
        /\ \A q \in Requests : q # r => job'[q] = job[q]
        /\ job'[r].pc = pc /\ job'[r].op = job[r].op /\ job'[r].slug = job[r].slug
    BY GotoMoves DEF Typed, TypeOK
  <1>2. QED
    BY <1>1 DEF Typed, Shaped

\* The room a handler has read goes with it to the next command.
Resolves(r, id, pc) == job' = [job EXCEPT ![r].room = id, ![r].pc = pc]

\* Reading the room by its slug only changes the room id that the request carries.
LEMMA ReadMoves ==
  ASSUME job \in [Requests -> Jobs], NEW r \in Requests, NEW pc \in Steps,
         NEW id \in RoomIDs \cup {NoRoom}, Resolves(r, id, pc)
  PROVE  /\ job' \in [Requests -> Jobs]
         /\ \A q \in Requests : q # r => job'[q] = job[q]
         /\ job'[r].pc = pc /\ job'[r].room = id
         /\ job'[r].op = job[r].op /\ job'[r].user = job[r].user /\ job'[r].to = job[r].to
         /\ job'[r].slug = job[r].slug /\ job'[r].ticket = job[r].ticket
  <1>1. job[r] \in Jobs /\ [job[r] EXCEPT !.room = id, !.pc = pc] \in Jobs
    BY DEF Jobs
  <1>2. job' = [job EXCEPT ![r] = [job[r] EXCEPT !.room = id, !.pc = pc]]
    BY DEF Resolves
  <1>3. job'[r] = [job[r] EXCEPT !.room = id, !.pc = pc]
    BY <1>2
  <1>4. QED
    BY <1>1, <1>2, <1>3 DEF Jobs

\* Redeeming a ticket gives the request the ticket's user and nothing else.
LEMMA RedeemMoves ==
  ASSUME job \in [Requests -> Jobs], tickets \subseteq Requests, NEW r \in Requests, Redeem(r)
  PROVE  /\ job' \in [Requests -> Jobs]
         /\ \A q \in Requests : q # r => job'[q] = job[q]
         /\ job'[r].pc = "user" /\ job'[r].room = job[r].room
         /\ job'[r].op = job[r].op /\ job'[r].to = job[r].to
         /\ job'[r].slug = job[r].slug /\ job'[r].ticket = job[r].ticket
  <1> DEFINE u == job[job[r].ticket].user
  <1>1. u \in Users \cup {None}
    BY DEF Redeem, Jobs
  <1> HIDE DEF u
  <1>2. job[r] \in Jobs /\ [job[r] EXCEPT !.user = u, !.pc = "user"] \in Jobs
    BY <1>1 DEF Jobs, Steps
  <1>3. job' = [job EXCEPT ![r] = [job[r] EXCEPT !.user = u, !.pc = "user"]]
    BY DEF Redeem, u
  <1>4. job'[r] = [job[r] EXCEPT !.user = u, !.pc = "user"]
    BY <1>3
  <1>5. QED
    BY <1>2, <1>3, <1>4 DEF Jobs

\* Another attempt at a slug changes nothing but the count of attempts.
LEMMA RetryMoves ==
  ASSUME job \in [Requests -> Jobs], NEW r \in Requests, job[r].tries + 1 < slugAttempts,
         job' = [job EXCEPT ![r].tries = job[r].tries + 1]
  PROVE  /\ job' \in [Requests -> Jobs]
         /\ \A q \in Requests : q # r => job'[q] = job[q]
         /\ job'[r].pc = job[r].pc /\ job'[r].room = job[r].room
         /\ job'[r].op = job[r].op /\ job'[r].user = job[r].user /\ job'[r].to = job[r].to
         /\ job'[r].slug = job[r].slug /\ job'[r].ticket = job[r].ticket
  <1>1. job[r] \in Jobs /\ job[r].tries \in 0 .. slugAttempts
    BY DEF Jobs
  <1>2. job[r].tries + 1 \in 0 .. slugAttempts
    BY <1>1, LimitAssumption
  <1>3. [job[r] EXCEPT !.tries = job[r].tries + 1] \in Jobs
    BY <1>1, <1>2 DEF Jobs
  <1>4. job' = [job EXCEPT ![r] = [job[r] EXCEPT !.tries = job[r].tries + 1]]
    OBVIOUS
  <1>5. job'[r] = [job[r] EXCEPT !.tries = job[r].tries + 1]
    BY <1>4
  <1>6. QED
    BY <1>1, <1>3, <1>4, <1>5 DEF Jobs

\* A hit counts for its sender only.
LEMMA HitCounts ==
  ASSUME TypeOK, NEW u, Hit(u)
  PROVE  /\ hits' \in [Users -> Nat] /\ windows' \in [Users -> Nat]
         /\ \A v \in Users : v # u => hits'[v] = hits[v] /\ windows'[v] = windows[v]
         /\ u \in Users => /\ hits'[u] = hits[u] + 1
                          /\ windows'[u] = IF hits[u] = 0 THEN windows[u] + 1 ELSE windows[u]
  <1>1. hits \in [Users -> Nat] /\ windows \in [Users -> Nat]
    BY DEF TypeOK
  <1>2. CASE u \in Users
    <2>1. hits[u] + 1 \in Nat /\ windows[u] + 1 \in Nat /\ windows[u] \in Nat
      BY <1>1, <1>2
    <2> DEFINE n == IF hits[u] = 0 THEN windows[u] + 1 ELSE windows[u]
    <2>2. n \in Nat /\ hits' = [hits EXCEPT ![u] = hits[u] + 1] /\ windows' = [windows EXCEPT ![u] = n]
      BY <2>1 DEF Hit
    <2> HIDE DEF n
    <2>3. /\ hits' \in [Users -> Nat] /\ windows' \in [Users -> Nat]
          /\ \A v \in Users : v # u => hits'[v] = hits[v] /\ windows'[v] = windows[v]
          /\ hits'[u] = hits[u] + 1 /\ windows'[u] = n
      BY <1>1, <1>2, <2>1, <2>2
    <2>4. QED
      BY <2>3 DEF n
  <1>3. CASE u \notin Users
    <2>1. hits' = hits /\ windows' = windows
      BY <1>1, <1>3 DEF Hit
    <2>2. QED
      BY <1>1, <1>3, <2>1
  <1>4. QED
    BY <1>2, <1>3

\* Every step of a handler keeps the types.
LEMMA StepTyped ==
  ASSUME Typed, NEW r \in Requests, Step(r)
  PROVE  Typed'
  <1> USE DEF dirVars, redisVars, commandRest
  <1>0. job[r] \in Jobs /\ Shaped(r) /\ TypeOK /\ Counted
    BY DEF Typed, TypeOK
  <1> DEFINE Ends == /\ job' \in [Requests -> Jobs] /\ answered' \subseteq Requests
                     /\ \A q \in Requests : Shaped(q)'
                     /\ created' = created => Counted'
             Reads == /\ job' \in [Requests -> Jobs] /\ \A q \in Requests : Shaped(q)'
  <1>a. ASSUME job[r].pc # "done", Answer(r)
        PROVE  Ends
    BY <1>a, AnswerTyped
  <1>b. ASSUME NEW pc \in Steps \ {"done", "delete"}, job[r].pc # "done",
               NEW id \in RoomIDs \cup {NoRoom}, UNCHANGED answered,
               job' = [job EXCEPT ![r].room = id, ![r].pc = pc]
        PROVE  Reads
    <2>1. /\ job' \in [Requests -> Jobs]
          /\ \A q \in Requests : q # r => job'[q] = job[q]
          /\ job'[r].pc = pc /\ job'[r].op = job[r].op /\ job'[r].slug = job[r].slug
      BY <1>0, <1>b, ReadMoves DEF TypeOK, Resolves
    <2>2. QED
      BY <1>b, <2>1 DEF Typed, Shaped
  <1>1. CASE Redeem(r)
    <2>1. job' \in [Requests -> Jobs] /\ \A q \in Requests : Shaped(q)'
      <3>1. /\ job' \in [Requests -> Jobs]
            /\ \A q \in Requests : q # r => job'[q] = job[q]
            /\ job'[r].pc = "user" /\ job'[r].op = job[r].op /\ job'[r].slug = job[r].slug
        BY <1>0, <1>1, RedeemMoves DEF TypeOK
      <3>2. QED
        BY <1>1, <3>1 DEF Typed, Shaped, Redeem
    <2>2. QED
      BY <1>0, <1>1, <2>1 DEF Redeem, Typed, TypeOK, Counted
  <1>2. CASE RedeemRefused(r)
    <2>1. job[r].pc # "done" /\ Answer(r)
      BY <1>2 DEF RedeemRefused
    <2>2. QED
      BY <1>0, <1>2, <2>1, <1>a DEF RedeemRefused, Typed, TypeOK
  <1>3. CASE ReadUser(r)
    <2>1. job[r].pc # "done"
      BY <1>3 DEF ReadUser
    <2>2. ASSUME Goto(r, First(job[r].op)), UNCHANGED answered
          PROVE  job' \in [Requests -> Jobs] /\ \A q \in Requests : Shaped(q)'
      <3>1. First(job[r].op) \in Steps \ {"done"}
        BY DEF First, Steps
      <3>2. First(job[r].op) = "delete" => job[r].op = "delete"
        BY DEF First
      <3>3. QED
        BY <2>1, <2>2, <3>1, <3>2, MoveTyped
    <2>3. CASE Answer(r)
      BY <1>0, <1>3, <2>1, <2>3, <1>a DEF ReadUser, Typed, TypeOK
    <2>4. CASE Goto(r, First(job[r].op)) /\ UNCHANGED answered
      BY <1>0, <1>3, <2>2, <2>4 DEF ReadUser, Typed, TypeOK, Counted
    <2>5. QED
      BY <1>3, <2>3, <2>4 DEF ReadUser
  <1>4. ASSUME NEW s \in Slugs, Insert(r, s)
        PROVE  Typed'
    <2>1. job[r].pc = "insert"
      BY <1>4 DEF Insert
    <2>2. CASE CreateRoom(s) /\ Answer(r)
      <3>1. rooms' \in [Slugs -> RoomIDs \cup {NoRoom}] /\ created' \in Nat
        BY <1>0, <2>1, <2>2, AnswerTyped DEF CreateRoom, TypeOK
      <3>2. Counted'
        BY <2>1, <2>2, AnswerTyped DEF CreateRoom, Counted
      <3>3. QED
        BY <1>0, <1>4, <2>1, <2>2, <3>1, <3>2, AnswerTyped DEF Insert, Typed, TypeOK
    <2>3. CASE Answer(r) /\ UNCHANGED <<rooms, created>>
      BY <1>0, <1>4, <2>1, <2>3, <1>a DEF Insert, Typed, TypeOK
    <2>4. CASE /\ job[r].tries + 1 < slugAttempts
               /\ job' = [job EXCEPT ![r].tries = job[r].tries + 1]
               /\ UNCHANGED <<answered, rooms, created>>
      <3>1. job' \in [Requests -> Jobs] /\ \A q \in Requests : Shaped(q)'
        BY <1>0, <2>4, RetryMoves DEF Typed, TypeOK, Shaped
      <3>2. QED
        BY <1>0, <1>4, <2>4, <3>1 DEF Insert, Typed, TypeOK, Counted
    <2>5. QED
      BY <1>4, <2>2, <2>3, <2>4 DEF Insert
  <1>5. CASE Delete(r)
    <2>1. job[r].pc = "delete" /\ Answer(r)
      BY <1>5 DEF Delete
    <2>2. job[r].slug \in Slugs
      BY <1>0, <2>1 DEF Shaped
    <2>3. rooms' \in [Slugs -> RoomIDs \cup {NoRoom}] /\ deleted' \subseteq RoomIDs
      BY <1>0, <1>5, <2>2 DEF Delete, TypeOK
    <2>4. QED
      BY <1>0, <1>5, <2>1, <2>3, <1>a DEF Delete, Typed, TypeOK
  <1>6. CASE ResolveRoom(r)
    <2>1. job[r].pc = "room" /\ job[r].slug \in Slugs /\ rooms[job[r].slug] \in RoomIDs \cup {NoRoom}
      BY <1>0, <1>6 DEF ResolveRoom, Shaped, TypeOK
    <2>2. CASE Answer(r)
      BY <1>0, <1>6, <2>1, <2>2, <1>a DEF ResolveRoom, Typed, TypeOK
    <2>3. CASE /\ job' = [job EXCEPT ![r].room = rooms[job[r].slug], ![r].pc = "upgrade"]
               /\ UNCHANGED answered
      <3>1. "upgrade" \in Steps \ {"done", "delete"}
        BY DEF Steps
      <3>2. job' \in [Requests -> Jobs] /\ \A q \in Requests : Shaped(q)'
        BY <1>0, <2>1, <2>3, <3>1, <1>b
      <3>3. QED
        BY <1>0, <1>6, <2>3, <3>2 DEF ResolveRoom, Typed, TypeOK, Counted
    <2>4. QED
      BY <1>6, <2>2, <2>3 DEF ResolveRoom
  <1>7. CASE CheckLimit(r)
    <2>1. job[r].pc = "limit" /\ Hit(job[r].user) /\ "room" \in Steps \ {"done"}
      BY <1>7 DEF CheckLimit, Steps
    <2>2. hits' \in [Users -> Nat] /\ windows' \in [Users -> Nat]
      BY <1>0, <2>1, HitCounts
    <2>3. CASE Answer(r)
      BY <1>0, <1>7, <2>1, <2>2, <2>3, <1>a DEF CheckLimit, Typed, TypeOK
    <2>4. CASE Goto(r, "room") /\ UNCHANGED answered
      <3>1. job' \in [Requests -> Jobs] /\ \A q \in Requests : Shaped(q)'
        BY <2>1, <2>4, MoveTyped
      <3>2. QED
        BY <1>0, <1>7, <2>2, <2>4, <3>1 DEF CheckLimit, Typed, TypeOK, Counted
    <2>5. QED
      BY <1>7, <2>3, <2>4 DEF CheckLimit
  <1>8. CASE FindRoom(r)
    <2>1. job[r].pc = "room" /\ job[r].slug \in Slugs /\ rooms[job[r].slug] \in RoomIDs \cup {NoRoom}
      BY <1>0, <1>8 DEF FindRoom, Shaped, TypeOK
    <2>2. CASE Answer(r)
      BY <1>0, <1>8, <2>1, <2>2, <1>a DEF FindRoom, Typed, TypeOK
    <2>3. CASE /\ job' = [job EXCEPT ![r].room = rooms[job[r].slug], ![r].pc = "recipient"]
               /\ UNCHANGED answered
      <3>1. "recipient" \in Steps \ {"done", "delete"}
        BY DEF Steps
      <3>2. job' \in [Requests -> Jobs] /\ \A q \in Requests : Shaped(q)'
        BY <1>0, <2>1, <2>3, <3>1, <1>b
      <3>3. QED
        BY <1>0, <1>8, <2>3, <3>2 DEF FindRoom, Typed, TypeOK, Counted
    <2>4. QED
      BY <1>8, <2>2, <2>3 DEF FindRoom
  <1>9. CASE ReadRecipient(r)
    <2>1. job[r].pc = "recipient" /\ "deliver" \in Steps \ {"done"}
      BY <1>9 DEF ReadRecipient, Steps
    <2>2. CASE Answer(r)
      BY <1>0, <1>9, <2>1, <2>2, <1>a DEF ReadRecipient, Typed, TypeOK
    <2>3. CASE Goto(r, "deliver") /\ UNCHANGED answered
      <3>1. job' \in [Requests -> Jobs] /\ \A q \in Requests : Shaped(q)'
        BY <2>1, <2>3, MoveTyped
      <3>2. QED
        BY <1>0, <1>9, <2>3, <3>1 DEF ReadRecipient, Typed, TypeOK, Counted
    <2>4. QED
      BY <1>9, <2>2, <2>3 DEF ReadRecipient
  <1>10. CASE Deliver(r)
    <2>1. job[r].pc = "deliver" /\ Answer(r)
      BY <1>10 DEF Deliver
    <2>2. log' \in [Users -> Seq(Requests)]
      <3>1. \A u \in Users : Append(log[u], r) \in Seq(Requests)
        BY <1>0 DEF TypeOK
      <3>2. QED
        BY <1>0, <1>10, <3>1 DEF Deliver, TypeOK
    <2>3. QED
      BY <1>0, <1>10, <2>1, <2>2, <1>a DEF Deliver, Typed, TypeOK
  <1>11. CASE IssueTicket(r)
    <2>1. job[r].pc = "issue" /\ Answer(r)
      BY <1>11 DEF IssueTicket
    <2>2. QED
      BY <1>0, <1>11, <2>1, <1>a DEF IssueTicket, Typed, TypeOK
  <1>12. CASE Join(r)
    <2>1. job[r].pc = "upgrade" /\ Answer(r)
      BY <1>12 DEF Join
    <2>2. joined' \in [Requests -> RoomIDs \cup {NoRoom}]
      BY <1>0, <1>12 DEF Join, TypeOK, Jobs
    <2>3. QED
      BY <1>0, <1>12, <2>1, <2>2, <1>a DEF Join, Typed, TypeOK
  <1>13. CASE Fails(r)
    <2>1. job[r].pc # "done" /\ Answer(r)
      BY <1>13 DEF Fails
    <2>2. /\ rooms' \in [Slugs -> RoomIDs \cup {NoRoom}] /\ created' \in Nat
          /\ Counted'
          /\ hits' \in [Users -> Nat] /\ windows' \in [Users -> Nat]
          /\ tickets' \subseteq Requests /\ deleted' \subseteq RoomIDs
      <3>1. CASE UNCHANGED <<rooms, created, tickets, hits, windows, deleted>>
        BY <1>0, <2>1, <3>1, <1>a DEF TypeOK
      <3>2. ASSUME NEW s \in Slugs, CreateRoom(s), UNCHANGED <<tickets, hits, windows, deleted>>
            PROVE  /\ rooms' \in [Slugs -> RoomIDs \cup {NoRoom}] /\ created' \in Nat
                   /\ Counted'
                   /\ hits' \in [Users -> Nat] /\ windows' \in [Users -> Nat]
                   /\ tickets' \subseteq Requests /\ deleted' \subseteq RoomIDs
        <4>1. rooms' \in [Slugs -> RoomIDs \cup {NoRoom}] /\ created' \in Nat
          BY <1>0, <2>1, <3>2, AnswerTyped DEF CreateRoom, TypeOK
        <4>2. Counted'
          BY <2>1, <3>2, AnswerTyped DEF CreateRoom, Counted
        <4>3. QED
          BY <1>0, <3>2, <4>1, <4>2 DEF TypeOK
      <3>3. CASE /\ rooms' = [rooms EXCEPT ![job[r].slug] = NoRoom]
                 /\ UNCHANGED <<created, tickets, hits, windows, deleted>>
        BY <1>0, <2>1, <3>3, <1>a DEF TypeOK
      <3>4. CASE Hit(job[r].user) /\ UNCHANGED <<rooms, created, tickets, deleted>>
        BY <1>0, <2>1, <3>4, <1>a, HitCounts DEF TypeOK
      <3>5. QED
        BY <1>13, <3>1, <3>2, <3>3, <3>4 DEF Fails
    <2>3. QED
      BY <1>0, <1>13, <2>1, <2>2, AnswerTyped DEF Fails, Typed, TypeOK
  <1>14. QED
    BY <1>1, <1>2, <1>3, <1>4, <1>5, <1>6, <1>7, <1>8, <1>9, <1>10, <1>11, <1>12, <1>13 DEF Step

\* Every step keeps the types.
LEMMA NextTyped == Typed /\ [Next]_vars => Typed'
  <1> SUFFICES ASSUME Typed, [Next]_vars PROVE Typed'
    OBVIOUS
  <1> USE DEF dirVars, redisVars
  <1>0. TypeOK
    BY DEF Typed
  <1>1. ASSUME NEW r \in Requests, NEW j \in Jobs, Opening(j), Begin(r, j)
        PROVE  Typed'
    <2>1. job' \in [Requests -> Jobs] /\ \A q \in Requests : Shaped(q)'
      BY <1>0, <1>1, BeginMoves DEF Typed, TypeOK, Shaped, Begin, Opening
    <2>2. seen' \in [Requests -> [answered : SUBSET Requests, deleted : SUBSET RoomIDs,
                                  disabled : SUBSET Users]]
      BY <1>0, <1>1 DEF Begin, TypeOK
    <2>3. QED
      BY <1>0, <1>1, <2>1, <2>2 DEF Begin, Typed, TypeOK, Counted
  <1>2. ASSUME NEW t \in Requests, TicketExpires(t)
        PROVE  Typed'
    BY <1>2 DEF TicketExpires, Typed, TypeOK, Counted, Shaped
  <1>3. ASSUME NEW u \in Users, WindowEnds(u)
        PROVE  Typed'
    BY <1>3 DEF WindowEnds, Typed, TypeOK, Counted, Shaped
  <1>4. ASSUME NEW u \in Users, Disable(u)
        PROVE  Typed'
    BY <1>4 DEF Disable, Typed, TypeOK, Counted, Shaped
  <1>5. CASE UNCHANGED vars
    BY <1>5 DEF vars, Typed, TypeOK, Counted, Shaped
  <1>6. QED
    BY <1>0, <1>1, <1>2, <1>3, <1>4, <1>5, StepTyped, StepKinds

\* The types, and what each step of a handler may carry, hold throughout.
LEMMA TypedAlways == Spec => []Typed
  BY InitTyped, NextTyped, PTL DEF Spec

\* The types hold in every reachable state: in particular a room id, of which there is one
\* per create, never runs out, because a handler that inserted a row always answers.
THEOREM CallsTypeCorrect == Spec => []TypeOK
  <1>1. Typed => TypeOK
    BY DEF Typed
  <1>2. QED
    BY <1>1, TypedAlways, PTL

-----------------------------------------------------------------------------
(* What a step of a handler does, as far as the invariants below can tell *)

\* The command that comes next, and what this one has established for it.
Advances(r) ==
  LET now == job[r].pc
      then == job'[r].pc
  IN \/ then = "done" /\ r \in answered'
     \/ now = "insert" /\ then = "insert"
     \/ Redeem(r) /\ then = "user"
     \/ /\ now = "user" /\ job[r].user \notin disabled
        /\ then \in {"insert", "delete", "issue", "room", "limit"}
        /\ then = "room" => job[r].op \notin Events
     \/ CheckLimit(r) /\ now = "limit" /\ then = "room" /\ Allows(job[r].user)
     \/ now = "room" /\ then = "upgrade"
     \/ now = "room" /\ then = "recipient" /\ job[r].op \in Events
     \/ now = "recipient" /\ then = "deliver" /\ job[r].to \notin disabled

Handled(r) ==
  /\ job[r].pc \notin {"new", "done"} /\ r \notin answered
  /\ \A q \in Requests : q # r => job'[q] = job[q]
  /\ job'[r].op = job[r].op /\ job'[r].to = job[r].to
  /\ job'[r].slug = job[r].slug /\ job'[r].ticket = job[r].ticket
  /\ job'[r].user = job[r].user \/ Redeem(r)
  /\ job'[r].room = job[r].room \/ \E s \in Slugs : job'[r].room = rooms[s]
  /\ UNCHANGED <<disabled, seen>>
  /\ answered' \in {answered, answered \cup {r}}
  /\ deleted \subseteq deleted'
  /\ UNCHANGED log \/ Deliver(r)
  /\ UNCHANGED joined \/ Join(r)
  /\ UNCHANGED tickets \/ tickets' = tickets \ {job[r].ticket} \/ IssueTicket(r)
  /\ UNCHANGED <<hits, windows>> \/ (job[r].pc = "limit" /\ Hit(job[r].user))
  /\ Advances(r)

\* A step that answers its request is one of the steps that Handled describes.
LEMMA AnswerHandled ==
  ASSUME Typed, NEW r \in Requests, job[r].pc \notin {"new", "done"}, Answer(r),
         UNCHANGED <<disabled, seen>>, deleted \subseteq deleted',
         UNCHANGED log \/ Deliver(r), UNCHANGED joined \/ Join(r),
         UNCHANGED tickets \/ tickets' = tickets \ {job[r].ticket} \/ IssueTicket(r),
         UNCHANGED <<hits, windows>> \/ (job[r].pc = "limit" /\ Hit(job[r].user))
  PROVE  Handled(r)
  <1>1. Goto(r, "done") /\ "done" \in Steps /\ job \in [Requests -> Jobs]
    BY DEF Answer, Steps, Typed, TypeOK
  <1>2. /\ \A q \in Requests : q # r => job'[q] = job[q]
        /\ job'[r].pc = "done"
        /\ job'[r].op = job[r].op /\ job'[r].user = job[r].user /\ job'[r].to = job[r].to
        /\ job'[r].slug = job[r].slug /\ job'[r].ticket = job[r].ticket
        /\ job'[r].room = job[r].room
    BY <1>1, GotoMoves
  <1>3. r \notin answered /\ answered' = answered \cup {r}
    BY DEF Typed, Shaped, Answer
  <1>4. Advances(r)
    BY <1>2, <1>3 DEF Advances
  <1>5. QED
    BY <1>2, <1>3, <1>4 DEF Handled

\* So is every other step of a handler.
LEMMA StepHandled ==
  ASSUME Typed, NEW r \in Requests, Step(r)
  PROVE  Handled(r)
  <1> USE DEF dirVars, redisVars, commandRest
  <1>0. job \in [Requests -> Jobs] /\ Shaped(r) /\ tickets \subseteq Requests
    BY DEF Typed, TypeOK
  <1>a. job[r].pc # "done" => r \notin answered
    BY <1>0 DEF Shaped
  <1>1. CASE Redeem(r)
    <2>1. job[r].pc = "redeem" /\ job'[r].pc = "user" /\ Advances(r)
      BY <1>0, <1>1, RedeemMoves DEF Redeem, Advances
    <2>2. QED
      BY <1>0, <1>a, <1>1, <2>1, RedeemMoves DEF Redeem, Handled
  <1>2. CASE RedeemRefused(r)
    BY <1>2, AnswerHandled DEF RedeemRefused
  <1>3. CASE ReadUser(r)
    <2>1. job[r].pc = "user"
      BY <1>3 DEF ReadUser
    <2>2. CASE Answer(r)
      BY <1>3, <2>2, AnswerHandled DEF ReadUser
    <2>3. CASE job[r].user \notin disabled /\ Goto(r, First(job[r].op)) /\ UNCHANGED answered
      <3>1. First(job[r].op) \in Steps
        BY DEF First, Steps
      <3>2. job'[r].pc = First(job[r].op)
        BY <1>0, <2>3, <3>1, GotoMoves
      <3>3. /\ First(job[r].op) \in {"insert", "delete", "issue", "room", "limit"}
            /\ First(job[r].op) = "room" => job[r].op \notin Events
        BY DEF First, Events
      <3>4. Advances(r)
        BY <2>1, <2>3, <3>2, <3>3 DEF Advances
      <3>5. QED
        BY <1>0, <1>a, <1>3, <2>1, <2>3, <3>1, <3>4, GotoMoves DEF ReadUser, Handled
    <2>4. QED
      BY <1>3, <2>2, <2>3 DEF ReadUser
  <1>4. ASSUME NEW s \in Slugs, Insert(r, s)
        PROVE  Handled(r)
    <2>1. job[r].pc = "insert"
      BY <1>4 DEF Insert
    <2>2. CASE Answer(r)
      BY <1>4, <2>2, AnswerHandled DEF Insert
    <2>3. CASE /\ job[r].tries + 1 < slugAttempts
               /\ job' = [job EXCEPT ![r].tries = job[r].tries + 1]
               /\ UNCHANGED answered
      <3>1. job'[r].pc = "insert" /\ Advances(r)
        BY <1>0, <2>1, <2>3, RetryMoves DEF Advances
      <3>2. QED
        BY <1>0, <1>a, <1>4, <2>1, <2>3, <3>1, RetryMoves DEF Insert, Handled
    <2>4. QED
      BY <1>4, <2>2, <2>3 DEF Insert
  <1>5. CASE Delete(r)
    BY <1>5, AnswerHandled DEF Delete
  <1>6. CASE ResolveRoom(r)
    <2>1. /\ job[r].pc = "room" /\ job[r].slug \in Slugs
          /\ rooms[job[r].slug] \in RoomIDs \cup {NoRoom} /\ "upgrade" \in Steps
      BY <1>0, <1>6 DEF ResolveRoom, Shaped, Typed, TypeOK, Steps
    <2>2. CASE Answer(r)
      BY <1>6, <2>2, AnswerHandled DEF ResolveRoom
    <2>3. CASE /\ job' = [job EXCEPT ![r].room = rooms[job[r].slug], ![r].pc = "upgrade"]
               /\ UNCHANGED answered
      <3>1. job'[r].pc = "upgrade" /\ Advances(r)
        BY <1>0, <2>1, <2>3, ReadMoves DEF Advances, Resolves
      <3>2. PICK id \in RoomIDs \cup {NoRoom} :
              id = rooms[job[r].slug] /\ Resolves(r, id, "upgrade")
        BY <2>1, <2>3 DEF Resolves
      <3>3. /\ job' \in [Requests -> Jobs]
            /\ \A q \in Requests : q # r => job'[q] = job[q]
            /\ job'[r].pc = "upgrade" /\ job'[r].room = id
            /\ job'[r].op = job[r].op /\ job'[r].user = job[r].user /\ job'[r].to = job[r].to
            /\ job'[r].slug = job[r].slug /\ job'[r].ticket = job[r].ticket
        BY <1>0, <2>1, <3>2, ReadMoves
      <3>4. QED
        BY <1>a, <1>6, <2>1, <2>3, <3>1, <3>2, <3>3 DEF ResolveRoom, Handled
    <2>4. QED
      BY <1>6, <2>2, <2>3 DEF ResolveRoom
  <1>7. CASE CheckLimit(r)
    <2>1. job[r].pc = "limit" /\ Hit(job[r].user) /\ "room" \in Steps
      BY <1>7 DEF CheckLimit, Steps
    <2>2. CASE Answer(r)
      BY <1>7, <2>1, <2>2, AnswerHandled DEF CheckLimit
    <2>3. CASE Allows(job[r].user) /\ Goto(r, "room") /\ UNCHANGED answered
      <3>1. job'[r].pc = "room" /\ Advances(r)
        BY <1>0, <1>7, <2>1, <2>3, GotoMoves DEF Advances
      <3>2. QED
        BY <1>0, <1>a, <1>7, <2>1, <2>3, <3>1, GotoMoves DEF CheckLimit, Handled
    <2>4. QED
      BY <1>7, <2>2, <2>3 DEF CheckLimit
  <1>8. CASE FindRoom(r)
    <2>1. /\ job[r].pc = "room" /\ job[r].slug \in Slugs /\ job[r].op \in Events
          /\ rooms[job[r].slug] \in RoomIDs \cup {NoRoom} /\ "recipient" \in Steps
      BY <1>0, <1>8 DEF FindRoom, Shaped, Typed, TypeOK, Steps
    <2>2. CASE Answer(r)
      BY <1>8, <2>2, AnswerHandled DEF FindRoom
    <2>3. CASE /\ job' = [job EXCEPT ![r].room = rooms[job[r].slug], ![r].pc = "recipient"]
               /\ UNCHANGED answered
      <3>1. job'[r].pc = "recipient" /\ Advances(r)
        BY <1>0, <2>1, <2>3, ReadMoves DEF Advances, Resolves
      <3>2. PICK id \in RoomIDs \cup {NoRoom} :
              id = rooms[job[r].slug] /\ Resolves(r, id, "recipient")
        BY <2>1, <2>3 DEF Resolves
      <3>3. /\ job' \in [Requests -> Jobs]
            /\ \A q \in Requests : q # r => job'[q] = job[q]
            /\ job'[r].pc = "recipient" /\ job'[r].room = id
            /\ job'[r].op = job[r].op /\ job'[r].user = job[r].user /\ job'[r].to = job[r].to
            /\ job'[r].slug = job[r].slug /\ job'[r].ticket = job[r].ticket
        BY <1>0, <2>1, <3>2, ReadMoves
      <3>4. QED
        BY <1>a, <1>8, <2>1, <2>3, <3>1, <3>2, <3>3 DEF FindRoom, Handled
    <2>4. QED
      BY <1>8, <2>2, <2>3 DEF FindRoom
  <1>9. CASE ReadRecipient(r)
    <2>1. job[r].pc = "recipient" /\ "deliver" \in Steps
      BY <1>9 DEF ReadRecipient, Steps
    <2>2. CASE Answer(r)
      BY <1>9, <2>2, AnswerHandled DEF ReadRecipient
    <2>3. CASE job[r].to \notin disabled /\ Goto(r, "deliver") /\ UNCHANGED answered
      <3>1. job'[r].pc = "deliver" /\ Advances(r)
        BY <1>0, <2>1, <2>3, GotoMoves DEF Advances
      <3>2. QED
        BY <1>0, <1>a, <1>9, <2>1, <2>3, <3>1, GotoMoves DEF ReadRecipient, Handled
    <2>4. QED
      BY <1>9, <2>2, <2>3 DEF ReadRecipient
  <1>10. CASE Deliver(r)
    BY <1>10, AnswerHandled DEF Deliver
  <1>11. CASE IssueTicket(r)
    BY <1>11, AnswerHandled DEF IssueTicket
  <1>12. CASE Join(r)
    BY <1>12, AnswerHandled DEF Join
  <1>13. CASE Fails(r)
    BY <1>13, AnswerHandled DEF Fails
  <1>14. QED
    BY <1>1, <1>2, <1>3, <1>4, <1>5, <1>6, <1>7, <1>8, <1>9, <1>10, <1>11, <1>12, <1>13 DEF Step

-----------------------------------------------------------------------------
(* What a request saw when it began, and the order of the events *)

\* What a request saw when it began does not become untrue.
Past(r) ==
  /\ seen[r].answered \subseteq answered
  /\ seen[r].deleted \subseteq deleted
  /\ seen[r].disabled \subseteq disabled

\* An event is queued, and a client added to the hub, no later than its request is answered.
Logged ==
  /\ \A u \in Users : \A i \in DOMAIN log[u] : log[u][i] \in answered
  /\ \A r \in Requests : joined[r] # NoRoom => r \in answered

Ordered ==
  /\ \A r \in Requests : Past(r)
  /\ Logged
  /\ RealTimeOrder

\* No event has been queued.
LEMMA InitOrdered == Init => Ordered
  BY DEF Init, Ordered, Past, Logged, RealTimeOrder, Unseen

\* Deliver is the only one that adds to a log, and it adds its own request at the end.
LEMMA DeliverAppends ==
  ASSUME TypeOK, NEW r \in Requests, Deliver(r), NEW u \in Users
  PROVE  \/ log'[u] = log[u]
         \/ /\ u = job[r].to
            /\ DOMAIN log[u] = 1 .. Len(log[u]) /\ Len(log[u]) \in Nat
            /\ DOMAIN log'[u] = 1 .. Len(log[u]) + 1
            /\ \A i \in 1 .. Len(log[u]) : log'[u][i] = log[u][i]
            /\ log'[u][Len(log[u]) + 1] = r
  <1>1. log \in [Users -> Seq(Requests)] /\ log[u] \in Seq(Requests)
    BY DEF TypeOK
  <1>2. CASE u = job[r].to
    <2>1. log'[u] = Append(log[u], r)
      BY <1>1, <1>2 DEF Deliver
    <2>2. QED
      BY <1>1, <1>2, <2>1
  <1>3. CASE u # job[r].to
    BY <1>1, <1>3 DEF Deliver
  <1>4. QED
    BY <1>2, <1>3

\* An event that Deliver queues comes after every event answered before it.
LEMMA DeliverOrdered ==
  ASSUME Typed, Ordered, NEW r \in Requests, Handled(r), Deliver(r)
  PROVE  /\ \A u \in Users : \A i \in DOMAIN log'[u] : log'[u][i] \in answered'
         /\ RealTimeOrder'
  <1>0. TypeOK /\ answered' = answered \cup {r} /\ r \notin answered /\ seen' = seen
    BY DEF Typed, Deliver, Answer, Handled
  <1>1. ASSUME NEW u \in Users
        PROVE  /\ \A i \in DOMAIN log'[u] : log'[u][i] \in answered'
               /\ \A i, k \in DOMAIN log'[u] : log'[u][i] \in seen'[log'[u][k]].answered => i < k
    <2>1. /\ \A i \in DOMAIN log[u] : log[u][i] \in answered
          /\ \A i, k \in DOMAIN log[u] : log[u][i] \in seen[log[u][k]].answered => i < k
      BY DEF Ordered, Logged, RealTimeOrder
    <2>2. CASE log'[u] = log[u]
      BY <1>0, <2>1, <2>2
    <2>3. CASE /\ DOMAIN log[u] = 1 .. Len(log[u]) /\ Len(log[u]) \in Nat
               /\ DOMAIN log'[u] = 1 .. Len(log[u]) + 1
               /\ \A i \in 1 .. Len(log[u]) : log'[u][i] = log[u][i]
               /\ log'[u][Len(log[u]) + 1] = r
      <3>1. PICK n \in Nat : n = Len(log[u])
        BY <2>3
      <3>2. \A i \in DOMAIN log'[u] : (i \in 1 .. n /\ i \in DOMAIN log[u]) \/ i = n + 1
        BY <2>3, <3>1
      <3>3. \A i \in DOMAIN log'[u] : log'[u][i] \in answered'
        BY <1>0, <2>1, <2>3, <3>1, <3>2
      <3>4. ASSUME NEW i \in DOMAIN log'[u], NEW k \in DOMAIN log'[u],
                   log'[u][i] \in seen'[log'[u][k]].answered
            PROVE  i < k
        <4>1. log'[u][k] \in Requests
          BY <1>0, <3>3 DEF Typed, TypeOK
        <4>2. log'[u][i] \in answered
          BY <1>0, <3>4, <4>1 DEF Ordered, Past
        <4>3. i \in 1 .. n /\ i \in DOMAIN log[u]
          BY <1>0, <2>3, <3>1, <3>2, <4>2
        <4>4. CASE k = n + 1
          BY <4>3, <4>4, <3>1
        <4>5. CASE k \in 1 .. n /\ k \in DOMAIN log[u]
          BY <1>0, <2>1, <2>3, <3>1, <3>4, <4>3, <4>5
        <4>6. QED
          BY <3>2, <4>4, <4>5
      <3>5. QED
        BY <3>3, <3>4
    <2>4. QED
      BY <1>0, <2>2, <2>3, DeliverAppends
  <1>2. QED
    BY <1>1 DEF RealTimeOrder

\* Every step keeps the events in order.
LEMMA NextOrdered == Typed /\ Ordered /\ [Next]_vars => Ordered'
  <1> SUFFICES ASSUME Typed, Ordered, [Next]_vars PROVE Ordered'
    OBVIOUS
  <1> USE DEF dirVars, redisVars
  <1>0. TypeOK
    BY DEF Typed
  <1>1. ASSUME NEW r \in Requests, NEW j \in Jobs, Opening(j), Begin(r, j)
        PROVE  Ordered'
    <2>1. r \notin answered
      BY <1>0, <1>1, BeginMoves DEF Typed, TypeOK, Shaped
    <2>2. UNCHANGED <<answered, deleted, disabled, log, joined>>
      BY <1>1 DEF Begin
    <2>3. \A q \in Requests : q # r => seen'[q] = seen[q]
      BY <1>0, <1>1 DEF Begin, TypeOK
    <2>4. \/ seen'[r] = seen[r]
          \/ seen'[r] = [answered |-> answered, deleted |-> deleted, disabled |-> disabled]
      BY <1>0, <1>1 DEF Begin, TypeOK
    <2>5. \A q \in Requests : Past(q)'
      BY <2>2, <2>3, <2>4 DEF Ordered, Past
    <2>6. Logged'
      BY <2>2 DEF Ordered, Logged
    <2>7. \A u \in Users : \A k \in DOMAIN log[u] : seen'[log[u][k]] = seen[log[u][k]]
      BY <1>0, <2>1, <2>3 DEF Ordered, Logged, TypeOK
    <2>8. RealTimeOrder'
      BY <2>2, <2>7 DEF Ordered, RealTimeOrder
    <2>9. QED
      BY <2>5, <2>6, <2>8 DEF Ordered
  <1>2. ASSUME NEW r \in Requests, Handled(r)
        PROVE  Ordered'
    <2>1. /\ answered \subseteq answered' /\ deleted \subseteq deleted'
          /\ disabled' = disabled /\ seen' = seen
      BY <1>2 DEF Handled
    <2>2. \A q \in Requests : Past(q)'
      BY <2>1 DEF Ordered, Past
    <2>3. \A q \in Requests : joined'[q] # NoRoom => q \in answered'
      <3>1. CASE UNCHANGED joined
        BY <2>1, <3>1 DEF Ordered, Logged
      <3>2. CASE Join(r)
        BY <1>0, <2>1, <3>2 DEF Ordered, Logged, Join, Answer, TypeOK
      <3>3. QED
        BY <1>2, <3>1, <3>2 DEF Handled
    <2>4. /\ \A u \in Users : \A i \in DOMAIN log'[u] : log'[u][i] \in answered'
          /\ RealTimeOrder'
      <3>1. CASE UNCHANGED log
        BY <2>1, <3>1 DEF Ordered, Logged, RealTimeOrder
      <3>2. CASE Deliver(r)
        BY <1>2, <3>2, DeliverOrdered
      <3>3. QED
        BY <1>2, <3>1, <3>2 DEF Handled
    <2>5. QED
      BY <2>2, <2>3, <2>4 DEF Ordered, Logged
  <1>3. ASSUME NEW t \in Requests, TicketExpires(t)
        PROVE  Ordered'
    BY <1>3 DEF TicketExpires, Ordered, Past, Logged, RealTimeOrder
  <1>4. ASSUME NEW u \in Users, WindowEnds(u)
        PROVE  Ordered'
    BY <1>4 DEF WindowEnds, Ordered, Past, Logged, RealTimeOrder
  <1>5. ASSUME NEW u \in Users, Disable(u)
        PROVE  Ordered'
    BY <1>5 DEF Disable, Ordered, Past, Logged, RealTimeOrder
  <1>6. CASE UNCHANGED vars
    BY <1>6 DEF vars, Ordered, Past, Logged, RealTimeOrder
  <1>7. QED
    BY <1>0, <1>1, <1>2, <1>3, <1>4, <1>5, <1>6, StepHandled, StepKinds

\* The order of the events holds throughout.
LEMMA OrderedAlways == Spec => [](Typed /\ Ordered)
  <1>1. Init => Typed /\ Ordered
    BY InitTyped, InitOrdered
  <1>2. (Typed /\ Ordered) /\ [Next]_vars => (Typed /\ Ordered)'
    BY NextTyped, NextOrdered
  <1>3. QED
    BY <1>1, <1>2, PTL DEF Spec

\* However many requests race, an event is queued behind every event whose request had been
\* answered when its own was made: Deliver (invites/handlers.go) queues before it answers.
THEOREM EventsKeepOrder == Spec => []RealTimeOrder
  <1>1. Typed /\ Ordered => RealTimeOrder
    BY DEF Ordered
  <1>2. QED
    BY <1>1, OrderedAlways, PTL

-----------------------------------------------------------------------------
(* A deleted room stays out of reach, also when its slug is given out again *)

\* An id names one room for good: two slugs never share one, and a deleted room's id is
\* neither in the table any more nor handed out again.
Directory ==
  /\ \A s \in Slugs : rooms[s] <= created /\ rooms[s] \notin deleted
  /\ \A s, t \in Slugs : rooms[s] = rooms[t] => s = t \/ rooms[s] = NoRoom
  /\ \A d \in deleted : d <= created

\* The room a handler has read was not gone when its request began.
Fresh(r) == job[r].room \notin seen[r].deleted

\* The inductive invariant behind DeletedIsGone.
Current == Directory /\ \A r \in Requests : Fresh(r)

\* No room has been deleted.
LEMMA InitCurrent == Init => Current
  BY IDFacts DEF Init, Current, Directory, Fresh, NewJob, Unseen

\* What a step of a handler does to the rooms table.
LEMMA StepDirectory ==
  ASSUME Typed, NEW r \in Requests, Step(r)
  PROVE  \/ UNCHANGED <<rooms, created, deleted>>
         \/ \E s \in Slugs : CreateRoom(s) /\ UNCHANGED deleted
         \/ \E s \in Slugs : /\ rooms' = [rooms EXCEPT ![s] = NoRoom]
                             /\ UNCHANGED created
                             /\ deleted' \subseteq deleted \cup ({rooms[s]} \ {NoRoom})
  <1> USE DEF dirVars, redisVars, commandRest
  <1>1. Shaped(r)
    BY DEF Typed
  <1>2. ASSUME NEW s \in Slugs, Insert(r, s)
        PROVE  UNCHANGED <<rooms, created, deleted>> \/ (CreateRoom(s) /\ UNCHANGED deleted)
    BY <1>2 DEF Insert
  <1>3. CASE Delete(r)
    BY <1>1, <1>3 DEF Delete, Shaped
  <1>4. CASE Fails(r)
    BY <1>1, <1>4 DEF Fails, Shaped
  <1>5. CASE Redeem(r) \/ RedeemRefused(r) \/ ReadUser(r) \/ Deliver(r) \/ Join(r)
    BY <1>5 DEF Redeem, RedeemRefused, ReadUser, Deliver, Join
  <1>6. CASE ResolveRoom(r) \/ CheckLimit(r) \/ FindRoom(r) \/ ReadRecipient(r) \/ IssueTicket(r)
    BY <1>6 DEF ResolveRoom, CheckLimit, FindRoom, ReadRecipient, IssueTicket
  <1>7. QED
    BY <1>2, <1>3, <1>4, <1>5, <1>6 DEF Step

\* No handler makes a slug lead to a room that has been deleted.
LEMMA StepKeepsDirectory ==
  ASSUME Typed, Directory, NEW r \in Requests, Step(r)
  PROVE  Directory'
  <1>1. /\ rooms \in [Slugs -> RoomIDs \cup {NoRoom}] /\ created \in Nat
        /\ deleted \subseteq RoomIDs /\ \A s \in Slugs : rooms[s] \in Nat
        /\ NoRoom = 0 /\ NoRoom \notin deleted /\ RoomIDs \subseteq Nat
    <2>1. /\ rooms \in [Slugs -> RoomIDs \cup {NoRoom}] /\ created \in Nat
          /\ deleted \subseteq RoomIDs
      BY DEF Typed, TypeOK
    <2>2. \A s \in Slugs : rooms[s] \in RoomIDs \cup {NoRoom}
      BY <2>1
    <2>3. \A s \in Slugs : rooms[s] \in RoomIDs \/ rooms[s] = 0
      BY <2>2, IDFacts
    <2>4. \A s \in Slugs : rooms[s] \in Nat
      <3>1. RoomIDs \subseteq Nat /\ 0 \in Nat
        BY IDFacts
      <3>2. QED
        BY <2>3, <3>1
    <2>5. QED
      BY <2>1, <2>4, IDFacts
  <1>2. CASE UNCHANGED <<rooms, created, deleted>>
    BY <1>2 DEF Directory
  <1>3. ASSUME NEW s \in Slugs, CreateRoom(s), UNCHANGED deleted
        PROVE  Directory'
    <2>1. created' = created + 1 /\ rooms' = [rooms EXCEPT ![s] = created + 1]
      BY <1>3 DEF CreateRoom
    <2>2. rooms'[s] = created + 1 /\ \A t \in Slugs : t # s => rooms'[t] = rooms[t]
      BY <1>1, <2>1
    <2>3. \A d \in deleted : d <= created /\ d \in Nat
      BY <1>1 DEF Directory
    <2>4. \A t \in Slugs : rooms[t] <= created
      BY DEF Directory
    <2>5. \A t \in Slugs : rooms'[t] <= created' /\ rooms'[t] \notin deleted'
      BY <1>1, <1>3, <2>1, <2>2, <2>3, <2>4 DEF Directory
    <2>6. \A t, v \in Slugs : rooms'[t] = rooms'[v] => t = v \/ rooms'[t] = NoRoom
      BY <1>1, <2>2, <2>4 DEF Directory
    <2>7. \A d \in deleted' : d <= created'
      BY <1>1, <1>3, <2>1, <2>3
    <2>8. QED
      BY <2>5, <2>6, <2>7 DEF Directory
  <1>4. ASSUME NEW s \in Slugs, rooms' = [rooms EXCEPT ![s] = NoRoom], UNCHANGED created,
               deleted' \subseteq deleted \cup ({rooms[s]} \ {NoRoom})
        PROVE  Directory'
    <2>1. rooms'[s] = NoRoom /\ \A t \in Slugs : t # s => rooms'[t] = rooms[t]
      BY <1>1, <1>4
    <2>2. \A t \in Slugs : rooms'[t] <= created'
      BY <1>1, <1>4, <2>1 DEF Directory
    <2>3. \A t \in Slugs : rooms'[t] \notin deleted'
      BY <1>1, <1>4, <2>1 DEF Directory
    <2>4. \A t, v \in Slugs : rooms'[t] = rooms'[v] => t = v \/ rooms'[t] = NoRoom
      BY <2>1 DEF Directory
    <2>5. \A d \in deleted' : d <= created'
      BY <1>4 DEF Directory
    <2>6. QED
      BY <2>2, <2>3, <2>4, <2>5 DEF Directory
  <1>5. QED
    BY <1>2, <1>3, <1>4, StepDirectory

\* Every step keeps the directory and what was read from it current.
LEMMA NextCurrent == Typed /\ Ordered /\ Current /\ [Next]_vars => Current'
  <1> SUFFICES ASSUME Typed, Ordered, Current, [Next]_vars PROVE Current'
    OBVIOUS
  <1> USE DEF dirVars, redisVars
  <1>0. TypeOK /\ Directory /\ NoRoom \notin deleted
    BY IDFacts DEF Typed, TypeOK, Current
  <1>1. ASSUME NEW r \in Requests, NEW j \in Jobs, Opening(j), Begin(r, j)
        PROVE  Current'
    <2>1. UNCHANGED <<rooms, created, deleted>>
      BY <1>1 DEF Begin
    <2>2. job'[r].room = NoRoom /\ \A q \in Requests : q # r => job'[q] = job[q]
      BY <1>0, <1>1, BeginMoves DEF TypeOK, Opening
    <2>3. \A q \in Requests : q # r => seen'[q] = seen[q]
      BY <1>0, <1>1 DEF Begin, TypeOK
    <2>4. \/ seen'[r] = seen[r]
          \/ seen'[r] = [answered |-> answered, deleted |-> deleted, disabled |-> disabled]
      BY <1>0, <1>1 DEF Begin, TypeOK
    <2>5. seen'[r].deleted \subseteq deleted
      BY <2>4 DEF Ordered, Past
    <2>6. \A q \in Requests : Fresh(q)'
      BY <1>0, <2>2, <2>3, <2>5 DEF Fresh, Current
    <2>7. QED
      BY <1>0, <2>1, <2>6 DEF Current, Directory
  <1>2. ASSUME NEW r \in Requests, Step(r)
        PROVE  Current'
    <2>1. Directory'
      BY <1>0, <1>2, StepKeepsDirectory
    <2>2. Handled(r)
      BY <1>2, StepHandled
    <2>3. \A q \in Requests : Fresh(q)'
      BY <1>0, <2>2 DEF Handled, Current, Fresh, Directory, Ordered, Past
    <2>4. QED
      BY <2>1, <2>3 DEF Current
  <1>3. ASSUME NEW t \in Requests, TicketExpires(t)
        PROVE  Current'
    BY <1>3 DEF TicketExpires, Current, Directory, Fresh
  <1>4. ASSUME NEW u \in Users, WindowEnds(u)
        PROVE  Current'
    BY <1>4 DEF WindowEnds, Current, Directory, Fresh
  <1>5. ASSUME NEW u \in Users, Disable(u)
        PROVE  Current'
    BY <1>5 DEF Disable, Current, Directory, Fresh
  <1>6. CASE UNCHANGED vars
    BY <1>6 DEF vars, Current, Directory, Fresh
  <1>7. QED
    BY <1>0, <1>1, <1>2, <1>3, <1>4, <1>5, <1>6, StepKinds

\* A handshake or an invite begun after a room's deletion was answered never gets to that
\* room, whoever creates rooms meanwhile and whatever slug they are given.
THEOREM DeletedStaysGone == Spec => []DeletedIsGone
  <1>1. Init => Current
    BY InitCurrent
  <1>2. (Typed /\ Ordered) /\ Current /\ [Next]_vars => Current'
    BY NextCurrent
  <1>3. Current => DeletedIsGone
    BY DEF Current, Fresh, DeletedIsGone
  <1>4. QED
    BY <1>1, <1>2, <1>3, OrderedAlways, PTL DEF Spec

-----------------------------------------------------------------------------
(* A disabled account is kept out *)

Rang(r) == \E u \in Users : Queued(r, u)

\* Past ReadUser the caller, and past ReadRecipient the recipient, was not disabled when
\* the request began.
Cleared(r) ==
  /\ job[r].pc \notin {"new", "redeem", "user", "done"} \/ joined[r] # NoRoom \/ Rang(r)
       => job[r].user \notin seen[r].disabled
  /\ job[r].pc = "deliver" => job[r].to \notin seen[r].disabled
  /\ \A u \in Users : Queued(r, u) => u \notin seen[r].disabled

\* No account has been disabled.
LEMMA InitCleared == Init => \A r \in Requests : Cleared(r)
  BY DEF Init, Cleared, Rang, Queued, NewJob, Unseen

\* The events of a request are queued by its own Deliver, for its own recipient.
LEMMA QueuedStep ==
  ASSUME Typed, NEW r \in Requests, Handled(r), NEW q \in Requests, NEW u \in Users, Queued(q, u)'
  PROVE  Queued(q, u) \/ (Deliver(r) /\ q = r /\ u = job[r].to)
  <1>0. TypeOK
    BY DEF Typed
  <1>1. CASE UNCHANGED log
    BY <1>1 DEF Queued
  <1>2. CASE Deliver(r)
    <2>1. CASE log'[u] = log[u]
      BY <2>1 DEF Queued
    <2>2. CASE /\ u = job[r].to
               /\ DOMAIN log[u] = 1 .. Len(log[u]) /\ Len(log[u]) \in Nat
               /\ DOMAIN log'[u] = 1 .. Len(log[u]) + 1
               /\ \A i \in 1 .. Len(log[u]) : log'[u][i] = log[u][i]
               /\ log'[u][Len(log[u]) + 1] = r
      <3>1. PICK i \in 1 .. Len(log[u]) + 1 : log'[u][i] = q
        BY <2>2 DEF Queued
      <3>2. CASE i \in 1 .. Len(log[u])
        BY <2>2, <3>1, <3>2 DEF Queued
      <3>3. CASE i = Len(log[u]) + 1
        BY <1>2, <2>2, <3>1, <3>3
      <3>4. i \in 1 .. Len(log[u]) \/ i = Len(log[u]) + 1
        BY <2>2, <3>1
      <3>5. QED
        BY <3>2, <3>3, <3>4
    <2>3. QED
      BY <1>0, <1>2, <2>1, <2>2, DeliverAppends
  <1>3. QED
    BY <1>1, <1>2 DEF Handled

\* A request that has not been answered has neither rung nor joined.
LEMMA NotYet ==
  ASSUME Ordered, NEW r \in Requests, r \notin answered
  PROVE  joined[r] = NoRoom /\ ~ Rang(r) /\ \A u \in Users : ~ Queued(r, u)
  BY DEF Ordered, Logged, Rang, Queued

\* A handler's step clears no request for an account disabled before it began.
LEMMA HandledCleared ==
  ASSUME Typed, Ordered, \A q \in Requests : Cleared(q), NEW r \in Requests, Handled(r),
         NEW q \in Requests
  PROVE  Cleared(q)'
  <1>0. seen' = seen /\ disabled' = disabled /\ r \notin answered
    BY DEF Handled
  <1>1. CASE q # r
    <2>1. job'[q] = job[q]
      BY <1>1 DEF Handled
    <2>2. \A u \in Users : Queued(q, u)' => Queued(q, u)
      BY <1>1, QueuedStep
    <2>3. joined'[q] = joined[q]
      BY <1>1 DEF Handled, Join, Typed, TypeOK
    <2>4. Rang(q)' => Rang(q)
      BY <2>2 DEF Rang
    <2>5. QED
      BY <1>0, <2>1, <2>2, <2>3, <2>4 DEF Cleared
  <1>2. CASE q = r
    <2>1. joined[r] = NoRoom /\ \A u \in Users : ~ Queued(r, u)
      BY <1>0, NotYet
    <2>2. seen[r].disabled \subseteq disabled /\ Cleared(r)
      BY DEF Ordered, Past
    <2>3. \A u \in Users : Queued(r, u)' => Deliver(r) /\ u = job[r].to
      BY <2>1, QueuedStep
    <2>4. joined'[r] # NoRoom => Join(r)
      BY <2>1 DEF Handled
    <2>5. Deliver(r) => job[r].pc = "deliver" /\ job'[r].user = job[r].user
      BY DEF Handled, Deliver, Redeem
    <2>6. Join(r) => job[r].pc = "upgrade" /\ job'[r].user = job[r].user
      BY DEF Handled, Join, Redeem
    <2>7. \A u \in Users : Queued(r, u)' => u \notin seen[r].disabled
      BY <2>2, <2>3, <2>5 DEF Cleared
    <2>8. joined'[r] # NoRoom \/ Rang(r)' => job'[r].user \notin seen[r].disabled
      BY <2>2, <2>3, <2>4, <2>5, <2>6 DEF Cleared, Rang
    <2>9. job'[r].pc \notin {"new", "redeem", "user", "done"} => job'[r].user \notin seen[r].disabled
      BY <2>2 DEF Handled, Advances, Cleared, Redeem, CheckLimit
    <2>10. job'[r].pc = "deliver" => job'[r].to \notin seen[r].disabled
      BY <2>2 DEF Handled, Advances
    <2>11. QED
      BY <1>0, <1>2, <2>7, <2>8, <2>9, <2>10 DEF Cleared
  <1>3. QED
    BY <1>1, <1>2

\* Nor does any other step.
LEMMA NextCleared ==
  Typed /\ Ordered /\ (\A r \in Requests : Cleared(r)) /\ [Next]_vars
    => (\A r \in Requests : Cleared(r))'
  <1> SUFFICES ASSUME Typed, Ordered, \A r \in Requests : Cleared(r), [Next]_vars
               PROVE  \A r \in Requests : Cleared(r)'
    OBVIOUS
  <1> USE DEF dirVars, redisVars
  <1>0. TypeOK
    BY DEF Typed
  <1>1. ASSUME NEW r \in Requests, NEW j \in Jobs, Opening(j), Begin(r, j)
        PROVE  \A q \in Requests : Cleared(q)'
    <2>1. UNCHANGED <<log, joined>> /\ r \notin answered
      BY <1>0, <1>1, BeginMoves DEF Begin, Typed, TypeOK, Shaped
    <2>2. job'[r].pc \in {"user", "redeem"} /\ \A q \in Requests : q # r => job'[q] = job[q]
      BY <1>0, <1>1, BeginMoves DEF TypeOK, Opening
    <2>3. \A q \in Requests : q # r => seen'[q] = seen[q]
      BY <1>0, <1>1 DEF Begin, TypeOK
    <2>4. joined[r] = NoRoom /\ \A u \in Users : ~ Queued(r, u)
      BY <2>1, NotYet
    <2>5. \A q \in Requests, u \in Users : Queued(q, u)' <=> Queued(q, u)
      BY <2>1 DEF Queued
    <2>6. \A q \in Requests : Rang(q)' <=> Rang(q)
      BY <2>5 DEF Rang
    <2>7. \A q \in Requests : q # r => Cleared(q)'
      BY <2>1, <2>2, <2>3, <2>5, <2>6 DEF Cleared
    <2>8. Cleared(r)'
      BY <2>1, <2>2, <2>4, <2>5, <2>6 DEF Cleared, Rang
    <2>9. QED
      BY <2>7, <2>8
  <1>2. ASSUME NEW r \in Requests, Handled(r)
        PROVE  \A q \in Requests : Cleared(q)'
    BY <1>2, HandledCleared
  <1>3. ASSUME NEW t \in Requests, TicketExpires(t)
        PROVE  \A q \in Requests : Cleared(q)'
    BY <1>3 DEF TicketExpires, Cleared, Rang, Queued
  <1>4. ASSUME NEW u \in Users, WindowEnds(u)
        PROVE  \A q \in Requests : Cleared(q)'
    BY <1>4 DEF WindowEnds, Cleared, Rang, Queued
  <1>5. ASSUME NEW u \in Users, Disable(u)
        PROVE  \A q \in Requests : Cleared(q)'
    BY <1>5 DEF Disable, Cleared, Rang, Queued
  <1>6. CASE UNCHANGED vars
    BY <1>6 DEF vars, Cleared, Rang, Queued
  <1>7. QED
    BY <1>0, <1>1, <1>2, <1>3, <1>4, <1>5, <1>6, StepHandled, StepKinds

\* A request begun after an account was disabled neither joins nor rings in its name, with a
\* session or with a ticket issued earlier, and no event reaches a recipient disabled by then.
THEOREM DisabledStaysOut == Spec => []DisabledKeptOut
  <1> DEFINE Inv == \A r \in Requests : Cleared(r)
  <1>1. Init => Inv
    BY InitCleared
  <1>2. (Typed /\ Ordered) /\ Inv /\ [Next]_vars => Inv'
    BY NextCleared
  <1>3. Inv => DisabledKeptOut
    BY DEF Cleared, Rang, DisabledKeptOut
  <1>4. QED
    BY <1>1, <1>2, <1>3, OrderedAlways, PTL DEF Spec

-----------------------------------------------------------------------------
(* A ticket lets one handshake in *)

\* The handshake has got past Redeem with a ticket.
Holds(r) ==
  job[r].ticket # None /\ (job[r].pc \notin {"new", "redeem", "done"} \/ joined[r] # NoRoom)

Tickets ==
  /\ tickets \subseteq answered
  /\ \A r \in Requests : job[r].ticket # None => job[r].ticket \in answered
  /\ \A r \in Requests : Holds(r) => job[r].ticket \notin tickets
  /\ \A q, r \in Requests : Holds(q) /\ Holds(r) /\ job[q].ticket = job[r].ticket => q = r

\* No ticket has been issued.
LEMMA InitTickets == Init => Tickets
  BY DEF Init, Tickets, Holds, NewJob

\* A handler's step redeems a ticket for one request at most.
LEMMA HandledTickets ==
  ASSUME Typed, Ordered, Tickets, NEW r \in Requests, Handled(r)
  PROVE  Tickets'
  <1>0. /\ \A q \in Requests : job'[q].ticket = job[q].ticket
        /\ answered \subseteq answered' /\ r \notin answered
    BY DEF Handled
  <1>1. \A q \in Requests : q # r => (Holds(q)' <=> Holds(q))
    BY DEF Handled, Holds, Join, Typed, TypeOK
  <1>2. joined[r] = NoRoom
    BY <1>0, NotYet
  <1>3. Holds(r)' => Holds(r) \/ (Redeem(r) /\ job[r].ticket # None)
    <2>1. joined'[r] # NoRoom => job[r].pc = "upgrade"
      BY <1>2 DEF Handled, Join
    <2>2. job'[r].pc \notin {"new", "redeem", "done"} => job[r].pc \notin {"new", "redeem", "done"} \/ Redeem(r)
      BY DEF Handled, Advances, CheckLimit
    <2>3. QED
      BY <1>0, <2>1, <2>2 DEF Holds
  <1>4. CASE Redeem(r)
    <2>1. tickets' = tickets \ {job[r].ticket} /\ job[r].ticket \in tickets
      BY <1>4 DEF Redeem
    <2>2. \A q \in Requests : q # r /\ Holds(q) => job[q].ticket # job[r].ticket
      BY <2>1 DEF Tickets
    <2>3. \A q \in Requests : Holds(q)' => job'[q].ticket \notin tickets'
      BY <1>0, <1>1, <2>1 DEF Tickets
    <2>4. \A p, q \in Requests : Holds(p)' /\ Holds(q)' /\ job'[p].ticket = job'[q].ticket => p = q
      BY <1>0, <1>1, <2>2 DEF Tickets
    <2>5. QED
      BY <1>0, <2>1, <2>3, <2>4 DEF Tickets
  <1>5. CASE ~ Redeem(r)
    <2>1. \A q \in Requests : Holds(q)' => Holds(q)
      BY <1>1, <1>3, <1>5
    <2>2. tickets' \subseteq tickets \/ (tickets' = tickets \cup {r} /\ r \in answered')
      BY DEF Handled, IssueTicket, Answer
    <2>3. tickets' \subseteq answered'
      BY <1>0, <2>2 DEF Tickets
    <2>4. \A q \in Requests : Holds(q) => job[q].ticket \in answered /\ job[q].ticket # r
      BY <1>0 DEF Tickets, Holds
    <2>5. \A q \in Requests : Holds(q)' => job'[q].ticket \notin tickets'
      BY <1>0, <2>1, <2>2, <2>4 DEF Tickets
    <2>6. \A p, q \in Requests : Holds(p)' /\ Holds(q)' /\ job'[p].ticket = job'[q].ticket => p = q
      BY <1>0, <2>1 DEF Tickets
    <2>7. QED
      BY <1>0, <2>3, <2>5, <2>6 DEF Tickets
  <1>6. QED
    BY <1>4, <1>5

\* Nor does any other step give a ticket a second holder.
LEMMA NextTickets == Typed /\ Ordered /\ Tickets /\ [Next]_vars => Tickets'
  <1> SUFFICES ASSUME Typed, Ordered, Tickets, [Next]_vars PROVE Tickets'
    OBVIOUS
  <1> USE DEF dirVars, redisVars
  <1>0. TypeOK
    BY DEF Typed
  <1>1. ASSUME NEW r \in Requests, NEW j \in Jobs, Opening(j), Begin(r, j)
        PROVE  Tickets'
    <2>1. UNCHANGED <<tickets, answered, joined>> /\ r \notin answered
      BY <1>0, <1>1, BeginMoves DEF Begin, Typed, TypeOK, Shaped
    <2>2. /\ \A q \in Requests : q # r => job'[q] = job[q]
          /\ job'[r].ticket # None => job'[r].pc = "redeem" /\ job'[r].ticket \in answered
      BY <1>0, <1>1, BeginMoves DEF TypeOK, Opening
    <2>3. joined[r] = NoRoom
      BY <2>1, NotYet
    <2>4. ~ Holds(r)' /\ \A q \in Requests : q # r => (Holds(q)' <=> Holds(q))
      BY <2>1, <2>2, <2>3 DEF Holds
    <2>5. QED
      BY <2>1, <2>2, <2>4 DEF Tickets
  <1>2. ASSUME NEW r \in Requests, Handled(r)
        PROVE  Tickets'
    BY <1>2, HandledTickets
  <1>3. ASSUME NEW t \in Requests, TicketExpires(t)
        PROVE  Tickets'
    BY <1>3 DEF TicketExpires, Tickets, Holds
  <1>4. ASSUME NEW u \in Users, WindowEnds(u)
        PROVE  Tickets'
    BY <1>4 DEF WindowEnds, Tickets, Holds
  <1>5. ASSUME NEW u \in Users, Disable(u)
        PROVE  Tickets'
    BY <1>5 DEF Disable, Tickets, Holds
  <1>6. CASE UNCHANGED vars
    BY <1>6 DEF vars, Tickets, Holds
  <1>7. QED
    BY <1>0, <1>1, <1>2, <1>3, <1>4, <1>5, <1>6, StepHandled, StepKinds

\* Of all the handshakes that present a ticket at most one joins: GETDEL gives the key to one
\* of them, and who has got past it holds a ticket that is no longer in Redis.
THEOREM TicketsLetOneIn == Spec => []TicketSingleUse
  <1>1. Init => Tickets
    BY InitTickets
  <1>2. (Typed /\ Ordered) /\ Tickets /\ [Next]_vars => Tickets'
    BY NextTickets
  <1>3. Tickets => TicketSingleUse
    BY DEF Tickets, Holds, TicketSingleUse
  <1>4. QED
    BY <1>1, <1>2, <1>3, OrderedAlways, PTL DEF Spec

-----------------------------------------------------------------------------
(* The limiter bounds the events *)

\* The events of a sender that are past the limiter, queued or still on the way.
Passed(u) ==
  {r \in Requests : /\ job[r].user = u
                    /\ \/ job[r].pc = "room" /\ job[r].op \in Events
                       \/ job[r].pc \in {"recipient", "deliver"}
                       \/ Rang(r)}

\* What the windows so far have let through: a full quota each, and of the one that is
\* open no more than its hits.
Quota(u) ==
  IF hits[u] = 0 THEN PerSender * windows[u]
  ELSE PerSender * (windows[u] - 1) + (IF hits[u] < PerSender THEN hits[u] ELSE PerSender)

Limited == \A u \in Users : Cardinality(Passed(u)) <= Quota(u)

\* The requests a sender got past the limiter can be counted.
LEMMA PassedFinite ==
  ASSUME NEW u
  PROVE  IsFiniteSet(Passed(u)) /\ Cardinality(Passed(u)) \in Nat
  <1>1. Passed(u) \subseteq Requests
    BY DEF Passed
  <1>2. QED
    BY <1>1, RequestsAssumption, FS_Subset, FS_CardinalityType

\* The same in the next state, and what a step that lets nobody through keeps.
LEMMA PassedShrinks ==
  ASSUME NEW u, Passed(u)' \subseteq Passed(u)
  PROVE  Cardinality(Passed(u)') <= Cardinality(Passed(u))
  BY PassedFinite, FS_Subset

\* One more request adds at most one to the count.
LEMMA PassedGrows ==
  ASSUME NEW u, NEW r, Passed(u)' \subseteq Passed(u) \cup {r}
  PROVE  Cardinality(Passed(u)') <= Cardinality(Passed(u)) + 1
  <1>1. IsFiniteSet(Passed(u)) /\ Cardinality(Passed(u)) \in Nat
    BY PassedFinite
  <1>2. IsFiniteSet(Passed(u) \cup {r}) /\ Cardinality(Passed(u) \cup {r}) \in Nat
    BY <1>1, FS_AddElement, FS_CardinalityType
  <1>3. Cardinality(Passed(u) \cup {r}) <= Cardinality(Passed(u)) + 1
    BY <1>1, FS_AddElement
  <1>4. /\ Cardinality(Passed(u)') <= Cardinality(Passed(u) \cup {r})
        /\ Cardinality(Passed(u)') \in Nat
    BY <1>2, FS_Subset, FS_CardinalityType
  <1>5. QED
    BY <1>1, <1>2, <1>3, <1>4

\* The least of a window's hits and the quota.
Within(h) == IF h < PerSender THEN h ELSE PerSender

\* The arithmetic of the quota: a window more, a hit more.
LEMMA QuotaIs ==
  ASSUME NEW h \in Nat, NEW w \in Nat
  PROVE  /\ PerSender * w \in Nat
         /\ PerSender * (w + 1) = PerSender * w + PerSender
         /\ PerSender * (w - 1) = PerSender * w - PerSender
         /\ Within(h) \in Nat /\ Within(h) <= PerSender /\ Within(h) <= Within(h + 1)
         /\ h + 1 <= PerSender => Within(h + 1) = Within(h) + 1
         /\ Within(0) = 0 /\ Within(1) = 1
  <1>1. PerSender \in Nat /\ PerSender >= 1
    BY LimitAssumption
  <1>2. /\ PerSender * w \in Nat
        /\ PerSender * (w + 1) = PerSender * w + PerSender
        /\ PerSender * (w - 1) = PerSender * w - PerSender
    BY <1>1
  <1>3. QED
    BY <1>1, <1>2 DEF Within

\* A hit makes room for the one event it lets through.
LEMMA HitQuota ==
  ASSUME TypeOK, NEW u \in Users, Hit(u)
  PROVE  /\ Quota(u) \in Int /\ Quota(u)' \in Int
         /\ Quota(u) <= Quota(u)'
         /\ Allows(u) => Quota(u) + 1 <= Quota(u)'
  <1>1. hits[u] \in Nat /\ windows[u] \in Nat /\ PerSender \in Nat /\ PerSender >= 1
    BY LimitAssumption DEF TypeOK
  <1>2. /\ hits'[u] = hits[u] + 1
        /\ windows'[u] = IF hits[u] = 0 THEN windows[u] + 1 ELSE windows[u]
    BY HitCounts
  <1>3. PICK k \in Nat : k = PerSender * windows[u]
    BY <1>1, QuotaIs
  <1>4. /\ PerSender * (windows[u] + 1) = k + PerSender
        /\ PerSender * (windows[u] - 1) = k - PerSender
    BY <1>1, <1>3, QuotaIs
  <1>5. CASE hits[u] = 0
    <2>1. hits'[u] = 1 /\ windows'[u] = windows[u] + 1 /\ windows'[u] - 1 = windows[u]
      BY <1>1, <1>2, <1>5
    <2>2. Quota(u)' = k + Within(1) /\ Quota(u) = k
      BY <1>3, <1>5, <2>1 DEF Quota, Within
    <2>3. Within(1) = 1
      BY QuotaIs
    <2>4. QED
      BY <2>2, <2>3
  <1>6. CASE hits[u] # 0
    <2>1. hits'[u] # 0 /\ windows'[u] = windows[u]
      BY <1>1, <1>2, <1>6
    <2>2. Quota(u)' = k - PerSender + Within(hits[u] + 1) /\ Quota(u) = k - PerSender + Within(hits[u])
      BY <1>2, <1>4, <1>6, <2>1 DEF Quota, Within
    <2>3. /\ Within(hits[u]) \in Nat /\ Within(hits[u] + 1) \in Nat
          /\ Within(hits[u]) <= Within(hits[u] + 1)
          /\ hits[u] + 1 <= PerSender => Within(hits[u] + 1) = Within(hits[u]) + 1
      <3>1. hits[u] + 1 \in Nat
        BY <1>1
      <3>2. QED
        BY <1>1, <3>1, QuotaIs
    <2>4. QED
      BY <1>1, <2>2, <2>3 DEF Allows
  <1>7. QED
    BY <1>5, <1>6

\* A window that ends counts as full.
LEMMA WindowQuota ==
  ASSUME TypeOK, NEW u \in Users, hits[u] > 0, hits'[u] = 0, windows'[u] = windows[u]
  PROVE  Quota(u) \in Int /\ Quota(u)' \in Int /\ Quota(u) <= Quota(u)'
  <1>1. hits[u] \in Nat /\ windows[u] \in Nat /\ PerSender \in Nat
    BY LimitAssumption DEF TypeOK
  <1>2. PICK k \in Nat : k = PerSender * windows[u]
    BY <1>1, QuotaIs
  <1>3. PerSender * (windows[u] - 1) = k - PerSender
    BY <1>1, <1>2, QuotaIs
  <1>4. Within(hits[u]) \in Nat /\ Within(hits[u]) <= PerSender
    BY <1>1, QuotaIs
  <1>5. Quota(u) = k - PerSender + Within(hits[u]) /\ Quota(u)' = k
    BY <1>1, <1>2, <1>3 DEF Quota, Within
  <1>6. QED
    BY <1>1, <1>4, <1>5

\* The quota is a number, at most the full quota of every window opened.
LEMMA QuotaType ==
  ASSUME TypeOK, NEW u \in Users
  PROVE  Quota(u) \in Int /\ Quota(u) <= PerSender * windows[u]
  <1>1. hits[u] \in Nat /\ windows[u] \in Nat /\ PerSender \in Nat
    BY LimitAssumption DEF TypeOK
  <1>2. PICK k \in Nat : k = PerSender * windows[u]
    BY <1>1, QuotaIs
  <1>3. PerSender * (windows[u] - 1) = k - PerSender
    BY <1>1, <1>2, QuotaIs
  <1>4. Within(hits[u]) \in Nat /\ Within(hits[u]) <= PerSender
    BY <1>1, QuotaIs
  <1>5. Quota(u) = k \/ Quota(u) = k - PerSender + Within(hits[u])
    BY <1>2, <1>3 DEF Quota, Within
  <1>6. QED
    BY <1>1, <1>2, <1>4, <1>5

\* Only a request the limiter allows adds to its sender's events.
LEMMA HandledPasses ==
  ASSUME Typed, Ordered, NEW r \in Requests, Handled(r), NEW u \in Users
  PROVE  \/ Passed(u)' \subseteq Passed(u)
         \/ /\ CheckLimit(r) /\ job[r].user = u /\ Allows(u)
            /\ Passed(u)' \subseteq Passed(u) \cup {r}
  <1>1. ASSUME NEW q \in Requests, q # r, q \in Passed(u)'
        PROVE  q \in Passed(u)
    <2>1. job'[q] = job[q]
      BY <1>1 DEF Handled
    <2>2. Rang(q)' => Rang(q)
      BY <1>1, QueuedStep DEF Rang
    <2>3. QED
      BY <1>1, <2>1, <2>2 DEF Passed
  <1>2. ASSUME r \in Passed(u)', ~ (CheckLimit(r) /\ job[r].user = u /\ Allows(u))
        PROVE  r \in Passed(u)
    <2>1. ~ Rang(r) /\ \A v \in Users : ~ Queued(r, v)
      BY NotYet DEF Handled
    <2>2. Rang(r)' => Deliver(r)
      BY <2>1, QueuedStep DEF Rang
    <2>3. CASE Redeem(r)
      <3>1. job'[r].pc = "user"
        BY <2>3, RedeemMoves DEF Typed, TypeOK
      <3>2. ~ Rang(r)'
        BY <2>2, <2>3 DEF Redeem, Deliver
      <3>3. QED
        BY <1>2, <3>1, <3>2 DEF Passed
    <2>4. CASE ~ Redeem(r)
      <3>1. job'[r].user = job[r].user /\ job'[r].op = job[r].op /\ job[r].user = u
        BY <1>2, <2>4 DEF Handled, Passed
      <3>2. CASE Rang(r)'
        BY <2>2, <3>1, <3>2 DEF Passed, Deliver
      <3>3. CASE job'[r].pc = "room" /\ job[r].op \in Events
        BY <1>2, <3>1, <3>3 DEF Handled, Advances
      <3>4. CASE job'[r].pc = "recipient"
        BY <3>1, <3>4, <2>4 DEF Handled, Advances, Passed
      <3>5. CASE job'[r].pc = "deliver"
        BY <3>1, <3>5, <2>4 DEF Handled, Advances, Passed
      <3>6. QED
        BY <1>2, <3>1, <3>2, <3>3, <3>4, <3>5 DEF Passed
    <2>5. QED
      BY <2>3, <2>4
  <1>3. \A q \in Passed(u)' : q \in Requests
    BY DEF Passed
  <1>4. QED
    BY <1>1, <1>2, <1>3

\* No request has passed the limiter.
LEMMA InitLimited == Init => Limited
  <1> SUFFICES ASSUME Init, NEW u \in Users
               PROVE  Cardinality(Passed(u)) <= Quota(u)
    BY DEF Limited
  <1>1. Passed(u) = {}
    BY DEF Init, Passed, Rang, Queued, NewJob
  <1>2. Cardinality(Passed(u)) = 0
    BY <1>1, FS_EmptySet
  <1>3. hits[u] = 0 /\ windows[u] = 0
    BY DEF Init
  <1>4. PerSender * 0 = 0
    BY LimitAssumption
  <1>5. QED
    BY <1>2, <1>3, <1>4 DEF Quota

\* A handler's step keeps to the quota: a request passes only with a hit that fits.
LEMMA HandledLimited ==
  ASSUME Typed, Ordered, Limited, NEW r \in Requests, Handled(r), NEW u \in Users
  PROVE  Cardinality(Passed(u)') <= Quota(u)'
  <1>1. TypeOK /\ hits[u] \in Nat /\ windows[u] \in Nat
    BY DEF Typed, TypeOK
  <1>2. /\ Cardinality(Passed(u)) \in Nat /\ Cardinality(Passed(u)) <= Quota(u)
        /\ Quota(u) \in Int
    BY <1>1, PassedFinite, QuotaType DEF Limited
  <1>3. Cardinality(Passed(u)') \in Nat
    <2>1. Passed(u)' \subseteq Requests
      BY DEF Passed
    <2>2. QED
      BY <2>1, RequestsAssumption, FS_Subset, FS_CardinalityType
  <1>4. CASE job[r].pc = "limit" /\ Hit(job[r].user) /\ job[r].user = u
    <2>1. Quota(u)' \in Int /\ Quota(u) <= Quota(u)' /\ (Allows(u) => Quota(u) + 1 <= Quota(u)')
      BY <1>1, <1>4, HitQuota
    <2>2. CASE Passed(u)' \subseteq Passed(u)
      <3>1. Cardinality(Passed(u)') <= Cardinality(Passed(u))
        BY <2>2, PassedShrinks
      <3>2. QED
        BY <1>2, <1>3, <2>1, <3>1
    <2>3. CASE Allows(u) /\ Passed(u)' \subseteq Passed(u) \cup {r}
      <3>1. Cardinality(Passed(u)') <= Cardinality(Passed(u)) + 1
        BY <2>3, PassedGrows
      <3>2. QED
        BY <1>2, <1>3, <2>1, <2>3, <3>1
    <2>4. QED
      BY <2>2, <2>3, HandledPasses
  <1>5. CASE ~ (job[r].pc = "limit" /\ Hit(job[r].user) /\ job[r].user = u)
    <2>1. hits'[u] = hits[u] /\ windows'[u] = windows[u]
      <3>1. CASE UNCHANGED <<hits, windows>>
        BY <3>1
      <3>2. CASE Hit(job[r].user) /\ job[r].user # u
        BY <1>1, <3>2, HitCounts
      <3>3. QED
        BY <1>5, <3>1, <3>2 DEF Handled
    <2>2. Quota(u)' = Quota(u)
      BY <2>1 DEF Quota
    <2>3. Passed(u)' \subseteq Passed(u)
      BY <1>5, HandledPasses DEF CheckLimit
    <2>4. Cardinality(Passed(u)') <= Cardinality(Passed(u))
      BY <2>3, PassedShrinks
    <2>5. QED
      BY <1>2, <1>3, <2>1, <2>2, <2>4
  <1>6. QED
    BY <1>4, <1>5

\* Every step keeps to the quota.
LEMMA NextLimited == Typed /\ Ordered /\ Limited /\ [Next]_vars => Limited'
  <1> SUFFICES ASSUME Typed, Ordered, Limited, [Next]_vars PROVE Limited'
    OBVIOUS
  <1> USE DEF dirVars, redisVars
  <1>0. TypeOK
    BY DEF Typed
  <1>1. ASSUME NEW r \in Requests, NEW j \in Jobs, Opening(j), Begin(r, j)
        PROVE  Limited'
    <2>1. UNCHANGED <<log, hits, windows>> /\ r \notin answered
      BY <1>0, <1>1, BeginMoves DEF Begin, Typed, TypeOK, Shaped
    <2>2. job'[r].pc \in {"user", "redeem"} /\ \A q \in Requests : q # r => job'[q] = job[q]
      BY <1>0, <1>1, BeginMoves DEF TypeOK, Opening
    <2>3. ~ Rang(r)
      BY <2>1, NotYet
    <2>4. \A q \in Requests : Rang(q)' <=> Rang(q)
      BY <2>1 DEF Rang, Queued
    <2>5. ASSUME NEW u \in Users
          PROVE  Cardinality(Passed(u)') <= Quota(u)'
      <3>1. Passed(u)' \subseteq Passed(u)
        BY <2>2, <2>3, <2>4 DEF Passed
      <3>2. Cardinality(Passed(u)') <= Cardinality(Passed(u))
        BY <3>1, PassedShrinks
      <3>3. Cardinality(Passed(u)') \in Nat
        <4>1. Passed(u)' \subseteq Requests
          BY DEF Passed
        <4>2. QED
          BY <4>1, RequestsAssumption, FS_Subset, FS_CardinalityType
      <3>4. Cardinality(Passed(u)) \in Nat /\ Quota(u) \in Int /\ Cardinality(Passed(u)) <= Quota(u)
        BY <1>0, PassedFinite, QuotaType DEF Limited
      <3>5. Quota(u)' = Quota(u)
        BY <2>1 DEF Quota
      <3>6. QED
        BY <2>1, <3>2, <3>3, <3>4, <3>5 DEF Limited
    <2>6. QED
      BY <2>5 DEF Limited
  <1>2. ASSUME NEW r \in Requests, Handled(r)
        PROVE  Limited'
    BY <1>2, HandledLimited DEF Limited
  <1>3. ASSUME NEW t \in Requests, TicketExpires(t)
        PROVE  Limited'
    BY <1>3 DEF TicketExpires, Limited, Passed, Rang, Queued, Quota
  <1>4. ASSUME NEW u \in Users, WindowEnds(u)
        PROVE  Limited'
    <2>1. ASSUME NEW v \in Users
          PROVE  Cardinality(Passed(v)') <= Quota(v)'
      <3>1. Passed(v)' = Passed(v)
        BY <1>4 DEF WindowEnds, Passed, Rang, Queued
      <3>2. Cardinality(Passed(v)) \in Nat /\ Quota(v) \in Int /\ Cardinality(Passed(v)) <= Quota(v)
        BY <1>0, PassedFinite, QuotaType DEF Limited
      <3>3. CASE v = u
        <4>1. hits[v] > 0 /\ hits'[v] = 0 /\ windows'[v] = windows[v]
          BY <1>0, <1>4, <3>3 DEF WindowEnds, TypeOK
        <4>2. Quota(v)' \in Int /\ Quota(v) <= Quota(v)'
          BY <1>0, <4>1, WindowQuota
        <4>3. QED
          BY <3>1, <3>2, <4>1, <4>2
      <3>4. CASE v # u
        <4>1. hits'[v] = hits[v] /\ windows'[v] = windows[v]
          BY <1>0, <1>4, <3>4 DEF WindowEnds, TypeOK
        <4>2. Quota(v)' = Quota(v)
          BY <4>1 DEF Quota
        <4>3. QED
          BY <3>1, <3>2, <4>1, <4>2 DEF Limited
      <3>5. QED
        BY <3>3, <3>4
    <2>2. QED
      BY <2>1 DEF Limited
  <1>5. ASSUME NEW u \in Users, Disable(u)
        PROVE  Limited'
    BY <1>5 DEF Disable, Limited, Passed, Rang, Queued, Quota
  <1>6. CASE UNCHANGED vars
    BY <1>6 DEF vars, Limited, Passed, Rang, Queued, Quota
  <1>7. QED
    BY <1>0, <1>1, <1>2, <1>3, <1>4, <1>5, <1>6, StepHandled, StepKinds

\* One sender's events are at most PerSender for every window that sender has opened, also
\* when windows end while events are between the limiter and Deliver.
THEOREM RingsStayBounded == Spec => []RingsBounded
  <1>1. Init => Limited
    BY InitLimited
  <1>2. (Typed /\ Ordered) /\ Limited /\ [Next]_vars => Limited'
    BY NextLimited
  <1>3. ASSUME Typed, Limited
        PROVE  RingsBounded
    <2>1. ASSUME NEW u \in Users
          PROVE  Cardinality({r \in Requests : job[r].user = u /\ \E v \in Users : Queued(r, v)})
                   <= PerSender * windows[u]
      <3> DEFINE rung == {r \in Requests : job[r].user = u /\ \E v \in Users : Queued(r, v)}
      <3>1. rung \subseteq Passed(u)
        BY DEF Passed, Rang
      <3>2. Cardinality(rung) <= Cardinality(Passed(u)) /\ Cardinality(rung) \in Nat
        BY <3>1, PassedFinite, FS_Subset, FS_CardinalityType
      <3>3. Cardinality(Passed(u)) \in Nat /\ Cardinality(Passed(u)) <= Quota(u)
        BY <1>3, PassedFinite DEF Limited
      <3>4. Quota(u) \in Int /\ Quota(u) <= PerSender * windows[u]
        BY <1>3, QuotaType DEF Typed
      <3>5. PerSender * windows[u] \in Nat
        BY <1>3, QuotaIs DEF Typed, TypeOK
      <3>6. QED
        BY <3>2, <3>3, <3>4, <3>5
    <2>2. QED
      BY <2>1 DEF RingsBounded
  <1>4. QED
    BY <1>1, <1>2, <1>3, OrderedAlways, PTL DEF Spec

=============================================================================
