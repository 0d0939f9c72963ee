-------------------------------- MODULE Calls --------------------------------
(***************************************************************************)
(* How people get into a call: the room directory (internal/rooms), the     *)
(* invites that ring somebody (internal/invites/handlers.go), and the       *)
(* handshake of a relay connection, from AuthenticateWS with a session or a *)
(* single-use ticket (internal/auth) over resolveRoom (cmd/server/main.go)  *)
(* to the join (internal/signaling/client.go).                              *)
(*                                                                         *)
(* A request is a sequence of commands to Postgres and Redis, one step      *)
(* each, and all requests interleave. What the parts promise is taken from  *)
(* the modules about them: Deliver queues an event on every connection the  *)
(* recipient keeps, in one step and in order (Inbox), a joined client is a  *)
(* member of its room (Signaling), a session is live or is not (Sessions).  *)
(* Validation of the request's fields leaves no state and is left out.      *)
(***************************************************************************)
EXTENDS Integers, Sequences, FiniteSets

CONSTANTS
  Requests,      \* the requests and handshakes; each is made at most once
  Users,         \* user ids
  Slugs,         \* what generateSlug may come up with
  slugAttempts,  \* 5 in the code
  PerSender,     \* invites.PerSender.Requests, 30 in the code
  MaxDisabled,   \* bound of the model: accounts an operator disables
  None           \* no user, no slug, no ticket

ASSUME RequestsAssumption == IsFiniteSet(Requests) /\ None \notin Requests \cup Users \cup Slugs
ASSUME LimitAssumption    == slugAttempts \in Nat \ {0} /\ PerSender \in Nat \ {0}
ASSUME BoundsAssumption   == MaxDisabled \in Nat

VARIABLES
  rooms,     \* the rooms table: the id of the room with a slug, or NoRoom
  created,   \* room ids handed out so far; an id is never used twice
  disabled,  \* the users whose disabled_at is set
  tickets,   \* the ws-ticket keys in Redis, named after the request that issued them
  hits,      \* the rl:invite:user: keys in Redis
  job,       \* what each request is, and the command it sends next
  answered,  \* the requests whose response has been written
  log,       \* the events Deliver has queued for each user, named after their request
  joined,    \* the room id each handshake's client was added to the hub with
  deleted,   \* history: the rooms whose deletion has been answered
  windows,   \* history: the limiter windows each sender has opened
  seen       \* history: what was true when an event's request, or a handshake, began

dirVars   == <<rooms, created>>
redisVars == <<tickets, hits, windows>>
vars == <<dirVars, disabled, redisVars, job, answered, log, joined, deleted, seen>>

NoRoom  == 0
RoomIDs == 1 .. Cardinality(Requests) + 1  \* Init's, and one per create

\* A decline is handled as a cancel is; who it is sent to makes no difference to the code.
Events == {"invite", "invite-cancelled"}

Steps == {"new", "redeem", "user", "insert", "delete", "issue", "limit", "room",
          "recipient", "deliver", "upgrade", "done"}
Jobs == [pc : Steps, op : Events \cup {"none", "create", "delete", "ticket", "join"},
         user : Users \cup {None}, to : Users \cup {None}, slug : Slugs \cup {None},
         ticket : Requests \cup {None}, room : RoomIDs \cup {NoRoom}, tries : 0 .. slugAttempts]

NewJob == [pc |-> "new", op |-> "none", user |-> None, to |-> None, slug |-> None,
           ticket |-> None, room |-> NoRoom, tries |-> 0]
Unseen == [answered |-> {}, deleted |-> {}, disabled |-> {}]

TypeOK ==
  /\ rooms \in [Slugs -> RoomIDs \cup {NoRoom}]
  /\ created \in Nat
  /\ disabled \subseteq Users
  /\ tickets \subseteq Requests
  /\ hits \in [Users -> Nat]
  /\ job \in [Requests -> Jobs]
  /\ answered \subseteq Requests
  /\ log \in [Users -> Seq(Requests)]
  /\ joined \in [Requests -> RoomIDs \cup {NoRoom}]
  /\ deleted \subseteq RoomIDs
  /\ windows \in [Users -> Nat]
  /\ seen \in [Requests -> [answered : SUBSET Requests, deleted : SUBSET RoomIDs,
                            disabled : SUBSET Users]]

\* The directory has one room.
Init ==
  /\ created = 1
  /\ \E s \in Slugs : rooms = [t \in Slugs |-> IF t = s THEN 1 ELSE NoRoom]
  /\ disabled = {}
  /\ tickets = {}
  /\ hits = [u \in Users |-> 0]
  /\ windows = [u \in Users |-> 0]
  /\ job = [r \in Requests |-> NewJob]
  /\ answered = {}
  /\ log = [u \in Users |-> <<>>]
  /\ joined = [r \in Requests |-> NoRoom]
  /\ deleted = {}
  /\ seen = [r \in Requests |-> Unseen]

Goto(r, pc) == job' = [job EXCEPT ![r].pc = pc]

\* The handler writes its response, with a result or an error, and returns.
Answer(r) == Goto(r, "done") /\ answered' = answered \cup {r}

-----------------------------------------------------------------------------
(* The beginning of a request, and its authentication *)

Begin(r, j) ==
  /\ job[r] = NewJob
  /\ job' = [job EXCEPT ![r] = j]
  /\ seen' = IF j.op \in Events \cup {"join"}
             THEN [seen EXCEPT ![r] = [answered |-> answered, deleted |-> deleted,
                                       disabled |-> disabled]]
             ELSE seen
  /\ UNCHANGED <<dirVars, disabled, redisVars, answered, log, joined, deleted>>

\* The routes behind Require, and a handshake with a session: the session has been found.
AskCreate(r, u) == Begin(r, [NewJob EXCEPT !.op = "create", !.user = u, !.pc = "user"])

AskDelete(r, u, s) ==
  Begin(r, [NewJob EXCEPT !.op = "delete", !.user = u, !.slug = s, !.pc = "user"])

AskTicket(r, u) == Begin(r, [NewJob EXCEPT !.op = "ticket", !.user = u, !.pc = "user"])

Ring(r, type, u, to, s) ==
  /\ to # u
  /\ Begin(r, [NewJob EXCEPT !.op = type, !.user = u, !.to = to, !.slug = s, !.pc = "user"])

JoinWithSession(r, u, s) ==
  Begin(r, [NewJob EXCEPT !.op = "join", !.user = u, !.slug = s, !.pc = "user"])

\* A handshake with a ticket that some request was given. It may be spent or expired.
JoinWithTicket(r, t, s) ==
  /\ t \in answered /\ job[t].op = "ticket"
  /\ Begin(r, [NewJob EXCEPT !.op = "join", !.ticket = t, !.slug = s, !.pc = "redeem"])

RedeemTrustsTicket(r) ==  \* mutant: the ticket's user is not looked up again
  /\ job[r].pc = "redeem"
  /\ job[r].ticket \in tickets
  /\ tickets' = tickets \ {job[r].ticket}
  /\ job' = [job EXCEPT ![r].user = job[job[r].ticket].user, ![r].pc = "room"]
  /\ UNCHANGED <<dirVars, disabled, hits, windows, answered, log, joined, deleted, seen>>

RedeemKeepsKey(r) ==  \* mutant: GET, and the DEL that should follow is never sent
  /\ job[r].pc = "redeem"
  /\ job[r].ticket \in tickets
  /\ job' = [job EXCEPT ![r].user = job[job[r].ticket].user, ![r].pc = "user"]
  /\ UNCHANGED <<dirVars, disabled, redisVars, answered, log, joined, deleted, seen>>

\* RedeemWSTicket: GETDEL finds the key.
Redeem(r) ==
  /\ job[r].pc = "redeem"
  /\ job[r].ticket \in tickets
  /\ tickets' = tickets \ {job[r].ticket}
  /\ job' = [job EXCEPT ![r].user = job[job[r].ticket].user, ![r].pc = "user"]
  /\ UNCHANGED <<dirVars, disabled, hits, windows, answered, log, joined, deleted, seen>>

\* GETDEL finds no key: 401. Or it found one and the reply was lost: go-redis sends the
\* command again (MaxRetries), which finds none any more.
RedeemRefused(r) ==
  /\ job[r].pc = "redeem"
  /\ tickets' = tickets \ {job[r].ticket}
  /\ Answer(r)
  /\ UNCHANGED <<dirVars, disabled, hits, windows, log, joined, deleted, seen>>

First(op) ==
  CASE op = "create" -> "insert"
    [] op = "delete" -> "delete"
    [] op = "ticket" -> "issue"
    [] op = "join"   -> "room"
    [] OTHER         -> "limit"

commandRest == <<disabled, log, joined, seen>>

\* UserStore.ByID, of identify and of AuthenticateWS: a disabled user is refused.
ReadUser(r) ==
  /\ job[r].pc = "user"
  /\ IF job[r].user \in disabled THEN Answer(r)
     ELSE Goto(r, First(job[r].op)) /\ UNCHANGED answered
  /\ UNCHANGED <<dirVars, redisVars, deleted, commandRest>>

-----------------------------------------------------------------------------
(* rooms/service.go and rooms/store.go *)

\* Store.Create: the unique index lets the row in.
CreateRoom(s) ==
  /\ rooms[s] = NoRoom
  /\ created' = created + 1
  /\ rooms' = [rooms EXCEPT ![s] = created']

InsertForever(r, s) ==  \* mutant: the loop over the attempts has no end
  /\ job[r].pc = "insert"
  /\ IF rooms[s] = NoRoom
     THEN CreateRoom(s) /\ Answer(r)
     ELSE /\ job' = [job EXCEPT ![r].tries = @ + 1]
          /\ UNCHANGED <<answered, dirVars>>
  /\ UNCHANGED <<redisVars, deleted, commandRest>>

\* Service.Create: one attempt with a generated slug. The unique index refuses a slug that
\* is taken; then another one is tried, up to slugAttempts times.
Insert(r, s) ==
  LET n == job[r].tries + 1 IN
  /\ job[r].pc = "insert"
  /\ IF rooms[s] = NoRoom
     THEN CreateRoom(s) /\ Answer(r)
     ELSE /\ IF n < slugAttempts
             THEN job' = [job EXCEPT ![r].tries = n] /\ UNCHANGED answered
             ELSE Answer(r)
          /\ UNCHANGED dirVars
  /\ UNCHANGED <<redisVars, deleted, commandRest>>

DeleteForgetsRow(r) ==  \* mutant: the deletion is answered and not committed
  /\ job[r].pc = "delete"
  /\ deleted' = deleted \cup ({rooms[job[r].slug]} \ {NoRoom})
  /\ Answer(r)
  /\ UNCHANGED <<dirVars, redisVars, commandRest>>

\* DeleteBySlug: 204, or 404 when no row matched.
Delete(r) ==
  /\ job[r].pc = "delete"
  /\ rooms' = [rooms EXCEPT ![job[r].slug] = NoRoom]
  /\ deleted' = deleted \cup ({rooms[job[r].slug]} \ {NoRoom})
  /\ Answer(r)
  /\ UNCHANGED <<created, redisVars, commandRest>>

\* resolveRoom, of the handshake: 404 unless BySlug finds the room.
ResolveRoom(r) ==
  LET id == rooms[job[r].slug] IN
  /\ job[r].pc = "room" /\ job[r].op = "join"
  /\ IF id = NoRoom THEN Answer(r)
     ELSE job' = [job EXCEPT ![r].room = id, ![r].pc = "upgrade"] /\ UNCHANGED answered
  /\ UNCHANGED <<dirVars, redisVars, deleted, commandRest>>

-----------------------------------------------------------------------------
(* invites/handlers.go *)

AllowsOneMore(u) == hits[u] <= PerSender  \* mutant

\* Allow's answer to the hit that is being counted: within the quota.
Allows(u) == hits[u] + 1 <= PerSender

\* incrementAndExpire: the first hit starts a window.
Hit(u) ==
  /\ hits' = [hits EXCEPT ![u] = @ + 1]
  /\ windows' = [windows EXCEPT ![u] = IF hits[u] = 0 THEN @ + 1 ELSE @]

\* limiter.Allow: the three kinds of event share the sender's counter.
CheckLimit(r) ==
  /\ job[r].pc = "limit"
  /\ Hit(job[r].user)
  /\ IF Allows(job[r].user) THEN Goto(r, "room") /\ UNCHANGED answered ELSE Answer(r)
  /\ UNCHANGED <<dirVars, tickets, deleted, commandRest>>

\* BySlug, of handle: 404 for an invite. A cancel and a decline outlive the room.
FindRoom(r) ==
  LET id == rooms[job[r].slug] IN
  /\ job[r].pc = "room" /\ job[r].op \in Events
  /\ IF id = NoRoom /\ job[r].op = "invite" THEN Answer(r)
     ELSE job' = [job EXCEPT ![r].room = id, ![r].pc = "recipient"] /\ UNCHANGED answered
  /\ UNCHANGED <<dirVars, redisVars, deleted, commandRest>>

AnswerThenDeliver(r) ==  \* mutant: the response is written before the event is queued
  /\ job[r].pc = "recipient"
  /\ IF job[r].to \in disabled THEN Answer(r)
     ELSE Goto(r, "deliver") /\ answered' = answered \cup {r}
  /\ UNCHANGED <<dirVars, redisVars, deleted, commandRest>>

\* UserStore.ByID of the recipient: 404 for one that is disabled.
ReadRecipient(r) ==
  /\ job[r].pc = "recipient"
  /\ IF job[r].to \in disabled THEN Answer(r)
     ELSE Goto(r, "deliver") /\ UNCHANGED answered
  /\ UNCHANGED <<dirVars, redisVars, deleted, commandRest>>

\* Deliver, then the response with the delivered count.
Deliver(r) ==
  /\ job[r].pc = "deliver"
  /\ log' = [log EXCEPT ![job[r].to] = Append(@, r)]
  /\ Answer(r)
  /\ UNCHANGED <<dirVars, disabled, redisVars, joined, deleted, seen>>

-----------------------------------------------------------------------------
(* Tickets, and the end of a handshake *)

\* IssueWSTicket.
IssueTicket(r) ==
  /\ job[r].pc = "issue"
  /\ tickets' = tickets \cup {r}
  /\ Answer(r)
  /\ UNCHANGED <<dirVars, hits, windows, deleted, commandRest>>

\* Upgrade and hub.add, with the room id that was resolved.
Join(r) ==
  /\ job[r].pc = "upgrade"
  /\ joined' = [joined EXCEPT ![r] = job[r].room]
  /\ Answer(r)
  /\ UNCHANGED <<dirVars, disabled, redisVars, log, deleted, seen>>

-----------------------------------------------------------------------------
(* Failures and the environment *)

\* Postgres or Redis fails, the upgrade does, or the request is cancelled: 500. The command
\* may have been executed and only its reply lost: a room, a deletion or a hit stays. (So
\* may a ticket, which nobody knows.)
Fails(r) ==
  /\ job[r].pc \notin {"new", "deliver", "done"}
  /\ \/ UNCHANGED <<dirVars, redisVars, deleted>>
     \/ /\ job[r].pc = "insert"
        /\ \E s \in Slugs : CreateRoom(s)
        /\ UNCHANGED <<redisVars, deleted>>
     \/ /\ job[r].pc = "delete"
        /\ rooms' = [rooms EXCEPT ![job[r].slug] = NoRoom]
        /\ UNCHANGED <<created, redisVars, deleted>>
     \/ /\ job[r].pc = "limit"
        /\ Hit(job[r].user)
        /\ UNCHANGED <<dirVars, tickets, deleted>>
  /\ Answer(r)
  /\ UNCHANGED commandRest

\* Redis drops a ticket after ticketTTL.
TicketExpires(t) ==
  /\ t \in tickets
  /\ tickets' = tickets \ {t}
  /\ UNCHANGED <<dirVars, disabled, hits, windows, job, answered, log, joined, deleted, seen>>

\* Redis drops a sender's counter when the window is over.
WindowEnds(u) ==
  /\ hits[u] > 0
  /\ hits' = [hits EXCEPT ![u] = 0]
  /\ UNCHANGED <<dirVars, disabled, tickets, windows, job, answered, log, joined, deleted, seen>>

\* An operator disables an account, by hand, in Postgres.
Disable(u) ==
  /\ u \notin disabled
  /\ Cardinality(disabled) < MaxDisabled
  /\ disabled' = disabled \cup {u}
  /\ UNCHANGED <<dirVars, redisVars, job, answered, log, joined, deleted, seen>>

Finished == answered = Requests /\ UNCHANGED vars

Ask(r) ==
  \/ \E u \in Users : AskCreate(r, u) \/ AskTicket(r, u)
  \/ \E u \in Users, s \in Slugs : AskDelete(r, u, s) \/ JoinWithSession(r, u, s)
  \/ \E type \in Events, u, to \in Users, s \in Slugs : Ring(r, type, u, to, s)
  \/ \E t \in Requests, s \in Slugs : JoinWithTicket(r, t, s)

Step(r) ==
  \/ Redeem(r) \/ RedeemRefused(r) \/ ReadUser(r)
  \/ \E s \in Slugs : Insert(r, s)
  \/ Delete(r) \/ ResolveRoom(r) \/ CheckLimit(r) \/ FindRoom(r) \/ ReadRecipient(r) \/ Deliver(r)
  \/ IssueTicket(r) \/ Join(r) \/ Fails(r)

Next ==
  \/ \E r \in Requests : Ask(r) \/ Step(r) \/ TicketExpires(r)
  \/ \E u \in Users : WindowEnds(u) \/ Disable(u)
  \/ Finished

Spec == Init /\ [][Next]_vars

-----------------------------------------------------------------------------
(* Properties *)

Queued(r, u) == \E i \in DOMAIN log[u] : log[u][i] = r

\* A cancel stops the ringing: an event whose request was made after another one's was
\* answered is queued behind it, on every connection of the recipient, whatever the two
\* requests waited for in between. An invite never rings after the cancel that followed it.
RealTimeOrder ==
  \A u \in Users : \A i, k \in DOMAIN log[u] :
    log[u][i] \in seen[log[u][k]].answered => i < k

\* A deleted room "can no longer be joined" (Service.Delete): no handshake begun after the
\* deletion was answered gets into it and no invite begun then rings for it, also when a
\* new room has taken over its slug. Who was already on the way in may still arrive.
DeletedIsGone ==
  \A r \in Requests :
    (joined[r] # NoRoom \/ \E u \in Users : Queued(r, u))
      => job[r].room \notin seen[r].deleted

\* A ticket is "single-use" (IssueWSTicket): whatever handshakes present it, concurrently,
\* repeatedly or with the command retried after a lost reply, at most one of them joins.
TicketSingleUse ==
  \A q, r \in Requests :
    joined[q] # NoRoom /\ joined[r] # NoRoom /\ job[q].ticket = job[r].ticket
      => q = r \/ job[r].ticket = None

\* "disabling an account takes effect immediately" (identify): a request begun after it
\* neither joins a room nor rings anybody, not with a ticket issued before either, and
\* nobody rings the disabled user.
DisabledKeptOut ==
  \A r \in Requests :
    LET out == seen[r].disabled IN
    /\ joined[r] # NoRoom => job[r].user \notin out
    /\ \A u \in Users : Queued(r, u) => job[r].user \notin out /\ u \notin out

\* "a signed-in user cannot make someone's phone ring on a loop" (README): whatever the
\* requests do between the limiter and Deliver, one sender's events are at most PerSender
\* for every window that sender has opened.
RingsBounded ==
  \A u \in Users :
    Cardinality({r \in Requests : job[r].user = u /\ \E v \in Users : Queued(r, v)})
      <= PerSender * windows[u]
=============================================================================
