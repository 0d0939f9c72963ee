# A TLA+ verification of cb-back

cb-back is the backend of a calls product: it signs users in, keeps a directory of
rooms, relays WebRTC signaling between the people in a room over websockets, and rings
people who are not in one over a second websocket, the inbox. This directory holds TLA+
models of its stateful parts, the TLC runs that check them on small instances, and TLAPS
proofs of every safety property of the passing runs for instances of any size.

`PROJECT.json` maps every definition to the source lines it models, lists the runs, the
mutants that show each property can fail, the findings, the hazards and the theorems.

## 1. Inventory

| Component (source) | State | Operations | How it meets the others |
| --- | --- | --- | --- |
| signaling relay (`signaling/hub.go`, `client.go`, `protocol.go`) | rooms and their members, a counter, one bounded channel per client, the socket, two goroutines per connection and the `Run` goroutine | join, leave, deliver, announce, eviction of stalled clients, closeAll; upgrade, read, write, ping, close | unbuffered channels to `Run`; `AuthenticateWS` and the room resolver before the upgrade; the context `main` cancels |
| message budget (`signaling/ratelimit.go`) | one token bucket per connection | allow | called by readPump only |
| inbox (`inbox/hub.go`, `conn.go`) | connections per user, a counter, one bounded channel per connection | Deliver, add, remove, Shutdown; read, write, ping, close | a mutex; called by invites and by `main` |
| session store (`auth/sessions.go`) | Redis: a key per session with a TTL, an index set per user, single-use tickets | Create with trimSessions, Get, Touch, Revoke, RevokeAllForUser, tickets | the middleware on every request, the credential service |
| middleware (`auth/middleware.go`) | none; cookies | Require, AuthenticateWS, identify | Get, Touch, the user store |
| credential service (`auth/service.go`, `handlers.go`) | none of its own | Register, Login, Logout, LogoutAll, ChangePassword | limiter, user store, hashing, session store, in this order |
| rate limiter (`auth/ratelimit.go`) | Redis: a counter with a TTL per key | Allow, Reset | credential service, invites |
| user store (`auth/store.go`) | Postgres: users, credentials, audit rows | Create, lookups, UpdatePassword, RecordEvent | credential service, middleware, invites |
| password hashing (`auth/password.go`) | a process-wide semaphore of Argon2 slots | HashPassword, VerifyPassword, DummyVerify | credential service |
| rooms (`rooms/`) | Postgres: rooms by slug | Create with slug retries, BySlug, Delete, List | the websocket handler, invites |
| invites (`invites/`) | none; "pushes, not records" | invite, cancel, decline | limiter, rooms, users, `Deliver` |
| migrations (`database/migrate.go`) | Postgres: applied versions, an advisory lock | Migrate | start-up |
| lifecycle (`cmd/server/main.go`) | contexts, the HTTP server | start, serve, shut down | everything |
| TURN, HTTP helpers, configuration | none that changes | pure functions | |

What is hard here: three kinds of goroutine per relay connection that end each other, with
evictions that set off further evictions; several parties that may close one channel;
Redis and Postgres commands of concurrent requests that interleave between a read and the
write based on it; clocks that run out between two commands; semaphores and buffers at
their limit; a shutdown that meets connections in every phase. `PROJECT.json` lists these
hazards, each at its line and with the properties that would catch it.

What makes each component correct: the relay never panics, never loses or invents a
membership change, never relays out of scope and always gets back to its select; the inbox
never silently skips an event for a connection it keeps, and drains on shutdown; a session
ends when it must and not before, and the index knows it; guessing is bounded, nobody is
locked out for good, and a password change is final; a deleted room, a spent ticket and a
disabled account stay so for whoever asks later, and a phone stops ringing when it is told
to; replicas apply each migration once, never block each other for good, and stop cleanly.

## 2. Modules

**`Signaling`** models `hub.go` and `client.go`. Variables are the hub's fields (`members`
and `roomKeys` for `h.rooms`, `count`), the state of every `send` channel (`send`,
`closed`), the program counters of `readPump` (with `ServeHTTP` before it) and
`writePump`, and the socket. A meeting on an unbuffered channel is one step: `Register`,
`Unregister`, `Broadcast`. What `Run` does next is one step per non-blocking push (`Push`,
`PushFull`), since the writePumps drain meanwhile. The recursion between `leave`,
`announce` and `dropStalled` is a worklist (`evict`) to whose front each new list of
stalled clients goes. `presence` is a history variable: what the frames pushed to a member
told it. Frames lost their payload: offer, answer, candidate, bye and chat are relayed
alike. The welcome's failure branch is there although a fresh buffer always has space.

**`Presence`** is what the relay promises, without channels, buffers, sockets or goroutines:
membership changes one at a time, every member is told before the next change, and a member
that cannot be told leaves before anybody else comes or goes. `Signaling!Implements` is
`Presence!Spec` under the mapping of `Signaling!Relay`: the relay is open while the hub
runs, a connection has departed when its channel is closed, a member is doomed while it is
in `stalled` or `evict`, and lagging while the running announce has yet to push to it; what
a doomed member was told no longer counts.

**`Inbox`** models `inbox/hub.go` and `conn.go`. Every method of the hub holds the mutex
throughout, so each is one step; the pumps are as in `Signaling`. Events are numbered, so
that what was written, what is buffered and what was owed can be compared. `panicked`
records a send on a closed channel (the select in `Deliver`) as well as a second close.

**`Sessions`** models one account in `auth/sessions.go`; accounts share no key. One step
is one Redis command or one transaction. The key holds `exp`, `seen` and the time `dies` at
which Redis drops it. `Tick` is the clock and Redis' expiry. `Abort` is an error, a
cancelled request or a crash between two commands. `MaxTime` bounds the clock by the number
of sessions created, so that an instance can trade one for the other.

**`Credentials`** models Register, Login and ChangePassword of `auth/service.go` against
one account: counters with their windows, the credential row, the Argon2 semaphore, and
the session store with one step per method (`Sessions` opens those up). The semaphore is the
number of tokens in its channel, which do not say whose they are; `hashing` has the requests
that got past it. `Fails` is an error of any command; the ones Login only logs let it go on.
The commands that write may have taken effect although their reply was lost.

**`Calls`** models how people get into a call: `rooms/` (create with slug retries, delete,
resolve), `invites/handlers.go`, the tickets of `auth/sessions.go`, `AuthenticateWS`, and the
handshake up to the join. A request is one step per command to Postgres or Redis. It stands
on what the other modules show: `Deliver` queues in one step and in order, a joined client
is a member, a session is live or not. `Fails` is an error at any command, whose effect may
have happened all the same; `RedeemRefused` includes go-redis' retry of a GETDEL whose
reply was lost. `seen` remembers what was true when a request began, for the properties.

**`Migrate`** models `database/migrate.go`: the session-level advisory lock, the versions
read, one transaction per file, the deferred unlock. A session that its replica has given
up, because the process died or a context closed the connection, is an orphan: it may still
be granted the lock and still commit, until Postgres notices (`Reap`).

**`Connection`** models one relay connection at a finer grain than `Signaling`: the token
bucket of `signaling/ratelimit.go`, in integer units of `1/Cost` token, and the pumps'
writes, which begin in one step and end in another. The library's unsynchronised check for
a second writer may or may not notice it. The hub is reduced to queueing a frame and
closing `send`.

**`Server`** composes the two (it EXTENDS both) and models `run` in `cmd/server/main.go`:
connect, migrate, serve, the signal, `srv.Shutdown` with requests and handshakes under way,
the inbox and relay hubs, the two timeouts and the exit. A signal cancels the start-up
context, after which only `Migrate`'s failing and unlocking steps are left. `ListenAndServe`
may fail at once or while serving, and `run` then drains nothing. A panic outside
an HTTP handler leaves the process no step but `Crash`.

**`MC*`** modules give the constants of the small instances. The TLAPS proofs are in
**`SignalingProofs`**, **`PresenceProofs`** (the refinement), **`InboxProofs`**,
**`SessionsProofs`**, **`CredentialsProofs`**, **`CallsProofs`**, **`ServerProofs`** (with
`Migrate`) and **`BudgetProofs`** (the token bucket of `Connection`). Definitions marked `mutant` are deliberately wrong variants that no
specification uses; `PROJECT.json` names the property that each one breaks.

External, modelled from its use: Redis commands and expiry, the peer's end of a websocket,
an operator who disables an account, Postgres sessions without a client, requests as
`net/http` serves them, the clock.

## 3. Runs

| Run | Instance | What it shows |
| --- | --- | --- |
| `signaling` | alice and bob with two tabs in one room, buffer 1, one published frame, shutdown at any time; 1.6 million states | `NoPanic`, `Bookkeeping`, `PresenceExact`, `NoGhost`, `RelayScoped`; `Implements` (refinement of `Presence`) |
| `signaling_live` | two connections whose peers may vanish | `ConnectionReclaimed`, `HubReturns`, `ShutdownCompletes` |
| `inbox` | two connections of one user, three events, buffer 1, peers may vanish, Shutdown at any time | `NoPanic`, `Bookkeeping`, `NoGhost`, `NothingMissed`, `ConnectionReclaimed`, `ShutdownDrains` |
| `sessions` | two concurrent requests, cap 1, idle TTL 2, absolute TTL 3; two sessions over four ticks, or three at the first; 4.2 million states | `TrimsOldest`, `CapHolds`, `IndexCovers`, `AbsoluteBound`, `NotSignedOutEarly` |
| `sessions_revoked`, `sessions_expire` | the same | violations of `RevokedStaysRevoked` and `KeysExpire` |
| `credentials` | two concurrent requests of three in all, one Argon2 slot, two good passwords and a weak one, account quota 2 | `GuessesBounded`, `SessionsEarned`, `NoLockout`, `SlotsReturned` |
| `credentials_rehash` | two requests | violation of `RehashKeepsPassword` |
| `calls` | three requests of any kind, two users, one slug, two slug attempts, quota 1, one account disabled; 1.75 million states | `RealTimeOrder`, `DeletedIsGone`, `TicketSingleUse`, `DisabledKeptOut`, `RingsBounded` |
| `server` | two replicas, two migrations, a database at any version, signals and crashes anywhere | `AppliedOnce`, `NoDuplicateWork`, `Settles` (liveness) |
| `server_connections` | one replica, one relay connection, a burst of two messages, five frames in five ticks; 480 thousand states | `CleanExit`, `BudgetExact`, and `Server`'s `TypeOK` |
| `server_writers` | the same with one frame | violation of `NoWriterPanic` |

The `TypeOK` of every other specification is checked by the first of its passing runs. Every
run checks deadlock: the specifications have an explicit `Finished` step where the system may really come to
rest.

**Bounds.** A buffer of one is the smallest at which a push can fail while another
succeeds, and makes every cascade short enough to enumerate; the code's 64 and 16 only make
it longer. Three connections give an eviction that stalls a third client. Three inbox
events overfill a buffer after a drain. One published frame suffices because the presence
frames already fill the buffers; the relay's properties are proved without that bound. An
absolute TTL that is no multiple of the idle TTL lets both run out, in both orders, and a
cap of one makes every second login trim. A third session is what it takes for a login to
make up for the failed trim of an earlier one; it is only created before the first tick,
to keep the run short, and the theorems hold without that bound. In `calls`,
one slug makes every create collide with, or take over, an existing room, and three requests
are what the deepest properties need: a ticket and two handshakes, a deletion, a creation
and a join, or an invite, its cancel and another. A quota of one is the smallest. In
`server`, two replicas contend for the lock and two files give a crash between them; the
relay connections are left to `server_connections`, where a token costs two ticks, so that
refills end between two tokens and at the cap. One relay room
suffices for TLC because rooms do not interact; the theorems hold for any rooms.

**Fairness.** Goroutines run, commands return and mutexes are granted: weak fairness on the
steps of `Run`, of the pumps and of the hub. A sender waiting on `Run`'s channels is served
although the select may find another case ready each time: waiting senders queue in order
and select chooses at random, so strong fairness. A dead socket ends readPump through an
error or the read deadline (`pongWait`); a write ends through `writeWait`. In `server`, the
steps of `run` and of Postgres noticing a lost client are weakly fair, and a session waiting
for the advisory lock gets it if it is free again and again (strong fairness: Postgres
grants it in turn); that the start-up timeout would end the wait as well is not used.
Nothing is assumed about peers, callers of Deliver, operators, or signals.

## 4. Findings

- **`NoWriterPanic`.** readPump writes its own close frames (a frame that is not text, or one
  over the budget) while writePump may be writing: gorilla/websocket allows one writer and
  panics when it notices two. Both are goroutines that nothing recovers, so the process ends.
- **`RevokedStaysRevoked`.** `RevokeAllForUser` lists, then deletes: a session created in
  between loses its index entry and a later revoke-all misses it; a Touch in flight writes
  a revoked session back.
- **`KeysExpire`.** A request that straddles `ExpiresAt` stores the session with a TTL that
  is not positive, which go-redis sends as no TTL. `Get` still refuses the session
  (`AbsoluteBound` holds), but Redis keeps the key.
- **`RehashKeepsPassword`.** The rehash at login is an unconditional update and can undo a
  concurrent password change.

Two smaller observations are in the models without a run of their own. An evicted client's
readPump keeps publishing until its writePump has drained and closed the socket, so frames
from it may follow its peer-left. The delivered count of an invite is of buffers that
accepted the event, not, as the repository's README has it, of connections that received it.

## 5. Proofs

Each theorem holds for every value of the constants that the named `ASSUME`s of its module
allow: finite sets of clients, connections, requests and replicas of any size, any users,
rooms, slugs and passwords, any buffer sizes, quotas, lifetimes, budgets and migration
files. Nothing else is assumed, and the bounds of the models (`MaxPublish`, `MaxEvents`,
`MaxTime` and so on) are arbitrary numbers. Every invariant and every safety action property
of a passing run is proved.

**`SignalingProofs`**: `TypeOK`, `NoPanic`, `NoGhost`, `Bookkeeping`, `RelayScoped`,
`PresenceExact`.

1. `TypeOK` is inductive, action by action.
2. `NoPanic` is not inductive. `Safe` adds what the comment on `Hub` claims informally:
   `Targets` (the running loop only has members left, and no member's channel is closed),
   `Departed` (a closed channel belongs to a client past `add`, so none is registered
   again), `Halted` (a stopped hub has no members and no work) and `NoGhost` itself.
3. `Bookkeeping` follows step by step from `Safe` and the cardinality theorems.
4. `RelayScoped` needs `Addressed`: while a relayed message is fanned out, `todo` holds only
   members of the sender's room it is addressed to.
5. `PresenceExact` speaks of moments when `Run` is idle. `Told` strengthens it to every
   moment: the view of a member that is neither still to be pushed to nor waiting to be
   evicted is exact, and the view of one still to be pushed to is exact once it has learned
   the current message. `Fresh` (a client that is not yet registered has an empty buffer)
   rules out the welcome's failure.

**`PresenceProofs`**: the refinement, `Spec => Implements`. Initial states map to initial
states, and each step of the relay to a step of `Presence` or to a stutter; `Told` and
`Safe` give the guards of the abstract steps, in particular that nobody lags when the next
change of membership happens, however long the cascade of evictions.

**`InboxProofs`**: `TypeOK`, `NoPanic`, `Bookkeeping`, `NoGhost`, `NothingMissed`. `Registry`
adds `Disjoint` (a registered connection's channel is open) and `Untouched` (a connection
whose `add` has not run has no pump, no buffered and no owed events); the first keeps
channels from being closed twice, the second makes `Add` preserve it, and makes the account
of `NothingMissed` start at zero.

**`SessionsProofs`**: `TypeOK`, `TrimsOldest`, `CapHolds`, `IndexCovers`, `AbsoluteBound`,
`NotSignedOutEarly`. `Typed` adds that a request only names sessions that were made.

1. `TrimsOldest`: a trim that deletes has read more than the cap of sessions, all of them
   made, so that many are younger than the one it takes.
2. `CapHolds` speaks of moments without a trim. `Capped` bounds the whole index and says who
   is responsible while the bound is exceeded: a trim that has yet to list the index, or whose
   snapshot contains all of it. The trim of the last login to have added to the index always
   does. A trim that fails before it is done sets the history variable `untrimmed`, and only
   then may the cap be exceeded; the next login whose trim lists the index clears it and
   answers for whatever the failed one left.
3. `AbsoluteBound` needs `Dated`: what a key, and a request that has read it, say of
   ExpiresAt is what `Create` wrote, also for a key that a late Touch wrote back.
4. `NotSignedOutEarly` needs `Lasting`: a key was last used less than `touchGranularity`
   after it was last written, and its TTL reaches to ExpiresAt or a full idle window from
   that write.
5. `IndexCovers` needs `Covering`: a session that is in neither race has a key with a TTL
   that ends by its ExpiresAt (`Mortal`), an index that lasts that long (`Reaches`), no trim
   that takes it for stale and no revoke-all under way that did not list it (`JobsCover`).

**`CredentialsProofs`**: `TypeOK`, `SlotsReturned`, `NoLockout`, `SessionsEarned`,
`GuessesBounded`. `SlotsReturned` needs `Hashers`: whoever is past the semaphore is at a
command that derives a key, so every way out of it gives the slot back. `Typed` says which operation a request can be at each command (`Shaped`)
and that no more sessions are made than were asked for (`Counted`). `Earned` carries the
password from its verification to the session (`Proven`). `GuessesBounded` compares the
guesses made with the allowance earned, which a login lowers and raises at different
commands: `Covered` accounts for the guesses that were let through and not made, the resets
that were earned and not carried out, and what is left of the running window.

**`CallsProofs`**: `TypeOK`, `RealTimeOrder`, `DeletedIsGone`, `DisabledKeptOut`,
`TicketSingleUse`, `RingsBounded`. `Handled` sums up what one step of any handler can do, so
that each invariant is proved against it and not against every step. `Counted` bounds the room
ids handed out. `Past` (what a request saw when it began is still true) and `Logged` (an
event's request has been answered) give the order of the events. `Directory` (an id is never
given out twice) and `Fresh` keep a deleted room gone although its slug is used again;
`Cleared` says what the lookups of the user and the recipient have established. `Tickets`
says that a ticket a handshake holds is gone from Redis and nobody else's, and `Limited`
counts the events that are past the limiter and not yet queued.

**`ServerProofs`**: `TypeOK`, `AppliedOnce`, `NoDuplicateWork`, `CleanExit`. `Serialized`
follows a replica's Postgres session, lock and transaction through crashes (an orphaned
session still holds both) and says that the database holds a prefix of the files and that
what the lock holder has read of it is current. `Drained` says what has ended when `run`
returns nil, and that no connection's channel is open once the relay's hub has stopped.

**`BudgetProofs`**: `BudgetExact`. Its two halves need the bucket's content. `Solvent`: in no
window of frames up to now has more been spent than a full bucket and what accrued.
`Lossless`: in some window, the one since the bucket was last full, all of that was spent or
is still there, so that a refusal is justified by a window. `Lifetime`: a bucket belongs to one
connection, and readPump stops at the first refusal.

Only model-checked: the liveness properties (`ConnectionReclaimed` and `HubReturns`,
`ShutdownCompletes`, `ShutdownDrains`, `Settles`), which rest on fairness and so on ENABLED,
out of the prover's reach. The properties of the violation runs do not hold.

## 6. Not modelled

Reads that change nothing (`List`, `Contacts`, `me`, the health endpoints); audit rows;
cookies and the client address; the wiring of handlers in `run`; the cryptography, the
password policy's word list, JSON, logging, TURN, the origin policy and the configuration,
which keep no state. The token bucket counts in floats: the model's integers do not show
rounding. `Touch` reads the clock and writes the key in one step: a key that outlives
ExpiresAt by the latency of the command is not shown, and is harmless because `Get` refuses
the session by its ExpiresAt. A cancel that is sent while its invite is still under way may overtake it, and a
process may exit before its pumps have written their close frames: both happen in the models,
and neither the code nor its documents promise otherwise. `Login` may create its session
after a concurrent `ChangePassword` has revoked the others: the same window as
`RehashKeepsPassword`.

## 7. Plan

1. *Done:* `Signaling`, `Presence`, `Inbox`, `Sessions`, `Credentials`, `Calls`, `Migrate`,
   `Connection`, `Server` and their runs.
2. *Done:* the proofs of all safety properties that the passing runs check, and of the
   refinement.
3. Left: what holds in place of the violated properties, stated as theorems where it is more
   than the proved ones say (a session that no race touched stays revoked; a key without a
   TTL is only left by a request that straddled ExpiresAt).
