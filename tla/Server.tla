------------------------------- MODULE Server --------------------------------
(***************************************************************************)
(* The life of the server process, run in cmd/server/main.go: connect,      *)
(* migrate (Migrate), serve HTTP requests and relay connections             *)
(* (Connection), and the shutdown, in which the HTTP server, the inbox hub  *)
(* and the relay's hub are stopped while requests and pumps are under way.  *)
(* Several replicas share one database.                                     *)
(***************************************************************************)
EXTENDS Migrate, Connection

CONSTANT Home  \* the replica each relay connection is made to

ASSUME HomeAssumption == Home \in [Conns -> Replicas]

VARIABLES
  signalled,  \* the replicas whose signal context is done
  inflight,   \* the replicas that are serving a plain HTTP request
  handshake,  \* the connections whose handshake has not been hijacked yet
  hubDone,    \* the replicas whose relay hub has stopped
  inboxShut,  \* the replicas whose inbox hub has been shut down
  clean       \* the replicas where run returned nil

lifeVars == <<signalled, inflight, handshake, hubDone, inboxShut, clean>>
vars == <<migrateVars, connVars, lifeVars>>

Starting == {"connecting", "connected", "migrated", "failed"} \cup Migrating
Stopping == {"draining", "inbox", "waiting"}
Down == {"exited", "crashed"}

TypeOK ==
  /\ phase \in [Replicas -> {"off", "serving"} \cup Starting \cup Stopping \cup Down]
  /\ MigrateTypeOK
  /\ ConnTypeOK
  /\ signalled \subseteq Replicas /\ inflight \subseteq Replicas
  /\ hubDone \subseteq Replicas /\ inboxShut \subseteq Replicas /\ clean \subseteq Replicas
  /\ handshake \subseteq Conns

Init ==
  /\ phase = [r \in Replicas |-> "off"]
  /\ MigrateInit
  /\ ConnInit
  /\ signalled = {} /\ inflight = {} /\ hubDone = {} /\ inboxShut = {} /\ clean = {}
  /\ handshake = {}

At(r) == {c \in Conns : Home[c] = r}

\* The process is gone, and its goroutines and sockets with it.
ProcessEnds(r) ==
  /\ reader' = [c \in Conns |-> IF c \in At(r) /\ reader[c] # "none" THEN "done" ELSE reader[c]]
  /\ writer' = [c \in Conns |-> IF c \in At(r) /\ writer[c] # "none" THEN "done" ELSE writer[c]]
  /\ sock' = [c \in Conns |-> IF c \in At(r) /\ sock[c] # "none" THEN "closed" ELSE sock[c]]
  /\ Forget(At(r))
  /\ UNCHANGED <<now, queue, send, panicked>>

-----------------------------------------------------------------------------
(* Start-up *)

Start(r) ==
  /\ phase[r] = "off"
  /\ Advance(r, "connecting")
  /\ UNCHANGED <<pgVars, applied, ok, connVars, lifeVars>>

\* database.Connect.
Connect(r) ==
  /\ phase[r] = "connecting" /\ r \notin signalled
  /\ Advance(r, "connected")
  /\ UNCHANGED <<pgVars, applied, ok, connVars, lifeVars>>

\* database.Migrate. A signal cancels the startup context: the commands that follow fail.
RunMigrate(r) ==
  /\ MigrateStep(r)
  /\ r \in signalled => phase'[r] \in {"failed", "unlocking", "migrated"}
  /\ UNCHANGED <<connVars, lifeVars>>

\* connectRedis, the wiring, and ListenAndServe in its goroutine.
Serve(r) ==
  /\ phase[r] = "migrated" /\ r \notin signalled
  /\ Advance(r, "serving")
  /\ UNCHANGED <<pgVars, applied, ok, connVars, lifeVars>>

\* run returns an error: Postgres, the migrations or Redis.
StartFails(r) ==
  /\ phase[r] \in {"connecting", "connected", "migrated", "failed"}
  /\ Advance(r, "exited")
  /\ UNCHANGED <<pgVars, applied, ok, connVars, lifeVars>>

\* ListenAndServe returns an error, at once or while requests and connections are served:
\* run returns it and drains nothing.
ServeFails(r) ==
  /\ phase[r] = "serving"
  /\ Advance(r, "exited")
  /\ ProcessEnds(r)
  /\ UNCHANGED <<pgVars, applied, ok, lifeVars>>

-----------------------------------------------------------------------------
(* Serving *)

Accepting(r) == phase[r] = "serving"

\* A plain request arrives, and is answered.
RequestBegins(r) ==
  /\ Accepting(r)
  /\ inflight' = inflight \cup {r}
  /\ UNCHANGED <<migrateVars, connVars, signalled, handshake, hubDone, inboxShut, clean>>

RequestEnds(r) ==
  /\ r \in inflight /\ phase[r] \notin Down
  /\ inflight' = inflight \ {r}
  /\ UNCHANGED <<migrateVars, connVars, signalled, handshake, hubDone, inboxShut, clean>>

\* GET /ws arrives.
HandshakeBegins(c) ==
  /\ Accepting(Home[c])
  /\ reader[c] = "none" /\ c \notin handshake
  /\ handshake' = handshake \cup {c}
  /\ UNCHANGED <<migrateVars, connVars, signalled, inflight, hubDone, inboxShut, clean>>

\* Upgrade hijacks the connection: the HTTP server no longer knows of it.
Upgrade(c) ==
  /\ c \in handshake /\ phase[Home[c]] \notin Down
  /\ handshake' = handshake \ {c}
  /\ reader' = [reader EXCEPT ![c] = "adding"]
  /\ sock' = [sock EXCEPT ![c] = "open"]
  /\ UNCHANGED <<migrateVars, now, writer, queue, send, bucketVars, panicked,
                 signalled, inflight, hubDone, inboxShut, clean>>

AddAfterStop(c) ==  \* mutant: add does not look at the hub's done channel
  /\ reader[c] = "adding"
  /\ reader' = [reader EXCEPT ![c] = "reading"]
  /\ writer' = [writer EXCEPT ![c] = "idle"]
  /\ send' = [send EXCEPT ![c] = "open"]
  /\ last' = [last EXCEPT ![c] = now]
  /\ UNCHANGED <<migrateVars, now, queue, sock, tokens, arrivals, refused, panicked, lifeVars>>

\* hub.add, and readPump makes a full bucket.
Add(c) ==
  /\ reader[c] = "adding" /\ Home[c] \notin hubDone
  /\ reader' = [reader EXCEPT ![c] = "reading"]
  /\ writer' = [writer EXCEPT ![c] = "idle"]
  /\ send' = [send EXCEPT ![c] = "open"]
  /\ last' = [last EXCEPT ![c] = now]
  /\ UNCHANGED <<migrateVars, now, queue, sock, tokens, arrivals, refused, panicked, lifeVars>>

AddRefused(c) ==
  /\ reader[c] = "adding" /\ Home[c] \in hubDone
  /\ reader' = [reader EXCEPT ![c] = "done"]
  /\ sock' = [sock EXCEPT ![c] = "closed"]
  /\ UNCHANGED <<migrateVars, now, writer, queue, send, bucketVars, panicked, lifeVars>>

\* The pumps of a live process.
RunPumps(c) ==
  /\ phase[Home[c]] \in {"serving"} \cup Stopping
  /\ Pumps(c)
  /\ UNCHANGED <<migrateVars, lifeVars>>

-----------------------------------------------------------------------------
(* Shutdown *)

\* SIGINT or SIGTERM.
Signal(r) ==
  /\ phase[r] \notin {"off"} \cup Down /\ r \notin signalled
  /\ signalled' = signalled \cup {r}
  /\ UNCHANGED <<migrateVars, connVars, inflight, handshake, hubDone, inboxShut, clean>>

\* Run finds its context done: closeAll, and hubDone is closed.
HubStops(r) ==
  /\ phase[r] \in {"serving"} \cup Stopping
  /\ r \in signalled \ hubDone
  /\ send' = [c \in Conns |-> IF c \in At(r) /\ send[c] = "open" THEN "closed" ELSE send[c]]
  /\ hubDone' = hubDone \cup {r}
  /\ UNCHANGED <<migrateVars, now, reader, writer, queue, sock, bucketVars, panicked,
                 signalled, inflight, handshake, inboxShut, clean>>

\* srv.Shutdown: the listener is closed.
ShutdownBegins(r) ==
  /\ phase[r] = "serving" /\ r \in signalled
  /\ Advance(r, "draining")
  /\ UNCHANGED <<pgVars, applied, ok, connVars, lifeVars>>

\* srv.Shutdown returns nil when every request has been answered. It waits for a handshake
\* until it is hijacked. (clean is what run will return.)
ShutdownReturns(r) ==
  /\ phase[r] = "draining"
  /\ r \notin inflight /\ handshake \cap At(r) = {}
  /\ clean' = clean \cup {r}
  /\ Advance(r, "inbox")
  /\ UNCHANGED <<pgVars, applied, ok, connVars, signalled, inflight, handshake, hubDone, inboxShut>>

\* shutdownTimeout runs out first.
ShutdownTimesOut(r) ==
  /\ phase[r] = "draining"
  /\ Advance(r, "inbox")
  /\ UNCHANGED <<pgVars, applied, ok, connVars, lifeVars>>

\* inboxHub.Shutdown.
ShutInbox(r) ==
  /\ phase[r] = "inbox"
  /\ inboxShut' = inboxShut \cup {r}
  /\ Advance(r, "waiting")
  /\ UNCHANGED <<pgVars, applied, ok, connVars, signalled, inflight, handshake, hubDone, clean>>

\* <-hubDone: run returns what srv.Shutdown returned.
Exit(r) ==
  /\ phase[r] = "waiting" /\ r \in hubDone
  /\ Advance(r, "exited")
  /\ ProcessEnds(r)
  /\ UNCHANGED <<pgVars, applied, ok, lifeVars>>

\* <-shutdownCtx.Done(): "timed out waiting for clients to disconnect".
ExitTimesOut(r) ==
  /\ phase[r] = "waiting"
  /\ Advance(r, "exited")
  /\ clean' = clean \ {r}
  /\ ProcessEnds(r)
  /\ UNCHANGED <<pgVars, applied, ok, signalled, inflight, handshake, hubDone, inboxShut>>

\* Nothing recovers a panic outside the HTTP handlers: it ends the process.
Healthy(r) == panicked \cap At(r) = {}

\* The process is killed, or has panicked.
Crash(r) ==
  /\ phase[r] \notin {"off"} \cup Down
  /\ Advance(r, "crashed")
  /\ session' = [session EXCEPT ![r] = IF @ = "open" THEN "orphan" ELSE @]
  /\ clean' = clean \ {r}
  /\ ProcessEnds(r)
  /\ UNCHANGED <<queued, lock, tx, recorded, schema, applied, ok,
                 signalled, inflight, handshake, hubDone, inboxShut>>

-----------------------------------------------------------------------------
(* The specification *)

Finished ==
  /\ \A r \in Replicas : phase[r] \in Down /\ session[r] = "none"
  /\ UNCHANGED vars

StartUp(r) == Start(r) \/ Connect(r) \/ RunMigrate(r) \/ Serve(r) \/ StartFails(r)

ShutDown(r) ==
  \/ ShutdownBegins(r) \/ ShutdownReturns(r) \/ ShutdownTimesOut(r)
  \/ ShutInbox(r) \/ Exit(r) \/ ExitTimesOut(r)

Next ==
  \/ \E r \in Replicas :
       \/ /\ Healthy(r)
          /\ \/ StartUp(r) \/ ServeFails(r) \/ ShutDown(r) \/ HubStops(r)
             \/ RequestBegins(r) \/ RequestEnds(r) \/ Signal(r)
       \/ Crash(r)
       \/ Postgres(r) /\ UNCHANGED <<connVars, lifeVars>>
  \/ \E c \in Conns :
       /\ Healthy(Home[c])
       /\ HandshakeBegins(c) \/ Upgrade(c) \/ Add(c) \/ AddRefused(c) \/ RunPumps(c)
  \/ ClockTicks /\ UNCHANGED <<migrateVars, lifeVars>>
  \/ Finished

Spec == Init /\ [][Next]_vars

\* Commands return, goroutines run, timers fire, and a panic ends the process: weak fairness
\* of run's steps, and of Postgres noticing that a client is gone. Postgres grants an advisory
\* lock to the sessions waiting for it in turn: strong fairness; that the startup timeout
\* ends the wait is not relied on. Nothing makes anybody start a replica, signal it, send it
\* a request or answer one.
Fairness ==
  \A r \in Replicas :
    /\ WF_vars(phase[r] \notin {"off", "locking"} /\ StartUp(r))
    /\ WF_vars(r \in signalled /\ LockFails(r) /\ UNCHANGED <<connVars, lifeVars>>)
    /\ SF_vars(r \notin signalled /\ Lock(r) /\ UNCHANGED <<connVars, lifeVars>>)
    /\ WF_vars(Reap(r) /\ UNCHANGED <<connVars, lifeVars>>)
    /\ WF_vars(Healthy(r) /\ ShutDown(r))
    /\ WF_vars(~Healthy(r) /\ Crash(r))

FairSpec == Spec /\ Fairness

-----------------------------------------------------------------------------
(* Properties of the whole *)

\* When run returns nil the drain it is written for has happened ("the hub closing each
\* client's send channel is what actually drains them"): every request was answered, the
\* inbox hub was shut down, and no connection of the relay, not even one that was upgraded
\* or joined while the HTTP server was being stopped, was left with an open send channel.
CleanExit ==
  \A r \in clean : phase[r] = "exited" =>
    /\ r \notin inflight /\ handshake \cap At(r) = {}
    /\ r \in inboxShut
    /\ \A c \in At(r) : send[c] # "open"

\* A replica that has started serves or gives up, whoever holds or held the migration lock
\* and however that replica ended; and one that is signalled ends.
Settles ==
  /\ \A r \in Replicas : phase[r] # "off" ~> phase[r] \notin {"off"} \cup Starting
  /\ \A r \in Replicas : r \in signalled ~> phase[r] \in Down
=============================================================================
