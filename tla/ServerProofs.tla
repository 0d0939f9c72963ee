----------------------------- MODULE ServerProofs -----------------------------
(***************************************************************************)
(* TLAPS proofs about Server and the Migrate and Connection modules it      *)
(* composes, for every set of replicas and connections, every list of       *)
(* migration files and every budget.                                       *)
(***************************************************************************)
EXTENDS Server, TLAPS

-----------------------------------------------------------------------------
(* The inductive invariant of the migrations *)

\* A replica has a Postgres session from AskLock until it unlocks or gives up.
HasSession(r) ==
  /\ phase[r] \in {"off", "connecting", "connected"} => session[r] = "none"
  /\ phase[r] \in {"locking", "reading", "applying", "committing"} => session[r] = "open"

\* Between Lock and the end of its session a replica holds the advisory lock.
HoldsLock(r) ==
  /\ phase[r] \in {"reading", "applying", "committing"} => lock = r
  /\ phase[r] = "unlocking" /\ session[r] = "open" => lock = r

\* An open transaction is the lock holder's or its orphan's, for the very next file.
OpenTx(r) ==
  /\ tx[r] # NoFile =>
       /\ lock = r
       /\ phase[r] = "committing" \/ session[r] = "orphan"
       /\ Len(schema) < Len(Files) /\ tx[r] = Files[Len(schema) + 1]
  /\ phase[r] = "committing" => tx[r] # NoFile

\* What the loop knows to be applied is still what is recorded.
Informed(r) == phase[r] \in {"applying", "committing"} => applied[r] = recorded

\* The database holds a prefix of the files, with their versions.
Prefix ==
  /\ Len(schema) <= Len(Files)
  /\ \A i \in 1 .. Len(schema) : schema[i] = Files[i]
  /\ recorded = {Files[i] : i \in 1 .. Len(schema)}

\* Migrate only returns nil when nothing is left to apply.
Complete == \A r \in Replicas : ok[r] => Len(schema) = Len(Files)

Replica(r) == HasSession(r) /\ HoldsLock(r) /\ OpenTx(r) /\ Informed(r)

\* The inductive invariant behind AppliedOnce and NoDuplicateWork.
Serialized == Prefix /\ Complete /\ \A r \in Replicas : Replica(r)

\* A bucket was filled last in the past.
Clocked == \A c \in Conns : last[c] <= now

-----------------------------------------------------------------------------
(* The migration files *)

\* The migration files are a sequence of versions.
LEMMA FilesFacts ==
  /\ Len(Files) \in Nat /\ DOMAIN Files = 1 .. Len(Files)
  /\ \A i \in 1 .. Len(Files) : Files[i] \in Versions /\ Files[i] # NoFile
BY FilesAssumption

\* A version is recorded if and only if its file is in the prefix.
LEMMA RecordedIff ==
  ASSUME TypeOK, Prefix, NEW i \in DOMAIN Files
  PROVE  Files[i] \in recorded <=> i <= Len(schema)
<1>1. Len(schema) \in Nat
  BY DEF TypeOK, MigrateTypeOK
<1>2. CASE i <= Len(schema)
  BY <1>1, <1>2, FilesFacts DEF Prefix
<1>3. ASSUME Files[i] \in recorded PROVE i <= Len(schema)
  <2>1. PICK j \in 1 .. Len(schema) : Files[j] = Files[i]
    BY <1>3 DEF Prefix
  <2>2. j \in DOMAIN Files
    BY <1>1, <2>1, FilesFacts DEF Prefix
  <2>3. i = j
    BY <2>1, <2>2, FilesAssumption
  <2> QED
    BY <1>1, <2>3
<1> QED
  BY <1>2, <1>3

\* The file the loop takes is the one after the prefix.
LEMMA NextFile ==
  ASSUME TypeOK, Prefix, NEW r \in Replicas, applied[r] = recorded,
         NEW i \in Pending(r), \A j \in Pending(r) : i <= j
  PROVE  Len(schema) < Len(Files) /\ i = Len(schema) + 1
<1>1. Len(schema) \in Nat
  BY DEF TypeOK, MigrateTypeOK
<1>2. i \in DOMAIN Files /\ Files[i] \notin recorded
  BY DEF Pending
<1>3. ~(i <= Len(schema))
  BY <1>2, RecordedIff
<1>4. Len(schema) + 1 \in DOMAIN Files /\ Len(schema) < Len(Files) /\ Len(schema) + 1 <= i
  BY <1>1, <1>2, <1>3, FilesFacts
<1>5. Files[Len(schema) + 1] \notin recorded
  BY <1>1, <1>4, RecordedIff
<1>6. Len(schema) + 1 \in Pending(r)
  BY <1>4, <1>5 DEF Pending
<1>7. i <= Len(schema) + 1
  BY <1>6
<1> QED
  BY <1>1, <1>2, <1>4, <1>7, FilesFacts

\* The loop ends when the prefix is the whole list.
LEMMA NothingPending ==
  ASSUME TypeOK, Prefix, NEW r \in Replicas, applied[r] = recorded, Pending(r) = {}
  PROVE  Len(schema) = Len(Files)
<1>1. Len(schema) \in Nat /\ Len(schema) <= Len(Files)
  BY DEF TypeOK, MigrateTypeOK, Prefix
<1>2. ASSUME Len(schema) < Len(Files) PROVE FALSE
  <2>1. Len(schema) + 1 \in DOMAIN Files
    BY <1>1, <1>2, FilesFacts
  <2>2. Files[Len(schema) + 1] \notin recorded
    BY <1>1, <2>1, RecordedIff
  <2> QED
    BY <2>1, <2>2 DEF Pending
<1> QED
  BY <1>1, <1>2, FilesFacts

\* A commit of the file after the prefix makes the prefix one longer.
LEMMA CommitExtends ==
  ASSUME TypeOK, Prefix, NEW r \in Replicas, CommitTx(r),
         Len(schema) < Len(Files), tx[r] = Files[Len(schema) + 1]
  PROVE  /\ Prefix' /\ Len(schema') = Len(schema) + 1
         /\ schema' \in Seq(Versions) /\ recorded' \subseteq Versions
         /\ tx[r] \notin recorded
<1>1. Len(schema) \in Nat /\ schema \in Seq(Versions)
  BY DEF TypeOK, MigrateTypeOK
<1>2. Len(schema) + 1 \in DOMAIN Files /\ tx[r] \in Versions
  BY <1>1, FilesFacts
<1>3. schema' = Append(schema, tx[r]) /\ recorded' = recorded \cup {tx[r]}
  BY DEF CommitTx
<1>4. Len(schema') = Len(schema) + 1 /\ schema' \in Seq(Versions)
  BY <1>1, <1>2, <1>3
<1>5. \A i \in 1 .. Len(schema') : schema'[i] = Files[i]
  <2> SUFFICES ASSUME NEW i \in 1 .. Len(schema) + 1 PROVE schema'[i] = Files[i]
    BY <1>4
  <2>1. CASE i = Len(schema) + 1
    BY <1>1, <1>3, <2>1
  <2>2. CASE i \in 1 .. Len(schema)
    BY <1>1, <1>3, <2>2 DEF Prefix
  <2> QED
    BY <1>1, <2>1, <2>2
<1>6. recorded' = {Files[i] : i \in 1 .. Len(schema')}
  <2>1. 1 .. Len(schema) + 1 = (1 .. Len(schema)) \cup {Len(schema) + 1}
    BY <1>1
  <2> QED
    BY <1>3, <1>4, <2>1 DEF Prefix
<1>7. tx[r] \notin recorded
  BY <1>1, <1>2, RecordedIff
<1>8. recorded' \subseteq Versions
  BY <1>2, <1>3 DEF TypeOK, MigrateTypeOK
<1>9. Len(schema') <= Len(Files)
  BY <1>1, <1>4, FilesFacts
<1>10. Prefix'
  BY <1>5, <1>6, <1>9 DEF Prefix
<1> QED
  BY <1>4, <1>7, <1>8, <1>10

-----------------------------------------------------------------------------
(* Steps of Migrate and of Postgres *)

Phases == {"off", "serving"} \cup Starting \cup Stopping \cup Down

\* Migrate keeps the types. A COMMIT needs OpenTx for it: what it commits is a file.
LEMMA MigrateType ==
  ASSUME TypeOK, Serialized, NEW r \in Replicas, MigrateStep(r) \/ Postgres(r)
  PROVE  MigrateTypeOK' /\ phase' \in [Replicas -> Phases]
<1> USE DEF TypeOK, MigrateTypeOK, Advance, pgVars
<1>1. phase' \in [Replicas -> Phases]
  BY DEF MigrateStep, Postgres, AskLock, Lock, LockFails, ReadApplied, Apply, Commit,
         AllApplied, StepFails, Unlock, OrphanLocks, OrphanCommits, Reap,
         Phases, Starting, Migrating, Stopping, Down
<1> SUFFICES MigrateTypeOK'
  BY <1>1
<1>2. CASE AskLock(r) \/ Lock(r) \/ LockFails(r) \/ Unlock(r)
  BY <1>2 DEF AskLock, Lock, LockFails, Unlock
<1>3. CASE ReadApplied(r) \/ AllApplied(r)
  BY <1>3 DEF ReadApplied, AllApplied
<1>4. CASE Apply(r)
  <2>1. PICK i \in Pending(r) : tx' = [tx EXCEPT ![r] = Files[i]]
    BY <1>4 DEF Apply
  <2>2. Files[i] \in Versions
    BY FilesFacts DEF Pending
  <2> QED
    BY <1>4, <2>1, <2>2 DEF Apply
<1>5. CASE StepFails(r)
  BY <1>5 DEF StepFails
<1>6. CASE Commit(r) \/ OrphanCommits(r)
  <2>1. CommitTx(r) /\ tx[r] # NoFile
    BY <1>6 DEF Commit, OrphanCommits, Serialized, Replica, OpenTx
  <2>2. Len(schema) < Len(Files) /\ tx[r] = Files[Len(schema) + 1]
    BY <2>1 DEF Serialized, Replica, OpenTx
  <2>3. schema' \in Seq(Versions) /\ recorded' \subseteq Versions
    BY <2>1, <2>2, CommitExtends DEF Serialized
  <2>4. tx[r] \in Versions
    BY <2>1
  <2>5. tx' \in [Replicas -> Versions \cup {NoFile}]
    BY <2>1 DEF CommitTx
  <2>6. applied' \in [Replicas -> SUBSET Versions]
    BY <1>6, <2>4 DEF Commit, OrphanCommits
  <2> QED
    BY <1>6, <2>3, <2>5, <2>6 DEF Commit, OrphanCommits
<1>7. CASE OrphanLocks(r) \/ Reap(r)
  BY <1>7 DEF OrphanLocks, Reap
<1> QED
  BY <1>2, <1>3, <1>4, <1>5, <1>6, <1>7 DEF MigrateStep, Postgres

\* The prefix and its completeness only depend on the database and on what ok says.
LEMMA SameDatabase ==
  ASSUME Prefix, Complete, UNCHANGED <<schema, recorded, ok>>
  PROVE  Prefix' /\ Complete'
BY DEF Prefix, Complete

\* The lock serializes Migrate: whichever replica takes a step, and whatever its session
\* or the orphans of others do, the inductive invariant is kept.
LEMMA MigrateSerialized ==
  ASSUME TypeOK, Serialized, NEW r \in Replicas, MigrateStep(r) \/ Postgres(r)
  PROVE  Serialized'
<1> USE DEF TypeOK, MigrateTypeOK, Advance, pgVars
<1> USE DEF Serialized, Replica, HasSession, HoldsLock, OpenTx, Informed
<1>0. NoReplica \notin Replicas
  BY ReplicasAssumption
<1>1. CASE AskLock(r)
  BY <1>1, SameDatabase DEF AskLock
<1>2. CASE Lock(r)
  BY <1>0, <1>2, SameDatabase DEF Lock
<1>3. CASE LockFails(r)
  BY <1>3, SameDatabase DEF LockFails
<1>4. CASE ReadApplied(r)
  BY <1>4, SameDatabase DEF ReadApplied
<1>5. CASE Apply(r)
  <2>1. PICK i \in Pending(r) : /\ \A j \in Pending(r) : i <= j
                                /\ tx' = [tx EXCEPT ![r] = Files[i]]
    BY <1>5 DEF Apply
  <2>2. /\ phase[r] = "applying" /\ phase' = [phase EXCEPT ![r] = "committing"]
        /\ UNCHANGED <<session, lock, recorded, schema, applied, ok>>
    BY <1>5 DEF Apply
  <2>3. Len(schema) < Len(Files) /\ i = Len(schema) + 1
    BY <2>1, <2>2, NextFile
  <2>4. Files[i] # NoFile
    BY FilesFacts DEF Pending
  <2>5. ASSUME NEW s \in Replicas PROVE Replica(s)'
    BY <2>1, <2>2, <2>3, <2>4
  <2> QED
    BY <2>2, <2>5, SameDatabase
<1>6. CASE Commit(r) \/ OrphanCommits(r)
  <2>1. /\ CommitTx(r) /\ tx[r] # NoFile /\ lock = r
        /\ Len(schema) < Len(Files) /\ tx[r] = Files[Len(schema) + 1]
        /\ UNCHANGED <<session, lock, ok>>
    BY <1>6 DEF Commit, OrphanCommits
  <2>2. Prefix'
    BY <2>1, CommitExtends
  <2>3. Complete'
    <3>1. \A s \in Replicas : ~ok[s]
      BY <2>1 DEF Complete
    <3> QED
      BY <2>1, <3>1 DEF Complete
  <2>4. tx' = [tx EXCEPT ![r] = NoFile] /\ recorded' = recorded \cup {tx[r]}
    BY <2>1 DEF CommitTx
  <2>5. \A s \in Replicas \ {r} : tx[s] = NoFile /\ phase[s] \notin {"reading", "applying", "committing"}
    BY <2>1
  <2>6. ASSUME NEW s \in Replicas PROVE Replica(s)'
    <3>1. CASE Commit(r)
      BY <2>1, <2>4, <2>5, <3>1 DEF Commit
    <3>2. CASE OrphanCommits(r)
      BY <2>1, <2>4, <2>5, <3>2 DEF OrphanCommits
    <3> QED
      BY <1>6, <3>1, <3>2
  <2> QED
    BY <2>2, <2>3, <2>6
<1>7. CASE AllApplied(r)
  <2>1. Len(schema) = Len(Files)
    BY <1>7, NothingPending DEF AllApplied
  <2>2. Prefix' /\ Complete'
    BY <1>7, <2>1 DEF AllApplied, Prefix, Complete
  <2> QED
    BY <1>7, <2>2 DEF AllApplied
<1>8. CASE StepFails(r)
  BY <1>8, SameDatabase DEF StepFails
<1>9. CASE Unlock(r)
  BY <1>9, SameDatabase DEF Unlock
<1>10. CASE OrphanLocks(r)
  BY <1>0, <1>10, SameDatabase DEF OrphanLocks
<1>11. CASE Reap(r)
  BY <1>11, SameDatabase DEF Reap
<1> QED
  BY <1>1, <1>2, <1>3, <1>4, <1>5, <1>6, <1>7, <1>8, <1>9, <1>10, <1>11 DEF MigrateStep, Postgres

-----------------------------------------------------------------------------
(* Steps of a connection *)

\* The bucket has room for a frame.
LEMMA CapacityFacts == Capacity \in Nat /\ Cost \in Nat /\ Cost <= Capacity /\ Cost > 0
BY BudgetAssumption DEF Capacity

\* What accrues between two instants is a natural number.
LEMMA AccruedNat ==
  ASSUME NEW t \in Nat, NEW u \in Nat, t <= u
  PROVE  (u - t) * RatePerTick \in Nat
<1>1. u - t \in Nat /\ RatePerTick \in Nat
  BY BudgetAssumption
<1> QED
  BY <1>1

\* A refilled bucket is never negative and never over its capacity.
LEMMA RefilledType ==
  ASSUME ConnTypeOK, Clocked, NEW c \in Conns
  PROVE  Refilled(c) \in 0 .. Capacity
<1>1. /\ now \in Nat /\ last[c] \in Nat /\ last[c] <= now
      /\ tokens[c] \in Nat /\ Capacity \in Nat
  BY CapacityFacts, ConnBoundsAssumption DEF ConnTypeOK, Clocked
<1>2. (now - last[c]) * RatePerTick \in Nat
  BY <1>1, AccruedNat
<1> QED
  BY <1>1, <1>2 DEF Refilled

\* The pumps keep the types, and the clock of every bucket in the past.
LEMMA PumpsType ==
  ASSUME ConnTypeOK, Clocked, NEW c \in Conns, Pumps(c)
  PROVE  ConnTypeOK' /\ Clocked'
<1> USE DEF ConnTypeOK, Clocked, bucketVars, writeRest
<1>1. panicked' \subseteq Conns
  BY DEF Pumps, RejectBinary, Receive, RejectExcess, Rejected, ReadEnds, Drop, TakeFrame, Ping,
         WriteEnds, WriteAborts, TakeClose, CloseEnds, HubPushes, HubEvicts, BeginWrite
<1>2. CASE \/ RejectBinary(c) \/ Rejected(c) \/ ReadEnds(c)
  BY <1>1, <1>2 DEF RejectBinary, Rejected, ReadEnds
<1>3. CASE Receive(c) \/ RejectExcess(c)
  <2>1. Refilled(c) \in 0 .. Capacity
    BY RefilledType
  <2>2. tokens' \in [Conns -> 0 .. Capacity]
    <3>1. \/ Refilled(c) >= Cost /\ tokens' = [tokens EXCEPT ![c] = Refilled(c) - Cost]
          \/ tokens' = [tokens EXCEPT ![c] = Refilled(c)]
      BY <1>3 DEF Receive, RejectExcess, Allow, Refuse
    <3>2. CASE Refilled(c) >= Cost /\ tokens' = [tokens EXCEPT ![c] = Refilled(c) - Cost]
      <4>1. Refilled(c) - Cost \in 0 .. Capacity
        BY <2>1, <3>2, CapacityFacts
      <4> QED
        BY <3>2, <4>1
    <3> QED
      BY <2>1, <3>1, <3>2
  <2>3. now' = now /\ last' = [last EXCEPT ![c] = now]
    BY <1>3 DEF Receive, RejectExcess, Allow, Refuse
  <2>4. arrivals' \in [Conns -> Seq(0 .. MaxTicks)]
    <3>1. Append(arrivals[c], now) \in Seq(0 .. MaxTicks)
      OBVIOUS
    <3> QED
      BY <1>3, <3>1 DEF Receive, RejectExcess, Allow, Refuse
  <2>5. refused' \in [Conns -> 0 .. MaxTicks \cup {Never}]
    BY <1>3 DEF Receive, RejectExcess, Allow, Refuse
  <2>6. reader' \in [Conns -> {"none", "adding", "reading", "rejecting", "dropping", "done"}]
    BY <1>3 DEF Receive, RejectExcess
  <2>7. last' \in [Conns -> 0 .. MaxTicks] /\ Clocked'
    BY <2>3
  <2> QED
    BY <1>1, <1>3, <2>2, <2>4, <2>5, <2>6, <2>7 DEF Receive, RejectExcess
<1>4. CASE Drop(c)
  <2>1. tokens' \in [Conns -> 0 .. Capacity]
    BY <1>4, CapacityFacts DEF Drop, Forget
  <2>2. last' \in [Conns -> 0 .. MaxTicks] /\ Clocked'
    BY <1>4, ConnBoundsAssumption DEF Drop, Forget
  <2>3. <<>> \in Seq(0 .. MaxTicks)
    OBVIOUS
  <2>4. arrivals' \in [Conns -> Seq(0 .. MaxTicks)]
    BY <1>4, <2>3 DEF Drop, Forget
  <2>5. refused' \in [Conns -> 0 .. MaxTicks \cup {Never}]
    BY <1>4 DEF Drop, Forget
  <2> QED
    BY <1>1, <1>4, <2>1, <2>2, <2>4, <2>5 DEF Drop
<1>5. CASE TakeFrame(c) \/ HubPushes(c)
  BY <1>1, <1>5 DEF TakeFrame, HubPushes
<1>6. CASE Ping(c) \/ WriteEnds(c) \/ WriteAborts(c) \/ TakeClose(c) \/ CloseEnds(c) \/ HubEvicts(c)
  BY <1>1, <1>6 DEF Ping, WriteEnds, WriteAborts, TakeClose, CloseEnds, HubEvicts
<1> QED
  BY <1>2, <1>3, <1>4, <1>5, <1>6 DEF Pumps

\* So does the end of a process.
LEMMA ProcessEndsType ==
  ASSUME ConnTypeOK, Clocked, NEW r \in Replicas, ProcessEnds(r)
  PROVE  ConnTypeOK' /\ Clocked'
<1> USE DEF ConnTypeOK, Clocked
<1>1. tokens' \in [Conns -> 0 .. Capacity]
  BY CapacityFacts DEF ProcessEnds, Forget
<1>2. last' \in [Conns -> 0 .. MaxTicks] /\ Clocked'
  BY ConnBoundsAssumption DEF ProcessEnds, Forget
<1>3. <<>> \in Seq(0 .. MaxTicks)
  OBVIOUS
<1>4. arrivals' \in [Conns -> Seq(0 .. MaxTicks)]
  BY <1>3 DEF ProcessEnds, Forget
<1>5. refused' \in [Conns -> 0 .. MaxTicks \cup {Never}]
  BY DEF ProcessEnds, Forget
<1>6. /\ reader' \in [Conns -> {"none", "adding", "reading", "rejecting", "dropping", "done"}]
      /\ writer' \in [Conns -> {"none", "idle", "writing", "closing", "done"}]
      /\ sock' \in [Conns -> {"none", "open", "closing", "closed"}]
  BY DEF ProcessEnds
<1> QED
  BY <1>1, <1>2, <1>4, <1>5, <1>6 DEF ProcessEnds

-----------------------------------------------------------------------------
(* Type correctness, and the migrations *)

\* Steps of run that change the phase of one replica and nothing of the migrations.
PhaseStep(r) ==
  \/ Start(r) \/ Connect(r) \/ Serve(r) \/ StartFails(r) \/ ServeFails(r)
  \/ ShutdownBegins(r) \/ ShutdownReturns(r) \/ ShutdownTimesOut(r) \/ ShutInbox(r)
  \/ Exit(r) \/ ExitTimesOut(r)

\* Steps that leave the phases and the database alone.
ServingStep ==
  \/ \E r \in Replicas : HubStops(r) \/ RequestBegins(r) \/ RequestEnds(r) \/ Signal(r)
  \/ \E c \in Conns : HandshakeBegins(c) \/ Upgrade(c) \/ Add(c) \/ AddRefused(c) \/ RunPumps(c)
  \/ ClockTicks /\ UNCHANGED <<migrateVars, lifeVars>>
  \/ UNCHANGED vars

\* The kinds of step Server takes.
LEMMA NextKinds ==
  ASSUME [Next]_vars
  PROVE  \/ \E r \in Replicas : RunMigrate(r) \/ PhaseStep(r) \/ Crash(r)
         \/ \E r \in Replicas : Postgres(r) /\ UNCHANGED <<connVars, lifeVars>>
         \/ ServingStep
BY DEF Next, StartUp, ShutDown, PhaseStep, ServingStep, Finished

\* A step of a starting or stopping replica keeps the types.
LEMMA PhaseStepType ==
  ASSUME TypeOK, Clocked, NEW r \in Replicas, PhaseStep(r)
  PROVE  TypeOK' /\ Clocked'
<1>1. phase' \in [Replicas -> Phases]
  BY DEF PhaseStep, Start, Connect, Serve, StartFails, ServeFails, ShutdownBegins,
         ShutdownReturns, ShutdownTimesOut, ShutInbox, Exit, ExitTimesOut, Advance, TypeOK,
         Phases, Starting, Stopping, Down
<1>2. UNCHANGED <<pgVars, applied, ok>>
  BY DEF PhaseStep, Start, Connect, Serve, StartFails, ServeFails, ShutdownBegins,
         ShutdownReturns, ShutdownTimesOut, ShutInbox, Exit, ExitTimesOut
<1>3. MigrateTypeOK'
  BY <1>2 DEF pgVars, TypeOK, MigrateTypeOK
<1>4. ConnTypeOK' /\ Clocked'
  <2>1. UNCHANGED connVars \/ ProcessEnds(r)
    BY DEF PhaseStep, Start, Connect, Serve, StartFails, ServeFails, ShutdownBegins,
           ShutdownReturns, ShutdownTimesOut, ShutInbox, Exit, ExitTimesOut
  <2>2. CASE UNCHANGED connVars
    BY <2>2 DEF connVars, bucketVars, TypeOK, ConnTypeOK, Clocked
  <2> QED
    BY <2>1, <2>2, ProcessEndsType DEF TypeOK
<1>5. /\ signalled' \subseteq Replicas /\ inflight' \subseteq Replicas /\ hubDone' \subseteq Replicas
      /\ inboxShut' \subseteq Replicas /\ clean' \subseteq Replicas /\ handshake' \subseteq Conns
  BY DEF PhaseStep, Start, Connect, Serve, StartFails, ServeFails, ShutdownBegins,
         ShutdownReturns, ShutdownTimesOut, ShutInbox, Exit, ExitTimesOut, lifeVars, TypeOK
<1> QED
  BY <1>1, <1>3, <1>4, <1>5 DEF TypeOK, Phases

\* So does a step of the serving replica's connections.
LEMMA ServingStepType ==
  ASSUME TypeOK, Clocked, ServingStep
  PROVE  TypeOK' /\ Clocked'
<1> USE DEF TypeOK, ConnTypeOK, Clocked, bucketVars, connVars, lifeVars
<1>1. UNCHANGED migrateVars
  BY DEF ServingStep, HubStops, RequestBegins, RequestEnds, Signal, HandshakeBegins, Upgrade,
         Add, AddRefused, RunPumps, vars
<1>2. phase' \in [Replicas -> Phases] /\ MigrateTypeOK'
  BY <1>1 DEF migrateVars, pgVars, MigrateTypeOK, Phases
<1>3. /\ signalled' \subseteq Replicas /\ inflight' \subseteq Replicas /\ hubDone' \subseteq Replicas
      /\ inboxShut' \subseteq Replicas /\ clean' \subseteq Replicas /\ handshake' \subseteq Conns
  BY DEF ServingStep, HubStops, RequestBegins, RequestEnds, Signal, HandshakeBegins, Upgrade,
         Add, AddRefused, RunPumps, vars
<1>4. ConnTypeOK' /\ Clocked'
  <2>1. ASSUME NEW c \in Conns, RunPumps(c) PROVE ConnTypeOK' /\ Clocked'
    <3>1. Pumps(c)
      BY <2>1 DEF RunPumps
    <3> QED
      BY <3>1, PumpsType
  <2>2. ASSUME NEW c \in Conns, Upgrade(c) \/ AddRefused(c) PROVE ConnTypeOK' /\ Clocked'
    BY <2>2 DEF Upgrade, AddRefused
  <2>3. ASSUME NEW c \in Conns, Add(c) PROVE ConnTypeOK' /\ Clocked'
    BY <2>3 DEF Add
  <2>4. ASSUME NEW r \in Replicas, HubStops(r) PROVE ConnTypeOK' /\ Clocked'
    BY <2>4 DEF HubStops
  <2>5. CASE ClockTicks
    BY <2>5, ConnBoundsAssumption DEF ClockTicks
  <2>6. CASE UNCHANGED connVars
    BY <2>6
  <2> QED
    BY <2>1, <2>2, <2>3, <2>4, <2>5, <2>6
    DEF ServingStep, RequestBegins, RequestEnds, Signal, HandshakeBegins, vars
<1> QED
  BY <1>2, <1>3, <1>4 DEF Phases

\* Every step keeps the types and the clock.
LEMMA ServerType ==
  ASSUME TypeOK, Clocked, Serialized, [Next]_vars
  PROVE  TypeOK' /\ Clocked'
<1>1. ASSUME NEW r \in Replicas, MigrateStep(r) \/ Postgres(r), UNCHANGED <<connVars, lifeVars>>
      PROVE  TypeOK' /\ Clocked'
  <2>1. MigrateTypeOK' /\ phase' \in [Replicas -> Phases]
    BY <1>1, MigrateType
  <2>2. ConnTypeOK' /\ Clocked'
    BY <1>1 DEF connVars, bucketVars, TypeOK, ConnTypeOK, Clocked
  <2> QED
    BY <1>1, <2>1, <2>2 DEF lifeVars, TypeOK, Phases
<1>2. ASSUME NEW r \in Replicas, RunMigrate(r) PROVE TypeOK' /\ Clocked'
  BY <1>1, <1>2 DEF RunMigrate
<1>3. ASSUME NEW r \in Replicas, Crash(r) PROVE TypeOK' /\ Clocked'
  <2>1. ConnTypeOK' /\ Clocked'
    BY <1>3, ProcessEndsType DEF Crash, TypeOK
  <2>2. phase' \in [Replicas -> Phases]
    BY <1>3 DEF Crash, Advance, TypeOK, Phases, Down
  <2>3. MigrateTypeOK'
    BY <1>3 DEF Crash, TypeOK, MigrateTypeOK
  <2> QED
    BY <1>3, <2>1, <2>2, <2>3 DEF Crash, TypeOK, Phases
<1> QED
  BY <1>1, <1>2, <1>3, NextKinds, PhaseStepType, ServingStepType

\* What run does besides migrating keeps the invariant of the migrations: a replica is
\* connected without a session, and only Migrate gets it into a migrating phase.
LEMMA ServerSerialized ==
  ASSUME TypeOK, Serialized, [Next]_vars
  PROVE  Serialized'
<1> USE DEF Serialized, Replica, HasSession, HoldsLock, OpenTx, Informed
<1>1. ASSUME NEW r \in Replicas, PhaseStep(r) PROVE Serialized'
  <2>1. UNCHANGED <<session, lock, tx, recorded, schema, applied, ok>>
    BY <1>1 DEF PhaseStep, Start, Connect, Serve, StartFails, ServeFails, ShutdownBegins,
                ShutdownReturns, ShutdownTimesOut, ShutInbox, Exit, ExitTimesOut, pgVars
  <2>2. PICK p : /\ phase' = [phase EXCEPT ![r] = p]
                 /\ \/ p \in {"connecting", "connected"} /\ phase[r] \in {"off", "connecting"}
                    \/ p \in {"serving", "exited"} \cup Stopping
    BY <1>1 DEF PhaseStep, Start, Connect, Serve, StartFails, ServeFails, ShutdownBegins,
                ShutdownReturns, ShutdownTimesOut, ShutInbox, Exit, ExitTimesOut, Advance, Stopping
  <2>3. phase[r] # "committing" => tx[r] = NoFile \/ session[r] = "orphan"
    OBVIOUS
  <2>4. phase[r] # "committing"
    BY <1>1 DEF PhaseStep, Start, Connect, Serve, StartFails, ServeFails, ShutdownBegins,
                ShutdownReturns, ShutdownTimesOut, ShutInbox, Exit, ExitTimesOut
  <2>5. ASSUME NEW s \in Replicas PROVE Replica(s)'
    BY <2>1, <2>2, <2>3, <2>4 DEF TypeOK, Stopping
  <2> QED
    BY <2>1, <2>5, SameDatabase
<1>2. ASSUME NEW r \in Replicas, Crash(r) PROVE Serialized'
  <2>1. /\ phase' = [phase EXCEPT ![r] = "crashed"]
        /\ session' = [session EXCEPT ![r] = IF @ = "open" THEN "orphan" ELSE @]
        /\ UNCHANGED <<lock, tx, recorded, schema, applied, ok>>
    BY <1>2 DEF Crash, Advance
  <2>2. ASSUME NEW s \in Replicas PROVE Replica(s)'
    BY <2>1 DEF TypeOK, MigrateTypeOK
  <2> QED
    BY <2>1, <2>2, SameDatabase
<1>3. CASE ServingStep
  <2>1. UNCHANGED migrateVars
    BY <1>3 DEF ServingStep, HubStops, RequestBegins, RequestEnds, Signal, HandshakeBegins,
                Upgrade, Add, AddRefused, RunPumps, vars
  <2> QED
    BY <2>1, SameDatabase DEF migrateVars, pgVars
<1> QED
  BY <1>1, <1>2, <1>3, NextKinds, MigrateSerialized DEF RunMigrate

\* A new database, or one at the version of an earlier release.
LEMMA ServerInit == Init => TypeOK /\ Clocked /\ Serialized
<1> SUFFICES ASSUME Init PROVE TypeOK /\ Clocked /\ Serialized
  OBVIOUS
<1>1. PICK n \in 0 .. Len(Files) : schema = SubSeq(Files, 1, n)
  BY DEF Init, MigrateInit
<1>2. n \in Nat /\ n <= Len(Files) /\ Len(Files) \in Nat
  BY FilesFacts
<1>3. /\ schema \in Seq(Versions) /\ Len(schema) = n
      /\ \A i \in 1 .. n : schema[i] = Files[i]
  <2>1. Files \in Seq(Versions)
    BY FilesAssumption
  <2>2. Len(schema) = n
    BY <1>1, <1>2, <2>1
  <2>3. schema \in Seq(Versions)
    BY <1>1, <1>2, <2>1
  <2>4. ASSUME NEW i \in 1 .. n PROVE schema[i] = Files[i]
    BY <1>1, <1>2, <2>1
  <2> QED
    BY <2>2, <2>3, <2>4
<1>4. recorded = {Files[i] : i \in 1 .. n}
  <2>1. DOMAIN schema = 1 .. n
    BY <1>2, <1>3
  <2>2. recorded = {schema[i] : i \in 1 .. n}
    BY <2>1 DEF Init, MigrateInit
  <2> QED
    BY <1>3, <2>2
<1>5. Prefix
  BY <1>2, <1>3, <1>4 DEF Prefix
<1>6. recorded \subseteq Versions
  BY <1>2, <1>4, FilesFacts
<1>7. Serialized
  BY <1>5
  DEF Init, MigrateInit, Serialized, Complete, Replica, HasSession, HoldsLock, OpenTx, Informed
<1>8. MigrateTypeOK
  BY <1>3, <1>6 DEF Init, MigrateInit, MigrateTypeOK
<1>9. ConnTypeOK /\ Clocked
  <2>1. <<>> \in Seq(0 .. MaxTicks)
    OBVIOUS
  <2> QED
    BY <2>1, CapacityFacts, ConnBoundsAssumption DEF Init, ConnInit, ConnTypeOK, Clocked
<1>10. phase \in [Replicas -> Phases]
  BY DEF Init, Phases
<1> QED
  BY <1>7, <1>8, <1>9, <1>10 DEF Init, TypeOK, Phases

\* The migrations are serialized throughout.
LEMMA SerializedAlways == Spec => [](TypeOK /\ Clocked /\ Serialized)
<1>1. TypeOK /\ Clocked /\ Serialized /\ [Next]_vars => (TypeOK /\ Clocked /\ Serialized)'
  BY ServerType, ServerSerialized
<1> QED
  BY <1>1, ServerInit, PTL DEF Spec

\* Every state the replicas, their database and their connections reach is well typed; in
\* particular no bucket is ever negative or over its capacity.
THEOREM ServerTypeCorrect == Spec => []TypeOK
BY SerializedAlways, PTL

\* However many replicas start together, crash or lose replies, the database only ever
\* holds a prefix of the files, each applied once and recorded, and no replica gets past
\* Migrate before all of them are applied.
THEOREM MigrationsAppliedOnce == Spec => []AppliedOnce
<1>1. TypeOK /\ Serialized => AppliedOnce
  <2> SUFFICES ASSUME TypeOK, Serialized PROVE AppliedOnce
    OBVIOUS
  <2>1. /\ Len(schema) \in Nat /\ schema \in Seq(Versions) /\ DOMAIN schema = 1 .. Len(schema)
        /\ Len(schema) <= Len(Files) /\ Len(Files) \in Nat /\ Files \in Seq(Versions)
    BY FilesFacts, FilesAssumption DEF TypeOK, MigrateTypeOK, Serialized, Prefix
  <2>2. schema = SubSeq(Files, 1, Len(schema))
    <3> DEFINE s == SubSeq(Files, 1, Len(schema))
    <3>1. s \in Seq(Versions) /\ Len(s) = Len(schema)
      BY <2>1
    <3>2. ASSUME NEW i \in 1 .. Len(schema) PROVE s[i] = schema[i]
      <4>1. s[i] = Files[i]
        BY <2>1
      <4> QED
        BY <4>1 DEF Serialized, Prefix
    <3> HIDE DEF s
    <3>3. s = schema
      BY <2>1, <3>1, <3>2
    <3> QED
      BY <3>3 DEF s
  <2>3. recorded = {schema[i] : i \in DOMAIN schema}
    BY <2>1 DEF Serialized, Prefix
  <2>4. ASSUME NEW r \in Replicas, ok[r] PROVE schema = Files
    <3>1. Len(schema) = Len(Files)
      BY <2>4 DEF Serialized, Complete
    <3> QED
      BY <2>1, <3>1 DEF Serialized, Prefix
  <2> QED
    BY <2>2, <2>3, <2>4 DEF AppliedOnce
<1> QED
  BY <1>1, SerializedAlways, PTL

\* No two sessions, orphans included, ever work on migrations at the same time, and none
\* applies a file that is recorded already.
THEOREM MigrationsNotDuplicated == Spec => []NoDuplicateWork
<1>1. TypeOK /\ Serialized => NoDuplicateWork
  <2> SUFFICES ASSUME TypeOK, Serialized, NEW r \in Replicas, tx[r] # NoFile
               PROVE  lock = r /\ tx[r] \notin recorded
    BY DEF NoDuplicateWork
  <2>1. /\ lock = r /\ Len(schema) < Len(Files) /\ tx[r] = Files[Len(schema) + 1]
        /\ Len(schema) \in Nat
    BY DEF Serialized, Replica, OpenTx, TypeOK, MigrateTypeOK
  <2>2. Len(schema) + 1 \in DOMAIN Files /\ ~(Len(schema) + 1 <= Len(schema))
    BY <2>1, FilesFacts
  <2> QED
    BY <2>1, <2>2, RecordedIff DEF Serialized
<1> QED
  BY <1>1, SerializedAlways, PTL

-----------------------------------------------------------------------------
(* The drain *)

\* A replica whose srv.Shutdown returned nil has no request left and gets no new one;
\* when it has exited, its inbox hub and its relay hub were stopped before.
CleanReplica(r) ==
  /\ phase[r] \in {"inbox", "waiting", "exited"}
  /\ r \notin inflight /\ handshake \cap At(r) = {}
  /\ phase[r] \in {"waiting", "exited"} => r \in inboxShut
  /\ phase[r] = "exited" => r \in hubDone

\* Once the relay's hub has stopped no connection has an open send channel, or gets one.
HubsStopped == \A c \in Conns : Home[c] \in hubDone => send[c] # "open"

\* The inductive invariant behind CleanExit.
Drained == HubsStopped /\ \A r \in clean : CleanReplica(r)

\* Every step keeps what a returning run has drained that way.
LEMMA DrainedNext ==
  ASSUME TypeOK, Drained, [Next]_vars
  PROVE  Drained'
<1> USE DEF Drained, CleanReplica, HubsStopped, At, lifeVars
<1>1. ASSUME NEW r \in Replicas, RunMigrate(r) PROVE Drained'
  <2>1. /\ phase[r] \notin {"inbox", "waiting", "exited"} /\ UNCHANGED <<connVars, lifeVars>>
        /\ \A s \in Replicas \ {r} : phase'[s] = phase[s]
    BY <1>1 DEF RunMigrate, MigrateStep, AskLock, Lock, LockFails, ReadApplied, Apply, Commit,
                AllApplied, StepFails, Unlock, Advance, TypeOK
  <2> QED
    BY <2>1 DEF connVars, TypeOK
<1>2. ASSUME NEW r \in Replicas, Postgres(r), UNCHANGED <<connVars, lifeVars>> PROVE Drained'
  <2>1. UNCHANGED phase
    BY <1>2 DEF Postgres, OrphanLocks, OrphanCommits, Reap
  <2> QED
    BY <1>2, <2>1 DEF connVars
<1>3. ASSUME NEW r \in Replicas, Start(r) \/ Connect(r) \/ Serve(r) \/ StartFails(r) \/ ShutdownBegins(r)
      PROVE  Drained'
  <2>1. r \notin clean
    BY <1>3 DEF Start, Connect, Serve, StartFails, ShutdownBegins
  <2> QED
    BY <1>3, <2>1 DEF Start, Connect, Serve, StartFails, ShutdownBegins, Advance, connVars, TypeOK
<1>4. ASSUME NEW r \in Replicas, ShutdownReturns(r) \/ ShutdownTimesOut(r) PROVE Drained'
  BY <1>4 DEF ShutdownReturns, ShutdownTimesOut, Advance, connVars, TypeOK
<1>5. ASSUME NEW r \in Replicas, ShutInbox(r) PROVE Drained'
  BY <1>5 DEF ShutInbox, Advance, connVars, TypeOK
<1>6. ASSUME NEW r \in Replicas, Exit(r) \/ ExitTimesOut(r) \/ ServeFails(r) PROVE Drained'
  BY <1>6 DEF Exit, ExitTimesOut, ServeFails, ProcessEnds, Advance, TypeOK
<1>7. ASSUME NEW r \in Replicas, Crash(r) PROVE Drained'
  BY <1>7 DEF Crash, ProcessEnds, Advance, TypeOK
<1>8. ASSUME NEW r \in Replicas, HubStops(r) PROVE Drained'
  BY <1>8 DEF HubStops, migrateVars, TypeOK, ConnTypeOK
<1>9. ASSUME NEW r \in Replicas, RequestBegins(r) \/ RequestEnds(r) \/ Signal(r) PROVE Drained'
  BY <1>9 DEF RequestBegins, RequestEnds, Signal, Accepting, migrateVars, connVars
<1>10. ASSUME NEW c \in Conns, HandshakeBegins(c) \/ Upgrade(c) PROVE Drained'
  BY <1>10, HomeAssumption DEF HandshakeBegins, Upgrade, Accepting, migrateVars, connVars
<1>11. ASSUME NEW c \in Conns, Add(c) \/ AddRefused(c) PROVE Drained'
  BY <1>11 DEF Add, AddRefused, migrateVars, TypeOK, ConnTypeOK
<1>12. ASSUME NEW c \in Conns, RunPumps(c) PROVE Drained'
  <2>1. send' = send \/ send' = [send EXCEPT ![c] = "closed"]
    BY <1>12 DEF RunPumps, Pumps, RejectBinary, Receive, RejectExcess, Rejected, ReadEnds, Drop,
                 TakeFrame, Ping, WriteEnds, WriteAborts, TakeClose, CloseEnds, HubPushes,
                 HubEvicts, writeRest
  <2> QED
    BY <1>12, <2>1 DEF RunPumps, migrateVars, TypeOK, ConnTypeOK
<1>13. CASE ClockTicks /\ UNCHANGED <<migrateVars, lifeVars>>
  BY <1>13 DEF ClockTicks, migrateVars
<1>14. CASE UNCHANGED vars
  BY <1>14 DEF vars, migrateVars, connVars
<1> QED
  BY <1>1, <1>2, <1>3, <1>4, <1>5, <1>6, <1>7, <1>8, <1>9, <1>10, <1>11, <1>12, <1>13, <1>14,
     NextKinds DEF PhaseStep, ServingStep

\* When run returns nil, every request was answered, the inbox hub was shut down and no
\* relay connection was left with an open send channel.
THEOREM ExitsDrained == Spec => []CleanExit
<1>1. Init => Drained
  BY DEF Init, ConnInit, Drained, HubsStopped
<1>2. TypeOK /\ Drained /\ [Next]_vars => Drained'
  BY DrainedNext
<1>3. TypeOK /\ Drained => CleanExit
  BY DEF Drained, CleanReplica, HubsStopped, CleanExit, At, TypeOK
<1> QED
  BY <1>1, <1>2, <1>3, ServerTypeCorrect, PTL DEF Spec
=============================================================================
