------------------------------- MODULE Migrate -------------------------------
(***************************************************************************)
(* The schema migrations a replica applies before it serves:                *)
(* internal/database/migrate.go, and what Postgres makes of it.             *)
(*                                                                         *)
(* A replica is one start of the process; a restart is another replica. It  *)
(* migrates on one Postgres session. The session can outlive the replica's  *)
(* interest in it: when the process dies, or pgx gives up on a command and  *)
(* closes the connection, the backend is an orphan that still waits for the *)
(* lock, holds it, or commits what it was asked to, until Postgres notices. *)
(***************************************************************************)
EXTENDS Integers, Sequences, FiniteSets

CONSTANTS
  Replicas,   \* starts of the server process
  Files,      \* migrationFiles: the embedded names in order
  NoReplica,  \* the advisory lock is free
  NoFile      \* the session has no open transaction

ASSUME ReplicasAssumption == IsFiniteSet(Replicas) /\ NoReplica \notin Replicas

Versions == {Files[i] : i \in DOMAIN Files}

\* "no migrations embedded" is an error, and a directory has no name twice.
ASSUME FilesAssumption ==
  /\ Files \in Seq(Versions) /\ Files # <<>> /\ NoFile \notin Versions
  /\ \A i, j \in DOMAIN Files : Files[i] = Files[j] => i = j

VARIABLES
  phase,     \* how far run has got in each replica
  session,   \* the Postgres session it migrates on: "none", "open" or "orphan"
  queued,    \* the sessions whose pg_advisory_lock has not been granted yet
  lock,      \* the session that holds the advisory lock
  applied,   \* the map appliedVersions returned to each replica
  tx,        \* the file in the session's open transaction, its version recorded
  ok,        \* whether Migrate is about to return nil
  recorded,  \* the rows of schema_migrations
  schema     \* history: the files whose statements have been committed, in order

pgVars == <<session, queued, lock, tx, recorded, schema>>
migrateVars == <<phase, pgVars, applied, ok>>

Migrating == {"locking", "reading", "applying", "committing", "unlocking"}

MigrateTypeOK ==
  /\ session \in [Replicas -> {"none", "open", "orphan"}]
  /\ queued \subseteq Replicas
  /\ lock \in Replicas \cup {NoReplica}
  /\ applied \in [Replicas -> SUBSET Versions]
  /\ tx \in [Replicas -> Versions \cup {NoFile}]
  /\ ok \in [Replicas -> BOOLEAN]
  /\ recorded \subseteq Versions
  /\ schema \in Seq(Versions)

\* A new database, or one that an earlier release has left at some version.
MigrateInit ==
  /\ session = [r \in Replicas |-> "none"]
  /\ queued = {}
  /\ lock = NoReplica
  /\ applied = [r \in Replicas |-> {}]
  /\ tx = [r \in Replicas |-> NoFile]
  /\ ok = [r \in Replicas |-> FALSE]
  /\ \E n \in 0 .. Len(Files) : schema = SubSeq(Files, 1, n)
  /\ recorded = {schema[i] : i \in DOMAIN schema}

Advance(r, p) == phase' = [phase EXCEPT ![r] = p]

-----------------------------------------------------------------------------
(* migrate.go *)

\* pool.Acquire, and pg_advisory_lock is sent.
AskLock(r) ==
  /\ phase[r] = "connected"
  /\ Advance(r, "locking")
  /\ session' = [session EXCEPT ![r] = "open"]
  /\ queued' = queued \cup {r}
  /\ UNCHANGED <<lock, tx, recorded, schema, applied, ok>>

LockNotAwaited(r) ==  \* mutant: pg_try_advisory_lock, whose answer is not looked at
  /\ phase[r] = "locking" /\ r \in queued
  /\ lock' = IF lock = NoReplica THEN r ELSE lock
  /\ queued' = queued \ {r}
  /\ Advance(r, "reading")
  /\ UNCHANGED <<session, tx, recorded, schema, applied, ok>>

\* The lock is granted.
Lock(r) ==
  /\ phase[r] = "locking" /\ r \in queued
  /\ lock = NoReplica
  /\ lock' = r
  /\ queued' = queued \ {r}
  /\ Advance(r, "reading")
  /\ UNCHANGED <<session, tx, recorded, schema, applied, ok>>

\* Postgres answers with an error. Or the startup context ends first, or the connection
\* breaks, and the request is left to the orphan. Migrate returns the error.
LockFails(r) ==
  /\ phase[r] = "locking"
  /\ Advance(r, "failed")
  /\ \/ session' = [session EXCEPT ![r] = "none"] /\ queued' = queued \ {r}
     \/ session' = [session EXCEPT ![r] = "orphan"] /\ UNCHANGED queued
  /\ UNCHANGED <<lock, tx, recorded, schema, applied, ok>>

\* CREATE TABLE IF NOT EXISTS and appliedVersions.
ReadApplied(r) ==
  /\ phase[r] = "reading"
  /\ applied' = [applied EXCEPT ![r] = recorded]
  /\ Advance(r, "applying")
  /\ UNCHANGED <<pgVars, ok>>

\* The files the loop has yet to apply.
Pending(r) == {i \in DOMAIN Files : Files[i] \notin applied[r]}

\* applyMigration up to the commit: the statements and the version, in one transaction.
Apply(r) ==
  /\ phase[r] = "applying"
  /\ \E i \in Pending(r) :
       /\ \A j \in Pending(r) : i <= j
       /\ tx' = [tx EXCEPT ![r] = Files[i]]
  /\ Advance(r, "committing")
  /\ UNCHANGED <<session, queued, lock, recorded, schema, applied, ok>>

CommitLosesVersion(r) ==  \* mutant: the version is not recorded with the statements
  /\ schema' = Append(schema, tx[r])
  /\ tx' = [tx EXCEPT ![r] = NoFile]
  /\ UNCHANGED recorded

\* Postgres commits the session's transaction.
CommitTx(r) ==
  /\ schema' = Append(schema, tx[r])
  /\ recorded' = recorded \cup {tx[r]}
  /\ tx' = [tx EXCEPT ![r] = NoFile]

Commit(r) ==
  /\ phase[r] = "committing"
  /\ CommitTx(r)
  /\ applied' = [applied EXCEPT ![r] = @ \cup {tx[r]}]
  /\ Advance(r, "applying")
  /\ UNCHANGED <<session, queued, lock, ok>>

\* The loop is over.
AllApplied(r) ==
  /\ phase[r] = "applying"
  /\ Pending(r) = {}
  /\ ok' = [ok EXCEPT ![r] = TRUE]
  /\ Advance(r, "unlocking")
  /\ UNCHANGED <<pgVars, applied>>

\* A command fails: the transaction is rolled back. Or its context ends, which closes the
\* connection, and the transaction is left to the orphan.
StepFails(r) ==
  /\ phase[r] \in {"reading", "applying", "committing"}
  /\ Advance(r, "unlocking")
  /\ \/ tx' = [tx EXCEPT ![r] = NoFile] /\ UNCHANGED session
     \/ session' = [session EXCEPT ![r] = "orphan"] /\ UNCHANGED tx
  /\ UNCHANGED <<queued, lock, recorded, schema, applied, ok>>

UnlockSkipped(r) ==  \* mutant: the connection goes back to the pool with the lock held
  /\ phase[r] = "unlocking"
  /\ session' = [session EXCEPT ![r] = IF @ = "open" THEN "none" ELSE @]
  /\ UNCHANGED lock
  /\ Advance(r, IF ok[r] THEN "migrated" ELSE "failed")
  /\ UNCHANGED <<queued, tx, recorded, schema, applied, ok>>

\* The deferred pg_advisory_unlock, which no cancellation stops, and Release. On a closed
\* connection, or one that breaks, it fails, which is logged and changes nothing else.
Unlock(r) ==
  /\ phase[r] = "unlocking"
  /\ \/ session[r] = "open" /\ session' = [session EXCEPT ![r] = "none"] /\ lock' = NoReplica
     \/ session' = [session EXCEPT ![r] = "orphan"] /\ UNCHANGED lock
  /\ Advance(r, IF ok[r] THEN "migrated" ELSE "failed")
  /\ UNCHANGED <<queued, tx, recorded, schema, applied, ok>>

-----------------------------------------------------------------------------
(* Postgres and its orphans *)

\* An abandoned pg_advisory_lock is granted all the same.
OrphanLocks(r) ==
  /\ session[r] = "orphan" /\ r \in queued
  /\ lock = NoReplica
  /\ lock' = r
  /\ queued' = queued \ {r}
  /\ UNCHANGED <<phase, session, tx, recorded, schema, applied, ok>>

\* A COMMIT whose reply nobody waits for any more.
OrphanCommits(r) ==
  /\ session[r] = "orphan" /\ tx[r] # NoFile
  /\ CommitTx(r)
  /\ UNCHANGED <<phase, session, queued, lock, applied, ok>>

\* Postgres notices that the client is gone: an open transaction is rolled back and a
\* session's advisory lock is freed with it.
Reap(r) ==
  /\ session[r] = "orphan"
  /\ session' = [session EXCEPT ![r] = "none"]
  /\ queued' = queued \ {r}
  /\ lock' = IF lock = r THEN NoReplica ELSE lock
  /\ tx' = [tx EXCEPT ![r] = NoFile]
  /\ UNCHANGED <<phase, recorded, schema, applied, ok>>

MigrateStep(r) ==
  \/ AskLock(r) \/ Lock(r) \/ LockFails(r) \/ ReadApplied(r) \/ Apply(r) \/ Commit(r)
  \/ AllApplied(r) \/ StepFails(r) \/ Unlock(r)

Postgres(r) == OrphanLocks(r) \/ OrphanCommits(r) \/ Reap(r)

-----------------------------------------------------------------------------
(* Properties *)

\* "applies every unapplied migration in filename order" (Migrate): however replicas start
\* together, crash between two commands or lose the reply to a COMMIT, the statements that
\* are in the database are those of a prefix of the files, each once, in order; the versions
\* recorded are exactly theirs; and no replica gets past Migrate before all of them are.
AppliedOnce ==
  /\ schema = SubSeq(Files, 1, Len(schema))
  /\ recorded = {schema[i] : i \in DOMAIN schema}
  /\ \A r \in Replicas : ok[r] => schema = Files

\* "several replicas starting at once cannot apply the same file concurrently: the losers
\* block, then find the work already recorded and skip it" (Migrate): a transaction is only
\* ever open in the session that holds the lock, for a file that is not yet recorded. The
\* transaction of a replica that is gone counts too.
NoDuplicateWork ==
  \A r \in Replicas : tx[r] # NoFile => lock = r /\ tx[r] \notin recorded
=============================================================================
