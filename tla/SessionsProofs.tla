---------------------------- MODULE SessionsProofs ----------------------------
(***************************************************************************)
(* Proofs about Sessions, for any number of concurrent requests, any       *)
(* lifetimes, any cap and any number of sessions.                          *)
(*                                                                         *)
(* Typed is the type invariant with what a request can know of.  On it     *)
(* rest four invariants, one per question: Capped (the pending trim that   *)
(* will see every indexed session), Dated (where a key's and a request's   *)
(* ExpiresAt come from), Lasting (how far a key's TTL reaches) and         *)
(* Covering (what keeps a live session in the index).                      *)
(***************************************************************************)
EXTENDS Sessions, FiniteSetTheorems, TLAPS

-----------------------------------------------------------------------------
(* Jobs *)

Holding == {"loaded", "expired", "revoking"}

\* What a job of each kind holds.
LEMMA JobFields ==
  ASSUME NEW j \in Jobs
  PROVE  /\ j.pc \in {"idle", "list", "scan", "listed"} \cup Holding
         /\ j.pc = "scan" => /\ j \in [pc : {"scan"}, todo : SUBSET Sessions, live : SUBSET Sessions,
                                       stale : SUBSET Sessions]
                             /\ j.todo \subseteq Sessions /\ j.live \subseteq Sessions
                             /\ j.stale \subseteq Sessions
         /\ j.pc \in Holding => j.id \in Sessions /\ j.exp \in Nat /\ j.seen \in Nat
         /\ j.pc = "listed" => /\ j.ids \subseteq Sessions /\ j.keep \in Sessions \cup {NoSession}
                               /\ j.upto \in 0 .. MaxSessions
BY DEF Jobs, Holding

\* A request that becomes j leaves every other request as it was.
LEMMA BecomeMoves ==
  ASSUME job \in [Requests -> Jobs], NEW r \in Requests, NEW j \in Jobs, Become(r, j)
  PROVE  /\ job' \in [Requests -> Jobs]
         /\ job'[r] = j
         /\ \A q \in Requests : q # r => job'[q] = job[q]
BY DEF Become

\* The jobs without fields.
LEMMA BareJobs ==
  /\ Idle \in Jobs /\ Idle.pc = "idle"
  /\ [pc |-> "list"] \in Jobs /\ [pc |-> "list"].pc = "list"
BY DEF Idle, Jobs

\* The job of trimSessions.
LEMMA ScanJob ==
  ASSUME NEW T \in SUBSET Sessions, NEW L \in SUBSET Sessions, NEW S \in SUBSET Sessions
  PROVE  LET k == [pc |-> "scan", todo |-> T, live |-> L, stale |-> S] IN
         k \in Jobs /\ k.pc = "scan" /\ k.todo = T /\ k.live = L /\ k.stale = S
BY DEF Jobs

\* Its steps.
LEMMA ScanMoves ==
  ASSUME NEW j \in Jobs, j.pc = "scan",
         NEW T \in SUBSET Sessions, NEW L \in SUBSET Sessions, NEW S \in SUBSET Sessions
  PROVE  LET k == [j EXCEPT !.todo = T, !.live = L, !.stale = S] IN
         k \in Jobs /\ k.pc = "scan" /\ k.todo = T /\ k.live = L /\ k.stale = S
<1>1. j \in [pc : {"scan"}, todo : SUBSET Sessions, live : SUBSET Sessions, stale : SUBSET Sessions]
  BY JobFields
<1> DEFINE k == [j EXCEPT !.todo = T, !.live = L, !.stale = S]
<1>2. /\ k \in [pc : {"scan"}, todo : SUBSET Sessions, live : SUBSET Sessions, stale : SUBSET Sessions]
      /\ k.todo = T /\ k.live = L /\ k.stale = S /\ k.pc = "scan"
  BY <1>1
<1> QED
  BY <1>2 DEF Jobs

\* The job of a request that has read a session.
LEMMA LoadedJob ==
  ASSUME TypeOK, NEW pc \in Holding, NEW s \in Sessions
  PROVE  /\ Loaded(pc, s) \in Jobs /\ Loaded(pc, s).pc = pc /\ Loaded(pc, s).id = s
         /\ Loaded(pc, s).exp = stored[s].exp /\ Loaded(pc, s).seen = stored[s].seen
<1>1. stored[s].exp \in Nat /\ stored[s].seen \in Nat
  BY DEF TypeOK, Stored
<1> QED
  BY <1>1 DEF Loaded, Jobs, Holding

-----------------------------------------------------------------------------
(* Redis *)

\* The sessions that were made are sessions of the model.
LEMMA MadeSessions ==
  ASSUME TypeOK
  PROVE  /\ 1 .. made \subseteq Sessions /\ keys \subseteq Sessions /\ index \subseteq Sessions
         /\ made \in Nat /\ now \in Nat
BY BoundsAssumption DEF TypeOK, Sessions

\* DEL, and what it does to the sessions that stay.
LEMMA DelMoves ==
  ASSUME TypeOK, NEW S, Del(S)
  PROVE  /\ keys' = keys \ S
         /\ stored' \in [Sessions -> Stored] /\ lastUse' \in [Sessions -> Nat]
         /\ \A s \in keys' : stored'[s] = stored[s] /\ lastUse'[s] = lastUse[s]
<1>1. keys \subseteq Sessions
  BY MadeSessions
<1>2. NoRecord \in Stored /\ 0 \in Nat
  BY BoundsAssumption DEF NoRecord, Stored
<1>3. stored \in [Sessions -> Stored] /\ lastUse \in [Sessions -> Nat]
  BY DEF TypeOK
<1>4. stored' \in [Sessions -> Stored]
  BY <1>2, <1>3 DEF Del
<1>5. lastUse' \in [Sessions -> Nat]
  BY <1>2, <1>3 DEF Del
<1>6. keys' = keys \ S
  BY DEF Del
<1>7. \A s \in keys' : stored'[s] = stored[s] /\ lastUse'[s] = lastUse[s]
  BY <1>1, <1>6 DEF Del
<1> QED
  BY <1>4, <1>5, <1>6, <1>7

\* The index and its expiry.
LEMMA IndexMoves ==
  ASSUME NEW S, NEW d \in Nat, Index(S, d)
  PROVE  index' = S /\ indexDies' \in Nat /\ (S # {} => indexDies' = d)
BY DEF Index

\* SET with the lifetime ttlFor computes: an expiry in time if there is any time left.
LEMMA SetMoves ==
  ASSUME TypeOK, NEW s \in Sessions, NEW exp \in Nat, Set(s, exp, now, ttlFor(exp))
  PROVE  /\ keys' = keys \cup {s}
         /\ stored' \in [Sessions -> Stored]
         /\ \A t \in Sessions : t # s => stored'[t] = stored[t]
         /\ stored'[s].exp = exp /\ stored'[s].seen = now
         /\ exp <= now => stored'[s].dies = NoTTL
         /\ exp > now => /\ stored'[s].dies # NoTTL /\ stored'[s].dies \in Nat
                         /\ now < stored'[s].dies /\ stored'[s].dies <= exp
                         /\ stored'[s].dies >= exp \/ stored'[s].dies >= now + idleTTL
         /\ stored'[s].dies <= now + idleTTL
<1>1. now \in Nat /\ idleTTL \in Nat \ {0} /\ stored \in [Sessions -> Stored]
  BY MadeSessions, TTLAssumption DEF TypeOK
<1>2. PICK dies : /\ dies = IF ttlFor(exp) > 0 THEN now + ttlFor(exp) ELSE NoTTL
                  /\ stored' = [stored EXCEPT ![s] = [exp |-> exp, seen |-> now, dies |-> dies]]
                  /\ keys' = keys \cup {s}
  BY DEF Set
<1>3. /\ exp <= now => dies = NoTTL
      /\ exp > now => /\ dies \in Nat /\ dies # NoTTL /\ now < dies /\ dies <= exp
                      /\ dies >= exp \/ dies >= now + idleTTL
      /\ dies <= now + idleTTL
  BY <1>1, <1>2 DEF ttlFor, NoTTL
<1>4. dies \in Nat \cup {NoTTL}
  BY <1>1, <1>3
<1>5. [exp |-> exp, seen |-> now, dies |-> dies] \in Stored
  BY <1>1, <1>4 DEF Stored
<1>6. stored'[s] = [exp |-> exp, seen |-> now, dies |-> dies]
  BY <1>1, <1>2
<1>7. stored' \in [Sessions -> Stored] /\ \A t \in Sessions : t # s => stored'[t] = stored[t]
  BY <1>1, <1>2, <1>5
<1>8. stored'[s].exp = exp /\ stored'[s].seen = now /\ stored'[s].dies = dies
  BY <1>6
<1> QED
  BY <1>2, <1>3, <1>7, <1>8

\* A set of sessions has an oldest one.
LEMMA OldestExists ==
  ASSUME NEW S, S \subseteq Nat, S # {}
  PROVE  Oldest(S) \in S /\ \A t \in S : Oldest(S) <= t
<1>1. \E x \in S : \A y \in S : ~ (<<y, x>> \in OpToRel(<, Nat))
  BY NatLessThanWellFounded, WFMin
<1>2. PICK x \in S : \A y \in S : ~ (<<y, x>> \in OpToRel(<, Nat))
  BY <1>1
<1>3. \A y \in S : ~ (y < x)
  BY <1>2 DEF OpToRel
<1>4. \A y \in S : x <= y
  BY <1>3
<1> QED
  BY <1>4 DEF Oldest

-----------------------------------------------------------------------------
(* Types, and the sessions a request knows of *)

\* A job only names sessions among the first n.
Known(j, n) ==
  /\ j.pc = "scan" => j.todo \cup j.live \cup j.stale \subseteq 1 .. n
  /\ j.pc \in Holding => j.id \in 1 .. n
  /\ j.pc = "listed" => j.upto <= n /\ j.ids \subseteq 1 .. j.upto

Typed == TypeOK /\ \A r \in Requests : Known(job[r], made)

\* A store without a session is in order.
LEMMA InitTyped == Init => Typed
<1> SUFFICES ASSUME Init PROVE Typed
  OBVIOUS
<1>1. NoRecord \in Stored /\ 0 \in Nat
  BY BoundsAssumption DEF NoRecord, Stored
<1>2. job \in [Requests -> Jobs]
  BY BareJobs DEF Init
<1>3. /\ stored \in [Sessions -> Stored] /\ expiry \in [Sessions -> Nat]
      /\ lastUse \in [Sessions -> Nat]
  BY <1>1 DEF Init
<1>4. made \in 0 .. MaxSessions /\ now \in Nat
  BY <1>1, BoundsAssumption DEF Init
<1>5. TypeOK
  BY <1>2, <1>3, <1>4 DEF Init, TypeOK
<1>6. \A r \in Requests : Known(job[r], made)
  BY BareJobs DEF Init, Known, Holding
<1> QED
  BY <1>5, <1>6 DEF Typed

\* What is known stays known when another session is made.
LEMMA KnownGrows ==
  ASSUME NEW m \in Nat, NEW n \in Nat, m <= n, NEW j \in Jobs, Known(j, m)
  PROVE  Known(j, n)
<1>1. 1 .. m \subseteq 1 .. n
  OBVIOUS
<1>2. j.pc = "listed" => j.upto \in Nat
  BY JobFields, BoundsAssumption
<1> QED
  BY <1>1, <1>2 DEF Known

\* A job without fields names no session.
LEMMA BareKnown ==
  ASSUME NEW n
  PROVE  Known(Idle, n) /\ Known([pc |-> "list"], n)
BY BareJobs DEF Known, Holding

\* A request that becomes j, while sessions may be made.
LEMMA JobsTyped ==
  ASSUME Typed, NEW r \in Requests, NEW j \in Jobs, Become(r, j),
         made' \in Nat, made <= made', Known(j, made')
  PROVE  /\ job' \in [Requests -> Jobs]
         /\ \A q \in Requests : Known(job'[q], made')
<1>1. job \in [Requests -> Jobs] /\ made \in Nat
  BY MadeSessions DEF Typed, TypeOK
<1>2. /\ job' \in [Requests -> Jobs] /\ job'[r] = j
      /\ \A q \in Requests : q # r => job'[q] = job[q]
  BY <1>1, BecomeMoves
<1>3. \A q \in Requests : Known(job[q], made')
  BY <1>1, KnownGrows DEF Typed
<1> QED
  BY <1>2, <1>3

\* A step that only moves one request on.
LEMMA MoveTyped ==
  ASSUME Typed, NEW r \in Requests, NEW j \in Jobs, Become(r, j), Known(j, made),
         UNCHANGED <<now, made, redisVars, expiry, revoked, trimmed, stray>>,
         lastUse' \in [Sessions -> Nat], untrimmed' \in BOOLEAN
  PROVE  Typed'
<1> USE DEF redisVars
<1>1. TypeOK /\ made \in Nat
  BY MadeSessions DEF Typed
<1>2. job' \in [Requests -> Jobs] /\ \A q \in Requests : Known(job'[q], made')
  BY <1>1, JobsTyped
<1>3. TypeOK'
  BY <1>1, <1>2 DEF TypeOK
<1> QED
  BY <1>2, <1>3 DEF Typed

\* A step that deletes keys and may shorten the index.
LEMMA DelTyped ==
  ASSUME Typed, NEW r \in Requests, NEW S, Del(S), NEW j \in Jobs, Become(r, j), Known(j, made),
         index' \subseteq 1 .. made, indexDies' \in Nat,
         revoked' \subseteq 1 .. made, trimmed' \subseteq 1 .. made,
         UNCHANGED <<now, made, expiry, stray, untrimmed>>
  PROVE  Typed'
<1>1. TypeOK /\ made \in Nat
  BY MadeSessions DEF Typed
<1>2. job' \in [Requests -> Jobs] /\ \A q \in Requests : Known(job'[q], made')
  BY <1>1, JobsTyped
<1>3. /\ keys' = keys \ S
      /\ stored' \in [Sessions -> Stored] /\ lastUse' \in [Sessions -> Nat]
      /\ \A s \in keys' : stored'[s] = stored[s]
  BY <1>1, DelMoves
<1>4. \A s \in keys' : stored'[s].dies <= now' + idleTTL
  BY <1>1, <1>3 DEF TypeOK
<1>5. keys' \subseteq 1 .. made'
  BY <1>1, <1>3 DEF TypeOK
<1>6. TypeOK'
  BY <1>1, <1>2, <1>3, <1>4, <1>5 DEF TypeOK
<1> QED
  BY <1>2, <1>6 DEF Typed

\* The clock keeps types: what is left to live gets shorter.
LEMMA TickTyped ==
  ASSUME Typed, Tick
  PROVE  Typed'
<1>1. TypeOK /\ now \in Nat /\ made \in Nat
  BY MadeSessions DEF Typed
<1>2. PICK S : /\ now < MaxTime[made] /\ now' = now + 1 /\ Del(S)
               /\ Index(IF indexDies <= now + 1 THEN {} ELSE index, indexDies)
               /\ UNCHANGED <<made, job, expiry, revoked, trimmed, stray, untrimmed>>
  BY DEF Tick
<1>3. /\ keys' = keys \ S
      /\ stored' \in [Sessions -> Stored] /\ lastUse' \in [Sessions -> Nat]
      /\ \A s \in keys' : stored'[s] = stored[s]
  BY <1>1, <1>2, DelMoves
<1>4. index' \subseteq index /\ indexDies' \in Nat
  BY <1>1, <1>2 DEF TypeOK, Index
<1>5. now' \in Nat
  BY <1>1, <1>2
<1>6. \A s \in keys' : stored'[s].dies <= now' + idleTTL
  <2> SUFFICES ASSUME NEW s \in keys' PROVE stored'[s].dies <= now' + idleTTL
    OBVIOUS
  <2>1. s \in keys /\ s \in Sessions /\ stored'[s].dies = stored[s].dies
    BY <1>1, <1>3, MadeSessions
  <2>2. stored[s] \in Stored /\ stored[s].dies <= now + idleTTL
    BY <1>1, <2>1 DEF TypeOK
  <2>3. stored[s].dies \in Int
    BY <2>2 DEF Stored, NoTTL
  <2> QED
    BY <1>1, <1>2, <2>1, <2>3, <2>2, TTLAssumption
<1>7. keys' \subseteq 1 .. made' /\ index' \subseteq 1 .. made'
  BY <1>1, <1>2, <1>3, <1>4 DEF TypeOK
<1>8. TypeOK'
  BY <1>1, <1>2, <1>3, <1>4, <1>5, <1>6, <1>7 DEF TypeOK
<1> QED
  BY <1>2, <1>8 DEF Typed

\* So does a SET, of a session that was read or is made now.
LEMMA SetTyped ==
  ASSUME Typed, NEW r \in Requests, NEW s \in 1 .. MaxSessions, NEW exp \in Nat,
         Set(s, exp, now, ttlFor(exp)), NEW j \in Jobs, Become(r, j), Known(j, made'),
         made' \in 0 .. MaxSessions, made <= made', s <= made',
         index' \subseteq 1 .. made', indexDies' \in Nat, expiry' \in [Sessions -> Nat],
         lastUse' = [lastUse EXCEPT ![s] = now], stray' \subseteq stray \cup {s},
         UNCHANGED <<now, revoked, trimmed, untrimmed>>
  PROVE  Typed'
<1>1. TypeOK /\ now \in Nat /\ made \in Nat /\ keys \subseteq Sessions /\ s \in Sessions /\ made' \in Nat
  BY MadeSessions, BoundsAssumption DEF Typed, Sessions
<1>2. job' \in [Requests -> Jobs] /\ \A q \in Requests : Known(job'[q], made')
  BY <1>1, JobsTyped
<1>3. /\ keys' = keys \cup {s}
      /\ stored' \in [Sessions -> Stored]
      /\ \A t \in Sessions : t # s => stored'[t] = stored[t]
      /\ stored'[s].dies <= now + idleTTL
  BY <1>1, SetMoves
<1>4. \A t \in keys' : stored'[t].dies <= now' + idleTTL
  BY <1>1, <1>3 DEF TypeOK
<1>5. lastUse' \in [Sessions -> Nat]
  BY <1>1 DEF TypeOK
<1>6. 1 .. made \subseteq 1 .. made' /\ s \in 1 .. made'
  BY <1>1
<1>7. /\ keys' \subseteq 1 .. made' /\ stray' \subseteq 1 .. made'
      /\ revoked' \subseteq 1 .. made' /\ trimmed' \subseteq 1 .. made'
  BY <1>1, <1>3, <1>6 DEF TypeOK
<1>8. TypeOK'
  BY <1>1, <1>2, <1>3, <1>4, <1>5, <1>7 DEF TypeOK
<1> QED
  BY <1>2, <1>8 DEF Typed

-----------------------------------------------------------------------------
(* The steps, with what is known of the request that takes them *)

\* The sessions a trim has listed, wherever they have got to.
Snapshot(j) == j.todo \cup j.live \cup j.stale

\* Create: the next session, until now + absoluteTTL.
LEMMA CreateStep ==
  ASSUME Typed, NEW r \in Requests, Create(r)
  PROVE  LET s == made + 1 IN
         /\ s \in 1 .. MaxSessions /\ s \in Sessions /\ s \notin 1 .. made
         /\ now + absoluteTTL \in Nat /\ now + absoluteTTL > now
         /\ made' = s /\ Become(r, [pc |-> "list"])
         /\ Set(s, now + absoluteTTL, now, ttlFor(now + absoluteTTL))
         /\ index' = index \cup {s} /\ indexDies' = now + absoluteTTL
         /\ expiry' = [expiry EXCEPT ![s] = now + absoluteTTL] /\ expiry' \in [Sessions -> Nat]
         /\ lastUse' = [lastUse EXCEPT ![s] = now]
         /\ stray \subseteq stray' /\ stray' \subseteq stray \cup {s}
         /\ (\E q \in Requests : job[q].pc = "listed") => s \in stray'
         /\ UNCHANGED <<now, revoked, trimmed, untrimmed>>
<1>1. TypeOK /\ made \in Nat /\ now \in Nat
  BY MadeSessions DEF Typed
<1>2. made + 1 \in 1 .. MaxSessions /\ made + 1 \notin 1 .. made
  BY <1>1, BoundsAssumption DEF Create
<1>3. now + absoluteTTL \in Nat /\ now + absoluteTTL > now
  BY <1>1, TTLAssumption
<1>4. /\ made' = made + 1 /\ Become(r, [pc |-> "list"])
      /\ Set(made + 1, now + absoluteTTL, now, ttlFor(now + absoluteTTL))
      /\ Index(index \cup {made + 1}, now + absoluteTTL)
      /\ expiry' = [expiry EXCEPT ![made + 1] = now + absoluteTTL]
      /\ lastUse' = [lastUse EXCEPT ![made + 1] = now]
      /\ stray' = IF \E q \in Requests : job[q].pc = "listed" THEN stray \cup {made + 1} ELSE stray
      /\ UNCHANGED <<now, revoked, trimmed, untrimmed>>
  BY DEF Create
<1>5. index' = index \cup {made + 1} /\ indexDies' = now + absoluteTTL
  BY <1>4 DEF Index
<1>6. expiry' \in [Sessions -> Nat]
  BY <1>1, <1>3, <1>4 DEF TypeOK
<1>7. /\ stray \subseteq stray' /\ stray' \subseteq stray \cup {made + 1}
      /\ (\E q \in Requests : job[q].pc = "listed") => made + 1 \in stray'
  BY <1>4
<1> QED
  BY <1>2, <1>3, <1>4, <1>5, <1>6, <1>7 DEF Sessions

\* TrimGet: the snapshot stays, and only a session without a key becomes stale.
LEMMA TrimGetStep ==
  ASSUME Typed, NEW r \in Requests, NEW s \in Sessions, TrimGet(r, s)
  PROVE  \E j \in Jobs :
           /\ job[r].pc = "scan" /\ j.pc = "scan" /\ Become(r, j) /\ Known(j, made)
           /\ Snapshot(j) = Snapshot(job[r])
           /\ \A t \in j.stale : t \in job[r].stale \/ t \notin keys
<1>1. TypeOK /\ Known(job[r], made) /\ job[r] \in Jobs /\ job[r].pc = "scan" /\ s \in job[r].todo
  BY DEF Typed, TypeOK, TrimGet
<1> DEFINE T == job[r].todo \ {s}
           L == IF s \in keys THEN job[r].live \cup {s} ELSE job[r].live
           S == IF s \in keys THEN job[r].stale ELSE job[r].stale \cup {s}
           j == [job[r] EXCEPT !.todo = T, !.live = L, !.stale = S]
<1>2. job[r].todo \subseteq Sessions /\ job[r].live \subseteq Sessions /\ job[r].stale \subseteq Sessions
  BY <1>1, JobFields
<1>3. T \in SUBSET Sessions /\ L \in SUBSET Sessions /\ S \in SUBSET Sessions
  BY <1>2
<1>4. T \cup L \cup S = Snapshot(job[r]) /\ \A t \in S : t \in job[r].stale \/ t \notin keys
  BY <1>1 DEF Snapshot
<1>5. Become(r, j)
  BY DEF TrimGet
<1> HIDE DEF T, L, S
<1>6. j \in Jobs /\ j.pc = "scan" /\ j.todo = T /\ j.live = L /\ j.stale = S
  <2>1. job[r] \in [pc : {"scan"}, todo : SUBSET Sessions, live : SUBSET Sessions, stale : SUBSET Sessions]
    BY <1>1, JobFields
  <2>2. /\ j \in [pc : {"scan"}, todo : SUBSET Sessions, live : SUBSET Sessions, stale : SUBSET Sessions]
        /\ j.pc = "scan" /\ j.todo = T /\ j.live = L /\ j.stale = S
    BY <1>3, <2>1
  <2> HIDE DEF j
  <2> QED
    BY <2>2 DEF Jobs
<1> HIDE DEF j
<1>7. Snapshot(j) = Snapshot(job[r])
  BY <1>4, <1>6 DEF Snapshot
<1>8. Known(j, made)
  BY <1>1, <1>6, <1>7 DEF Known, Snapshot, Holding
<1> QED
  BY <1>1, <1>4, <1>5, <1>6, <1>7, <1>8

\* The oldest of more than maxSessionsPerUsr sessions has that many younger ones.
LEMMA OldestHasYounger ==
  ASSUME NEW n \in Nat, NEW S, S \subseteq 1 .. n, Cardinality(S) > maxSessionsPerUsr
  PROVE  Oldest(S) \in S /\ n - Oldest(S) >= maxSessionsPerUsr
<1>1. IsFiniteSet(1 .. n) /\ IsFiniteSet(S) /\ Cardinality(S) \in Nat /\ maxSessionsPerUsr \in Nat
  <2>1. IsFiniteSet(1 .. n)
    BY FS_Interval
  <2>2. IsFiniteSet(S)
    BY <2>1, FS_Subset
  <2> QED
    BY <2>1, <2>2, FS_CardinalityType, BoundsAssumption
<1>2. S # {} /\ S \subseteq Nat
  BY <1>1, FS_EmptySet
<1>3. Oldest(S) \in S /\ \A t \in S : Oldest(S) <= t
  BY <1>2, OldestExists
<1>4. PICK s \in S : s = Oldest(S)
  BY <1>3
<1>5. s \in 1 .. n /\ s \in Int /\ n \in Int
  OBVIOUS
<1>6. S \ {s} \subseteq s + 1 .. n
  <2> SUFFICES ASSUME NEW t \in S, t # s PROVE t \in s + 1 .. n
    OBVIOUS
  <2>1. t \in 1 .. n /\ s <= t
    BY <1>3, <1>4
  <2> QED
    BY <1>5, <2>1
<1>7. IsFiniteSet(s + 1 .. n) /\ Cardinality(s + 1 .. n) = IF s + 1 > n THEN 0 ELSE n - (s + 1) + 1
  BY <1>5, FS_Interval
<1>8. Cardinality(s + 1 .. n) = n - s
  BY <1>5, <1>7
<1>9. Cardinality(S \ {s}) = Cardinality(S) - 1
  BY <1>1, FS_RemoveElement
<1>10. Cardinality(S \ {s}) <= Cardinality(s + 1 .. n)
  BY <1>6, <1>7, FS_Subset
<1>11. n - s >= maxSessionsPerUsr
  BY <1>1, <1>5, <1>8, <1>9, <1>10
<1> QED
  BY <1>3, <1>4, <1>11

\* TrimDel: one session is deleted and becomes stale.
LEMMA TrimDelStep ==
  ASSUME Typed, NEW r \in Requests, TrimDel(r)
  PROVE  \E j \in Jobs : \E s \in 1 .. made :
           /\ job[r].pc = "scan" /\ j.pc = "scan" /\ Become(r, j) /\ Known(j, made)
           /\ Snapshot(j) = Snapshot(job[r]) /\ j.stale = job[r].stale \cup {s}
           /\ Del({s}) /\ trimmed' = trimmed \cup {s} /\ made - s >= maxSessionsPerUsr
           /\ UNCHANGED <<now, made, index, indexDies, expiry, revoked, stray, untrimmed>>
<1>1. /\ TypeOK /\ made \in Nat /\ Known(job[r], made) /\ job[r] \in Jobs /\ job[r].pc = "scan"
      /\ Cardinality(job[r].live) > maxSessionsPerUsr
  BY MadeSessions DEF Typed, TypeOK, TrimDel
<1>2. job[r].live \subseteq 1 .. made
  BY <1>1 DEF Known
<1>3. PICK s \in job[r].live : s = Oldest(job[r].live) /\ made - s >= maxSessionsPerUsr
  BY <1>1, <1>2, OldestHasYounger
<1>4. /\ Del({s}) /\ trimmed' = trimmed \cup {s}
      /\ Become(r, [job[r] EXCEPT !.live = @ \ {s}, !.stale = @ \cup {s}])
      /\ UNCHANGED <<now, made, index, indexDies, expiry, revoked, stray, untrimmed>>
  BY <1>3 DEF TrimDel
<1>5. /\ job[r] \in [pc : {"scan"}, todo : SUBSET Sessions, live : SUBSET Sessions, stale : SUBSET Sessions]
  BY <1>1, JobFields
<1> DEFINE j == [job[r] EXCEPT !.live = @ \ {s}, !.stale = @ \cup {s}]
<1>6. /\ j \in [pc : {"scan"}, todo : SUBSET Sessions, live : SUBSET Sessions, stale : SUBSET Sessions]
      /\ j.pc = "scan" /\ j.todo = job[r].todo
      /\ j.live = job[r].live \ {s} /\ j.stale = job[r].stale \cup {s}
  BY <1>5
<1>7. Become(r, j)
  BY <1>4
<1> HIDE DEF j
<1>8. j \in Jobs
  BY <1>6 DEF Jobs
<1>9. Snapshot(j) = Snapshot(job[r])
  BY <1>6 DEF Snapshot
<1>10. Known(j, made)
  BY <1>1, <1>6, <1>9 DEF Known, Snapshot, Holding
<1> QED
  BY <1>1, <1>2, <1>3, <1>4, <1>6, <1>7, <1>8, <1>9, <1>10

\* Get and Revoke: the request holds what it read.
LEMMA ReadStep ==
  ASSUME Typed, NEW r \in Requests, NEW s \in Sessions, Get(r, s) \/ Revoke(r, s)
  PROVE  \E pc \in Holding :
           /\ s \in keys /\ Loaded(pc, s) \in Jobs /\ Known(Loaded(pc, s), made)
           /\ Become(r, Loaded(pc, s))
           /\ pc = "loaded" => ~ (now > stored[s].exp)
<1>1. TypeOK
  BY DEF Typed
<1>2. PICK pc \in Holding : /\ s \in keys /\ Become(r, Loaded(pc, s))
                            /\ pc = "loaded" => ~ (now > stored[s].exp)
  BY DEF Get, Revoke, Holding
<1>3. Loaded(pc, s) \in Jobs /\ Loaded(pc, s).pc = pc /\ Loaded(pc, s).id = s
  BY <1>1, LoadedJob
<1>4. Known(Loaded(pc, s), made)
  BY <1>1, <1>2, <1>3 DEF Known, TypeOK, Holding
<1> QED
  BY <1>2, <1>3, <1>4

\* TrimList: there is nothing to do, or the index is scanned.
LEMMA TrimListStep ==
  ASSUME Typed, NEW r \in Requests, TrimList(r)
  PROVE  \E j \in Jobs :
           /\ Become(r, j) /\ Known(j, made)
           /\ \/ j = Idle /\ Cardinality(index) <= maxSessionsPerUsr
              \/ j.pc = "scan" /\ Snapshot(j) = index /\ j.stale = {}
<1>1. TypeOK /\ index \subseteq Sessions
  BY MadeSessions DEF Typed
<1>2. CASE Cardinality(index) <= maxSessionsPerUsr
  BY <1>2, BareJobs, BareKnown DEF TrimList
<1>3. CASE ~ (Cardinality(index) <= maxSessionsPerUsr)
  <2> DEFINE j == [pc |-> "scan", todo |-> index, live |-> {}, stale |-> {}]
  <2>1. Become(r, j)
    BY <1>3 DEF TrimList
  <2>2. j \in Jobs /\ j.pc = "scan" /\ j.todo = index /\ j.live = {} /\ j.stale = {}
    BY <1>1, ScanJob
  <2> HIDE DEF j
  <2>3. Snapshot(j) = index
    BY <2>2 DEF Snapshot
  <2>4. Known(j, made)
    BY <1>1, <2>2 DEF Known, Holding, TypeOK
  <2> QED
    BY <2>1, <2>2, <2>3, <2>4
<1> QED
  BY <1>2, <1>3

\* RevokeAllList: the request remembers the index, and how many sessions were made.
LEMMA RevokeAllListStep ==
  ASSUME Typed, NEW r \in Requests, NEW keep \in {NoSession} \cup (1 .. made), RevokeAllList(r, keep)
  PROVE  \E j \in Jobs : /\ Become(r, j) /\ Known(j, made)
                         /\ j.pc = "listed" /\ j.ids = index /\ j.upto = made
<1>1. TypeOK /\ index \subseteq Sessions /\ 1 .. made \subseteq Sessions /\ made \in 0 .. MaxSessions
  BY MadeSessions DEF Typed, TypeOK
<1> DEFINE j == [pc |-> "listed", ids |-> index, keep |-> keep, upto |-> made]
<1>2. Become(r, j)
  BY DEF RevokeAllList
<1>3. j \in Jobs /\ j.pc = "listed" /\ j.ids = index /\ j.upto = made
  BY <1>1 DEF Jobs
<1> HIDE DEF j
<1>4. Known(j, made)
  BY <1>1, <1>3, BoundsAssumption DEF Known, Holding, TypeOK
<1> QED
  BY <1>2, <1>3, <1>4

\* Touch: the session as it was read, seen now.
LEMMA TouchStep ==
  ASSUME Typed, NEW r \in Requests, Touch(r)
  PROVE  LET s == job[r].id IN
         /\ job[r] \in Jobs /\ job[r].pc = "loaded" /\ s \in 1 .. made /\ s \in Sessions /\ job[r].exp \in Nat
         /\ Set(s, job[r].exp, now, ttlFor(job[r].exp))
         /\ lastUse' = [lastUse EXCEPT ![s] = now] /\ Become(r, Idle)
         /\ stray' = IF s \in keys THEN stray ELSE stray \cup {s}
         /\ UNCHANGED <<now, made, index, indexDies, expiry, revoked, trimmed, untrimmed>>
<1>1. TypeOK /\ Known(job[r], made) /\ job[r] \in Jobs /\ job[r].pc = "loaded"
  BY DEF Typed, TypeOK, Touch
<1>2. job[r].id \in 1 .. made /\ job[r].id \in Sessions /\ job[r].exp \in Nat
  BY <1>1, JobFields DEF Known, Holding
<1> QED
  BY <1>1, <1>2 DEF Touch

\* revokeByID: one session goes, with its index entry.
LEMMA RevokeStep ==
  ASSUME Typed, NEW r \in Requests, revokeByID(r)
  PROVE  \E s \in 1 .. made :
           /\ Del({s}) /\ index' = index \ {s} /\ indexDies' \in Nat
           /\ index' # {} => indexDies' = indexDies
           /\ revoked' = revoked \cup {s} /\ Become(r, Idle)
           /\ UNCHANGED <<now, made, expiry, trimmed, stray, untrimmed>>
<1>1. TypeOK /\ Known(job[r], made) /\ job[r].pc \in Holding
  BY DEF Typed, revokeByID, Holding
<1>2. PICK s \in 1 .. made : s = job[r].id
  BY <1>1 DEF Known
<1>3. index' = index \ {s} /\ indexDies' \in Nat /\ (index' # {} => indexDies' = indexDies)
  BY <1>1, <1>2 DEF revokeByID, Index, TypeOK
<1> QED
  BY <1>2, <1>3 DEF revokeByID

\* RevokeAllForUser: the listed sessions go, but for one that is kept.
LEMMA RevokeAllStep ==
  ASSUME Typed, NEW r \in Requests, RevokeAllForUser(r)
  PROVE  \E kept \in SUBSET job[r].ids :
           /\ job[r].pc = "listed" /\ job[r].ids \subseteq 1 .. made
           /\ Del(job[r].ids \ kept) /\ index' = kept /\ indexDies' \in Nat
           /\ index' # {} => indexDies' = now + absoluteTTL
           /\ kept \subseteq {job[r].keep}
           /\ revoked \subseteq revoked' /\ job[r].ids \ kept \subseteq revoked' /\ revoked' \subseteq 1 .. made
           /\ Become(r, Idle)
           /\ UNCHANGED <<now, made, expiry, trimmed, stray, untrimmed>>
<1>1. TypeOK /\ Known(job[r], made) /\ job[r] \in Jobs /\ job[r].pc = "listed" /\ made \in Nat /\ now \in Nat
  BY MadeSessions DEF Typed, TypeOK, RevokeAllForUser
<1>2. job[r].upto \in Nat /\ job[r].upto <= made /\ job[r].ids \subseteq 1 .. job[r].upto
  BY <1>1, JobFields, BoundsAssumption DEF Known
<1>3. 1 .. job[r].upto \subseteq 1 .. made
  BY <1>1, <1>2
<1> DEFINE kept == job[r].ids \cap {job[r].keep}
<1>4. /\ Del(job[r].ids \ kept) /\ Index(kept, now + absoluteTTL)
      /\ revoked' = revoked \cup ((1 .. job[r].upto) \ {job[r].keep}) /\ Become(r, Idle)
      /\ UNCHANGED <<now, made, expiry, trimmed, stray, untrimmed>>
  BY DEF RevokeAllForUser
<1>5. now + absoluteTTL \in Nat
  BY <1>1, TTLAssumption
<1>6. index' = kept /\ indexDies' \in Nat /\ (kept # {} => indexDies' = now + absoluteTTL)
  BY <1>4, <1>5, IndexMoves
<1>7. /\ revoked \subseteq revoked' /\ job[r].ids \ kept \subseteq revoked' /\ revoked' \subseteq 1 .. made
  BY <1>1, <1>2, <1>3, <1>4 DEF TypeOK
<1>8. kept \in SUBSET job[r].ids /\ kept \subseteq {job[r].keep}
  OBVIOUS
<1> HIDE DEF kept
<1> QED
  BY <1>1, <1>2, <1>3, <1>4, <1>6, <1>7, <1>8

\* TrimRem: the stale sessions leave the index.
LEMMA TrimRemStep ==
  ASSUME Typed, NEW r \in Requests, TrimRem(r)
  PROVE  /\ job[r].pc = "scan" /\ job[r].todo = {} /\ Cardinality(job[r].live) <= maxSessionsPerUsr
         /\ index' = index \ job[r].stale /\ indexDies' \in Nat
         /\ index' # {} => indexDies' = indexDies
         /\ Become(r, Idle)
         /\ UNCHANGED <<now, made, keys, stored, histVars>>
<1>1. indexDies \in Nat
  BY DEF Typed, TypeOK
<1> QED
  BY <1>1 DEF TrimRem, Index

\* TouchSkips: the session was used, and nothing is written.
LEMMA TouchSkipsStep ==
  ASSUME Typed, NEW r \in Requests, TouchSkips(r)
  PROVE  /\ job[r] \in Jobs /\ job[r].pc = "loaded" /\ job[r].id \in Sessions /\ job[r].seen \in Nat
         /\ now - job[r].seen < touchGranularity
         /\ lastUse' = [lastUse EXCEPT ![job[r].id] = now] /\ lastUse' \in [Sessions -> Nat]
         /\ Become(r, Idle)
         /\ UNCHANGED <<now, made, redisVars, expiry, revoked, trimmed, stray, untrimmed>>
<1>1. TypeOK /\ job[r] \in Jobs /\ job[r].pc = "loaded"
  BY DEF Typed, TypeOK, TouchSkips
<1>2. job[r].id \in Sessions /\ job[r].seen \in Nat
  BY <1>1, JobFields DEF Holding
<1>3. lastUse' = [lastUse EXCEPT ![job[r].id] = now] /\ lastUse' \in [Sessions -> Nat]
  BY <1>1, <1>2 DEF TouchSkips, TypeOK
<1> QED
  BY <1>1, <1>2, <1>3 DEF TouchSkips

\* Typed is inductive.
LEMMA NextTyped ==
  ASSUME Typed, [Next]_vars
  PROVE  Typed'
<1> USE DEF histVars
<1>0. TypeOK /\ made \in Nat
  BY MadeSessions DEF Typed
<1>a. lastUse \in [Sessions -> Nat] /\ untrimmed \in BOOLEAN
  BY <1>0 DEF TypeOK
<1>b. Idle \in Jobs /\ Known(Idle, made)
  BY BareJobs, BareKnown
<1>1. CASE UNCHANGED vars
  BY <1>1 DEF vars, redisVars, Typed, TypeOK
<1>2. ASSUME NEW r \in Requests, Create(r)
      PROVE  Typed'
  <2> DEFINE s == made + 1
  <2>1. /\ s \in 1 .. MaxSessions /\ now + absoluteTTL \in Nat
        /\ made' = s /\ Become(r, [pc |-> "list"])
        /\ Set(s, now + absoluteTTL, now, ttlFor(now + absoluteTTL))
        /\ index' = index \cup {s} /\ indexDies' = now + absoluteTTL
        /\ expiry' \in [Sessions -> Nat] /\ lastUse' = [lastUse EXCEPT ![s] = now]
        /\ stray' \subseteq stray \cup {s} /\ UNCHANGED <<now, revoked, trimmed, untrimmed>>
    BY <1>2, CreateStep
  <2>2. index' \subseteq 1 .. made' /\ made <= made' /\ s <= made' /\ made' \in 0 .. MaxSessions
    BY <1>0, <2>1 DEF TypeOK
  <2>3. [pc |-> "list"] \in Jobs /\ Known([pc |-> "list"], made')
    BY BareJobs, BareKnown
  <2> HIDE DEF s
  <2> QED
    BY <2>1, <2>2, <2>3, SetTyped
<1>3. ASSUME NEW r \in Requests, NEW j \in Jobs, Become(r, j), Known(j, made),
             UNCHANGED <<now, made, redisVars, histVars>>
      PROVE  Typed'
  BY <1>3, <1>a, MoveTyped
<1>4. ASSUME NEW r \in Requests, TrimList(r)
      PROVE  Typed'
  <2>1. \E j \in Jobs : Become(r, j) /\ Known(j, made)
    BY <1>4, TrimListStep
  <2>2. /\ UNCHANGED <<now, made, redisVars, expiry, lastUse, revoked, trimmed, stray>>
        /\ lastUse' \in [Sessions -> Nat] /\ untrimmed' \in BOOLEAN
    BY <1>4, <1>a DEF TrimList
  <2> QED
    BY <2>1, <2>2, MoveTyped
<1>5. ASSUME NEW r \in Requests, NEW s \in Sessions, TrimGet(r, s)
      PROVE  Typed'
  BY <1>3, <1>5, TrimGetStep DEF TrimGet
<1>6. ASSUME NEW r \in Requests, NEW s \in Sessions, Get(r, s) \/ Revoke(r, s)
      PROVE  Typed'
  BY <1>3, <1>6, ReadStep DEF Get, Revoke
<1>7. ASSUME NEW r \in Requests, NEW keep \in {NoSession} \cup (1 .. made), RevokeAllList(r, keep)
      PROVE  Typed'
  BY <1>3, <1>7, RevokeAllListStep DEF RevokeAllList
<1>8. ASSUME NEW r \in Requests, Abort(r)
      PROVE  Typed'
  BY <1>8, <1>a, <1>b, MoveTyped DEF Abort
<1>9. ASSUME NEW r \in Requests, TouchSkips(r)
      PROVE  Typed'
  BY <1>9, <1>a, <1>b, TouchSkipsStep, MoveTyped
<1>10. ASSUME NEW r \in Requests, Touch(r)
       PROVE  Typed'
  <2>1. PICK s \in 1 .. MaxSessions :
          /\ s \in 1 .. made
          /\ job[r].exp \in Nat /\ Set(s, job[r].exp, now, ttlFor(job[r].exp)) /\ Become(r, Idle)
          /\ lastUse' = [lastUse EXCEPT ![s] = now] /\ stray' \subseteq stray \cup {s}
          /\ UNCHANGED <<now, made, index, indexDies, expiry, revoked, trimmed, untrimmed>>
    BY <1>10, TouchStep DEF Sessions
  <2>2. /\ index' \subseteq 1 .. made' /\ made <= made' /\ s <= made' /\ made' \in 0 .. MaxSessions
        /\ indexDies' \in Nat /\ expiry' \in [Sessions -> Nat]
    BY <1>0, <2>1 DEF TypeOK
  <2>3. Known(Idle, made')
    BY BareKnown
  <2> QED
    BY <1>b, <2>1, <2>2, <2>3, SetTyped
<1>11. ASSUME NEW r \in Requests, TrimDel(r)
       PROVE  Typed'
  <2>1. PICK j \in Jobs, s \in 1 .. made :
          /\ Become(r, j) /\ Known(j, made) /\ Del({s}) /\ trimmed' = trimmed \cup {s}
          /\ UNCHANGED <<now, made, index, indexDies, expiry, revoked, stray, untrimmed>>
    BY <1>11, TrimDelStep
  <2>2. /\ index' \subseteq 1 .. made /\ indexDies' \in Nat
        /\ revoked' \subseteq 1 .. made /\ trimmed' \subseteq 1 .. made
    BY <1>0, <2>1 DEF TypeOK
  <2> QED
    BY <2>1, <2>2, DelTyped
<1>12. ASSUME NEW r \in Requests, TrimRem(r)
       PROVE  Typed'
  <2>1. /\ index' \subseteq index /\ indexDies' \in Nat /\ Become(r, Idle)
        /\ UNCHANGED <<now, made, keys, stored, histVars>>
    BY <1>12, TrimRemStep
  <2>2. job' \in [Requests -> Jobs] /\ \A q \in Requests : Known(job'[q], made')
    BY <1>0, <1>b, <2>1, JobsTyped
  <2>3. TypeOK'
    BY <1>0, <2>1, <2>2 DEF TypeOK
  <2> QED
    BY <2>2, <2>3 DEF Typed
<1>13. ASSUME NEW r \in Requests, revokeByID(r)
       PROVE  Typed'
  <2>1. PICK s \in 1 .. made :
           /\ Del({s}) /\ index' = index \ {s} /\ indexDies' \in Nat
           /\ revoked' = revoked \cup {s} /\ Become(r, Idle)
           /\ UNCHANGED <<now, made, expiry, trimmed, stray, untrimmed>>
    BY <1>13, RevokeStep
  <2>2. index' \subseteq 1 .. made /\ revoked' \subseteq 1 .. made /\ trimmed' \subseteq 1 .. made
    BY <1>0, <2>1 DEF TypeOK
  <2> QED
    BY <1>b, <2>1, <2>2, DelTyped
<1>14. ASSUME NEW r \in Requests, RevokeAllForUser(r)
       PROVE  Typed'
  <2>1. PICK kept \in SUBSET job[r].ids :
           /\ job[r].ids \subseteq 1 .. made
           /\ Del(job[r].ids \ kept) /\ index' = kept /\ indexDies' \in Nat
           /\ revoked' \subseteq 1 .. made /\ Become(r, Idle)
           /\ UNCHANGED <<now, made, expiry, trimmed, stray, untrimmed>>
    BY <1>14, RevokeAllStep
  <2>2. index' \subseteq 1 .. made /\ trimmed' \subseteq 1 .. made
    BY <1>0, <2>1 DEF TypeOK
  <2> QED
    BY <1>b, <2>1, <2>2, DelTyped
<1> QED
  BY <1>1, <1>2, <1>4, <1>5, <1>6, <1>7, <1>8, <1>9, <1>10, <1>11, <1>12, <1>13, <1>14, TickTyped
     DEF Next

\* The keys, the index and every request keep to their types, and only name sessions that
\* were made; a key with a TTL does not outlive the idle window from now.
THEOREM SessionsTypeCorrect == Spec => []TypeOK
<1>1. Typed => TypeOK
  BY DEF Typed
<1> QED
  BY <1>1, InitTyped, NextTyped, PTL DEF Spec

-----------------------------------------------------------------------------
(* trimSessions *)

\* Only TrimDel adds to what was trimmed, and sessions are only ever added.
LEMMA NextTrimsOldest ==
  ASSUME Typed, TrimsOldest, [Next]_vars
  PROVE  TrimsOldest'
<1>0. made \in Nat /\ maxSessionsPerUsr \in Nat /\ trimmed \subseteq 1 .. made
  BY MadeSessions, BoundsAssumption DEF Typed, TypeOK
<1>1. CASE UNCHANGED <<made, trimmed>>
  BY <1>1 DEF TrimsOldest
<1>2. ASSUME NEW r \in Requests, Create(r)
      PROVE  TrimsOldest'
  <2>1. made' = made + 1 /\ trimmed' = trimmed
    BY <1>2 DEF Create
  <2> SUFFICES ASSUME NEW s \in trimmed' PROVE made' - s >= maxSessionsPerUsr
    BY DEF TrimsOldest
  <2>2. made - s >= maxSessionsPerUsr /\ s \in Int
    BY <1>0, <2>1 DEF TrimsOldest
  <2> QED
    BY <1>0, <2>1, <2>2
<1>3. ASSUME NEW r \in Requests, TrimDel(r)
      PROVE  TrimsOldest'
  <2>1. PICK s \in 1 .. made :
          trimmed' = trimmed \cup {s} /\ made - s >= maxSessionsPerUsr /\ made' = made
    BY <1>3, TrimDelStep
  <2> SUFFICES ASSUME NEW t \in trimmed' PROVE made' - t >= maxSessionsPerUsr
    BY DEF TrimsOldest
  <2>2. CASE t = s
    BY <2>1, <2>2
  <2>3. CASE t \in trimmed
    BY <2>1, <2>3 DEF TrimsOldest
  <2> QED
    BY <2>1, <2>2, <2>3
<1>4. ASSUME NEW r \in Requests,
             \/ TrimList(r) \/ TrimRem(r) \/ TouchSkips(r) \/ Touch(r)
             \/ revokeByID(r) \/ RevokeAllForUser(r) \/ Abort(r)
             \/ \E s \in Sessions : TrimGet(r, s) \/ Get(r, s) \/ Revoke(r, s)
             \/ \E keep \in {NoSession} \cup (1 .. made) : RevokeAllList(r, keep)
      PROVE  UNCHANGED <<made, trimmed>>
  BY <1>4 DEF TrimList, TrimRem, TouchSkips, Touch, revokeByID, RevokeAllForUser, Abort, TrimGet,
              Get, Revoke, RevokeAllList, histVars
<1>5. UNCHANGED vars \/ Tick => UNCHANGED <<made, trimmed>>
  BY DEF vars, histVars, Tick
<1> QED
  BY <1>1, <1>2, <1>3, <1>4, <1>5 DEF Next

\* However many logins trim at the same time, each from its own snapshot of the index,
\* none of them ever drops a session that has fewer than maxSessionsPerUsr younger ones.
THEOREM TrimsTheOldest == Spec => []TrimsOldest
<1>1. Init => TrimsOldest
  BY DEF Init, TrimsOldest
<1> QED
  BY <1>1, InitTyped, NextTyped, NextTrimsOldest, PTL DEF Spec

\* A trim that will look at every session in the index, now or when it lists it.
Covers(j) == j.pc = "list" \/ (j.pc = "scan" /\ index \subseteq Snapshot(j))

\* The inductive form of the cap, which bounds the whole index.
Capped ==
  \/ untrimmed
  \/ Cardinality(index) <= maxSessionsPerUsr
  \/ \E r \in Requests : Covers(job[r])

\* A part of a small index is small.
LEMMA SmallerIndex ==
  ASSUME TypeOK, NEW S, S \subseteq index
  PROVE  IsFiniteSet(S) /\ Cardinality(S) \in Nat /\ Cardinality(S) <= Cardinality(index)
         /\ Cardinality(index) \in Nat
<1>1. index \subseteq 1 .. made /\ made \in Nat
  BY MadeSessions DEF TypeOK
<1>2. IsFiniteSet(1 .. made)
  BY <1>1, FS_Interval
<1>3. IsFiniteSet(index)
  BY <1>1, <1>2, FS_Subset
<1> QED
  BY <1>3, FS_Subset, FS_CardinalityType

\* A request that was not trimming, or that goes on trimming what it listed.
LEMMA CappedMoves ==
  ASSUME Typed, Capped, NEW r \in Requests, NEW j \in Jobs, Become(r, j), index' \subseteq index,
         untrimmed' = untrimmed,
         Covers(job[r]) => \/ j.pc = "scan" /\ index' \subseteq Snapshot(j)
                           \/ Cardinality(index') <= maxSessionsPerUsr
  PROVE  Capped'
<1>1. TypeOK /\ maxSessionsPerUsr \in Nat
  BY BoundsAssumption DEF Typed
<1>2. job'[r] = j /\ \A q \in Requests : q # r => job'[q] = job[q]
  BY <1>1, BecomeMoves DEF TypeOK
<1>3. CASE untrimmed
  BY <1>3 DEF Capped
<1>4. CASE Cardinality(index) <= maxSessionsPerUsr
  <2>1. Cardinality(index') <= Cardinality(index) /\ Cardinality(index') \in Nat /\ Cardinality(index) \in Nat
    BY <1>1, SmallerIndex
  <2>2. Cardinality(index') <= maxSessionsPerUsr
    BY <1>1, <1>4, <2>1
  <2> QED
    BY <2>2 DEF Capped
<1>5. CASE Covers(job[r])
  BY <1>2, <1>5 DEF Capped, Covers
<1>6. ASSUME NEW q \in Requests, Covers(job[q]), q # r
      PROVE  Capped'
  BY <1>2, <1>6 DEF Capped, Covers
<1> QED
  BY <1>3, <1>4, <1>5, <1>6 DEF Capped

\* Capped is inductive, given the types.
LEMMA NextCapped ==
  ASSUME Typed, Capped, [Next]_vars
  PROVE  Capped'
<1> USE DEF histVars, redisVars
<1>0. TypeOK /\ maxSessionsPerUsr \in Nat \ {0}
  BY BoundsAssumption DEF Typed
<1>a. Idle \in Jobs
  BY BareJobs
<1>1. CASE UNCHANGED vars
  BY <1>1 DEF vars, Capped, Covers
<1>2. CASE Tick
  <2>1. index' \subseteq index /\ UNCHANGED <<untrimmed, job>>
    BY <1>2 DEF Tick, Index
  <2>2. Cardinality(index') <= Cardinality(index) /\ Cardinality(index') \in Nat /\ Cardinality(index) \in Nat
    BY <1>0, <2>1, SmallerIndex
  <2>3. Cardinality(index) <= maxSessionsPerUsr => Cardinality(index') <= maxSessionsPerUsr
    BY <1>0, <2>2
  <2>4. \A r \in Requests : Covers(job[r]) => Covers(job[r])'
    BY <2>1 DEF Covers
  <2> QED
    BY <2>1, <2>3, <2>4 DEF Capped
<1>3. ASSUME NEW r \in Requests, Create(r)
      PROVE  Capped'
  <2>1. job'[r] = [pc |-> "list"]
    BY <1>0, <1>3, BareJobs, BecomeMoves DEF Create, TypeOK
  <2> QED
    BY <2>1 DEF Capped, Covers
<1>4. ASSUME NEW r \in Requests, TrimList(r)
      PROVE  Capped'
  <2>1. PICK j \in Jobs : /\ Become(r, j)
                          /\ \/ j = Idle /\ Cardinality(index) <= maxSessionsPerUsr
                             \/ j.pc = "scan" /\ Snapshot(j) = index
    BY <1>4, TrimListStep
  <2>2. index' = index /\ job'[r] = j
    BY <1>0, <1>4, <2>1, BecomeMoves DEF TrimList, TypeOK
  <2>3. CASE Cardinality(index) <= maxSessionsPerUsr
    BY <2>2, <2>3 DEF Capped
  <2>4. CASE j.pc = "scan" /\ Snapshot(j) = index
    BY <2>2, <2>4 DEF Capped, Covers
  <2> QED
    BY <2>1, <2>3, <2>4
<1>5. ASSUME NEW r \in Requests, NEW s \in Sessions, TrimGet(r, s)
      PROVE  Capped'
  <2>1. PICK j \in Jobs : /\ job[r].pc = "scan" /\ j.pc = "scan" /\ Become(r, j)
                          /\ Snapshot(j) = Snapshot(job[r])
    BY <1>5, TrimGetStep
  <2>2. index' = index /\ untrimmed' = untrimmed
    BY <1>5 DEF TrimGet
  <2>3. Covers(job[r]) => index' \subseteq Snapshot(j)
    BY <2>1, <2>2 DEF Covers
  <2> QED
    BY <2>1, <2>2, <2>3, CappedMoves
<1>6. ASSUME NEW r \in Requests, TrimDel(r)
      PROVE  Capped'
  <2>1. PICK j \in Jobs : /\ job[r].pc = "scan" /\ j.pc = "scan" /\ Become(r, j)
                          /\ Snapshot(j) = Snapshot(job[r])
                          /\ index' = index /\ untrimmed' = untrimmed
    BY <1>6, TrimDelStep
  <2>2. Covers(job[r]) => index' \subseteq Snapshot(j)
    BY <2>1 DEF Covers
  <2> QED
    BY <2>1, <2>2, CappedMoves
<1>7. ASSUME NEW r \in Requests, TrimRem(r)
      PROVE  Capped'
  <2>1. /\ job[r].pc = "scan" /\ job[r].todo = {} /\ Cardinality(job[r].live) <= maxSessionsPerUsr
        /\ index' = index \ job[r].stale /\ Become(r, Idle) /\ untrimmed' = untrimmed
    BY <1>7, TrimRemStep
  <2>2. Covers(job[r]) => Cardinality(index') <= maxSessionsPerUsr
    <3> SUFFICES ASSUME Covers(job[r]) PROVE Cardinality(index') <= maxSessionsPerUsr
      OBVIOUS
    <3>1. index' \subseteq job[r].live
      BY <2>1 DEF Covers, Snapshot
    <3>2. job[r].live \subseteq 1 .. made /\ made \in Nat
      BY <1>0, <2>1, MadeSessions DEF Typed, Known
    <3>3. IsFiniteSet(1 .. made)
      BY <3>2, FS_Interval
    <3>4. IsFiniteSet(job[r].live)
      BY <3>2, <3>3, FS_Subset
    <3>5. Cardinality(index') <= Cardinality(job[r].live) /\ IsFiniteSet(index')
      BY <3>1, <3>4, FS_Subset
    <3>6. Cardinality(index') \in Nat /\ Cardinality(job[r].live) \in Nat
      BY <3>4, <3>5, FS_CardinalityType
    <3> QED
      BY <1>0, <2>1, <3>5, <3>6
  <2>3. index' \subseteq index
    BY <2>1
  <2> QED
    BY <1>a, <2>1, <2>2, <2>3, CappedMoves
<1>8. ASSUME NEW r \in Requests, Abort(r)
      PROVE  Capped'
  <2>1. index' = index /\ Become(r, Idle) /\ untrimmed' = (untrimmed \/ job[r].pc \in {"list", "scan"})
    BY <1>8 DEF Abort
  <2>2. CASE job[r].pc \in {"list", "scan"}
    BY <2>1, <2>2 DEF Capped
  <2>3. CASE job[r].pc \notin {"list", "scan"}
    <3>1. ~ Covers(job[r])
      BY <2>3 DEF Covers
    <3>2. untrimmed \in BOOLEAN
      BY <1>0 DEF TypeOK
    <3>3. untrimmed' = untrimmed
      BY <2>1, <2>3, <3>2
    <3> QED
      BY <1>a, <2>1, <3>1, <3>3, CappedMoves
  <2> QED
    BY <2>2, <2>3
<1>9. ASSUME NEW r \in Requests, NEW j \in Jobs, Become(r, j), index' \subseteq index,
             untrimmed' = untrimmed, job[r].pc \notin {"list", "scan"}
      PROVE  Capped'
  <2>1. ~ Covers(job[r])
    BY <1>9 DEF Covers
  <2> QED
    BY <1>9, <2>1, CappedMoves
<1>10. ASSUME NEW r \in Requests, TouchSkips(r) \/ Touch(r)
       PROVE  Capped'
  <2>1. /\ Become(r, Idle) /\ index' \subseteq index /\ untrimmed' = untrimmed
        /\ job[r].pc \notin {"list", "scan"}
    BY <1>10 DEF TouchSkips, Touch
  <2> QED
    BY <1>9, <1>a, <2>1
<1>11. ASSUME NEW r \in Requests, revokeByID(r)
       PROVE  Capped'
  <2>1. /\ Become(r, Idle) /\ index' \subseteq index /\ untrimmed' = untrimmed
        /\ job[r].pc \notin {"list", "scan"}
    BY <1>11 DEF revokeByID, Index
  <2> QED
    BY <1>9, <1>a, <2>1
<1>12. ASSUME NEW r \in Requests, NEW s \in Sessions, Get(r, s) \/ Revoke(r, s)
       PROVE  Capped'
  <2>1. \E j \in Jobs : Become(r, j)
    BY <1>12, ReadStep
  <2>2. index' \subseteq index /\ untrimmed' = untrimmed /\ job[r].pc \notin {"list", "scan"}
    BY <1>12, BareJobs DEF Get, Revoke
  <2> QED
    BY <1>9, <2>1, <2>2
<1>13. ASSUME NEW r \in Requests, NEW keep \in {NoSession} \cup (1 .. made), RevokeAllList(r, keep)
       PROVE  Capped'
  <2>1. \E j \in Jobs : Become(r, j)
    BY <1>13, RevokeAllListStep
  <2>2. index' \subseteq index /\ untrimmed' = untrimmed /\ job[r].pc \notin {"list", "scan"}
    BY <1>13, BareJobs DEF RevokeAllList
  <2> QED
    BY <1>9, <2>1, <2>2
<1>14. ASSUME NEW r \in Requests, RevokeAllForUser(r)
       PROVE  Capped'
  <2>1. PICK k : index' \subseteq {k}
    BY <1>14, RevokeAllStep
  <2>2. Cardinality(index') <= 1 /\ Cardinality(index') \in Nat
    <3>1. IsFiniteSet({k}) /\ Cardinality({k}) = 1
      BY FS_Singleton
    <3>2. IsFiniteSet(index') /\ Cardinality(index') <= Cardinality({k})
      BY <2>1, <3>1, FS_Subset
    <3> QED
      BY <3>1, <3>2, FS_CardinalityType
  <2>3. Cardinality(index') <= maxSessionsPerUsr
    BY <1>0, <2>2
  <2> QED
    BY <2>3 DEF Capped
<1> QED
  BY <1>1, <1>2, <1>3, <1>4, <1>5, <1>6, <1>7, <1>8, <1>10, <1>11, <1>12, <1>13, <1>14 DEF Next

\* At most maxSessionsPerUsr indexed sessions are alive once no login is trimming: the trim
\* that listed the index last has seen whatever is in it, what a failed trim left too. Only
\* from a failed trim to the next login that lists the index may there be more.
THEOREM CapIsKept == Spec => []CapHolds
<1>1. Init => Capped
  <2> SUFFICES ASSUME Init PROVE Capped
    OBVIOUS
  <2>1. Cardinality(index) = 0
    BY FS_EmptySet DEF Init
  <2> QED
    BY <2>1, BoundsAssumption DEF Capped
<1>2. Typed /\ Capped => CapHolds
  <2> SUFFICES ASSUME Typed, Capped, ~ untrimmed, \A r \in Requests : job[r].pc \notin {"list", "scan"}
               PROVE  Cardinality(index \cap keys) <= maxSessionsPerUsr
    BY DEF CapHolds
  <2>1. TypeOK /\ maxSessionsPerUsr \in Nat
    BY BoundsAssumption DEF Typed
  <2>2. Cardinality(index) <= maxSessionsPerUsr
    BY DEF Capped, Covers
  <2>3. /\ Cardinality(index \cap keys) <= Cardinality(index)
        /\ Cardinality(index \cap keys) \in Nat /\ Cardinality(index) \in Nat
    BY <2>1, SmallerIndex
  <2> QED
    BY <2>1, <2>2, <2>3
<1> QED
  BY <1>1, <1>2, InitTyped, NextTyped, NextCapped, PTL DEF Spec

-----------------------------------------------------------------------------
(* Steps that write no key: all but Create and Touch *)

Shrinks ==
  /\ now' \in Nat /\ now <= now' /\ keys' \subseteq keys
  /\ UNCHANGED <<made, expiry, stray>>
  /\ \A s \in keys' : /\ stored'[s] = stored[s]
                      /\ now' = now \/ stored[s].dies = NoTTL \/ now' < stored[s].dies

\* What becomes of request q in such a step.
Turns(q) ==
  \/ job'[q] = job[q] \/ job'[q].pc = "idle"
  \/ \E pc \in Holding, s \in keys \cap keys' :
       job'[q] = Loaded(pc, s) /\ (pc = "loaded" => ~ (now > stored[s].exp))
  \/ /\ job'[q].pc = "scan"
     /\ \A t \in job'[q].stale : t \notin keys' \/ (job[q].pc = "scan" /\ t \in job[q].stale)
  \/ job'[q].pc = "listed" /\ job'[q].ids = index /\ keys' = keys

\* The turn of one request is that of all.
LEMMA OneTurns ==
  ASSUME TypeOK, NEW r \in Requests, NEW j \in Jobs, Become(r, j),
         job'[r] = j => Turns(r)
  PROVE  \A q \in Requests : Turns(q)
<1>1. job'[r] = j /\ \A q \in Requests : q # r => job'[q] = job[q]
  BY BecomeMoves DEF TypeOK
<1> QED
  BY <1>1 DEF Turns

\* Nothing in Redis but the index changes.
LEMMA StillShrinks ==
  ASSUME TypeOK, UNCHANGED <<now, made, keys, stored, expiry, stray>>
  PROVE  Shrinks
<1>1. now \in Nat
  BY MadeSessions
<1> QED
  BY <1>1 DEF Shrinks

\* Keys are deleted at one time.
LEMMA DelShrinks ==
  ASSUME TypeOK, NEW S, Del(S), UNCHANGED <<now, made, expiry, stray>>
  PROVE  Shrinks
<1>1. now \in Nat
  BY MadeSessions
<1>2. keys' = keys \ S /\ \A s \in keys' : stored'[s] = stored[s]
  BY DelMoves
<1> QED
  BY <1>1, <1>2 DEF Shrinks

\* The clock drops exactly what has run out.
LEMMA TickShrinks ==
  ASSUME TypeOK, Tick
  PROVE  /\ Shrinks /\ now' = now + 1 /\ UNCHANGED job
         /\ \A s \in keys \ keys' : stored[s].dies # NoTTL /\ stored[s].dies <= now + 1
         /\ \A s \in keys' : stored[s].dies = NoTTL \/ ~ (stored[s].dies <= now + 1)
         /\ \A s \in keys' : lastUse'[s] = lastUse[s]
<1>1. now \in Nat
  BY MadeSessions
<1> DEFINE dead == {s \in keys : stored[s].dies # NoTTL /\ stored[s].dies <= now + 1}
<1>2. now' = now + 1 /\ Del(dead) /\ UNCHANGED <<made, job, expiry, stray>>
  BY DEF Tick
<1>3. /\ keys' = keys \ dead
      /\ \A s \in keys' : stored'[s] = stored[s] /\ lastUse'[s] = lastUse[s]
  BY <1>2, DelMoves
<1>4. /\ \A s \in keys \ keys' : stored[s].dies # NoTTL /\ stored[s].dies <= now + 1
      /\ \A s \in keys' : stored[s].dies = NoTTL \/ ~ (stored[s].dies <= now + 1)
  BY <1>3
<1>5. \A s \in keys' : stored[s].dies = NoTTL \/ now + 1 < stored[s].dies
  <2> SUFFICES ASSUME NEW s \in keys', stored[s].dies # NoTTL PROVE now + 1 < stored[s].dies
    OBVIOUS
  <2>1. s \in Sessions
    BY <1>3, MadeSessions
  <2>2. stored[s].dies \in Nat
    BY <2>1 DEF TypeOK, Stored
  <2> QED
    BY <1>1, <1>4, <2>2
<1>6. now' \in Nat /\ now <= now'
  BY <1>1, <1>2
<1> QED
  BY <1>2, <1>3, <1>4, <1>5, <1>6 DEF Shrinks

\* Every step but Create and Touch is of this kind.
LEMMA NextShrinks ==
  ASSUME Typed, [Next]_vars
  PROVE  \/ \E r \in Requests : Create(r) \/ Touch(r)
         \/ Shrinks /\ \A q \in Requests : Turns(q)
<1> USE DEF histVars, redisVars
<1> DEFINE Goal == Shrinks /\ \A q \in Requests : Turns(q)
<1>0. TypeOK /\ job \in [Requests -> Jobs]
  BY DEF Typed, TypeOK
<1>1. CASE UNCHANGED vars
  BY <1>0, <1>1, StillShrinks DEF vars, Turns
<1>2. CASE Tick
  BY <1>0, <1>2, TickShrinks DEF Turns
<1>a. ASSUME NEW r \in Requests, Become(r, Idle)
      PROVE  \A q \in Requests : Turns(q)
  BY <1>0, <1>a, BareJobs, OneTurns DEF Turns
<1>3. ASSUME NEW r \in Requests, TrimList(r)
      PROVE  Goal
  <2>1. PICK j \in Jobs : Become(r, j) /\ (j = Idle \/ (j.pc = "scan" /\ j.stale = {}))
    BY <1>3, TrimListStep
  <2>2. job'[r] = j => Turns(r)
    BY <2>1, BareJobs DEF Turns
  <2>3. Shrinks
    BY <1>0, <1>3, StillShrinks DEF TrimList
  <2> QED
    BY <1>0, <2>1, <2>2, <2>3, OneTurns
<1>4. ASSUME NEW r \in Requests, NEW s \in Sessions, TrimGet(r, s)
      PROVE  Goal
  <2>1. PICK j \in Jobs : /\ job[r].pc = "scan" /\ j.pc = "scan" /\ Become(r, j)
                          /\ \A t \in j.stale : t \in job[r].stale \/ t \notin keys
    BY <1>4, TrimGetStep
  <2>2. keys' = keys /\ Shrinks
    BY <1>0, <1>4, StillShrinks DEF TrimGet
  <2>3. job'[r] = j => Turns(r)
    BY <2>1, <2>2 DEF Turns
  <2> QED
    BY <1>0, <2>1, <2>2, <2>3, OneTurns
<1>5. ASSUME NEW r \in Requests, NEW s \in Sessions, Get(r, s) \/ Revoke(r, s)
      PROVE  Goal
  <2>1. PICK pc \in Holding : /\ s \in keys /\ Loaded(pc, s) \in Jobs /\ Become(r, Loaded(pc, s))
                              /\ pc = "loaded" => ~ (now > stored[s].exp)
    BY <1>5, ReadStep
  <2>2. keys' = keys /\ Shrinks
    BY <1>0, <1>5, StillShrinks DEF Get, Revoke
  <2>3. job'[r] = Loaded(pc, s) => Turns(r)
    BY <2>1, <2>2 DEF Turns
  <2> QED
    BY <1>0, <2>1, <2>2, <2>3, OneTurns
<1>6. ASSUME NEW r \in Requests, NEW keep \in {NoSession} \cup (1 .. made), RevokeAllList(r, keep)
      PROVE  Goal
  <2>1. PICK j \in Jobs : Become(r, j) /\ j.pc = "listed" /\ j.ids = index
    BY <1>6, RevokeAllListStep
  <2>2. keys' = keys /\ Shrinks
    BY <1>0, <1>6, StillShrinks DEF RevokeAllList
  <2>3. job'[r] = j => Turns(r)
    BY <2>1, <2>2 DEF Turns
  <2> QED
    BY <1>0, <2>1, <2>2, <2>3, OneTurns
<1>7. ASSUME NEW r \in Requests, Abort(r) \/ TouchSkips(r)
      PROVE  Goal
  <2>1. Become(r, Idle) /\ UNCHANGED <<now, made, keys, stored, expiry, stray>>
    BY <1>7 DEF Abort, TouchSkips
  <2> QED
    BY <1>0, <1>a, <2>1, StillShrinks
<1>8. ASSUME NEW r \in Requests, TrimRem(r)
      PROVE  Goal
  <2>1. Become(r, Idle) /\ UNCHANGED <<now, made, keys, stored, expiry, stray>>
    BY <1>8 DEF TrimRem
  <2> QED
    BY <1>0, <1>a, <2>1, StillShrinks
<1>9. ASSUME NEW r \in Requests, TrimDel(r)
      PROVE  Goal
  <2>1. PICK j \in Jobs, s \in 1 .. made :
          /\ job[r].pc = "scan" /\ j.pc = "scan" /\ Become(r, j)
          /\ j.stale = job[r].stale \cup {s} /\ Del({s})
          /\ UNCHANGED <<now, made, expiry, stray>>
    BY <1>9, TrimDelStep
  <2>2. Shrinks /\ keys' = keys \ {s}
    BY <1>0, <2>1, DelShrinks, DelMoves
  <2>3. job'[r] = j => Turns(r)
    BY <2>1, <2>2 DEF Turns
  <2> QED
    BY <1>0, <2>1, <2>2, <2>3, OneTurns
<1>10. ASSUME NEW r \in Requests, revokeByID(r)
       PROVE  Goal
  <2>1. PICK s : Del({s}) /\ Become(r, Idle) /\ UNCHANGED <<now, made, expiry, stray>>
    BY <1>10, RevokeStep
  <2> QED
    BY <1>0, <1>a, <2>1, DelShrinks
<1>11. ASSUME NEW r \in Requests, RevokeAllForUser(r)
       PROVE  Goal
  <2>1. PICK S : Del(S) /\ Become(r, Idle) /\ UNCHANGED <<now, made, expiry, stray>>
    BY <1>11, RevokeAllStep
  <2> QED
    BY <1>0, <1>a, <2>1, DelShrinks
<1> QED
  BY <1>1, <1>2, <1>3, <1>4, <1>5, <1>6, <1>7, <1>8, <1>9, <1>10, <1>11 DEF Next

-----------------------------------------------------------------------------
(* The absolute lifetime *)

\* What a key, and a request that read it, say about a session is true: its expiry is the
\* one it was created with, and it was not seen later than now.
KeysDated == \A s \in keys : stored[s].exp = expiry[s] /\ stored[s].seen <= now

JobsDated ==
  \A r \in Requests : job[r].pc \in Holding =>
    /\ job[r].exp = expiry[job[r].id] /\ job[r].seen <= now
    /\ job[r].id \in keys => job[r].seen <= stored[job[r].id].seen

ExpiryDated == \A s \in 1 .. made : expiry[s] <= now + absoluteTTL

Dated == KeysDated /\ JobsDated /\ ExpiryDated

\* A step that writes no key keeps it so.
LEMMA ShrinksDated ==
  ASSUME Typed, Dated, Shrinks, \A q \in Requests : Turns(q)
  PROVE  Dated'
<1>1. TypeOK /\ now \in Nat /\ keys \subseteq Sessions /\ now' \in Nat /\ now <= now'
  BY MadeSessions DEF Typed, Shrinks
<1>2. \A s \in keys : stored[s].seen \in Nat
  BY <1>1 DEF TypeOK, Stored
<1>3. KeysDated'
  <2> SUFFICES ASSUME NEW s \in keys' PROVE stored'[s].exp = expiry'[s] /\ stored'[s].seen <= now'
    BY DEF KeysDated
  <2>1. s \in keys /\ stored'[s] = stored[s] /\ expiry' = expiry
    BY DEF Shrinks
  <2>2. stored[s].exp = expiry[s] /\ stored[s].seen <= now
    BY <2>1 DEF Dated, KeysDated
  <2>3. stored[s].seen <= now'
    BY <1>1, <1>2, <2>1, <2>2
  <2> QED
    BY <2>1, <2>2, <2>3
<1>4. ExpiryDated'
  <2> SUFFICES ASSUME NEW s \in 1 .. made PROVE expiry[s] <= now' + absoluteTTL
    BY DEF ExpiryDated, Shrinks
  <2>1. expiry[s] <= now + absoluteTTL /\ expiry[s] \in Nat
    BY <1>1, MadeSessions DEF Dated, ExpiryDated, TypeOK
  <2> QED
    BY <1>1, <2>1, TTLAssumption
<1>5. JobsDated'
  <2> SUFFICES ASSUME NEW q \in Requests, job'[q].pc \in Holding
               PROVE  /\ job'[q].exp = expiry[job'[q].id] /\ job'[q].seen <= now'
                      /\ job'[q].id \in keys' => job'[q].seen <= stored'[job'[q].id].seen
    BY DEF JobsDated, Shrinks
  <2>1. CASE job'[q] = job[q]
    <3>1. PICK i \in Jobs : i = job[q] /\ i.pc \in Holding /\ i.seen \in Nat
      BY <1>1, <2>1, JobFields DEF TypeOK
    <3>2. /\ i.exp = expiry[i.id] /\ i.seen <= now
          /\ i.id \in keys => i.seen <= stored[i.id].seen
      BY <3>1 DEF Dated, JobsDated
    <3>3. i.seen <= now'
      BY <1>1, <3>1, <3>2
    <3>4. i.id \in keys' => i.id \in keys /\ stored'[i.id] = stored[i.id]
      BY DEF Shrinks
    <3> QED
      BY <2>1, <3>1, <3>2, <3>3, <3>4
  <2>2. CASE job'[q] # job[q]
    <3>1. PICK pc \in Holding, s \in keys \cap keys' : job'[q] = Loaded(pc, s)
      BY <2>2 DEF Turns, Holding
    <3>2. /\ job'[q].id = s /\ job'[q].exp = stored[s].exp /\ job'[q].seen = stored[s].seen
      BY <1>1, <3>1, LoadedJob
    <3>3. stored[s].exp = expiry[s] /\ stored[s].seen <= now' /\ stored'[s] = stored[s]
      <4>1. stored[s].exp = expiry[s] /\ stored[s].seen <= now /\ stored[s].seen \in Nat
        BY <1>2 DEF Dated, KeysDated
      <4>2. stored'[s] = stored[s]
        BY DEF Shrinks
      <4> QED
        BY <1>1, <4>1, <4>2
    <3>4. stored[s].seen <= stored[s].seen
      BY <1>2
    <3> QED
      BY <3>2, <3>3, <3>4
  <2> QED
    BY <2>1, <2>2
<1> QED
  BY <1>3, <1>4, <1>5 DEF Dated

\* So does a SET that is true to the expiry, and that no request has read ahead of.
LEMMA SetDated ==
  ASSUME Typed, Dated, NEW s \in Sessions, NEW exp \in Nat, Set(s, exp, now, ttlFor(exp)),
         now' = now, expiry'[s] = exp, \A t \in Sessions : t # s => expiry'[t] = expiry[t],
         \A t \in 1 .. made' : expiry'[t] <= now + absoluteTTL,
         \A q \in Requests : job'[q].pc \in Holding =>
           job'[q] = job[q] /\ expiry'[job[q].id] = expiry[job[q].id]
  PROVE  Dated'
<1>1. TypeOK /\ now \in Nat /\ keys \subseteq Sessions
  BY MadeSessions DEF Typed
<1>2. /\ keys' = keys \cup {s} /\ \A t \in Sessions : t # s => stored'[t] = stored[t]
      /\ stored'[s].exp = exp /\ stored'[s].seen = now
  BY <1>1, SetMoves
<1>3. KeysDated'
  <2> SUFFICES ASSUME NEW t \in keys' PROVE stored'[t].exp = expiry'[t] /\ stored'[t].seen <= now
    BY DEF KeysDated
  <2>1. CASE t = s
    BY <1>1, <1>2, <2>1
  <2>2. CASE t # s
    BY <1>1, <1>2, <2>2 DEF Dated, KeysDated
  <2> QED
    BY <2>1, <2>2
<1>4. ExpiryDated'
  BY DEF ExpiryDated
<1>5. JobsDated'
  <2> SUFFICES ASSUME NEW q \in Requests, job'[q].pc \in Holding
               PROVE  /\ job'[q].exp = expiry'[job'[q].id] /\ job'[q].seen <= now
                      /\ job'[q].id \in keys' => job'[q].seen <= stored'[job'[q].id].seen
    BY DEF JobsDated
  <2>1. PICK i \in Jobs : /\ i = job[q] /\ i = job'[q] /\ i.pc \in Holding /\ i.id \in Sessions
                          /\ expiry'[i.id] = expiry[i.id]
    BY <1>1, JobFields DEF TypeOK
  <2>2. /\ i.exp = expiry[i.id] /\ i.seen <= now
        /\ i.id \in keys => i.seen <= stored[i.id].seen
    BY <2>1 DEF Dated, JobsDated
  <2>3. i.id \in keys' => i.seen <= stored'[i.id].seen
    BY <1>2, <2>1, <2>2
  <2> QED
    BY <2>1, <2>2, <2>3
<1> QED
  BY <1>3, <1>4, <1>5 DEF Dated

\* Create makes a session that nobody can have read.
LEMMA CreateDated ==
  ASSUME Typed, Dated, NEW r \in Requests, Create(r)
  PROVE  Dated'
<1>1. TypeOK /\ now \in Nat /\ made \in Nat
  BY MadeSessions DEF Typed
<1>2. PICK s \in Sessions :
        /\ s = made + 1 /\ s \notin 1 .. made /\ made' = s
        /\ now + absoluteTTL \in Nat /\ Become(r, [pc |-> "list"])
        /\ Set(s, now + absoluteTTL, now, ttlFor(now + absoluteTTL))
        /\ expiry' = [expiry EXCEPT ![s] = now + absoluteTTL] /\ now' = now
  BY CreateStep
<1>3. expiry'[s] = now + absoluteTTL /\ \A t \in Sessions : t # s => expiry'[t] = expiry[t]
  BY <1>1, <1>2 DEF TypeOK
<1>4. \A t \in 1 .. made' : expiry'[t] <= now + absoluteTTL
  <2> SUFFICES ASSUME NEW t \in 1 .. made' PROVE expiry'[t] <= now + absoluteTTL
    OBVIOUS
  <2>1. CASE t = s
    BY <1>2, <1>3, <2>1
  <2>2. CASE t # s
    <3>1. t \in 1 .. made
      BY <1>1, <1>2, <2>2
    <3> QED
      BY <1>1, <1>3, <2>2, <3>1, MadeSessions DEF Dated, ExpiryDated
  <2> QED
    BY <2>1, <2>2
<1>5. /\ job'[r] = [pc |-> "list"] /\ \A q \in Requests : q # r => job'[q] = job[q]
  BY <1>1, <1>2, BareJobs, BecomeMoves DEF TypeOK
<1>6. ASSUME NEW q \in Requests, job'[q].pc \in Holding
      PROVE  job'[q] = job[q] /\ expiry'[job[q].id] = expiry[job[q].id]
  <2>1. q # r /\ job'[q] = job[q]
    BY <1>5, <1>6, BareJobs DEF Holding
  <2>2. job[q].id \in 1 .. made /\ job[q].id \in Sessions
    BY <1>1, <1>6, <2>1, MadeSessions DEF Typed, Known
  <2>3. job[q].id # s
    BY <1>2, <2>2
  <2> QED
    BY <1>3, <2>1, <2>2, <2>3
<1> QED
  BY <1>2, <1>3, <1>4, <1>6, SetDated

\* Touch writes back the expiry that was read.
LEMMA TouchDated ==
  ASSUME Typed, Dated, NEW r \in Requests, Touch(r)
  PROVE  Dated'
<1>1. TypeOK /\ now \in Nat /\ made \in Nat
  BY MadeSessions DEF Typed
<1>2. PICK s \in Sessions :
        /\ s = job[r].id /\ job[r].exp \in Nat /\ job[r].pc = "loaded"
        /\ Set(s, job[r].exp, now, ttlFor(job[r].exp)) /\ Become(r, Idle)
        /\ UNCHANGED <<now, made, expiry>>
  BY TouchStep
<1>3. expiry[s] = job[r].exp
  BY <1>2 DEF Dated, JobsDated, Holding
<1>4. \A t \in 1 .. made' : expiry'[t] <= now + absoluteTTL
  BY <1>2 DEF Dated, ExpiryDated
<1>5. job'[r] = Idle /\ \A q \in Requests : q # r => job'[q] = job[q]
  BY <1>1, <1>2, BareJobs, BecomeMoves DEF TypeOK
<1>6. \A q \in Requests : job'[q].pc \in Holding =>
        job'[q] = job[q] /\ expiry'[job[q].id] = expiry[job[q].id]
  BY <1>2, <1>5, BareJobs DEF Holding
<1> QED
  BY <1>2, <1>3, <1>4, <1>6, SetDated

\* Dated is inductive, given the types.
LEMMA NextDated ==
  ASSUME Typed, Dated, [Next]_vars
  PROVE  Dated'
BY NextShrinks, ShrinksDated, CreateDated, TouchDated

\* Without a session there is nothing to be wrong about.
LEMMA InitDated == Init => Dated
BY BareJobs DEF Init, Dated, KeysDated, JobsDated, ExpiryDated, Holding

\* No request is admitted after the ExpiresAt its session was created with: neither Touch,
\* nor a key written back after it had gone, nor the skipped renewals extend it.
THEOREM AbsoluteLifetime == Spec => AbsoluteBound
<1> DEFINE Admits == \A r \in Requests : job[r] = Idle /\ job'[r].pc = "loaded" => now <= expiry[job'[r].id]
<1>1. ASSUME Typed, Dated, [Next]_vars
      PROVE  [Admits]_vars
  <2> SUFFICES ASSUME NEW r \in Requests, job[r] = Idle, job'[r].pc = "loaded"
               PROVE  now <= expiry[job'[r].id]
    OBVIOUS
  <2>1. TypeOK /\ now \in Nat /\ keys \subseteq Sessions
    BY <1>1, MadeSessions DEF Typed
  <2>2. ASSUME NEW q \in Requests, Create(q) \/ Touch(q)
        PROVE  FALSE
    <3>1. \E j \in {Idle, [pc |-> "list"]} : Become(q, j)
      BY <2>2 DEF Create, Touch
    <3>2. job'[r] = job[r] \/ job'[r] \in {Idle, [pc |-> "list"]}
      BY <2>1, <3>1, BareJobs, BecomeMoves DEF TypeOK
    <3> QED
      BY <3>2, BareJobs
  <2>3. Turns(r)
    BY <1>1, <2>2, NextShrinks
  <2>4. PICK pc \in Holding, s \in keys \cap keys' :
          job'[r] = Loaded(pc, s) /\ (pc = "loaded" => ~ (now > stored[s].exp))
    BY <2>3, BareJobs DEF Turns
  <2>5. pc = "loaded" /\ job'[r].id = s
    BY <2>1, <2>4, LoadedJob
  <2>6. stored[s].exp \in Nat /\ stored[s].exp = expiry[s]
    BY <1>1, <2>1 DEF TypeOK, Stored, Dated, KeysDated
  <2>7. now <= stored[s].exp
    BY <2>1, <2>4, <2>5, <2>6
  <2> QED
    BY <2>5, <2>6, <2>7
<1> QED
  BY <1>1, InitTyped, NextTyped, InitDated, NextDated, PTL DEF Spec, AbsoluteBound

-----------------------------------------------------------------------------
(* The idle window *)

\* A key was used at most touchGranularity after it was last written, and lives for the
\* idle window from then on, or until ExpiresAt.
Lasting ==
  \A s \in keys :
    /\ lastUse[s] < stored[s].seen + touchGranularity
    /\ stored[s].dies # NoTTL => \/ stored[s].dies >= expiry[s]
                                 \/ stored[s].dies >= stored[s].seen + idleTTL

\* A SET begins the window anew.
LEMMA SetLasting ==
  ASSUME Typed, Lasting, NEW s \in Sessions, NEW exp \in Nat, Set(s, exp, now, ttlFor(exp)),
         expiry'[s] = exp, \A t \in Sessions : t # s => expiry'[t] = expiry[t],
         lastUse' = [lastUse EXCEPT ![s] = now]
  PROVE  Lasting'
<1>1. TypeOK /\ now \in Nat /\ keys \subseteq Sessions /\ touchGranularity \in Nat \ {0}
  BY MadeSessions, TTLAssumption DEF Typed
<1>2. /\ keys' = keys \cup {s} /\ \A t \in Sessions : t # s => stored'[t] = stored[t]
      /\ stored'[s].seen = now
      /\ exp <= now => stored'[s].dies = NoTTL
      /\ exp > now => stored'[s].dies >= exp \/ stored'[s].dies >= now + idleTTL
  BY <1>1, SetMoves
<1>3. lastUse'[s] = now /\ \A t \in Sessions : t # s => lastUse'[t] = lastUse[t]
  BY <1>1 DEF TypeOK
<1> SUFFICES ASSUME NEW t \in keys'
             PROVE  /\ lastUse'[t] < stored'[t].seen + touchGranularity
                    /\ stored'[t].dies # NoTTL => \/ stored'[t].dies >= expiry'[t]
                                                  \/ stored'[t].dies >= stored'[t].seen + idleTTL
  BY DEF Lasting
<1>4. CASE t = s
  <2>1. now < now + touchGranularity
    BY <1>1
  <2>2. stored'[s].dies # NoTTL => stored'[s].dies >= exp \/ stored'[s].dies >= now + idleTTL
    BY <1>1, <1>2
  <2> QED
    BY <1>2, <1>3, <1>4, <2>1, <2>2
<1>5. CASE t # s
  BY <1>1, <1>2, <1>3, <1>5 DEF Lasting
<1> QED
  BY <1>4, <1>5

\* Lasting is inductive, given the types and Dated.
LEMMA NextLasting ==
  ASSUME Typed, Dated, Lasting, [Next]_vars
  PROVE  Lasting'
<1> USE DEF histVars, redisVars
<1>0. TypeOK /\ now \in Nat /\ keys \subseteq Sessions
  BY MadeSessions DEF Typed
<1>1. CASE /\ keys' \subseteq keys /\ expiry' = expiry
           /\ \A s \in keys' : stored'[s] = stored[s] /\ lastUse'[s] = lastUse[s]
  BY <1>1 DEF Lasting
<1>2. ASSUME NEW r \in Requests, Create(r)
      PROVE  Lasting'
  <2>1. PICK s \in Sessions :
          /\ now + absoluteTTL \in Nat
          /\ Set(s, now + absoluteTTL, now, ttlFor(now + absoluteTTL))
          /\ expiry' = [expiry EXCEPT ![s] = now + absoluteTTL]
          /\ lastUse' = [lastUse EXCEPT ![s] = now]
    BY <1>2, CreateStep
  <2>2. expiry'[s] = now + absoluteTTL /\ \A t \in Sessions : t # s => expiry'[t] = expiry[t]
    BY <1>0, <2>1 DEF TypeOK
  <2> QED
    BY <2>1, <2>2, SetLasting
<1>3. ASSUME NEW r \in Requests, Touch(r)
      PROVE  Lasting'
  <2>1. PICK s \in Sessions :
          /\ s = job[r].id /\ job[r].exp \in Nat /\ job[r].pc = "loaded"
          /\ Set(s, job[r].exp, now, ttlFor(job[r].exp))
          /\ lastUse' = [lastUse EXCEPT ![s] = now] /\ expiry' = expiry
    BY <1>3, TouchStep
  <2>2. expiry'[s] = job[r].exp
    BY <2>1 DEF Dated, JobsDated, Holding
  <2> QED
    BY <2>1, <2>2, SetLasting
<1>4. ASSUME NEW r \in Requests, TouchSkips(r)
      PROVE  Lasting'
  <2>1. PICK i \in Jobs :
          /\ i = job[r] /\ i.pc = "loaded" /\ i.id \in Sessions /\ i.seen \in Nat
          /\ now - i.seen < touchGranularity
          /\ lastUse' = [lastUse EXCEPT ![i.id] = now]
          /\ UNCHANGED <<keys, stored, expiry>>
    BY <1>4, TouchSkipsStep
  <2>2. lastUse'[i.id] = now /\ \A t \in Sessions : t # i.id => lastUse'[t] = lastUse[t]
    BY <1>0, <2>1 DEF TypeOK
  <2>3. i.id \in keys => now < stored[i.id].seen + touchGranularity
    <3> SUFFICES ASSUME i.id \in keys PROVE now < stored[i.id].seen + touchGranularity
      OBVIOUS
    <3>1. i.seen <= stored[i.id].seen
      BY <2>1 DEF Dated, JobsDated, Holding
    <3>2. PICK n \in Nat, g \in Nat : n = stored[i.id].seen /\ g = touchGranularity
      BY <1>0, <2>1, TTLAssumption DEF TypeOK, Stored
    <3>3. PICK m \in Nat : m = i.seen
      BY <2>1
    <3>4. now - m < g /\ m <= n
      BY <2>1, <3>1, <3>2, <3>3
    <3>5. now < n + g
      BY <1>0, <3>4
    <3> QED
      BY <3>2, <3>5
  <2>4. \A s \in keys : lastUse'[s] < stored[s].seen + touchGranularity
    BY <1>0, <2>2, <2>3 DEF Lasting
  <2> QED
    BY <2>1, <2>4 DEF Lasting
<1>5. CASE Tick
  BY <1>0, <1>1, <1>5, TickShrinks DEF Shrinks
<1>6. ASSUME NEW r \in Requests,
             \/ TrimList(r) \/ TrimRem(r) \/ Abort(r)
             \/ \E s \in Sessions : TrimGet(r, s) \/ Get(r, s) \/ Revoke(r, s)
             \/ \E keep \in {NoSession} \cup (1 .. made) : RevokeAllList(r, keep)
      PROVE  Lasting'
  <2>1. UNCHANGED <<keys, stored, expiry, lastUse>>
    BY <1>6 DEF TrimList, TrimRem, Abort, TrimGet, Get, Revoke, RevokeAllList
  <2> QED
    BY <1>1, <2>1
<1>7. ASSUME NEW r \in Requests, TrimDel(r) \/ revokeByID(r) \/ RevokeAllForUser(r)
      PROVE  Lasting'
  <2>1. PICK S : Del(S) /\ expiry' = expiry
    BY <1>7 DEF TrimDel, revokeByID, RevokeAllForUser
  <2> QED
    BY <1>0, <1>1, <2>1, DelMoves
<1>8. CASE UNCHANGED vars
  BY <1>1, <1>8 DEF vars
<1> QED
  BY <1>2, <1>3, <1>4, <1>5, <1>6, <1>7, <1>8 DEF Next

\* A session in use is not signed out by the renewals that Touch skips: unless it is revoked
\* or trimmed, its key is there for idleTTL less touchGranularity after the last request
\* served with it, or until ExpiresAt.
THEOREM NoEarlySignOut == Spec => NotSignedOutEarly
<1> DEFINE Lives == \A s \in keys \ keys' :
                      s \notin revoked' \cup trimmed'
                        => now' >= expiry[s] \/ now' > lastUse[s] + idleTTL - touchGranularity
<1>1. ASSUME Typed, Lasting, [Next]_vars
      PROVE  [Lives]_vars
  <2> USE DEF histVars, redisVars
  <2>0. TypeOK /\ now \in Nat /\ keys \subseteq Sessions
    BY <1>1, MadeSessions DEF Typed
  <2>1. CASE keys \subseteq keys' \cup revoked' \cup trimmed'
    BY <2>1
  <2>2. CASE Tick
    <3> SUFFICES ASSUME NEW s \in keys \ keys'
                 PROVE  now' >= expiry[s] \/ now' > lastUse[s] + idleTTL - touchGranularity
      OBVIOUS
    <3>1. now' = now + 1 /\ stored[s].dies # NoTTL /\ stored[s].dies <= now + 1
      BY <2>0, <2>2, TickShrinks
    <3>2. s \in Sessions
      BY <2>0
    <3>3. PICK d \in Nat, n \in Nat, x \in Nat, l \in Nat :
            d = stored[s].dies /\ n = stored[s].seen /\ x = expiry[s] /\ l = lastUse[s]
      BY <2>0, <3>1, <3>2 DEF TypeOK, Stored
    <3>4. PICK g \in Nat, t \in Nat : g = touchGranularity /\ t = idleTTL
      BY TTLAssumption
    <3>5. d <= now + 1 /\ l < n + g /\ (d >= x \/ d >= n + t)
      BY <1>1, <3>1, <3>3, <3>4 DEF Lasting
    <3>6. now + 1 >= x \/ now + 1 > l + t - g
      BY <2>0, <3>5
    <3> QED
      BY <3>1, <3>3, <3>4, <3>6
  <2>3. ASSUME NEW r \in Requests, Create(r) \/ Touch(r)
        PROVE  keys \subseteq keys'
    BY <2>3 DEF Create, Touch, Set
  <2>4. ASSUME NEW r \in Requests,
               \/ TrimList(r) \/ TrimRem(r) \/ Abort(r) \/ TouchSkips(r)
               \/ \E s \in Sessions : TrimGet(r, s) \/ Get(r, s) \/ Revoke(r, s)
               \/ \E keep \in {NoSession} \cup (1 .. made) : RevokeAllList(r, keep)
        PROVE  keys \subseteq keys'
    BY <2>4 DEF TrimList, TrimRem, Abort, TouchSkips, TrimGet, Get, Revoke, RevokeAllList
  <2>5. ASSUME NEW r \in Requests, TrimDel(r)
        PROVE  keys \subseteq keys' \cup trimmed'
    <3>1. PICK s : Del({s}) /\ trimmed' = trimmed \cup {s}
      BY <1>1, <2>5, TrimDelStep
    <3> QED
      BY <2>0, <3>1, DelMoves
  <2>6. ASSUME NEW r \in Requests, revokeByID(r)
        PROVE  keys \subseteq keys' \cup revoked'
    <3>1. PICK s : Del({s}) /\ s \in revoked'
      BY <1>1, <2>6, RevokeStep
    <3> QED
      BY <2>0, <3>1, DelMoves
  <2>7. ASSUME NEW r \in Requests, RevokeAllForUser(r)
        PROVE  keys \subseteq keys' \cup revoked'
    <3>1. PICK S : Del(S) /\ S \subseteq revoked'
      BY <1>1, <2>7, RevokeAllStep
    <3> QED
      BY <2>0, <3>1, DelMoves
  <2>8. CASE UNCHANGED vars
    BY <2>1, <2>8 DEF vars
  <2> QED
    BY <1>1, <2>1, <2>2, <2>3, <2>4, <2>5, <2>6, <2>7, <2>8 DEF Next
<1>2. Init => Lasting
  BY DEF Init, Lasting
<1> QED
  BY <1>1, <1>2, InitTyped, NextTyped, InitDated, NextDated, NextLasting, PTL
     DEF Spec, NotSignedOutEarly

-----------------------------------------------------------------------------
(* The index *)

\* A session that is not stray has a key that expires in time,
Mortal ==
  \A s \in keys \ stray : /\ stored[s].dies # NoTTL /\ now < stored[s].dies
                          /\ stored[s].dies <= expiry[s]

\* an index that lasts at least as long,
Reaches == index # {} => \A s \in keys \ stray : expiry[s] <= indexDies

\* no trim that takes it for stale, and no revoke-all that does not know it.
JobsCover ==
  \A r \in Requests :
    /\ job[r].pc = "scan" => job[r].stale \cap keys \subseteq stray
    /\ job[r].pc = "listed" => keys \subseteq job[r].ids \cup stray

Covering == IndexCovers /\ Mortal /\ Reaches /\ JobsCover

\* What a step that writes no key leaves of this, but for the index.
LEMMA ShrinksCovering ==
  ASSUME Typed, Covering, Shrinks, \A q \in Requests : Turns(q)
  PROVE  Mortal' /\ JobsCover'
<1>1. TypeOK /\ now \in Nat /\ keys \subseteq Sessions
  BY MadeSessions DEF Typed
<1>2. Mortal'
  <2> SUFFICES ASSUME NEW s \in keys' \ stray'
               PROVE  /\ stored'[s].dies # NoTTL /\ now' < stored'[s].dies
                      /\ stored'[s].dies <= expiry'[s]
    BY DEF Mortal
  <2>1. s \in keys \ stray /\ stored'[s] = stored[s] /\ expiry' = expiry
    BY DEF Shrinks
  <2>2. stored[s].dies # NoTTL /\ now < stored[s].dies /\ stored[s].dies <= expiry[s]
    BY <2>1 DEF Covering, Mortal
  <2>3. now' < stored[s].dies
    BY <2>2 DEF Shrinks
  <2> QED
    BY <2>1, <2>2, <2>3
<1>3. JobsCover'
  <2> SUFFICES ASSUME NEW q \in Requests
               PROVE  /\ job'[q].pc = "scan" => job'[q].stale \cap keys' \subseteq stray
                      /\ job'[q].pc = "listed" => keys' \subseteq job'[q].ids \cup stray
    BY DEF JobsCover, Shrinks
  <2>1. keys' \subseteq keys
    BY DEF Shrinks
  <2>2. /\ job[q].pc = "scan" => job[q].stale \cap keys \subseteq stray
        /\ job[q].pc = "listed" => keys \subseteq job[q].ids \cup stray
    BY DEF Covering, JobsCover
  <2>3. CASE job'[q] = job[q]
    BY <2>1, <2>2, <2>3
  <2>4. CASE job'[q].pc \in Holding \cup {"idle"}
    BY <2>4 DEF Holding
  <2>5. CASE /\ job'[q].pc = "scan"
             /\ \A t \in job'[q].stale : t \notin keys' \/ (job[q].pc = "scan" /\ t \in job[q].stale)
    BY <2>1, <2>2, <2>5
  <2>6. CASE job'[q].pc = "listed" /\ job'[q].ids = index /\ keys' = keys
    BY <2>6 DEF Covering, IndexCovers
  <2>7. ASSUME NEW pc \in Holding, NEW s \in keys, job'[q] = Loaded(pc, s)
        PROVE  job'[q].pc \in Holding
    BY <1>1, <2>7, LoadedJob
  <2> QED
    BY <2>3, <2>4, <2>5, <2>6, <2>7 DEF Turns
<1> QED
  BY <1>2, <1>3

\* An index that lasts as it did, or as long as a session made now.
LEMMA ReachesOn ==
  ASSUME Typed, Dated, Covering, keys' \subseteq keys, UNCHANGED <<expiry, stray>>,
         index' # {} => (index # {} /\ indexDies' = indexDies) \/ indexDies' = now + absoluteTTL
  PROVE  Reaches'
<1> SUFFICES ASSUME index' # {}, NEW s \in keys' \ stray'
             PROVE  expiry'[s] <= indexDies'
  BY DEF Reaches
<1>1. s \in keys \ stray /\ expiry' = expiry /\ s \in 1 .. made
  BY DEF Typed, TypeOK
<1>2. CASE index # {} /\ indexDies' = indexDies
  BY <1>1, <1>2 DEF Covering, Reaches
<1>3. CASE indexDies' = now + absoluteTTL
  BY <1>1, <1>3 DEF Dated, ExpiryDated
<1> QED
  BY <1>2, <1>3

\* The clock drops the index only with the last session it lists.
LEMMA TickIndex ==
  ASSUME Typed, Dated, Covering, Tick
  PROVE  IndexCovers' /\ Reaches'
<1>1. TypeOK /\ now \in Nat /\ keys \subseteq Sessions /\ indexDies \in Nat
  BY MadeSessions DEF Typed, TypeOK
<1>2. /\ keys' \subseteq keys /\ UNCHANGED <<expiry, stray>>
      /\ \A s \in keys' : stored[s].dies = NoTTL \/ ~ (stored[s].dies <= now + 1)
  BY <1>1, TickShrinks DEF Shrinks
<1>3. CASE indexDies <= now + 1
  <2>1. index' = {}
    BY <1>3 DEF Tick, Index
  <2>2. keys' \subseteq stray
    <3> SUFFICES ASSUME NEW s \in keys', s \notin stray PROVE FALSE
      OBVIOUS
    <3>1. s \in keys \ stray /\ s \in index /\ s \in Sessions
      BY <1>1, <1>2 DEF Covering, IndexCovers
    <3>2. stored[s].dies # NoTTL /\ stored[s].dies <= expiry[s] /\ expiry[s] <= indexDies
      BY <3>1 DEF Covering, Mortal, Reaches
    <3>3. stored[s].dies \in Nat /\ expiry[s] \in Nat
      BY <1>1, <3>1, <3>2 DEF TypeOK, Stored
    <3>4. stored[s].dies <= now + 1
      BY <1>1, <1>3, <3>2, <3>3
    <3> QED
      BY <1>2, <3>2, <3>4
  <2> QED
    BY <1>2, <2>1, <2>2 DEF IndexCovers, Reaches
<1>4. CASE ~ (indexDies <= now + 1)
  <2>1. index' = index /\ (index' # {} => index # {} /\ indexDies' = indexDies)
    BY <1>4 DEF Tick, Index
  <2>2. Reaches'
    BY <1>2, <2>1, ReachesOn
  <2>3. IndexCovers'
    BY <1>2, <2>1 DEF Covering, IndexCovers
  <2> QED
    BY <2>2, <2>3
<1> QED
  BY <1>3, <1>4

\* The requests that shorten the index only take out sessions without a key, or stray ones.
LEMMA ShrinksIndex ==
  ASSUME Typed, Dated, Covering, [Next]_vars, ~ \E r \in Requests : Create(r) \/ Touch(r)
  PROVE  IndexCovers' /\ Reaches'
<1> USE DEF histVars, redisVars
<1>0. TypeOK /\ keys \subseteq index \cup stray
  BY DEF Typed, Covering, IndexCovers
<1>1. CASE UNCHANGED <<index, indexDies, stray, expiry>> /\ keys' \subseteq keys
  <2>1. Reaches'
    BY <1>1, ReachesOn
  <2> QED
    BY <1>0, <1>1, <2>1 DEF IndexCovers
<1>2. ASSUME NEW r \in Requests, TrimRem(r)
      PROVE  IndexCovers' /\ Reaches'
  <2>1. /\ job[r].pc = "scan" /\ index' = index \ job[r].stale
        /\ index' # {} => indexDies' = indexDies
        /\ UNCHANGED <<keys, stray, expiry>>
    BY <1>2, TrimRemStep
  <2>2. job[r].stale \cap keys \subseteq stray
    BY <2>1 DEF Covering, JobsCover
  <2>3. Reaches'
    BY <2>1, ReachesOn
  <2> QED
    BY <1>0, <2>1, <2>2, <2>3 DEF IndexCovers
<1>3. ASSUME NEW r \in Requests, revokeByID(r)
      PROVE  IndexCovers' /\ Reaches'
  <2>1. PICK s : /\ Del({s}) /\ index' = index \ {s}
                 /\ index' # {} => indexDies' = indexDies
                 /\ UNCHANGED <<expiry, stray>>
    BY <1>3, RevokeStep
  <2>2. keys' = keys \ {s}
    BY <1>0, <2>1, DelMoves
  <2>3. Reaches'
    BY <2>1, <2>2, ReachesOn
  <2> QED
    BY <1>0, <2>1, <2>2, <2>3 DEF IndexCovers
<1>4. ASSUME NEW r \in Requests, RevokeAllForUser(r)
      PROVE  IndexCovers' /\ Reaches'
  <2>1. PICK kept \in SUBSET job[r].ids :
          /\ job[r].pc = "listed" /\ Del(job[r].ids \ kept) /\ index' = kept
          /\ index' # {} => indexDies' = now + absoluteTTL
          /\ UNCHANGED <<expiry, stray>>
    BY <1>4, RevokeAllStep
  <2>2. keys' = keys \ (job[r].ids \ kept)
    BY <1>0, <2>1, DelMoves
  <2>3. keys \subseteq job[r].ids \cup stray
    BY <2>1 DEF Covering, JobsCover
  <2>4. Reaches'
    BY <2>1, <2>2, ReachesOn
  <2> QED
    BY <2>1, <2>2, <2>3, <2>4 DEF IndexCovers
<1>5. ASSUME NEW r \in Requests, TrimDel(r)
      PROVE  UNCHANGED <<index, indexDies, stray, expiry>> /\ keys' \subseteq keys
  BY <1>0, <1>5, TrimDelStep, DelMoves
<1>6. ASSUME NEW r \in Requests,
             \/ TrimList(r) \/ Abort(r) \/ TouchSkips(r)
             \/ \E s \in Sessions : TrimGet(r, s) \/ Get(r, s) \/ Revoke(r, s)
             \/ \E keep \in {NoSession} \cup (1 .. made) : RevokeAllList(r, keep)
      PROVE  UNCHANGED <<index, indexDies, stray, expiry>> /\ keys' \subseteq keys
  BY <1>6 DEF TrimList, Abort, TouchSkips, TrimGet, Get, Revoke, RevokeAllList
<1>7. CASE UNCHANGED vars
  BY <1>1, <1>7 DEF vars
<1> QED
  BY <1>1, <1>2, <1>3, <1>4, <1>5, <1>6, <1>7, TickIndex DEF Next

\* Create indexes the session it makes, for as long as any session can last.
LEMMA CreateCovering ==
  ASSUME Typed, Dated, Covering, NEW r \in Requests, Create(r)
  PROVE  Covering'
<1>1. TypeOK /\ now \in Nat /\ made \in Nat /\ keys \subseteq Sessions
  BY MadeSessions DEF Typed
<1>2. PICK s \in Sessions :
        /\ s = made + 1 /\ s \notin 1 .. made /\ made' = s
        /\ now + absoluteTTL \in Nat /\ now + absoluteTTL > now /\ Become(r, [pc |-> "list"])
        /\ Set(s, now + absoluteTTL, now, ttlFor(now + absoluteTTL))
        /\ index' = index \cup {s} /\ indexDies' = now + absoluteTTL
        /\ expiry' = [expiry EXCEPT ![s] = now + absoluteTTL] /\ now' = now
        /\ stray \subseteq stray' /\ stray' \subseteq stray \cup {s}
        /\ (\E q \in Requests : job[q].pc = "listed") => s \in stray'
  BY CreateStep
<1>3. expiry'[s] = now + absoluteTTL /\ \A t \in Sessions : t # s => expiry'[t] = expiry[t]
  BY <1>1, <1>2 DEF TypeOK
<1>4. /\ keys' = keys \cup {s} /\ \A t \in Sessions : t # s => stored'[t] = stored[t]
      /\ stored'[s].dies # NoTTL /\ now < stored'[s].dies /\ stored'[s].dies <= now + absoluteTTL
  BY <1>1, <1>2, SetMoves
<1>5. keys \subseteq 1 .. made /\ s \notin keys
  BY <1>1, <1>2 DEF TypeOK
<1>6. IndexCovers'
  BY <1>2, <1>4 DEF Covering, IndexCovers
<1>7. Mortal'
  <2> SUFFICES ASSUME NEW t \in keys' \ stray'
               PROVE  /\ stored'[t].dies # NoTTL /\ now < stored'[t].dies
                      /\ stored'[t].dies <= expiry'[t]
    BY <1>2 DEF Mortal
  <2>1. CASE t = s
    BY <1>3, <1>4, <2>1
  <2>2. CASE t # s
    <3>1. t \in keys \ stray /\ t \in Sessions
      BY <1>1, <1>2, <1>4, <2>2
    <3> QED
      BY <1>3, <1>4, <2>2, <3>1 DEF Covering, Mortal
  <2> QED
    BY <2>1, <2>2
<1>8. Reaches'
  <2> SUFFICES ASSUME NEW t \in keys' PROVE expiry'[t] <= now + absoluteTTL
    BY <1>2 DEF Reaches
  <2>1. CASE t = s
    BY <1>2, <1>3, <2>1
  <2>2. CASE t # s
    BY <1>1, <1>3, <1>4, <1>5, <2>2 DEF Dated, ExpiryDated
  <2> QED
    BY <2>1, <2>2
<1>9. job'[r] = [pc |-> "list"] /\ \A q \in Requests : q # r => job'[q] = job[q]
  BY <1>1, <1>2, BareJobs, BecomeMoves DEF TypeOK
<1>10. JobsCover'
  <2> SUFFICES ASSUME NEW q \in Requests
               PROVE  /\ job'[q].pc = "scan" => job'[q].stale \cap keys' \subseteq stray'
                      /\ job'[q].pc = "listed" => keys' \subseteq job'[q].ids \cup stray'
    BY DEF JobsCover
  <2>1. CASE q = r
    BY <1>9, <2>1, BareJobs
  <2>2. CASE q # r
    <3>1. job'[q] = job[q]
      BY <1>9, <2>2
    <3>2. job[q].pc = "scan" => s \notin job[q].stale
      BY <1>2 DEF Typed, Known
    <3>3. /\ job[q].pc = "scan" => job[q].stale \cap keys \subseteq stray
          /\ job[q].pc = "listed" => keys \subseteq job[q].ids \cup stray
      BY DEF Covering, JobsCover
    <3> QED
      BY <1>2, <1>4, <3>1, <3>2, <3>3
  <2> QED
    BY <2>1, <2>2
<1> QED
  BY <1>6, <1>7, <1>8, <1>10 DEF Covering

\* Touch writes a key that is there, which is in time, or makes a stray one.
LEMMA TouchCovering ==
  ASSUME Typed, Dated, Covering, NEW r \in Requests, Touch(r)
  PROVE  Covering'
<1>1. TypeOK /\ now \in Nat /\ keys \subseteq Sessions
  BY MadeSessions DEF Typed
<1>2. PICK s \in Sessions, exp \in Nat :
        /\ s = job[r].id /\ exp = job[r].exp /\ job[r].pc = "loaded"
        /\ Set(s, exp, now, ttlFor(exp)) /\ Become(r, Idle)
        /\ stray' = IF s \in keys THEN stray ELSE stray \cup {s}
        /\ UNCHANGED <<now, made, index, indexDies, expiry>>
  BY TouchStep
<1>3. expiry[s] = exp
  BY <1>2 DEF Dated, JobsDated, Holding
<1>4. /\ keys' = keys \cup {s} /\ \A t \in Sessions : t # s => stored'[t] = stored[t]
      /\ exp > now => /\ stored'[s].dies # NoTTL
                      /\ now < stored'[s].dies /\ stored'[s].dies <= exp
  BY <1>1, <1>2, SetMoves
<1>5. stray \subseteq stray' /\ keys' \ stray' \subseteq keys \ stray
  BY <1>2, <1>4
<1>6. s \in keys \ stray => exp > now
  <2> SUFFICES ASSUME s \in keys \ stray PROVE exp > now
    OBVIOUS
  <2>1. stored[s].dies # NoTTL /\ now < stored[s].dies /\ stored[s].dies <= exp
    BY <1>3 DEF Covering, Mortal
  <2>2. PICK d \in Nat : d = stored[s].dies
    BY <1>1, <2>1 DEF TypeOK, Stored
  <2> QED
    BY <1>1, <2>1, <2>2
<1>7. IndexCovers'
  BY <1>2, <1>4 DEF Covering, IndexCovers
<1>8. Mortal'
  <2> SUFFICES ASSUME NEW t \in keys' \ stray'
               PROVE  /\ stored'[t].dies # NoTTL /\ now < stored'[t].dies
                      /\ stored'[t].dies <= expiry[t]
    BY <1>2 DEF Mortal
  <2>1. t \in keys \ stray /\ t \in Sessions
    BY <1>1, <1>5
  <2>2. CASE t = s
    BY <1>3, <1>4, <1>6, <2>1, <2>2
  <2>3. CASE t # s
    BY <1>4, <2>1, <2>3 DEF Covering, Mortal
  <2> QED
    BY <2>2, <2>3
<1>9. Reaches'
  BY <1>2, <1>5 DEF Covering, Reaches
<1>10. job'[r] = Idle /\ \A q \in Requests : q # r => job'[q] = job[q]
  BY <1>1, <1>2, BareJobs, BecomeMoves DEF TypeOK
<1>11. JobsCover'
  <2> SUFFICES ASSUME NEW q \in Requests
               PROVE  /\ job'[q].pc = "scan" => job'[q].stale \cap keys' \subseteq stray'
                      /\ job'[q].pc = "listed" => keys' \subseteq job'[q].ids \cup stray'
    BY DEF JobsCover
  <2>1. CASE q = r
    BY <1>10, <2>1, BareJobs
  <2>2. CASE q # r
    <3>1. job'[q] = job[q]
      BY <1>10, <2>2
    <3>2. /\ job[q].pc = "scan" => job[q].stale \cap keys \subseteq stray
          /\ job[q].pc = "listed" => keys \subseteq job[q].ids \cup stray
      BY DEF Covering, JobsCover
    <3> QED
      BY <1>5, <3>1, <3>2
  <2> QED
    BY <2>1, <2>2
<1> QED
  BY <1>7, <1>8, <1>9, <1>11 DEF Covering

\* Covering is inductive, given the types and Dated.
LEMMA NextCovering ==
  ASSUME Typed, Dated, Covering, [Next]_vars
  PROVE  Covering'
<1>1. CASE \E r \in Requests : Create(r) \/ Touch(r)
  BY <1>1, CreateCovering, TouchCovering
<1>2. CASE ~ \E r \in Requests : Create(r) \/ Touch(r)
  <2>1. Shrinks /\ \A q \in Requests : Turns(q)
    BY <1>2, NextShrinks
  <2>2. Mortal' /\ JobsCover'
    BY <2>1, ShrinksCovering
  <2>3. IndexCovers' /\ Reaches'
    BY <1>2, ShrinksIndex
  <2> QED
    BY <2>2, <2>3 DEF Covering
<1> QED
  BY <1>1, <1>2

\* The index has every live session but those that lost their entry to one of the two
\* races: no trim takes out a live one, and it does not run out before the last of them.
THEOREM IndexIsComplete == Spec => []IndexCovers
<1>1. Init => Covering
  BY BareJobs DEF Init, Covering, IndexCovers, Mortal, Reaches, JobsCover
<1>2. Covering => IndexCovers
  BY DEF Covering
<1> QED
  BY <1>1, <1>2, InitTyped, NextTyped, InitDated, NextDated, NextCovering, PTL DEF Spec

=============================================================================
