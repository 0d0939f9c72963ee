------------------------------- MODULE Sessions -------------------------------
(***************************************************************************)
(* The session store of one account: internal/auth/sessions.go on Redis,    *)
(* and the requests of internal/auth/middleware.go and service.go that use  *)
(* it. Accounts share no key, so one account stands for each of them.       *)
(*                                                                         *)
(* Redis executes a command, and a TxPipeline, atomically; between two      *)
(* commands of one request those of any other may run. One step here is one *)
(* command or one TxPipeline, with the computation up to the next one.      *)
(* Sessions are numbered in the order of their creation, which is also the  *)
(* order of CreatedAt. The clock ticks in units of touchGranularity or      *)
(* coarser and is read in the step that uses it.                            *)
(***************************************************************************)
EXTENDS Integers, FiniteSets

CONSTANTS
  Requests,          \* the requests in progress at the same time
  idleTTL, absoluteTTL,
  touchGranularity,  \* one minute in the code
  maxSessionsPerUsr, \* 20 in the code
  MaxSessions,       \* bound of the model: sessions created
  MaxTime            \* bound of the model: the last clock tick, by the sessions created

ASSUME RequestsAssumption == IsFiniteSet(Requests)
ASSUME TTLAssumption ==
  /\ idleTTL \in Nat \ {0} /\ absoluteTTL \in Nat \ {0}
  /\ touchGranularity \in Nat \ {0}
ASSUME BoundsAssumption ==
  /\ maxSessionsPerUsr \in Nat \ {0} /\ MaxSessions \in Nat
  /\ MaxTime \in [0 .. MaxSessions -> Nat]

VARIABLES
  now,       \* the clock
  made,      \* sessions created so far; session s is the s-th
  keys,      \* the sessions whose sess: key exists
  stored,    \* the value of that key, and the time dies at which Redis drops it
  index,     \* the members of the user_sess: set
  indexDies, \* when Redis drops that set
  job,       \* what each request is doing
  expiry,    \* history: the ExpiresAt a session was created with
  lastUse,   \* history: when a request was last served with this session and Touch did not fail
  revoked,   \* history: sessions that a completed logout or revoke-all covered
  trimmed,   \* history: sessions that trimSessions deleted
  stray,     \* history: sessions that lost their index entry to a race; see Stray
  untrimmed  \* history: trimSessions has failed, and no login has listed the index since

redisVars == <<keys, stored, index, indexDies>>
histVars == <<expiry, lastUse, revoked, trimmed, stray, untrimmed>>
vars == <<now, made, redisVars, job, histVars>>

Sessions == 1 .. MaxSessions
NoTTL == -1
NoSession == 0

Stored == [exp : Nat, seen : Nat, dies : Nat \cup {NoTTL}]
Idle == [pc |-> "idle"]
Jobs ==
  [pc : {"idle", "list"}]
    \cup [pc : {"scan"}, todo : SUBSET Sessions, live : SUBSET Sessions, stale : SUBSET Sessions]
    \cup [pc : {"loaded", "expired", "revoking"}, id : Sessions, exp : Nat, seen : Nat]
    \cup [pc : {"listed"}, ids : SUBSET Sessions, keep : Sessions \cup {NoSession}, upto : 0 .. MaxSessions]

TypeOK ==
  /\ now \in Nat
  /\ made \in 0 .. MaxSessions
  /\ keys \subseteq 1 .. made
  /\ stored \in [Sessions -> Stored]
  /\ \A s \in keys : stored[s].dies <= now + idleTTL
  /\ index \subseteq 1 .. made
  /\ indexDies \in Nat
  /\ job \in [Requests -> Jobs]
  /\ expiry \in [Sessions -> Nat]
  /\ lastUse \in [Sessions -> Nat]
  /\ revoked \subseteq 1 .. made
  /\ trimmed \subseteq 1 .. made
  /\ stray \subseteq 1 .. made
  /\ untrimmed \in BOOLEAN

NoRecord == [exp |-> 0, seen |-> 0, dies |-> 0]

Init ==
  /\ now = 0
  /\ made = 0
  /\ keys = {}
  /\ stored = [s \in Sessions |-> NoRecord]
  /\ index = {}
  /\ indexDies = 0
  /\ job = [r \in Requests |-> Idle]
  /\ expiry = [s \in Sessions |-> 0]
  /\ lastUse = [s \in Sessions |-> 0]
  /\ revoked = {}
  /\ trimmed = {}
  /\ stray = {}
  /\ untrimmed = FALSE

-----------------------------------------------------------------------------
(* Redis *)

\* SET with an expiration: go-redis sends none for a duration that is not positive.
Set(s, exp, seen, ttl) ==
  /\ keys' = keys \cup {s}
  /\ stored' = [stored EXCEPT ![s] =
       [exp |-> exp, seen |-> seen, dies |-> IF ttl > 0 THEN now + ttl ELSE NoTTL]]

\* DEL; the record and its history are cleared, the same for every deleted session.
Del(S) ==
  /\ keys' = keys \ S
  /\ stored' = [s \in Sessions |-> IF s \in S THEN NoRecord ELSE stored[s]]
  /\ lastUse' = [s \in Sessions |-> IF s \in S THEN 0 ELSE lastUse[s]]

\* The index becomes S, to be dropped at time dies; an empty set is no key at all.
Index(S, dies) == index' = S /\ indexDies' = IF S = {} THEN 0 ELSE dies

Become(r, j) == job' = [job EXCEPT ![r] = j]

\* The clock moves, and Redis drops what has expired.
Tick ==
  LET dead == {s \in keys : stored[s].dies # NoTTL /\ stored[s].dies <= now + 1} IN
  /\ now < MaxTime[made]
  /\ now' = now + 1
  /\ Del(dead)
  /\ Index(IF indexDies <= now + 1 THEN {} ELSE index, indexDies)
  /\ UNCHANGED <<made, job, expiry, revoked, trimmed, stray, untrimmed>>

-----------------------------------------------------------------------------
(* Create and trimSessions *)

ttlForAbsolute(exp) == exp - now  \* mutant: the idle window is not looked at

\* ttlFor, at the current time.
ttlFor(exp) == IF exp - now < idleTTL THEN exp - now ELSE idleTTL

CreateIndexIdle(r) ==  \* mutant: the index lives only as long as the idle window
  LET s == made + 1 IN
  /\ job[r] = Idle /\ made < MaxSessions /\ now <= MaxTime[s]
  /\ made' = s
  /\ Set(s, now + absoluteTTL, now, ttlFor(now + absoluteTTL))
  /\ Index(index \cup {s}, now + idleTTL)
  /\ expiry' = [expiry EXCEPT ![s] = now + absoluteTTL]
  /\ lastUse' = [lastUse EXCEPT ![s] = now]
  /\ stray' = IF \E q \in Requests : job[q].pc = "listed" THEN stray \cup {s} ELSE stray
  /\ Become(r, [pc |-> "list"])
  /\ UNCHANGED <<now, revoked, trimmed, untrimmed>>

\* The TxPipeline of Create. A revoke-all that has listed the index but not yet deleted
\* it will delete this entry with it.
Create(r) ==
  LET s == made + 1 IN
  /\ job[r] = Idle /\ made < MaxSessions /\ now <= MaxTime[s]
  /\ made' = s
  /\ Set(s, now + absoluteTTL, now, ttlFor(now + absoluteTTL))
  /\ Index(index \cup {s}, now + absoluteTTL)
  /\ expiry' = [expiry EXCEPT ![s] = now + absoluteTTL]
  /\ lastUse' = [lastUse EXCEPT ![s] = now]
  /\ stray' = IF \E q \in Requests : job[q].pc = "listed" THEN stray \cup {s} ELSE stray
  /\ Become(r, [pc |-> "list"])
  /\ UNCHANGED <<now, revoked, trimmed, untrimmed>>

\* SMEMBERS: up to the cap there is nothing to do.
TrimList(r) ==
  /\ job[r].pc = "list"
  /\ Become(r, IF Cardinality(index) <= maxSessionsPerUsr THEN Idle
               ELSE [pc |-> "scan", todo |-> index, live |-> {}, stale |-> {}])
  /\ untrimmed' = FALSE
  /\ UNCHANGED <<now, made, redisVars, expiry, lastUse, revoked, trimmed, stray>>

\* GET of one listed session: it is live, or its key has gone.
TrimGet(r, s) ==
  /\ job[r].pc = "scan" /\ s \in job[r].todo
  /\ Become(r, [job[r] EXCEPT !.todo = @ \ {s},
                              !.live = IF s \in keys THEN @ \cup {s} ELSE @,
                              !.stale = IF s \in keys THEN @ ELSE @ \cup {s}])
  /\ UNCHANGED <<now, made, redisVars, histVars>>

Newest(S) == CHOOSE s \in S : \A t \in S : t <= s  \* mutant

Oldest(S) == CHOOSE s \in S : \A t \in S : s <= t

\* DEL of the oldest live session, as long as there are too many.
TrimDel(r) ==
  /\ job[r].pc = "scan" /\ job[r].todo = {}
  /\ Cardinality(job[r].live) > maxSessionsPerUsr
  /\ LET s == Oldest(job[r].live) IN
       /\ Del({s})
       /\ trimmed' = trimmed \cup {s}
       /\ Become(r, [job[r] EXCEPT !.live = @ \ {s}, !.stale = @ \cup {s}])
  /\ UNCHANGED <<now, made, index, indexDies, expiry, revoked, stray, untrimmed>>

TrimRemAfterOne(r) ==  \* mutant: one session is dropped where it should be as many as needed
  /\ job[r].pc = "scan" /\ job[r].todo = {}
  /\ Cardinality(job[r].live) <= maxSessionsPerUsr \/ job[r].stale \cap trimmed # {}
  /\ Index(index \ job[r].stale, indexDies)
  /\ Become(r, Idle)
  /\ UNCHANGED <<now, made, keys, stored, histVars>>

\* SREM of the sessions that are gone.
TrimRem(r) ==
  /\ job[r].pc = "scan" /\ job[r].todo = {}
  /\ Cardinality(job[r].live) <= maxSessionsPerUsr
  /\ Index(index \ job[r].stale, indexDies)
  /\ Become(r, Idle)
  /\ UNCHANGED <<now, made, keys, stored, histVars>>

-----------------------------------------------------------------------------
(* Get and Touch: identify and Require *)

Loaded(pc, s) == [pc |-> pc, id |-> s, exp |-> stored[s].exp, seen |-> stored[s].seen]

\* Get with a token whose key exists; with any other it just reports ErrSessionNotFound.
Get(r, s) ==
  /\ job[r] = Idle /\ s \in keys
  /\ Become(r, Loaded(IF now > stored[s].exp THEN "expired" ELSE "loaded", s))
  /\ UNCHANGED <<now, made, redisVars, histVars>>

\* Touch within touchGranularity of LastSeenAt: nothing is written.
TouchSkips(r) ==
  /\ job[r].pc = "loaded" /\ now - job[r].seen < touchGranularity
  /\ lastUse' = [lastUse EXCEPT ![job[r].id] = now]
  /\ Become(r, Idle)
  /\ UNCHANGED <<now, made, redisVars, expiry, revoked, trimmed, stray, untrimmed>>

TouchExtends(r) ==  \* mutant: the absolute expiry slides along
  LET s == job[r].id IN
  /\ job[r].pc = "loaded" /\ now - job[r].seen >= touchGranularity
  /\ Set(s, now + absoluteTTL, now, idleTTL)
  /\ lastUse' = [lastUse EXCEPT ![s] = now]
  /\ stray' = IF s \in keys THEN stray ELSE stray \cup {s}
  /\ Become(r, Idle)
  /\ UNCHANGED <<now, made, index, indexDies, expiry, revoked, trimmed, untrimmed>>

TouchKeepsTTL(r) ==  \* mutant: LastSeenAt is renewed and the key's TTL is not
  LET s == job[r].id IN
  /\ job[r].pc = "loaded" /\ now - job[r].seen >= touchGranularity
  /\ keys' = keys \cup {s}
  /\ stored' = [stored EXCEPT ![s].exp = job[r].exp, ![s].seen = now]
  /\ lastUse' = [lastUse EXCEPT ![s] = now]
  /\ stray' = IF s \in keys THEN stray ELSE stray \cup {s}
  /\ Become(r, Idle)
  /\ UNCHANGED <<now, made, index, indexDies, expiry, revoked, trimmed, untrimmed>>

\* Touch: SET of the session as Get found it, whether or not its key still exists.
Touch(r) ==
  LET s == job[r].id IN
  /\ job[r].pc = "loaded" /\ now - job[r].seen >= touchGranularity
  /\ Set(s, job[r].exp, now, ttlFor(job[r].exp))
  /\ lastUse' = [lastUse EXCEPT ![s] = now]
  /\ stray' = IF s \in keys THEN stray ELSE stray \cup {s}
  /\ Become(r, Idle)
  /\ UNCHANGED <<now, made, index, indexDies, expiry, revoked, trimmed, untrimmed>>

-----------------------------------------------------------------------------
(* Revoke and RevokeAllForUser *)

\* The TxPipeline of revokeByID, called by Get for an expired session and by Revoke.
revokeByID(r) ==
  LET s == job[r].id IN
  /\ job[r].pc \in {"expired", "revoking"}
  /\ Del({s})
  /\ Index(index \ {s}, indexDies)
  /\ revoked' = revoked \cup {s}
  /\ Become(r, Idle)
  /\ UNCHANGED <<now, made, expiry, trimmed, stray, untrimmed>>

\* The GET of Revoke; a token without a key has nothing to revoke.
Revoke(r, s) ==
  /\ job[r] = Idle /\ s \in keys
  /\ Become(r, Loaded("revoking", s))
  /\ UNCHANGED <<now, made, redisVars, histVars>>

\* The SMEMBERS of RevokeAllForUser, for ChangePassword (keep) and LogoutAll.
RevokeAllList(r, keep) ==
  /\ job[r] = Idle
  /\ Become(r, [pc |-> "listed", ids |-> index, keep |-> keep, upto |-> made])
  /\ UNCHANGED <<now, made, redisVars, histVars>>

\* Its TxPipeline: the listed sessions and the index go, the kept one is put back.
RevokeAllForUser(r) ==
  LET j == job[r]  kept == j.ids \cap {j.keep} IN
  /\ j.pc = "listed"
  /\ Del(j.ids \ kept)
  /\ Index(kept, now + absoluteTTL)
  /\ revoked' = revoked \cup ((1 .. j.upto) \ {j.keep})
  /\ Become(r, Idle)
  /\ UNCHANGED <<now, made, expiry, trimmed, stray, untrimmed>>

-----------------------------------------------------------------------------
(* The specification *)

\* A Redis error, a cancelled request context or a crash ends a request between two
\* commands. AuthenticateWS too ends after Get.
Abort(r) ==
  /\ job[r] # Idle
  /\ untrimmed' = (untrimmed \/ job[r].pc \in {"list", "scan"})
  /\ Become(r, Idle)
  /\ UNCHANGED <<now, made, redisVars, expiry, lastUse, revoked, trimmed, stray>>

Next ==
  \/ Tick
  \/ \E r \in Requests :
       \/ Create(r) \/ TrimList(r) \/ TrimDel(r) \/ TrimRem(r)
       \/ TouchSkips(r) \/ Touch(r)
       \/ revokeByID(r) \/ RevokeAllForUser(r) \/ Abort(r)
       \/ \E s \in Sessions : TrimGet(r, s) \/ Get(r, s) \/ Revoke(r, s)
       \/ \E keep \in {NoSession} \cup (1 .. made) : RevokeAllList(r, keep)

Spec == Init /\ [][Next]_vars

-----------------------------------------------------------------------------
(* Properties *)

\* "Hard session lifetime, never extended" (README, SESSION_ABSOLUTE_TTL): no request is
\* admitted later than the ExpiresAt its session was created with, whatever touches,
\* revocations and late writes happened in between.
AbsoluteBound ==
  [][\A r \in Requests : job[r] = Idle /\ job'[r].pc = "loaded" => now <= expiry[job'[r].id]]_vars

\* An active user is not signed out: the key of a session nobody revokes or trims is
\* not dropped within idleTTL less touchGranularity of the last request served with it,
\* before ExpiresAt, although most requests write nothing.
NotSignedOutEarly ==
  [][\A s \in keys \ keys' :
       s \notin revoked' \cup trimmed'
         => now' >= expiry[s] \/ now' > lastUse[s] + idleTTL - touchGranularity]_vars

\* trimSessions only ever drops a session that has at least maxSessionsPerUsr younger
\* ones, however many logins trim at the same time.
TrimsOldest == \A s \in trimmed : made - s >= maxSessionsPerUsr

\* At most maxSessionsPerUsr indexed sessions are alive once no login is trimming, however
\* the trims of concurrent logins interleave. A trim that fails leaves too many, and the
\* next login that gets as far as listing them makes up for it.
CapHolds ==
  ~untrimmed /\ (\A r \in Requests : job[r].pc \notin {"list", "scan"})
    => Cardinality(index \cap keys) <= maxSessionsPerUsr

\* The index RevokeAllForUser and trimSessions work from has every live session, but for
\* two races: a session created between the two commands of a revoke-all, and one whose
\* key a Touch wrote again after it had gone.
IndexCovers == keys \subseteq index \cup stray

\* "a credential change must not leave an attacker's existing session alive"
\* (RevokeAllForUser): a session that a completed logout or revoke-all covered has no key.
RevokedStaysRevoked == revoked \cap keys = {}

\* "ttlFor never lets the idle window outlive the absolute expiry": Redis drops every
\* session key at its ExpiresAt at the latest.
KeysExpire == \A s \in keys : stored[s].dies # NoTTL /\ stored[s].dies <= stored[s].exp
=============================================================================
