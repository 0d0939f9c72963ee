----------------------------- MODULE Credentials -----------------------------
(***************************************************************************)
(* The credential endpoints of one account: Register, Login and             *)
(* ChangePassword of internal/auth/service.go, with the counters of         *)
(* ratelimit.go in Redis, the rows of store.go in Postgres and the Argon2   *)
(* semaphore of password.go.                                               *)
(*                                                                         *)
(* A request is a sequence of commands to Postgres and Redis and of key     *)
(* derivations; each is one step, with the computation up to the next one.  *)
(* All requests come from one address and name one account. The session     *)
(* store appears with one atomic step per method: module Sessions has what  *)
(* happens inside them, and Logout and LogoutAll. Audit rows are left out:  *)
(* failing to write one is logged and changes nothing.                      *)
(***************************************************************************)
EXTENDS Integers, FiniteSets

CONSTANTS
  Requests,    \* the requests in progress at the same time
  Passwords,   \* the passwords people try
  Weak,        \* those that ValidatePassword refuses
  Limit,       \* Limit.Requests of every counter
  Window,      \* Limit.Window, in ticks, the same for every counter
  hashSlots,   \* the capacity of the semaphore: at least 2 in the code
  MaxRequests  \* bound of the model: requests that are ever made

Counters == {"login:ip", "login:account", "register:ip", "password:ip"}

ASSUME RequestsAssumption == IsFiniteSet(Requests)
ASSUME PasswordAssumption == Weak \subseteq Passwords
ASSUME LimitAssumption    == Limit \in [Counters -> Nat \ {0}] /\ Window \in Nat \ {0}
ASSUME BoundsAssumption   == hashSlots \in Nat \ {0} /\ MaxRequests \in Nat

VARIABLES
  hash,      \* the password_credentials row of the account, if there is an account
  disabled,  \* users.disabled_at is set
  count,     \* the rl: keys: hits in the running window
  ttl,       \* the ticks left until Redis drops each of them
  slots,     \* len(hashSlots): the slots of the semaphore that are taken
  hashing,   \* the requests inside deriveKey that have got past the semaphore
  job,       \* what each request is doing
  asked,     \* requests made so far, for the bound MaxRequests
  sessions,  \* the live sessions, numbered as they are made
  made,      \* sessions made so far
  by,        \* history: the password a session was obtained with
  chosen,    \* history: the password last set by Register or ChangePassword
  accepted,  \* history: every password that was ever chosen so
  allowance  \* history: the wrong guesses the account limit still allows; see GuessesBounded

limitVars == <<count, ttl>>
sessionVars == <<sessions, made, by>>
histVars == <<chosen, accepted, allowance>>
slotVars == <<slots, hashing>>
vars == <<hash, disabled, limitVars, slotVars, job, asked, sessionVars, histVars>>

\* A stored hash: the password it is of, and whether it has the current cost parameters.
Hash == [pw : Passwords, current : BOOLEAN]
NoAccount == [pw |-> "none", current |-> FALSE]

SessionIDs == 1 .. MaxRequests + 1
NoSession == 0

\* At pc "verify", "dummy", "rehash" and "hash" a request is in deriveKey, waiting for a
\* slot or hashing; at every other one it is about to send a command.
Deriving == {"verify", "dummy", "rehash", "hash"}
Commands == {"account", "lookup", "insert", "store", "reset", "session", "revoke"}
Idle == [pc |-> "idle"]
Jobs == [pc : Deriving \cup Commands, op : {"register", "login", "password"},
         pw : Passwords, next : Passwords, keep : SessionIDs \cup {NoSession},
         hash : Hash \cup {NoAccount}]

TypeOK ==
  /\ hash \in Hash \cup {NoAccount}
  /\ disabled \in BOOLEAN
  /\ count \in [Counters -> Nat]
  /\ ttl \in [Counters -> 0 .. Window]
  /\ slots \in 0 .. hashSlots
  /\ hashing \subseteq Requests
  /\ job \in [Requests -> Jobs \cup {Idle}]
  /\ asked \in 0 .. MaxRequests
  /\ sessions \subseteq 1 .. made
  /\ made \in 0 .. MaxRequests + 1
  /\ by \in [SessionIDs -> Passwords \cup {NoAccount.pw}]
  /\ chosen \in Passwords \cup {NoAccount.pw}
  /\ accepted \subseteq Passwords
  /\ allowance \in Int

\* The account does not exist, or has a hash, and a session, from before the cost was
\* last raised.
Init ==
  /\ hash \in {NoAccount} \cup [pw : Passwords \ Weak, current : {FALSE}]
  /\ disabled = FALSE
  /\ count = [k \in Counters |-> 0]
  /\ ttl = [k \in Counters |-> 0]
  /\ slots = 0
  /\ hashing = {}
  /\ job = [r \in Requests |-> Idle]
  /\ asked = 0
  /\ made = IF hash = NoAccount THEN 0 ELSE 1
  /\ sessions = 1 .. made
  /\ by = [s \in SessionIDs |-> IF s <= made THEN hash.pw ELSE NoAccount.pw]
  /\ chosen = hash.pw
  /\ accepted = {hash.pw} \cap Passwords
  /\ allowance = Limit["login:account"]

Become(r, j) == job' = [job EXCEPT ![r] = j]
Goto(r, pc) == Become(r, [job[r] EXCEPT !.pc = pc])

-----------------------------------------------------------------------------
(* ratelimit.go *)

HitNeverExpires(k) ==  \* mutant: the process dies between INCR and PEXPIRE
  /\ count' = [count EXCEPT ![k] = @ + 1]
  /\ UNCHANGED ttl

\* incrementAndExpire: the window runs from the first hit, later ones do not extend it.
Hit(k) ==
  /\ count' = [count EXCEPT ![k] = @ + 1]
  /\ ttl' = [ttl EXCEPT ![k] = IF count[k] = 0 THEN Window ELSE @]

AllowsOneMore(k) == count[k] <= Limit[k]  \* mutant

\* Allow's answer to the hit that is being counted: within the quota.
Allows(k) == count[k] + 1 <= Limit[k]

\* check(k): an allowed request goes on as j. A refused one ends, and so does one that is
\* counted and does not hear the answer: check fails closed.
Check(r, k, j) == Hit(k) /\ (Become(r, Idle) \/ (Allows(k) /\ Become(r, j)))

\* Redis drops a counter when its window is over.
Tick ==
  LET left == [k \in Counters |-> IF ttl[k] > 0 THEN ttl[k] - 1 ELSE 0] IN
  /\ \E k \in Counters : ttl[k] > 0
  /\ ttl' = left
  /\ count' = [k \in Counters |-> IF ttl[k] = 1 THEN 0 ELSE count[k]]
  /\ allowance' = IF ttl["login:account"] = 1 THEN allowance + Limit["login:account"] ELSE allowance
  /\ UNCHANGED <<hash, disabled, slotVars, job, asked, sessionVars, chosen, accepted>>

-----------------------------------------------------------------------------
(* The beginning of a request *)

Request(op, pc, pw, next, keep) ==
  [op |-> op, pc |-> pc, pw |-> pw, next |-> next, keep |-> keep, hash |-> NoAccount]

Arrives(r) == job[r] = Idle /\ asked < MaxRequests /\ asked' = asked + 1

startRest == <<hash, disabled, slotVars, sessionVars, histVars>>

\* Register up to HashPassword; a password that ValidatePassword refuses is still counted.
Register(r, pw) ==
  /\ Arrives(r)
  /\ Check(r, "register:ip",
           IF pw \in Weak THEN Idle ELSE Request("register", "hash", pw, pw, NoSession))
  /\ UNCHANGED startRest

Login(r, pw) ==
  /\ Arrives(r)
  /\ Check(r, "login:ip", Request("login", "account", pw, pw, NoSession))
  /\ UNCHANGED startRest

\* changePassword, behind Require with the session `keep`.
ChangePassword(r, pw, next, keep) ==
  /\ Arrives(r)
  /\ keep \in sessions /\ ~disabled
  /\ Check(r, "password:ip", Request("password", "lookup", pw, next, keep))
  /\ UNCHANGED startRest

\* The second counter of Login.
LoginPerAccount(r) ==
  /\ job[r].pc = "account"
  /\ Check(r, "login:account", [job[r] EXCEPT !.pc = "lookup"])
  /\ UNCHANGED <<hash, disabled, slotVars, asked, sessionVars, histVars>>

-----------------------------------------------------------------------------
(* store.go and password.go *)

commandRest == <<limitVars, slotVars, asked>>

\* The lookup of Login. An unknown or disabled account costs a derivation all the same.
ByEmailWithCredential(r) ==
  /\ job[r].pc = "lookup" /\ job[r].op = "login"
  /\ Become(r, [job[r] EXCEPT !.hash = hash,
       !.pc = IF hash = NoAccount \/ disabled THEN "dummy" ELSE "verify"])
  /\ UNCHANGED <<hash, disabled, commandRest, sessionVars, histVars>>

\* The lookup of ChangePassword.
CredentialByUserID(r) ==
  /\ job[r].pc = "lookup" /\ job[r].op = "password"
  /\ Become(r, [job[r] EXCEPT !.hash = hash, !.pc = "verify"])
  /\ UNCHANGED <<hash, disabled, commandRest, sessionVars, histVars>>

AcquireUncapped(r) ==  \* mutant: deriveKey does not wait for a free slot
  /\ job[r].pc \in Deriving /\ r \notin hashing
  /\ slots' = slots + 1
  /\ hashing' = hashing \cup {r}
  /\ UNCHANGED <<hash, disabled, limitVars, job, asked, sessionVars, histVars>>

\* deriveKey takes a slot of the semaphore; the channel does not know whose slot it is.
Acquire(r) ==
  /\ job[r].pc \in Deriving /\ r \notin hashing
  /\ slots < hashSlots
  /\ slots' = slots + 1
  /\ hashing' = hashing \cup {r}
  /\ UNCHANGED <<hash, disabled, limitVars, job, asked, sessionVars, histVars>>

\* VerifyPassword, on the hash that was looked up.
Matches(j) == j.hash.pw = j.pw

\* What a request does with the key it derived. A correct password under old cost
\* parameters is hashed again, which takes a slot again.
AfterDeriving(j) ==
  CASE j.pc = "dummy" -> Idle
    [] j.pc = "verify" /\ ~Matches(j) -> Idle
    [] j.pc = "verify" /\ Matches(j) /\ j.op = "login" ->
         [j EXCEPT !.pc = IF j.hash.current THEN "reset" ELSE "rehash"]
    [] j.pc = "verify" /\ Matches(j) /\ j.op = "password" ->
         IF j.next \in Weak THEN Idle ELSE [j EXCEPT !.pc = "hash"]
    [] j.pc = "rehash" -> [j EXCEPT !.pc = "store"]
    [] j.pc = "hash" -> [j EXCEPT !.pc = IF j.op = "register" THEN "insert" ELSE "store"]

\* A login that guessed wrong costs one guess; a correct one clears the account counter.
Allowance(j) ==
  IF j.op # "login" \/ j.pc # "verify" THEN allowance
  ELSE IF Matches(j) THEN allowance + Limit["login:account"] ELSE allowance - 1

DerivedHoldsOn(r) ==  \* mutant: a request that hashes twice keeps its first slot meanwhile
  /\ r \in hashing
  /\ slots' = IF AfterDeriving(job[r]).pc \in Deriving THEN slots ELSE slots - 1
  /\ hashing' = hashing \ {r}
  /\ Become(r, AfterDeriving(job[r]))
  /\ allowance' = Allowance(job[r])
  /\ UNCHANGED <<hash, disabled, limitVars, asked, sessionVars, chosen, accepted>>

\* The key is derived and deriveKey gives its slot back.
Derived(r) ==
  /\ r \in hashing
  /\ slots' = slots - 1
  /\ hashing' = hashing \ {r}
  /\ Become(r, AfterDeriving(job[r]))
  /\ allowance' = Allowance(job[r])
  /\ UNCHANGED <<hash, disabled, limitVars, asked, sessionVars, chosen, accepted>>

InsertOverlooksTaken(r) ==  \* mutant: a duplicate email is not noticed
  /\ job[r].pc = "insert"
  /\ IF hash = NoAccount
     THEN /\ hash' = [pw |-> job[r].pw, current |-> TRUE]
          /\ chosen' = job[r].pw
          /\ accepted' = accepted \cup {job[r].pw}
     ELSE UNCHANGED <<hash, chosen, accepted>>
  /\ Goto(r, "session")
  /\ UNCHANGED <<disabled, commandRest, sessionVars, allowance>>

\* UserStore.Create: one transaction for both rows; a second account is ErrEmailTaken. The
\* account may be there and the reply to the COMMIT lost: then Register fails all the same.
Insert(r) ==
  /\ job[r].pc = "insert"
  /\ IF hash = NoAccount
     THEN /\ hash' = [pw |-> job[r].pw, current |-> TRUE]
          /\ chosen' = job[r].pw
          /\ accepted' = accepted \cup {job[r].pw}
          /\ Goto(r, "session") \/ Become(r, Idle)
     ELSE Become(r, Idle) /\ UNCHANGED <<hash, chosen, accepted>>
  /\ UNCHANGED <<disabled, commandRest, sessionVars, allowance>>

\* UpdatePassword, for the new hash of Login and for the new password of ChangePassword,
\* which does not go on to revoke the sessions when it does not hear that it is stored.
Store(r) ==
  /\ job[r].pc = "store"
  /\ hash' = [pw |-> job[r].next, current |-> TRUE]
  /\ IF job[r].op = "password"
     THEN /\ chosen' = job[r].next
          /\ accepted' = accepted \cup {job[r].next}
          /\ Goto(r, "revoke") \/ Become(r, Idle)
     ELSE Goto(r, "reset") /\ UNCHANGED <<chosen, accepted>>
  /\ UNCHANGED <<disabled, commandRest, sessionVars, allowance>>

-----------------------------------------------------------------------------
(* The end of a request *)

\* limiter.Reset of the account counter, after a correct password.
Reset(r) ==
  /\ job[r].pc = "reset"
  /\ count' = [count EXCEPT !["login:account"] = 0]
  /\ ttl' = [ttl EXCEPT !["login:account"] = 0]
  /\ Goto(r, "session")
  /\ UNCHANGED <<hash, disabled, slotVars, asked, sessionVars, histVars>>

\* sessions.Create, the last step of Register and Login.
CreateSession(r) ==
  /\ job[r].pc = "session"
  /\ made' = made + 1
  /\ sessions' = sessions \cup {made'}
  /\ by' = [by EXCEPT ![made'] = job[r].pw]
  /\ Become(r, Idle)
  /\ UNCHANGED <<hash, disabled, commandRest, histVars>>

\* sessions.RevokeAllForUser, the last step of ChangePassword.
RevokeOthers(r) ==
  /\ job[r].pc = "revoke"
  /\ sessions' = sessions \cap {job[r].keep}
  /\ Become(r, Idle)
  /\ UNCHANGED <<hash, disabled, commandRest, made, by, histVars>>

\* Postgres or Redis fails, or the request is cancelled, also while it waits for a slot.
\* Login only logs that its rehash or its Reset failed. A command that is executed and whose
\* reply is lost is Check, Insert or Store; with every other one the request comes to the
\* state it is in after the reply, or after the failure.
Fails(r) ==
  /\ job[r] # Idle /\ r \notin hashing
  /\ LET j == job[r] IN
       Become(r, CASE j.op = "login" /\ j.pc \in {"rehash", "store"} -> [j EXCEPT !.pc = "reset"]
                   [] j.pc = "reset" -> [j EXCEPT !.pc = "session"]
                   [] OTHER -> Idle)
  /\ UNCHANGED <<hash, disabled, commandRest, sessionVars, histVars>>

\* An operator disables the account, by hand, in Postgres.
Disable ==
  /\ ~disabled /\ hash # NoAccount
  /\ disabled' = TRUE
  /\ UNCHANGED <<hash, commandRest, job, sessionVars, histVars>>

-----------------------------------------------------------------------------
(* The specification *)

Command(r) == \/ LoginPerAccount(r) \/ ByEmailWithCredential(r) \/ CredentialByUserID(r)
              \/ Insert(r) \/ Store(r)
              \/ Reset(r) \/ CreateSession(r) \/ RevokeOthers(r)

\* Everyone the model makes ask has been answered.
Finished == asked = MaxRequests /\ (\A r \in Requests : job[r] = Idle) /\ UNCHANGED vars

Next ==
  \/ Tick \/ Disable \/ Finished
  \/ \E r \in Requests :
       \/ \E pw \in Passwords : Register(r, pw) \/ Login(r, pw)
       \/ \E pw, next \in Passwords, keep \in sessions : ChangePassword(r, pw, next, keep)
       \/ Acquire(r) \/ Derived(r) \/ Command(r) \/ Fails(r)

Spec == Init /\ [][Next]_vars

-----------------------------------------------------------------------------
(* Properties *)

\* LoginPerAccount bounds guessing although checks, resets, expiring windows and the
\* verifications they precede interleave: over any history, the wrong passwords tried are
\* at most Limit.Requests for the first window, for every window that ran out and for
\* every correct password. The allowance is what is left of that.
GuessesBounded == allowance >= 0

\* A session was obtained with a password that was the account's at some time: the loser of
\* two concurrent registrations, and a login racing a change, get none by another one.
SessionsEarned == \A s \in sessions : by[s] \in accepted

\* "transparently upgrading a hash whose cost parameters are out of date" (UpdatePassword):
\* the password that is accepted is the one last chosen, whoever else logs in meanwhile.
RehashKeepsPassword == hash.pw = chosen

\* "a permanent lockout" (incrementAndExpire) is ruled out: a counter that counts hits is
\* always on its way to be dropped, whatever fails, resets it or runs out in between.
NoLockout == \A k \in Counters : count[k] > 0 => ttl[k] > 0

\* "Concurrent hashes are capped" (README): the cap never turns into a standstill. Every
\* slot that is taken belongs to a request that is hashing right now, so that every way out
\* of deriveKey gives it back, and a login that hashes twice does not hold the first slot
\* while it waits for the second: with hashSlots of them, all would wait for ever.
SlotsReturned == slots = Cardinality(hashing)
=============================================================================
