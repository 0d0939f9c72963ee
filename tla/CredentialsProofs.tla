-------------------------- MODULE CredentialsProofs --------------------------
(***************************************************************************)
(* Proofs about Credentials, for any number of concurrent requests, any     *)
(* passwords, quotas, windows and number of Argon2 slots.                   *)
(*                                                                         *)
(* What a request may assume at each command is Shaped (which operation is  *)
(* there) and Proven (the password it goes on with was the account's). The  *)
(* bound on guessing is not inductive: Covered accounts for the guesses     *)
(* that have been allowed and not yet made, and for the resets that have    *)
(* been earned and not yet carried out.                                     *)
(***************************************************************************)
EXTENDS Credentials, FiniteSetTheorems, TLAPS

-----------------------------------------------------------------------------
(* Jobs *)

\* A job is that of an idle request or has one of the program counters.
LEMMA JobFacts ==
  ASSUME NEW j \in Jobs \cup {Idle}
  PROVE  /\ j.pc = "idle" <=> j = Idle
         /\ j # Idle => j \in Jobs /\ j.pc \in Deriving \cup Commands
  BY DEF Jobs, Idle, Deriving, Commands

\* A request that becomes j leaves every other request as it was.
LEMMA BecomeMoves ==
  ASSUME job \in [Requests -> Jobs \cup {Idle}], NEW r \in Requests,
         NEW j \in Jobs \cup {Idle}, Become(r, j)
  PROVE  /\ job' \in [Requests -> Jobs \cup {Idle}]
         /\ job'[r] = j
         /\ \A q \in Requests : q # r => job'[q] = job[q]
  BY DEF Become

\* A job that only moves on to another command.
LEMMA MoveType ==
  ASSUME NEW j \in Jobs, NEW pc \in Deriving \cup Commands
  PROVE  /\ [j EXCEPT !.pc = pc] \in Jobs
         /\ [j EXCEPT !.pc = pc].pc = pc
         /\ [j EXCEPT !.pc = pc].op = j.op /\ [j EXCEPT !.pc = pc].pw = j.pw
         /\ [j EXCEPT !.pc = pc].next = j.next /\ [j EXCEPT !.pc = pc].hash = j.hash
  BY DEF Jobs

\* Which operation a request can be at each command.
Fits(j) ==
  /\ j.pc \in {"account", "dummy", "rehash", "reset"} => j.op = "login"
  /\ j.pc \in {"lookup", "verify", "store"} => j.op \in {"login", "password"}
  /\ j.pc = "hash" => j.op \in {"register", "password"}
  /\ j.pc = "insert" => j.op = "register"
  /\ j.pc = "revoke" => j.op = "password"
  /\ j.pc = "session" => j.op # "password"
  /\ j.op # "password" => j.next = j.pw

Shaped(j) == j # Idle => Fits(j)

\* What a request knows of its password, and of the hash it has read: they are in P.
Proven(j, P) ==
  j # Idle =>
    /\ j.op = "login" /\ j.pc = "verify" => j.hash.pw \in P
    /\ j.op # "password" /\ j.pc \in {"rehash", "store", "reset", "session"} => j.pw \in P

\* What a derived key makes of a request, and what the request knows then.
LEMMA DerivedShape ==
  ASSUME NEW j \in Jobs, Fits(j), j.pc \in Deriving, NEW P
  PROVE  /\ AfterDeriving(j) \in Jobs \cup {Idle}
         /\ Shaped(AfterDeriving(j))
         /\ Proven(j, P) => Proven(AfterDeriving(j), P)
         /\ AfterDeriving(j) # Idle =>
              /\ AfterDeriving(j).op = j.op /\ AfterDeriving(j).pc \notin {"lookup", "verify", "dummy"}
              /\ AfterDeriving(j).op = "login" /\ AfterDeriving(j).pc \in {"rehash", "store", "reset"} =>
                   \/ j.pc = "rehash"
                   \/ j.pc = "verify" /\ Matches(j)
<1>1. CASE j.pc = "dummy" \/ (j.pc = "verify" /\ ~ Matches(j))
  <2>1. AfterDeriving(j) = Idle
    BY <1>1 DEF AfterDeriving
  <2>2. QED
    BY <2>1 DEF Shaped, Proven
<1>2. CASE j.pc = "verify" /\ Matches(j) /\ j.op = "login"
  <2>1. PICK pc \in {"reset", "rehash"} : AfterDeriving(j) = [j EXCEPT !.pc = pc]
    BY <1>2 DEF AfterDeriving
  <2>2. pc \in Deriving \cup Commands
    BY DEF Deriving, Commands
  <2> DEFINE k == [j EXCEPT !.pc = pc]
  <2>3. k \in Jobs /\ k.pc = pc /\ k.op = j.op /\ k.pw = j.pw /\ k.next = j.next /\ k.hash = j.hash
    BY <2>2, MoveType
  <2> HIDE DEF k
  <2>4. AfterDeriving(j) = k
    BY <2>1 DEF k
  <2>5. Proven(j, P) => Proven(k, P)
    BY <1>2, <2>3, JobFacts DEF Proven, Matches, Jobs, Idle
  <2>6. QED
    BY <1>2, <2>3, <2>4, <2>5 DEF Shaped, Fits
<1>3. CASE j.pc = "verify" /\ Matches(j) /\ j.op = "password"
  <2>1. CASE j.next \in Weak
    <3>1. AfterDeriving(j) = Idle
      BY <1>3, <2>1 DEF AfterDeriving
    <3>2. QED
      BY <3>1 DEF Shaped, Proven
  <2>2. CASE j.next \notin Weak
    <3> DEFINE k == [j EXCEPT !.pc = "hash"]
    <3>1. AfterDeriving(j) = k
      BY <1>3, <2>2 DEF AfterDeriving
    <3>2. "hash" \in Deriving \cup Commands
      BY DEF Deriving
    <3>3. k \in Jobs /\ k.pc = "hash" /\ k.op = j.op /\ k.pw = j.pw /\ k.next = j.next
      BY <3>2, MoveType
    <3> HIDE DEF k
    <3>4. QED
      BY <1>3, <3>1, <3>3 DEF Shaped, Fits, Proven
  <2>3. QED
    BY <2>1, <2>2
<1>4. CASE j.pc = "rehash"
  <2> DEFINE k == [j EXCEPT !.pc = "store"]
  <2>1. AfterDeriving(j) = k
    BY <1>4 DEF AfterDeriving
  <2>2. "store" \in Deriving \cup Commands
    BY DEF Commands
  <2>3. k \in Jobs /\ k.pc = "store" /\ k.op = j.op /\ k.pw = j.pw /\ k.next = j.next
    BY <2>2, MoveType
  <2> HIDE DEF k
  <2>4. j # Idle
    BY <1>4, JobFacts
  <2>5. QED
    BY <1>4, <2>1, <2>3, <2>4 DEF Shaped, Fits, Proven
<1>5. CASE j.pc = "hash"
  <2>1. PICK pc \in {"insert", "store"} :
          /\ AfterDeriving(j) = [j EXCEPT !.pc = pc]
          /\ pc = "insert" <=> j.op = "register"
    BY <1>5 DEF AfterDeriving
  <2>2. pc \in Deriving \cup Commands
    BY DEF Commands
  <2> DEFINE k == [j EXCEPT !.pc = pc]
  <2>3. k \in Jobs /\ k.pc = pc /\ k.op = j.op /\ k.pw = j.pw /\ k.next = j.next
    BY <2>2, MoveType
  <2> HIDE DEF k
  <2>4. AfterDeriving(j) = k
    BY <2>1 DEF k
  <2>5. QED
    BY <1>5, <2>1, <2>3, <2>4 DEF Shaped, Fits, Proven
<1>6. QED
  BY <1>1, <1>2, <1>3, <1>4, <1>5 DEF Deriving, Fits

-----------------------------------------------------------------------------
(* Types, slots and counters *)

Busy == {r \in Requests : job[r] # Idle}

\* A session is made by the last step of a request, and Init has one at most.
Counted == made + Cardinality(Busy) <= asked + 1

\* A request that is hashing is in deriveKey.
Hashers == \A r \in hashing : job[r].pc \in Deriving

Typed ==
  /\ TypeOK
  /\ \A r \in Requests : Shaped(job[r])
  /\ Counted
  /\ Hashers
  /\ SlotsReturned

\* The account counter of Login is one of the counters, with a quota.
LEMMA CountersFinite == "login:account" \in Counters /\ Limit["login:account"] \in Nat \ {0}
  BY LimitAssumption DEF Counters

\* The requests under way can be counted.
LEMMA BusyFinite == IsFiniteSet(Busy) /\ Cardinality(Busy) \in Nat
<1>1. Busy \subseteq Requests
  BY DEF Busy
<1>2. QED
  BY <1>1, RequestsAssumption, FS_Subset, FS_CardinalityType

\* How many requests are under way after one of them becomes j.
LEMMA BusyMoves ==
  ASSUME job \in [Requests -> Jobs \cup {Idle}], NEW r \in Requests,
         NEW j \in Jobs \cup {Idle}, Become(r, j)
  PROVE  /\ Cardinality(Busy) \in Nat /\ Cardinality(Busy') \in Nat
         /\ Cardinality(Busy') <= Cardinality(Busy) + 1
         /\ job[r] # Idle => Cardinality(Busy') <= Cardinality(Busy) /\ Cardinality(Busy) >= 1
         /\ job[r] # Idle /\ j = Idle => Cardinality(Busy') = Cardinality(Busy) - 1
<1>1. job'[r] = j /\ \A q \in Requests : q # r => job'[q] = job[q]
  BY BecomeMoves
<1>2. IsFiniteSet(Busy) /\ Cardinality(Busy) \in Nat
  BY BusyFinite
<1>3. CASE j = Idle
  <2>1. Busy' = Busy \ {r}
    BY <1>1, <1>3 DEF Busy
  <2>2. r \in Busy <=> job[r] # Idle
    BY DEF Busy
  <2>3. Cardinality(Busy \ {r}) = IF r \in Busy THEN Cardinality(Busy) - 1 ELSE Cardinality(Busy)
    BY <1>2, FS_RemoveElement
  <2>4. Cardinality(Busy \ {r}) \in Nat
    BY <1>2, FS_RemoveElement, FS_CardinalityType
  <2>5. QED
    BY <1>2, <1>3, <2>1, <2>2, <2>3, <2>4
<1>4. CASE j # Idle
  <2>1. Busy' = Busy \cup {r}
    BY <1>1, <1>4 DEF Busy
  <2>2. r \in Busy <=> job[r] # Idle
    BY DEF Busy
  <2>3. Cardinality(Busy \cup {r}) = IF r \in Busy THEN Cardinality(Busy) ELSE Cardinality(Busy) + 1
    BY <1>2, FS_AddElement
  <2>4. r \in Busy => Cardinality(Busy) # 0
    BY <1>2, FS_EmptySet
  <2>5. QED
    BY <1>2, <1>4, <2>1, <2>2, <2>3, <2>4
<1>5. QED
  BY <1>3, <1>4

\* An account before any request is in order.
LEMMA InitTyped == Init => Typed
<1> SUFFICES ASSUME Init PROVE Typed
  OBVIOUS
<1>1. hash \in Hash \cup {NoAccount}
  BY DEF Init, Hash
<1>2. /\ hash.pw \in Passwords \cup {NoAccount.pw}
  BY <1>1 DEF Hash, NoAccount
<1>3. made \in 0 .. MaxRequests + 1 /\ made <= 1
  BY BoundsAssumption DEF Init
<1>4. Busy = {} /\ Cardinality(Busy) = 0
  BY FS_EmptySet DEF Init, Busy
<1>5. slots \in 0 .. hashSlots /\ SlotsReturned
  BY FS_EmptySet, BoundsAssumption DEF Init, SlotsReturned
<1>6. by \in [SessionIDs -> Passwords \cup {NoAccount.pw}]
  BY <1>2 DEF Init
<1>7. count \in [Counters -> Nat] /\ ttl \in [Counters -> 0 .. Window]
  BY LimitAssumption DEF Init
<1>8. allowance \in Int /\ asked \in 0 .. MaxRequests
  BY CountersFinite, BoundsAssumption DEF Init
<1>9. chosen \in Passwords \cup {NoAccount.pw} /\ accepted \subseteq Passwords /\ disabled \in BOOLEAN
  BY <1>2 DEF Init
<1>10. TypeOK
  BY <1>1, <1>3, <1>5, <1>6, <1>7, <1>8, <1>9 DEF Init, TypeOK
<1>11. Counted
  BY <1>3, <1>4 DEF Init, Counted
<1>12. QED
  BY <1>5, <1>10, <1>11 DEF Init, Typed, Shaped, Hashers

\* The semaphore, a slot taken and a slot given back.
LEMMA SlotFacts ==
  ASSUME Typed, NEW r \in Requests
  PROVE  /\ r \in hashing /\ slots' = slots - 1 /\ hashing' = hashing \ {r}
              => slots' \in 0 .. hashSlots /\ SlotsReturned'
         /\ r \notin hashing /\ slots < hashSlots /\ slots' = slots + 1 /\ hashing' = hashing \cup {r}
              => slots' \in 0 .. hashSlots /\ SlotsReturned'
<1>1. hashing \subseteq Requests /\ slots \in 0 .. hashSlots /\ slots = Cardinality(hashing)
  BY DEF Typed, TypeOK, SlotsReturned
<1>2. IsFiniteSet(hashing)
  BY <1>1, RequestsAssumption, FS_Subset
<1>3. Cardinality(hashing \ {r}) = IF r \in hashing THEN Cardinality(hashing) - 1 ELSE Cardinality(hashing)
  BY <1>2, FS_RemoveElement
<1>4. Cardinality(hashing \ {r}) \in Nat
  BY <1>2, FS_RemoveElement, FS_CardinalityType
<1>5. Cardinality(hashing \cup {r}) = IF r \in hashing THEN Cardinality(hashing) ELSE Cardinality(hashing) + 1
  BY <1>2, FS_AddElement
<1>6. PICK c \in Nat : c = Cardinality(hashing) /\ c = slots /\ c <= hashSlots
  BY <1>1, BoundsAssumption
<1>7. ASSUME r \in hashing, slots' = slots - 1, hashing' = hashing \ {r}
      PROVE  slots' \in 0 .. hashSlots /\ SlotsReturned'
  <2>1. Cardinality(hashing') = c - 1 /\ c - 1 \in Nat /\ slots' = c - 1
    BY <1>3, <1>4, <1>6, <1>7
  <2>2. QED
    BY <1>6, <2>1, BoundsAssumption DEF SlotsReturned
<1>8. ASSUME r \notin hashing, slots < hashSlots, slots' = slots + 1, hashing' = hashing \cup {r}
      PROVE  slots' \in 0 .. hashSlots /\ SlotsReturned'
  <2>1. Cardinality(hashing') = c + 1 /\ slots' = c + 1 /\ c < hashSlots
    BY <1>5, <1>6, <1>8
  <2>2. QED
    BY <1>6, <2>1, BoundsAssumption DEF SlotsReturned
<1>9. QED
  BY <1>7, <1>8

\* A request that goes on, or ends, as j.
LEMMA GoesOn ==
  ASSUME Typed, NEW r \in Requests, job[r] # Idle, NEW j \in Jobs \cup {Idle}, Shaped(j),
         Become(r, j), UNCHANGED <<asked, made>>, r \notin hashing', hashing' \subseteq hashing
  PROVE  /\ job' \in [Requests -> Jobs \cup {Idle}]
         /\ \A q \in Requests : Shaped(job'[q])
         /\ Counted' /\ Hashers'
<1>0. /\ job \in [Requests -> Jobs \cup {Idle}] /\ \A q \in Requests : Shaped(job[q])
      /\ made \in Nat /\ asked \in Nat /\ made + Cardinality(Busy) <= asked + 1
      /\ Hashers /\ hashing \subseteq Requests
  BY BoundsAssumption DEF Typed, TypeOK, Counted
<1>1. /\ job' \in [Requests -> Jobs \cup {Idle}]
      /\ job'[r] = j /\ \A q \in Requests : q # r => job'[q] = job[q]
  BY <1>0, BecomeMoves
<1>2. /\ Cardinality(Busy) \in Nat /\ Cardinality(Busy') \in Nat
      /\ Cardinality(Busy') <= Cardinality(Busy)
  BY <1>0, BusyMoves
<1>3. Counted'
  BY <1>0, <1>2 DEF Counted
<1>4. Hashers'
  BY <1>0, <1>1 DEF Hashers
<1>5. \A q \in Requests : Shaped(job'[q])
  BY <1>0, <1>1
<1>6. QED
  BY <1>1, <1>3, <1>4, <1>5

\* A request that arrives.
LEMMA Starts ==
  ASSUME Typed, NEW r \in Requests, Arrives(r), NEW j \in Jobs \cup {Idle}, Shaped(j),
         Become(r, j), UNCHANGED <<made, slots, hashing>>
  PROVE  /\ job' \in [Requests -> Jobs \cup {Idle}]
         /\ \A q \in Requests : Shaped(job'[q])
         /\ Counted' /\ Hashers' /\ asked' \in 0 .. MaxRequests
<1>0. /\ job \in [Requests -> Jobs \cup {Idle}] /\ \A q \in Requests : Shaped(job[q])
      /\ made \in Nat /\ asked \in Nat /\ made + Cardinality(Busy) <= asked + 1
      /\ Hashers /\ hashing \subseteq Requests
  BY BoundsAssumption DEF Typed, TypeOK, Counted
<1>1. /\ job' \in [Requests -> Jobs \cup {Idle}]
      /\ job'[r] = j /\ \A q \in Requests : q # r => job'[q] = job[q]
  BY <1>0, BecomeMoves
<1>2. /\ Cardinality(Busy) \in Nat /\ Cardinality(Busy') \in Nat
      /\ Cardinality(Busy') <= Cardinality(Busy) + 1
  BY <1>0, BusyMoves
<1>3. asked' = asked + 1 /\ asked' \in 0 .. MaxRequests
  BY <1>0, BoundsAssumption DEF Arrives
<1>4. Counted'
  BY <1>0, <1>2, <1>3 DEF Counted
<1>5. r \notin hashing
  BY <1>0 DEF Hashers, Arrives, Idle, Deriving
<1>6. Hashers'
  BY <1>0, <1>1, <1>5 DEF Hashers
<1>7. \A q \in Requests : Shaped(job'[q])
  BY <1>0, <1>1
<1>8. QED
  BY <1>1, <1>3, <1>4, <1>6, <1>7

\* A hit, and with it a window that is running.
LEMMA HitCounts ==
  ASSUME TypeOK, NEW k \in Counters, Hit(k)
  PROVE  /\ count' \in [Counters -> Nat] /\ ttl' \in [Counters -> 0 .. Window]
         /\ count'[k] = count[k] + 1 /\ \A i \in Counters : i # k => count'[i] = count[i]
         /\ NoLockout => NoLockout'
<1>1. count \in [Counters -> Nat] /\ ttl \in [Counters -> 0 .. Window] /\ Window \in Nat \ {0}
  BY LimitAssumption DEF TypeOK
<1> DEFINE left == IF count[k] = 0 THEN Window ELSE ttl[k]
<1>2. count' = [count EXCEPT ![k] = count[k] + 1] /\ ttl' = [ttl EXCEPT ![k] = left]
  BY DEF Hit
<1>3. count[k] + 1 \in Nat /\ left \in 0 .. Window
  BY <1>1
<1>4. NoLockout => left > 0
  BY <1>1 DEF NoLockout
<1> HIDE DEF left
<1>5. /\ count' \in [Counters -> Nat] /\ ttl' \in [Counters -> 0 .. Window]
      /\ count'[k] = count[k] + 1 /\ \A i \in Counters : i # k => count'[i] = count[i] /\ ttl'[i] = ttl[i]
      /\ ttl'[k] = left
  BY <1>1, <1>2, <1>3
<1>6. NoLockout => NoLockout'
  BY <1>4, <1>5 DEF NoLockout
<1>7. QED
  BY <1>5, <1>6

\* What check makes of a request.
LEMMA CheckMoves ==
  ASSUME NEW r, NEW k, NEW j \in Jobs \cup {Idle}, Shaped(j), Check(r, k, j)
  PROVE  \E i \in Jobs \cup {Idle} : Become(r, i) /\ Shaped(i) /\ Hit(k)
<1>1. Shaped(Idle)
  BY DEF Shaped
<1>2. QED
  BY <1>1 DEF Check

\* The jobs of Register and Login.
LEMMA StartJobs ==
  ASSUME NEW pw \in Passwords
  PROVE  /\ Request("register", "hash", pw, pw, NoSession) \in Jobs
         /\ Shaped(Request("register", "hash", pw, pw, NoSession))
         /\ Request("login", "account", pw, pw, NoSession) \in Jobs
         /\ Shaped(Request("login", "account", pw, pw, NoSession))
         /\ Request("register", "hash", pw, pw, NoSession).pc = "hash"
         /\ Request("login", "account", pw, pw, NoSession).pc = "account"
<1>1. {"hash", "account"} \subseteq Deriving \cup Commands
  BY DEF Deriving, Commands
<1>2. QED
  BY <1>1 DEF Request, Jobs, Shaped, Fits

\* The job of ChangePassword.
LEMMA ChangeJob ==
  ASSUME TypeOK, NEW pw \in Passwords, NEW next \in Passwords, NEW keep \in sessions
  PROVE  /\ Request("password", "lookup", pw, next, keep) \in Jobs
         /\ Shaped(Request("password", "lookup", pw, next, keep))
<1>1. keep \in SessionIDs
  BY BoundsAssumption DEF TypeOK, SessionIDs
<1>2. "lookup" \in Deriving \cup Commands
  BY DEF Commands
<1>3. QED
  BY <1>1, <1>2 DEF Request, Jobs, Shaped, Fits

\* The job a command or a failure leaves behind, and what it still knows.
LEMMA GotoShape ==
  ASSUME NEW j \in Jobs, Fits(j), NEW pc \in {"lookup", "session", "revoke", "reset"},
         pc = "lookup" => j.op = "login", pc = "reset" => j.op = "login",
         pc = "session" => j.op # "password", pc = "revoke" => j.op = "password"
  PROVE  LET k == [j EXCEPT !.pc = pc] IN
         /\ k \in Jobs /\ k # Idle /\ Shaped(k)
         /\ k.pc = pc /\ k.op = j.op /\ k.pw = j.pw /\ k.next = j.next
<1>1. pc \in Deriving \cup Commands
  BY DEF Commands
<1> DEFINE k == [j EXCEPT !.pc = pc]
<1>2. k \in Jobs /\ k.pc = pc /\ k.op = j.op /\ k.pw = j.pw /\ k.next = j.next
  BY <1>1, MoveType
<1> HIDE DEF k
<1>3. k # Idle
  BY <1>2 DEF Idle
<1>4. Shaped(k)
  BY <1>2 DEF Shaped, Fits
<1>5. QED
  BY <1>2, <1>3, <1>4 DEF k

FailsTo(j) ==
  CASE j.op = "login" /\ j.pc \in {"rehash", "store"} -> [j EXCEPT !.pc = "reset"]
    [] j.pc = "reset" -> [j EXCEPT !.pc = "session"]
    [] OTHER -> Idle

\* A request that fails is over, or is a login that goes on without the rehash or the reset.
LEMMA FailsShape ==
  ASSUME NEW j \in Jobs, Fits(j)
  PROVE  /\ FailsTo(j) \in Jobs \cup {Idle} /\ Shaped(FailsTo(j))
         /\ FailsTo(j) # Idle =>
              /\ FailsTo(j).op = "login" /\ FailsTo(j).pw = j.pw /\ j.op = "login"
              /\ \/ FailsTo(j).pc = "reset" /\ j.pc \in {"rehash", "store"}
                 \/ FailsTo(j).pc = "session" /\ j.pc = "reset"
<1>1. CASE j.op = "login" /\ j.pc \in {"rehash", "store"}
  BY <1>1, GotoShape DEF FailsTo
<1>2. CASE j.pc = "reset"
  <2>1. j.op = "login" /\ FailsTo(j) = [j EXCEPT !.pc = "session"]
    BY <1>2 DEF Fits, FailsTo
  <2>2. LET k == [j EXCEPT !.pc = "session"] IN
        /\ k \in Jobs /\ k # Idle /\ Shaped(k)
        /\ k.pc = "session" /\ k.op = j.op /\ k.pw = j.pw
    BY <2>1, GotoShape
  <2>3. QED
    BY <1>2, <2>1, <2>2
<1>3. CASE ~ (j.op = "login" /\ j.pc \in {"rehash", "store"}) /\ j.pc # "reset"
  BY <1>3 DEF FailsTo, Shaped
<1>4. QED
  BY <1>1, <1>2, <1>3

\* The job of a request that has a command to send, or a key to derive.
LEMMA AtCommand ==
  ASSUME Typed, NEW r \in Requests, job[r].pc # "idle"
  PROVE  /\ job[r] \in Jobs /\ job[r] # Idle /\ Fits(job[r])
         /\ job[r].pc \notin Deriving => r \notin hashing
<1>1. job[r] \in Jobs \cup {Idle} /\ Shaped(job[r]) /\ Hashers
  BY DEF Typed, TypeOK
<1>2. job[r] \in Jobs /\ job[r] # Idle
  BY <1>1, JobFacts DEF Idle
<1>3. QED
  BY <1>1, <1>2 DEF Shaped, Hashers

\* A command keeps types, shapes, slots and the count of sessions.
LEMMA CommandTyped ==
  ASSUME Typed, NEW r \in Requests, Command(r)
  PROVE  Typed'
<1> USE DEF limitVars, slotVars, sessionVars, histVars, commandRest
<1>0. TypeOK
  BY DEF Typed
<1> DEFINE Kept == /\ job' \in [Requests -> Jobs \cup {Idle}]
                   /\ \A q \in Requests : Shaped(job'[q])
                   /\ Counted' /\ Hashers'
<1>a. ASSUME job[r].pc \notin Deriving \cup {"idle"}, NEW j \in Jobs \cup {Idle}, Shaped(j),
             Become(r, j), UNCHANGED <<asked, made, slots, hashing>>
      PROVE  Kept
  <2>1. job[r] # Idle /\ r \notin hashing
    BY <1>a, AtCommand
  <2>2. QED
    BY <1>a, <2>1, GoesOn
<1>b. Idle \in Jobs \cup {Idle} /\ Shaped(Idle)
  BY DEF Shaped
<1>1. CASE LoginPerAccount(r)
  <2>1. job[r].pc = "account" /\ job[r].pc \notin Deriving \cup {"idle"}
    BY <1>1 DEF LoginPerAccount, Deriving
  <2>2. job[r] \in Jobs /\ Fits(job[r]) /\ job[r].op = "login"
    BY <2>1, AtCommand DEF Fits
  <2>3. [job[r] EXCEPT !.pc = "lookup"] \in Jobs /\ Shaped([job[r] EXCEPT !.pc = "lookup"])
    BY <2>2, GotoShape
  <2>4. /\ Hit("login:account")
        /\ \E i \in Jobs \cup {Idle} : Become(r, i) /\ Shaped(i)
    BY <1>1, <2>3, CheckMoves DEF LoginPerAccount
  <2>5. UNCHANGED <<hash, disabled, slots, hashing, asked, sessions, made, by, chosen, accepted, allowance>>
    BY <1>1 DEF LoginPerAccount
  <2>6. Kept
    BY <1>a, <2>1, <2>4, <2>5
  <2>7. count' \in [Counters -> Nat] /\ ttl' \in [Counters -> 0 .. Window]
    BY <1>0, <2>4, HitCounts, CountersFinite
  <2>8. QED
    BY <1>0, <2>5, <2>6, <2>7 DEF Typed, TypeOK, SlotsReturned
<1>2. CASE ByEmailWithCredential(r) \/ CredentialByUserID(r)
  <2>1. /\ job[r].pc = "lookup" /\ job[r].pc \notin Deriving \cup {"idle"}
        /\ UNCHANGED <<hash, disabled, count, ttl, slots, hashing, asked, sessions, made, by, chosen, accepted, allowance>>
    BY <1>2 DEF ByEmailWithCredential, CredentialByUserID, Deriving
  <2>2. PICK pc \in {"dummy", "verify"} : /\ Become(r, [job[r] EXCEPT !.hash = hash, !.pc = pc])
                                          /\ pc = "dummy" => job[r].op = "login"
    BY <1>2 DEF ByEmailWithCredential, CredentialByUserID
  <2>3. job[r] \in Jobs /\ Fits(job[r])
    BY <2>1, AtCommand
  <2>4. pc \in Deriving \cup Commands /\ hash \in Hash \cup {NoAccount}
    BY <1>0 DEF Deriving, TypeOK
  <2> DEFINE k == [job[r] EXCEPT !.hash = hash, !.pc = pc]
  <2>5. k \in Jobs /\ k.pc = pc /\ k.op = job[r].op /\ k.pw = job[r].pw /\ k.next = job[r].next
    <3>1. PICK i \in Jobs : i = job[r]
      BY <2>3
    <3>2. PICK h \in Hash \cup {NoAccount} : h = hash
      BY <2>4
    <3>3. LET l == [i EXCEPT !.hash = h, !.pc = pc] IN
          l \in Jobs /\ l.pc = pc /\ l.op = i.op /\ l.pw = i.pw /\ l.next = i.next
      BY <2>4 DEF Jobs
    <3>4. QED
      BY <3>1, <3>2, <3>3
  <2>6. Become(r, k)
    BY <2>2
  <2> HIDE DEF k
  <2>7. Shaped(k)
    BY <2>1, <2>2, <2>3, <2>5 DEF Shaped, Fits
  <2>8. Kept
    BY <1>a, <2>1, <2>5, <2>6, <2>7
  <2>9. QED
    BY <1>0, <2>1, <2>8 DEF Typed, TypeOK, SlotsReturned
<1>3. CASE Insert(r)
  <2>1. /\ job[r].pc = "insert" /\ job[r].pc \notin Deriving \cup {"idle"}
        /\ UNCHANGED <<disabled, count, ttl, slots, hashing, asked, sessions, made, by, allowance>>
    BY <1>3 DEF Insert, Deriving
  <2>2. job[r] \in Jobs /\ Fits(job[r]) /\ job[r].op = "register" /\ job[r].pw \in Passwords
    BY <2>1, AtCommand DEF Fits, Jobs
  <2>3. [job[r] EXCEPT !.pc = "session"] \in Jobs /\ Shaped([job[r] EXCEPT !.pc = "session"])
    BY <2>2, GotoShape
  <2>4. \E j \in Jobs \cup {Idle} : Become(r, j) /\ Shaped(j)
    BY <1>3, <1>b, <2>3 DEF Insert, Goto
  <2>5. Kept
    BY <1>a, <2>1, <2>4
  <2>6. /\ hash' \in Hash \cup {NoAccount} /\ chosen' \in Passwords \cup {NoAccount.pw}
        /\ accepted' \subseteq Passwords
    <3>1. CASE hash = NoAccount
      <4>1. /\ hash' = [pw |-> job[r].pw, current |-> TRUE] /\ chosen' = job[r].pw
            /\ accepted' = accepted \cup {job[r].pw}
        BY <1>3, <3>1 DEF Insert
      <4>2. hash' \in Hash
        BY <2>2, <4>1 DEF Hash
      <4>3. QED
        BY <1>0, <2>2, <4>1, <4>2 DEF TypeOK
    <3>2. CASE hash # NoAccount
      <4>1. UNCHANGED <<hash, chosen, accepted>>
        BY <1>3, <3>2 DEF Insert
      <4>2. QED
        BY <1>0, <4>1 DEF TypeOK
    <3>3. QED
      BY <3>1, <3>2
  <2>7. QED
    BY <1>0, <2>1, <2>5, <2>6 DEF Typed, TypeOK, SlotsReturned
<1>4. CASE Store(r)
  <2>1. /\ job[r].pc = "store" /\ job[r].pc \notin Deriving \cup {"idle"}
        /\ UNCHANGED <<disabled, count, ttl, slots, hashing, asked, sessions, made, by, allowance>>
    BY <1>4 DEF Store, Deriving
  <2>2. job[r] \in Jobs /\ Fits(job[r]) /\ job[r].op \in {"login", "password"} /\ job[r].next \in Passwords
    BY <2>1, AtCommand DEF Fits, Jobs
  <2>3. /\ job[r].op = "password" => /\ [job[r] EXCEPT !.pc = "revoke"] \in Jobs
                                     /\ Shaped([job[r] EXCEPT !.pc = "revoke"])
        /\ job[r].op # "password" => /\ [job[r] EXCEPT !.pc = "reset"] \in Jobs
                                     /\ Shaped([job[r] EXCEPT !.pc = "reset"])
    BY <2>2, GotoShape
  <2>4. \E j \in Jobs \cup {Idle} : Become(r, j) /\ Shaped(j)
    BY <1>4, <1>b, <2>3 DEF Store, Goto
  <2>5. Kept
    BY <1>a, <2>1, <2>4
  <2>6. /\ hash' \in Hash \cup {NoAccount} /\ chosen' \in Passwords \cup {NoAccount.pw}
        /\ accepted' \subseteq Passwords
    BY <1>0, <1>4, <2>2 DEF Store, TypeOK, Hash
  <2>7. QED
    BY <1>0, <2>1, <2>5, <2>6 DEF Typed, TypeOK, SlotsReturned
<1>5. CASE Reset(r)
  <2>1. /\ job[r].pc = "reset" /\ job[r].pc \notin Deriving \cup {"idle"}
        /\ UNCHANGED <<hash, disabled, slots, hashing, asked, sessions, made, by, chosen, accepted, allowance>>
    BY <1>5 DEF Reset, Deriving
  <2>2. job[r] \in Jobs /\ Fits(job[r]) /\ job[r].op = "login"
    BY <2>1, AtCommand DEF Fits
  <2>3. [job[r] EXCEPT !.pc = "session"] \in Jobs /\ Shaped([job[r] EXCEPT !.pc = "session"])
    BY <2>2, GotoShape
  <2>4. Become(r, [job[r] EXCEPT !.pc = "session"])
    BY <1>5 DEF Reset, Goto
  <2>5. Kept
    BY <1>a, <2>1, <2>3, <2>4
  <2>6. count' \in [Counters -> Nat] /\ ttl' \in [Counters -> 0 .. Window]
    <3>1. /\ count' = [count EXCEPT !["login:account"] = 0]
          /\ ttl' = [ttl EXCEPT !["login:account"] = 0]
      BY <1>5 DEF Reset
    <3>2. 0 \in Nat /\ 0 \in 0 .. Window
      BY LimitAssumption
    <3>3. count \in [Counters -> Nat] /\ ttl \in [Counters -> 0 .. Window]
      BY <1>0 DEF TypeOK
    <3>4. QED
      BY <3>1, <3>2, <3>3
  <2>7. QED
    BY <1>0, <2>1, <2>5, <2>6 DEF Typed, TypeOK, SlotsReturned
<1>6. CASE CreateSession(r)
  <2>1. /\ job[r].pc = "session" /\ job[r].pc \notin Deriving \cup {"idle"} /\ Become(r, Idle)
        /\ made' = made + 1 /\ sessions' = sessions \cup {made + 1}
        /\ by' = [by EXCEPT ![made + 1] = job[r].pw]
        /\ UNCHANGED <<hash, disabled, count, ttl, slots, hashing, asked, chosen, accepted, allowance>>
    BY <1>6 DEF CreateSession, Deriving
  <2>2. job[r] \in Jobs /\ job[r] # Idle /\ r \notin hashing /\ job[r].pw \in Passwords
    BY <2>1, AtCommand DEF Jobs
  <2>3. /\ Cardinality(Busy) \in Nat /\ Cardinality(Busy) >= 1
        /\ Cardinality(Busy') = Cardinality(Busy) - 1
    BY <1>0, <2>1, <2>2, BusyMoves DEF TypeOK
  <2>4. made \in Nat /\ asked \in 0 .. MaxRequests /\ MaxRequests \in Nat
    BY <1>0, BoundsAssumption DEF TypeOK
  <2>5. made + Cardinality(Busy) <= asked + 1
    BY DEF Typed, Counted
  <2>6. made' \in 0 .. MaxRequests + 1 /\ Counted'
    BY <2>1, <2>3, <2>4, <2>5 DEF Counted
  <2>7. sessions' \subseteq 1 .. made'
    BY <1>0, <2>1, <2>4 DEF TypeOK
  <2>8. by' \in [SessionIDs -> Passwords \cup {NoAccount.pw}]
    BY <1>0, <2>1, <2>2 DEF TypeOK
  <2>9. /\ job' \in [Requests -> Jobs \cup {Idle}] /\ job'[r] = Idle
        /\ \A q \in Requests : q # r => job'[q] = job[q]
    BY <1>0, <2>1, BecomeMoves DEF TypeOK
  <2>10. Hashers' /\ \A q \in Requests : Shaped(job'[q])
    BY <1>0, <1>b, <2>1, <2>2, <2>9 DEF Typed, TypeOK, Hashers
  <2>11. QED
    BY <1>0, <2>1, <2>6, <2>7, <2>8, <2>9, <2>10 DEF Typed, TypeOK, SlotsReturned
<1>7. CASE RevokeOthers(r)
  <2>1. /\ job[r].pc = "revoke" /\ job[r].pc \notin Deriving \cup {"idle"} /\ Become(r, Idle)
        /\ sessions' \subseteq sessions
        /\ UNCHANGED <<hash, disabled, count, ttl, slots, hashing, asked, made, by, chosen, accepted, allowance>>
    BY <1>7 DEF RevokeOthers, Deriving
  <2>2. Kept
    BY <1>a, <1>b, <2>1
  <2>3. QED
    BY <1>0, <2>1, <2>2 DEF Typed, TypeOK, SlotsReturned
<1>8. QED
  BY <1>1, <1>2, <1>3, <1>4, <1>5, <1>6, <1>7 DEF Command

\* So does a key that is derived, which gives its slot back,
LEMMA DerivedTyped ==
  ASSUME Typed, NEW r \in Requests, Derived(r)
  PROVE  Typed'
<1> USE DEF limitVars, slotVars, sessionVars, histVars
<1>1. TypeOK /\ Hashers
  BY DEF Typed
<1>2. job[r].pc \in Deriving /\ job[r].pc # "idle"
  BY <1>1 DEF Derived, Hashers, Deriving
<1>3. job[r] \in Jobs /\ job[r] # Idle /\ Fits(job[r])
  BY <1>2, AtCommand
<1>4. AfterDeriving(job[r]) \in Jobs \cup {Idle} /\ Shaped(AfterDeriving(job[r]))
  BY <1>2, <1>3, DerivedShape
<1>5. /\ Become(r, AfterDeriving(job[r])) /\ allowance' = Allowance(job[r])
      /\ r \in hashing /\ slots' = slots - 1 /\ hashing' = hashing \ {r}
      /\ UNCHANGED <<hash, disabled, count, ttl, asked, sessions, made, by, chosen, accepted>>
  BY DEF Derived
<1>6. r \notin hashing' /\ hashing' \subseteq hashing
  BY <1>5
<1>7. /\ job' \in [Requests -> Jobs \cup {Idle}]
      /\ \A q \in Requests : Shaped(job'[q])
      /\ Counted' /\ Hashers'
  BY <1>3, <1>4, <1>5, <1>6, GoesOn
<1>8. allowance' \in Int
  BY <1>1, <1>5, CountersFinite DEF TypeOK, Allowance
<1>9. slots' \in 0 .. hashSlots /\ SlotsReturned'
  BY <1>5, SlotFacts
<1>10. TypeOK'
  BY <1>1, <1>5, <1>6, <1>7, <1>8, <1>9 DEF TypeOK
<1>11. QED
  BY <1>7, <1>9, <1>10 DEF Typed

\* and so does a failure.
LEMMA FailsTyped ==
  ASSUME Typed, NEW r \in Requests, Fails(r)
  PROVE  Typed'
<1> USE DEF limitVars, slotVars, sessionVars, histVars, commandRest
<1>1. TypeOK
  BY DEF Typed
<1>2. /\ job[r] # Idle /\ r \notin hashing /\ Become(r, FailsTo(job[r]))
      /\ UNCHANGED <<hash, disabled, count, ttl, slots, hashing, asked, sessions, made, by, chosen, accepted, allowance>>
  BY DEF Fails, FailsTo
<1>3. job[r].pc # "idle"
  BY <1>1, <1>2, JobFacts DEF TypeOK
<1>4. job[r] \in Jobs /\ Fits(job[r])
  BY <1>3, AtCommand
<1>5. FailsTo(job[r]) \in Jobs \cup {Idle} /\ Shaped(FailsTo(job[r]))
  BY <1>4, FailsShape
<1>6. /\ job' \in [Requests -> Jobs \cup {Idle}]
      /\ \A q \in Requests : Shaped(job'[q])
      /\ Counted' /\ Hashers'
  BY <1>2, <1>5, GoesOn
<1>7. QED
  BY <1>1, <1>2, <1>6 DEF Typed, TypeOK, SlotsReturned

\* The beginning of a request: a hit on one counter, and a job or none.
LEMMA StartTyped ==
  ASSUME Typed, NEW r \in Requests, Arrives(r), NEW k \in Counters, NEW j \in Jobs \cup {Idle},
         Shaped(j), Check(r, k, j), UNCHANGED startRest
  PROVE  Typed'
<1> USE DEF limitVars, slotVars, sessionVars, histVars, startRest
<1>1. TypeOK
  BY DEF Typed
<1>2. PICK i \in Jobs \cup {Idle} : Become(r, i) /\ Shaped(i) /\ Hit(k)
  BY CheckMoves
<1>3. /\ job' \in [Requests -> Jobs \cup {Idle}]
      /\ \A q \in Requests : Shaped(job'[q])
      /\ Counted' /\ Hashers' /\ asked' \in 0 .. MaxRequests
  BY <1>2, Starts
<1>4. count' \in [Counters -> Nat] /\ ttl' \in [Counters -> 0 .. Window]
  BY <1>1, <1>2, HitCounts
<1>5. QED
  BY <1>1, <1>3, <1>4 DEF Typed, TypeOK, SlotsReturned

\* So does the clock.
LEMMA TickTyped ==
  ASSUME Typed, Tick
  PROVE  Typed'
<1> USE DEF limitVars, slotVars, sessionVars
<1>1. TypeOK
  BY DEF Typed
<1>2. /\ ttl' = [k \in Counters |-> IF ttl[k] > 0 THEN ttl[k] - 1 ELSE 0]
      /\ count' = [k \in Counters |-> IF ttl[k] = 1 THEN 0 ELSE count[k]]
      /\ UNCHANGED <<hash, disabled, slots, hashing, job, asked, sessions, made, by, chosen, accepted>>
  BY DEF Tick
<1>3. ttl \in [Counters -> 0 .. Window] /\ count \in [Counters -> Nat] /\ Window \in Nat
  BY <1>1, LimitAssumption DEF TypeOK
<1>4. ttl' \in [Counters -> 0 .. Window]
  <2>1. \A k \in Counters : (IF ttl[k] > 0 THEN ttl[k] - 1 ELSE 0) \in 0 .. Window
    BY <1>3
  <2>2. QED
    BY <1>2, <2>1
<1>5. count' \in [Counters -> Nat]
  BY <1>2, <1>3
<1>6. allowance' \in Int
  BY <1>1, CountersFinite DEF Tick, TypeOK
<1>7. TypeOK'
  BY <1>1, <1>2, <1>4, <1>5, <1>6 DEF TypeOK
<1>8. QED
  BY <1>2, <1>7 DEF Typed, Counted, Busy, Hashers, SlotsReturned

\* Typed is inductive.
LEMMA NextTyped ==
  ASSUME Typed, [Next]_vars
  PROVE  Typed'
<1> USE DEF limitVars, slotVars, sessionVars, histVars
<1>1. CASE UNCHANGED vars
  BY <1>1 DEF vars, Typed, TypeOK, Counted, Busy, Hashers, SlotsReturned
<1>2. CASE Tick
  BY <1>2, TickTyped
<1>3. CASE Disable
  <2>1. /\ disabled' = TRUE
        /\ UNCHANGED <<hash, count, ttl, slots, hashing, job, asked, sessions, made, by, chosen, accepted, allowance>>
    BY <1>3 DEF Disable, commandRest
  <2>2. QED
    BY <2>1 DEF Typed, TypeOK, Counted, Busy, Hashers, SlotsReturned
<1>4. ASSUME NEW r \in Requests, NEW pw \in Passwords, Register(r, pw) \/ Login(r, pw)
      PROVE  Typed'
  <2>0. Idle \in Jobs \cup {Idle} /\ Shaped(Idle) /\ {"register:ip", "login:ip"} \subseteq Counters
    BY DEF Shaped, Counters
  <2>1. CASE Register(r, pw)
    <3>1. PICK j \in Jobs \cup {Idle} : Check(r, "register:ip", j) /\ Shaped(j)
      BY <2>0, <2>1, StartJobs DEF Register
    <3>2. Arrives(r) /\ UNCHANGED startRest
      BY <2>1 DEF Register
    <3>3. QED
      BY <2>0, <3>1, <3>2, StartTyped
  <2>2. CASE Login(r, pw)
    <3>1. PICK j \in Jobs \cup {Idle} : Check(r, "login:ip", j) /\ Shaped(j)
      BY <2>2, StartJobs DEF Login
    <3>2. Arrives(r) /\ UNCHANGED startRest
      BY <2>2 DEF Login
    <3>3. QED
      BY <2>0, <3>1, <3>2, StartTyped
  <2>3. QED
    BY <1>4, <2>1, <2>2
<1>5. ASSUME NEW r \in Requests, NEW pw \in Passwords, NEW next \in Passwords,
             NEW keep \in sessions, ChangePassword(r, pw, next, keep)
      PROVE  Typed'
  <2>1. TypeOK /\ "password:ip" \in Counters
    BY DEF Typed, Counters
  <2>2. PICK j \in Jobs \cup {Idle} : Check(r, "password:ip", j) /\ Shaped(j)
    BY <1>5, <2>1, ChangeJob DEF ChangePassword
  <2>3. Arrives(r) /\ UNCHANGED startRest
    BY <1>5 DEF ChangePassword
  <2>4. QED
    BY <2>1, <2>2, <2>3, StartTyped
<1>6. ASSUME NEW r \in Requests, Acquire(r)
      PROVE  Typed'
  <2>1. /\ job[r].pc \in Deriving /\ r \notin hashing /\ slots < hashSlots
        /\ slots' = slots + 1 /\ hashing' = hashing \cup {r}
        /\ UNCHANGED <<hash, disabled, count, ttl, job, asked, sessions, made, by, chosen, accepted, allowance>>
    BY <1>6 DEF Acquire
  <2>2. TypeOK
    BY DEF Typed
  <2>3. slots' \in 0 .. hashSlots /\ SlotsReturned'
    BY <2>1, SlotFacts
  <2>4. TypeOK'
    BY <2>1, <2>2, <2>3 DEF TypeOK
  <2>5. QED
    BY <2>1, <2>3, <2>4 DEF Typed, Counted, Busy, Hashers
<1>7. QED
  BY <1>1, <1>2, <1>3, <1>4, <1>5, <1>6, DerivedTyped, CommandTyped, FailsTyped DEF Next, Finished

\* The account, its counters, the semaphore and every request keep to their types, and no
\* more requests derive a key at the same time than the semaphore has slots.
THEOREM CredentialsTypeCorrect == Spec => []TypeOK
<1>1. Typed => TypeOK
  BY DEF Typed
<1>2. QED
  BY <1>1, InitTyped, NextTyped, PTL DEF Spec

\* As many slots are taken as requests are hashing: deriveKey gives its slot back whatever
\* VerifyPassword answers, and before the rehash of Login asks for another one.
THEOREM SlotsComeBack == Spec => []SlotsReturned
<1>1. Typed => SlotsReturned
  BY DEF Typed
<1>2. QED
  BY <1>1, InitTyped, NextTyped, PTL DEF Spec

-----------------------------------------------------------------------------
(* The counters run out *)

\* What a step does to the counters.
Limits ==
  \/ UNCHANGED limitVars
  \/ \E k \in Counters : Hit(k)
  \/ Tick
  \/ /\ count' = [count EXCEPT !["login:account"] = 0]
     /\ ttl' = [ttl EXCEPT !["login:account"] = 0]

\* These are all the ways in which the counters change.
LEMMA NextLimits == [Next]_vars => Limits
<1> SUFFICES ASSUME [Next]_vars PROVE Limits
  OBVIOUS
<1>1. CASE UNCHANGED vars \/ Tick \/ Disable \/ Finished
  BY <1>1 DEF vars, Limits, Disable, Finished, commandRest
<1>2. ASSUME NEW r \in Requests, NEW pw \in Passwords, Register(r, pw) \/ Login(r, pw)
      PROVE  Limits
  BY <1>2 DEF Register, Login, Check, Limits, Counters
<1>3. ASSUME NEW r \in Requests, NEW pw \in Passwords, NEW next \in Passwords,
             NEW keep \in sessions, ChangePassword(r, pw, next, keep)
      PROVE  Limits
  BY <1>3 DEF ChangePassword, Check, Limits, Counters
<1>4. ASSUME NEW r \in Requests, Acquire(r) \/ Derived(r) \/ Fails(r)
      PROVE  Limits
  BY <1>4 DEF Acquire, Derived, Fails, Limits, commandRest
<1>5. ASSUME NEW r \in Requests, LoginPerAccount(r)
      PROVE  Limits
  BY <1>5, CountersFinite DEF LoginPerAccount, Check, Limits
<1>6. ASSUME NEW r \in Requests, Reset(r)
      PROVE  Limits
  BY <1>6 DEF Reset, Limits
<1>7. ASSUME NEW r \in Requests,
             \/ ByEmailWithCredential(r) \/ CredentialByUserID(r) \/ Insert(r) \/ Store(r)
             \/ CreateSession(r) \/ RevokeOthers(r)
      PROVE  Limits
  BY <1>7 DEF ByEmailWithCredential, CredentialByUserID, Insert, Store, CreateSession,
              RevokeOthers, Limits, commandRest
<1>8. QED
  BY <1>1, <1>2, <1>3, <1>4, <1>5, <1>6, <1>7 DEF Next, Command

\* None of them leaves a counter without an expiry.
LEMMA NextNoLockout ==
  ASSUME TypeOK, NoLockout, Limits
  PROVE  NoLockout'
<1>1. count \in [Counters -> Nat] /\ ttl \in [Counters -> 0 .. Window]
  BY DEF TypeOK
<1>2. CASE UNCHANGED limitVars
  BY <1>2 DEF NoLockout, limitVars
<1>3. CASE \E k \in Counters : Hit(k)
  BY <1>3, HitCounts
<1>4. CASE Tick
  <2> SUFFICES ASSUME NEW k \in Counters, count'[k] > 0
               PROVE  ttl'[k] > 0
    BY DEF NoLockout
  <2>1. /\ count'[k] = IF ttl[k] = 1 THEN 0 ELSE count[k]
        /\ ttl'[k] = IF ttl[k] > 0 THEN ttl[k] - 1 ELSE 0
    BY <1>4 DEF Tick
  <2>2. QED
    BY <1>1, <2>1 DEF NoLockout
<1>5. CASE /\ count' = [count EXCEPT !["login:account"] = 0]
           /\ ttl' = [ttl EXCEPT !["login:account"] = 0]
  <2> SUFFICES ASSUME NEW k \in Counters, count'[k] > 0
               PROVE  ttl'[k] > 0
    BY DEF NoLockout
  <2>1. k # "login:account" /\ count'[k] = count[k] /\ ttl'[k] = ttl[k]
    BY <1>1, <1>5
  <2>2. QED
    BY <2>1 DEF NoLockout
<1>6. QED
  BY <1>2, <1>3, <1>4, <1>5 DEF Limits

\* incrementAndExpire leaves no counter without an expiry: what counts hits runs out,
\* whatever requests fail, reset it or are refused by it.
THEOREM NoPermanentLockout == Spec => []NoLockout
<1>1. Init => NoLockout
  BY DEF Init, NoLockout
<1>2. Typed => TypeOK
  BY DEF Typed
<1>3. QED
  BY <1>1, <1>2, InitTyped, NextTyped, NextLimits, NextNoLockout, PTL DEF Spec

-----------------------------------------------------------------------------
(* Sessions are earned *)

Earned ==
  /\ SessionsEarned
  /\ \A r \in Requests : Proven(job[r], accepted)
  /\ hash # NoAccount => hash.pw \in accepted

\* The session that is there at first is by the password of the account.
LEMMA InitEarned == Init => Earned
<1> SUFFICES ASSUME Init PROVE Earned
  OBVIOUS
<1>1. CASE hash = NoAccount
  <2>1. sessions = {}
    BY <1>1 DEF Init
  <2>2. QED
    BY <1>1, <2>1 DEF Init, Earned, SessionsEarned, Proven
<1>2. CASE hash # NoAccount
  <2>1. hash.pw \in Passwords /\ hash.pw \in accepted
    BY <1>2 DEF Init
  <2>2. sessions = 1 .. 1 /\ made = 1
    BY <1>2 DEF Init
  <2>3. \A s \in sessions : s \in SessionIDs /\ s <= made
    BY <2>2, BoundsAssumption DEF SessionIDs
  <2>4. SessionsEarned
    BY <2>1, <2>3 DEF Init, SessionsEarned
  <2>5. QED
    BY <1>2, <2>1, <2>4 DEF Init, Earned, Proven
<1>3. QED
  BY <1>1, <1>2

\* What was accepted stays accepted.
LEMMA ProvenGrows ==
  ASSUME NEW P, NEW Q, P \subseteq Q, NEW j, Proven(j, P)
  PROVE  Proven(j, Q)
  BY DEF Proven

\* A request that becomes j, while no password is forgotten.
LEMMA ProvenMoves ==
  ASSUME TypeOK, Earned, NEW r \in Requests, NEW j \in Jobs \cup {Idle}, Become(r, j),
         accepted \subseteq accepted', Proven(j, accepted')
  PROVE  \A q \in Requests : Proven(job'[q], accepted')
<1> SUFFICES ASSUME NEW q \in Requests PROVE Proven(job'[q], accepted')
  OBVIOUS
<1>1. job'[r] = j /\ (q # r => job'[q] = job[q])
  BY BecomeMoves DEF TypeOK
<1>2. Proven(job[q], accepted')
  BY ProvenGrows DEF Earned
<1>3. QED
  BY <1>1, <1>2

\* A step of r that leaves the account and the sessions alone.
LEMMA EarnedMoves ==
  ASSUME TypeOK, Earned, NEW r \in Requests, NEW j \in Jobs \cup {Idle}, Become(r, j),
         Proven(j, accepted), sessions' \subseteq sessions, UNCHANGED <<hash, by, accepted>>
  PROVE  Earned'
<1>1. \A q \in Requests : Proven(job'[q], accepted')
  BY ProvenMoves
<1>2. QED
  BY <1>1 DEF Earned, SessionsEarned

\* A request that moves on without a proof to carry.
LEMMA FreshProven ==
  ASSUME NEW j, j.pc \in {"account", "lookup", "dummy", "hash", "insert", "revoke", "idle"}, NEW P
  PROVE  Proven(j, P)
  BY DEF Proven

\* A command keeps what was proven: Insert and Store accept what they store.
LEMMA CommandEarned ==
  ASSUME Typed, Earned, NEW r \in Requests, Command(r)
  PROVE  Earned'
<1> USE DEF limitVars, slotVars, sessionVars, histVars, commandRest
<1>0. TypeOK
  BY DEF Typed
<1>a. Idle \in Jobs \cup {Idle} /\ \A P : Proven(Idle, P)
  BY DEF Proven
<1>b. job[r].pc # "idle"
  BY DEF Command, LoginPerAccount, ByEmailWithCredential, CredentialByUserID, Insert, Store,
         Reset, CreateSession, RevokeOthers
<1>c. job[r] \in Jobs /\ job[r] # Idle /\ Fits(job[r])
  BY <1>b, AtCommand
<1>d. Proven(job[r], accepted)
  BY DEF Earned
<1>e. PICK i \in Jobs : i = job[r]
  BY <1>c
<1>1. CASE LoginPerAccount(r)
  <2> DEFINE k == [i EXCEPT !.pc = "lookup"]
  <2>1. k \in Jobs /\ k.pc = "lookup"
    BY MoveType DEF Commands
  <2>2. Become(r, k) \/ Become(r, Idle)
    BY <1>1, <1>e DEF LoginPerAccount, Check
  <2> HIDE DEF k
  <2>3. Proven(k, accepted)
    BY <2>1, FreshProven
  <2>4. UNCHANGED <<hash, by, accepted, sessions>>
    BY <1>1 DEF LoginPerAccount
  <2>5. QED
    BY <1>0, <1>a, <2>1, <2>2, <2>3, <2>4, EarnedMoves
<1>2. CASE ByEmailWithCredential(r) \/ CredentialByUserID(r)
  <2>1. PICK pc \in {"dummy", "verify"} : /\ Become(r, [i EXCEPT !.hash = hash, !.pc = pc])
                                          /\ pc = "verify" /\ i.op = "login" => hash # NoAccount
    BY <1>2, <1>e DEF ByEmailWithCredential, CredentialByUserID
  <2>2. pc \in Deriving \cup Commands /\ hash \in Hash \cup {NoAccount}
    BY <1>0 DEF Deriving, TypeOK
  <2> DEFINE k == [i EXCEPT !.hash = hash, !.pc = pc]
  <2>3. k \in Jobs /\ k.pc = pc /\ k.op = i.op /\ k.hash = hash
    BY <2>2 DEF Jobs
  <2>4. Become(r, k)
    BY <2>1
  <2> HIDE DEF k
  <2>5. Proven(k, accepted)
    BY <2>1, <2>3 DEF Proven, Earned
  <2>6. UNCHANGED <<hash, by, accepted, sessions>>
    BY <1>2 DEF ByEmailWithCredential, CredentialByUserID
  <2>7. QED
    BY <1>0, <2>3, <2>4, <2>5, <2>6, EarnedMoves
<1>3. CASE Insert(r)
  <2>1. i.pc = "insert" /\ UNCHANGED <<by, sessions>>
    BY <1>3, <1>e DEF Insert
  <2>2. CASE hash # NoAccount
    BY <1>0, <1>3, <1>a, <2>2, EarnedMoves DEF Insert
  <2>3. CASE hash = NoAccount
    <3> DEFINE k == [i EXCEPT !.pc = "session"]
    <3>1. k \in Jobs /\ k.pc = "session" /\ k.pw = i.pw
      BY MoveType DEF Commands
    <3>2. /\ Become(r, k) \/ Become(r, Idle)
          /\ accepted' = accepted \cup {i.pw}
          /\ hash' = [pw |-> i.pw, current |-> TRUE]
      BY <1>3, <1>e, <2>3 DEF Insert, Goto
    <3> HIDE DEF k
    <3>3. Proven(k, accepted') /\ Proven(Idle, accepted')
      BY <1>a, <3>1, <3>2 DEF Proven
    <3>4. \A q \in Requests : Proven(job'[q], accepted')
      BY <1>0, <1>a, <3>1, <3>2, <3>3, ProvenMoves
    <3>5. SessionsEarned'
      BY <2>1, <3>2 DEF Earned, SessionsEarned
    <3>6. hash'.pw \in accepted'
      BY <3>2
    <3>7. QED
      BY <3>4, <3>5, <3>6 DEF Earned
  <2>4. QED
    BY <2>2, <2>3
<1>4. CASE Store(r)
  <2>1. /\ i.pc = "store" /\ UNCHANGED <<by, sessions>>
        /\ hash' = [pw |-> i.next, current |-> TRUE]
    BY <1>4, <1>e DEF Store
  <2>2. PICK pc \in {"revoke", "reset"} :
          /\ Become(r, [i EXCEPT !.pc = pc]) \/ Become(r, Idle)
          /\ pc = "revoke" => accepted' = accepted \cup {i.next}
          /\ pc = "reset" => i.op # "password" /\ accepted' = accepted
    BY <1>4, <1>e DEF Store, Goto
  <2> DEFINE k == [i EXCEPT !.pc = pc]
  <2>3. k \in Jobs /\ k.pc = pc /\ k.pw = i.pw /\ k.op = i.op
    BY MoveType DEF Commands
  <2>4. Become(r, k) \/ Become(r, Idle)
    BY <2>2
  <2> HIDE DEF k
  <2>5. accepted \subseteq accepted'
    BY <2>2
  <2>6. pc = "reset" => i.pw \in accepted /\ i.next = i.pw
    BY <1>c, <1>d, <1>e, <2>1, <2>2 DEF Proven, Fits
  <2>7. i.next \in accepted'
    BY <2>2, <2>6
  <2>8. Proven(k, accepted') /\ Proven(Idle, accepted')
    BY <1>a, <2>2, <2>3, <2>6 DEF Proven
  <2>9. \A q \in Requests : Proven(job'[q], accepted')
    BY <1>0, <1>a, <2>3, <2>4, <2>5, <2>8, ProvenMoves
  <2>10. SessionsEarned'
    BY <2>1, <2>5 DEF Earned, SessionsEarned
  <2>11. hash'.pw \in accepted'
    BY <2>1, <2>7
  <2>12. QED
    BY <2>9, <2>10, <2>11 DEF Earned
<1>5. CASE Reset(r)
  <2> DEFINE k == [i EXCEPT !.pc = "session"]
  <2>1. k \in Jobs /\ k.pc = "session" /\ k.pw = i.pw /\ k.op = i.op
    BY MoveType DEF Commands
  <2>2. Become(r, k) /\ i.pc = "reset" /\ UNCHANGED <<hash, by, accepted, sessions>>
    BY <1>5, <1>e DEF Reset, Goto
  <2> HIDE DEF k
  <2>3. Proven(k, accepted)
    BY <1>c, <1>d, <1>e, <2>1, <2>2 DEF Proven, Fits
  <2>4. QED
    BY <1>0, <2>1, <2>2, <2>3, EarnedMoves
<1>6. CASE CreateSession(r)
  <2>1. /\ i.pc = "session" /\ Become(r, Idle) /\ sessions' = sessions \cup {made + 1}
        /\ by' = [by EXCEPT ![made + 1] = i.pw] /\ UNCHANGED <<hash, accepted>>
    BY <1>6, <1>e DEF CreateSession
  <2>2. i.pw \in accepted
    BY <1>c, <1>d, <1>e, <2>1 DEF Proven, Fits
  <2>3. \A q \in Requests : Proven(job'[q], accepted')
    BY <1>0, <1>a, <2>1, ProvenMoves
  <2>4. made \in 0 .. MaxRequests + 1 /\ made' = made + 1 /\ made' \in 0 .. MaxRequests + 1
    BY <1>0, <1>6, CommandTyped DEF Command, CreateSession, Typed, TypeOK
  <2>5. made + 1 \in SessionIDs
    BY <2>4, BoundsAssumption DEF SessionIDs
  <2>6. \A s \in sessions' : by'[s] \in accepted
    <3> SUFFICES ASSUME NEW s \in sessions' PROVE by'[s] \in accepted
      OBVIOUS
    <3>1. by \in [SessionIDs -> Passwords \cup {NoAccount.pw}] /\ sessions \subseteq 1 .. made
      BY <1>0 DEF TypeOK
    <3>2. CASE s = made + 1
      BY <2>1, <2>2, <2>5, <3>1, <3>2
    <3>3. CASE s # made + 1
      <4>1. s \in sessions /\ s \in SessionIDs
        <5>1. s \in sessions
          BY <2>1, <3>3
        <5>2. s \in 1 .. made
          BY <3>1, <5>1
        <5>3. s \in SessionIDs
          BY <2>4, <5>2, BoundsAssumption DEF SessionIDs
        <5>4. QED
          BY <5>1, <5>3
      <4>2. by'[s] = by[s]
        BY <2>1, <3>1, <3>3, <4>1
      <4>3. QED
        BY <4>1, <4>2 DEF Earned, SessionsEarned
    <3>4. QED
      BY <3>2, <3>3
  <2>7. QED
    BY <2>1, <2>3, <2>6 DEF Earned, SessionsEarned
<1>7. CASE RevokeOthers(r)
  BY <1>0, <1>7, <1>a, EarnedMoves DEF RevokeOthers
<1>8. QED
  BY <1>1, <1>2, <1>3, <1>4, <1>5, <1>6, <1>7 DEF Command

\* Earned is inductive, given the types.
LEMMA NextEarned ==
  ASSUME Typed, Earned, [Next]_vars
  PROVE  Earned'
<1> USE DEF limitVars, slotVars, sessionVars, histVars
<1>0. TypeOK
  BY DEF Typed
<1>a. Idle \in Jobs \cup {Idle} /\ \A P : Proven(Idle, P)
  BY DEF Proven
<1>1. CASE UNCHANGED vars \/ Tick \/ Disable \/ Finished
  BY <1>1 DEF vars, Tick, Disable, Finished, commandRest, Earned, SessionsEarned
<1>2. ASSUME NEW r \in Requests, NEW k, NEW j \in Jobs \cup {Idle}, Check(r, k, j), UNCHANGED startRest,
             j # Idle => j.pc \in {"account", "lookup", "hash"}
      PROVE  Earned'
  <2>1. Proven(j, accepted)
    BY <1>2, <1>a, FreshProven
  <2>2. UNCHANGED <<hash, by, accepted, sessions>>
    BY <1>2 DEF startRest
  <2>3. Become(r, j) \/ Become(r, Idle)
    BY <1>2 DEF Check
  <2>4. QED
    BY <1>0, <1>a, <2>1, <2>2, <2>3, EarnedMoves
<1>3. ASSUME NEW r \in Requests, NEW pw \in Passwords, Register(r, pw)
      PROVE  Earned'
  <2>1. PICK j \in Jobs \cup {Idle} : /\ Check(r, "register:ip", j) /\ UNCHANGED startRest
                                      /\ j # Idle => j.pc = "hash"
    BY <1>3, StartJobs DEF Register
  <2>2. QED
    BY <1>2, <2>1
<1>4. ASSUME NEW r \in Requests, NEW pw \in Passwords, Login(r, pw)
      PROVE  Earned'
  <2>1. PICK j \in Jobs \cup {Idle} : /\ Check(r, "login:ip", j) /\ UNCHANGED startRest
                                      /\ j.pc = "account"
    BY <1>4, StartJobs DEF Login
  <2>2. QED
    BY <1>2, <2>1
<1>5. ASSUME NEW r \in Requests, NEW pw \in Passwords, NEW next \in Passwords,
             NEW keep \in sessions, ChangePassword(r, pw, next, keep)
      PROVE  Earned'
  <2>1. PICK j \in Jobs \cup {Idle} : /\ Check(r, "password:ip", j) /\ UNCHANGED startRest
                                      /\ j.pc = "lookup"
    BY <1>0, <1>5, ChangeJob DEF ChangePassword, Request
  <2>2. QED
    BY <1>2, <2>1
<1>6. ASSUME NEW r \in Requests, Acquire(r)
      PROVE  Earned'
  BY <1>6 DEF Acquire, Earned, SessionsEarned
<1>7. ASSUME NEW r \in Requests, Derived(r)
      PROVE  Earned'
  <2>1. job[r].pc \in Deriving /\ job[r].pc # "idle"
    BY <1>7 DEF Typed, Derived, Hashers, Deriving
  <2>2. job[r] \in Jobs /\ Fits(job[r]) /\ Proven(job[r], accepted)
    BY <2>1, AtCommand DEF Earned
  <2>3. AfterDeriving(job[r]) \in Jobs \cup {Idle} /\ Proven(AfterDeriving(job[r]), accepted)
    BY <2>1, <2>2, DerivedShape
  <2>4. Become(r, AfterDeriving(job[r])) /\ UNCHANGED <<hash, by, accepted, sessions>>
    BY <1>7 DEF Derived
  <2>5. QED
    BY <1>0, <2>3, <2>4, EarnedMoves
<1>8. ASSUME NEW r \in Requests, Fails(r)
      PROVE  Earned'
  <2>1. /\ job[r] # Idle /\ Become(r, FailsTo(job[r]))
        /\ UNCHANGED <<hash, by, accepted, sessions>>
    BY <1>8 DEF Fails, FailsTo, commandRest
  <2>2. job[r] \in Jobs /\ Fits(job[r]) /\ Proven(job[r], accepted)
    BY <1>0, <2>1 DEF Typed, TypeOK, Shaped, Earned
  <2>3. PICK j \in Jobs \cup {Idle} :
          /\ j = FailsTo(job[r])
          /\ j # Idle =>
               /\ j.pw = job[r].pw /\ job[r].op = "login" /\ j.pc \in {"reset", "session"}
               /\ job[r].pc \in {"rehash", "store", "reset"}
    BY <2>2, FailsShape
  <2>4. Proven(j, accepted)
    BY <2>1, <2>2, <2>3 DEF Proven
  <2>5. QED
    BY <1>0, <2>1, <2>3, <2>4, EarnedMoves
<1>9. QED
  BY <1>1, <1>3, <1>4, <1>5, <1>6, <1>7, <1>8, CommandEarned DEF Next

\* Nobody gets a session from Register or Login with a password the account never had: not
\* the loser of two registrations, nor a login that verified a hash replaced meanwhile.
THEOREM SessionsAreEarned == Spec => []SessionsEarned
<1>1. Earned => SessionsEarned
  BY DEF Earned
<1>2. QED
  BY <1>1, InitTyped, NextTyped, InitEarned, NextEarned, PTL DEF Spec

-----------------------------------------------------------------------------
(* Guessing is bounded *)

\* A login that has been let through to one guess, and one that has earned a reset.
Guesses(j) == j.pc \in {"lookup", "verify"} /\ j.op = "login"
Resets(j) == j.pc \in {"rehash", "store", "reset"} /\ j.op = "login"

Guessing == {r \in Requests : Guesses(job[r])}
Resetting == {r \in Requests : Resets(job[r])}

Quota == Limit["login:account"]
Pending == Cardinality(Guessing)
Due == Quota * Cardinality(Resetting)
Left == IF count["login:account"] < Quota THEN Quota - count["login:account"] ELSE 0

\* The allowance covers the guesses under way, the resets to come and what is left of the
\* running window.
Covered == allowance >= Pending + Due + Left

\* Two sets that differ in r at most.
LEMMA SetMoves ==
  ASSUME NEW S, IsFiniteSet(S), NEW T, NEW r, S \ {r} = T \ {r}
  PROVE  /\ Cardinality(S) \in Nat /\ Cardinality(T) \in Nat
         /\ (r \in S <=> r \in T) => Cardinality(T) = Cardinality(S)
         /\ r \in S /\ r \notin T => Cardinality(T) = Cardinality(S) - 1
         /\ r \notin S /\ r \in T => Cardinality(T) = Cardinality(S) + 1
<1>1. Cardinality(S) \in Nat
  BY FS_CardinalityType
<1>2. CASE r \in S /\ r \notin T
  <2>1. T = S \ {r}
    BY <1>2
  <2>2. Cardinality(T) = Cardinality(S) - 1 /\ IsFiniteSet(T)
    BY <1>2, <2>1, FS_RemoveElement
  <2>3. QED
    BY <1>1, <1>2, <2>2, FS_CardinalityType
<1>3. CASE r \notin S /\ r \in T
  <2>1. T = S \cup {r}
    BY <1>3
  <2>2. Cardinality(T) = Cardinality(S) + 1
    BY <1>3, <2>1, FS_AddElement
  <2>3. QED
    BY <1>1, <1>3, <2>2
<1>4. CASE r \in S <=> r \in T
  <2>1. S = T
    BY <1>4
  <2>2. QED
    BY <1>1, <1>4, <2>1
<1>5. QED
  BY <1>2, <1>3, <1>4

\* Multiples of the quota.
LEMMA Multiples ==
  ASSUME NEW q \in Nat, NEW n \in Nat
  PROVE  q * n \in Nat /\ q * (n + 1) = q * n + q /\ q * (n - 1) = q * n - q
  OBVIOUS

\* What is left of the running window is at most the quota.
LEMMA QuotaFacts ==
  ASSUME TypeOK
  PROVE  /\ Quota \in Nat /\ count["login:account"] \in Nat
         /\ Left \in Nat /\ Left <= Quota
<1>1. Quota \in Nat /\ count["login:account"] \in Nat
  BY CountersFinite DEF Quota, TypeOK
<1>2. QED
  BY <1>1 DEF Left

\* What the allowance has to cover are natural numbers.
LEMMA OwedType ==
  /\ IsFiniteSet(Guessing) /\ IsFiniteSet(Resetting)
  /\ Pending \in Nat /\ Due \in Nat
<1>1. Guessing \subseteq Requests /\ Resetting \subseteq Requests
  BY DEF Guessing, Resetting
<1>2. IsFiniteSet(Guessing) /\ IsFiniteSet(Resetting)
  BY <1>1, RequestsAssumption, FS_Subset
<1>3. Cardinality(Guessing) \in Nat /\ Cardinality(Resetting) \in Nat
  BY <1>2, FS_CardinalityType
<1>4. Quota \in Nat
  BY CountersFinite DEF Quota
<1>5. QED
  BY <1>2, <1>3, <1>4, Multiples DEF Pending, Due

\* What a request that becomes j adds to, and takes from, what the allowance covers.
LEMMA OwedMoves ==
  ASSUME TypeOK, NEW r \in Requests, NEW j \in Jobs \cup {Idle}, Become(r, j)
  PROVE  /\ Pending \in Nat /\ Pending' \in Nat /\ Due \in Nat /\ Due' \in Nat
         /\ (Guesses(job[r]) <=> Guesses(j)) => Pending' = Pending
         /\ Guesses(job[r]) /\ ~ Guesses(j) => Pending' = Pending - 1
         /\ ~ Guesses(job[r]) /\ Guesses(j) => Pending' = Pending + 1
         /\ (Resets(job[r]) <=> Resets(j)) => Due' = Due
         /\ Resets(job[r]) /\ ~ Resets(j) => Due' = Due - Quota
         /\ ~ Resets(job[r]) /\ Resets(j) => Due' = Due + Quota
<1>1. job'[r] = j /\ \A q \in Requests : q # r => job'[q] = job[q]
  BY BecomeMoves DEF TypeOK
<1>2. IsFiniteSet(Guessing) /\ IsFiniteSet(Resetting)
  BY OwedType
<1>3. /\ Guessing \ {r} = Guessing' \ {r}
      /\ r \in Guessing <=> Guesses(job[r])
      /\ r \in Guessing' <=> Guesses(j)
  BY <1>1 DEF Guessing
<1>4. /\ Resetting \ {r} = Resetting' \ {r}
      /\ r \in Resetting <=> Resets(job[r])
      /\ r \in Resetting' <=> Resets(j)
  BY <1>1 DEF Resetting
<1>5. /\ Pending \in Nat /\ Pending' \in Nat
      /\ (Guesses(job[r]) <=> Guesses(j)) => Pending' = Pending
      /\ Guesses(job[r]) /\ ~ Guesses(j) => Pending' = Pending - 1
      /\ ~ Guesses(job[r]) /\ Guesses(j) => Pending' = Pending + 1
  BY <1>2, <1>3, SetMoves DEF Pending
<1>6. PICK n \in Nat, m \in Nat :
        /\ n = Cardinality(Resetting) /\ m = Cardinality(Resetting')
        /\ (Resets(job[r]) <=> Resets(j)) => m = n
        /\ Resets(job[r]) /\ ~ Resets(j) => m = n - 1
        /\ ~ Resets(job[r]) /\ Resets(j) => m = n + 1
  BY <1>2, <1>4, SetMoves
<1>7. PICK q \in Nat : q = Quota
  BY QuotaFacts
<1>8. Due = q * n /\ Due' = q * m
  BY <1>6, <1>7 DEF Due, Quota
<1>9. /\ q * n \in Nat /\ q * m \in Nat
      /\ q * (n + 1) = q * n + q /\ q * (n - 1) = q * n - q
  BY Multiples
<1>10. /\ (Resets(job[r]) <=> Resets(j)) => q * m = q * n
       /\ Resets(job[r]) /\ ~ Resets(j) => q * m = q * n - q
       /\ ~ Resets(job[r]) /\ Resets(j) => q * m = q * n + q
  BY <1>6, <1>9
<1>11. QED
  BY <1>5, <1>7, <1>8, <1>9, <1>10

\* A step after which no more is owed, and no more is left of the running window.
LEMMA Settles ==
  ASSUME TypeOK, Covered, NEW r \in Requests, NEW j \in Jobs \cup {Idle}, Become(r, j),
         Guesses(j) => Guesses(job[r]), Resets(j) => Resets(job[r]),
         Left' = Left \/ (Left' \in Nat /\ Left' <= Left), allowance' = allowance
  PROVE  Covered'
<1>1. /\ Pending \in Nat /\ Pending' \in Nat /\ Pending' <= Pending
      /\ Due \in Nat /\ Due' \in Nat /\ Due' <= Due
  <2>1. /\ Pending \in Nat /\ Pending' \in Nat /\ Due \in Nat /\ Due' \in Nat /\ Quota \in Nat
        /\ Pending' = Pending \/ Pending' = Pending - 1
        /\ Due' = Due \/ Due' = Due - Quota
    BY OwedMoves, QuotaFacts
  <2>2. QED
    BY <2>1
<1>2. Left \in Nat /\ allowance \in Int
  BY QuotaFacts DEF TypeOK
<1>a. Left' \in Nat /\ Left' <= Left
  BY <1>2
<1>3. PICK p \in Nat, q \in Nat, d \in Nat, e \in Nat, l \in Nat, m \in Nat, a \in Int :
        /\ p = Pending /\ q = Pending' /\ d = Due /\ e = Due' /\ l = Left /\ m = Left' /\ a = allowance
        /\ q <= p /\ e <= d /\ m <= l
  BY <1>1, <1>2, <1>a, Zenon
<1>4. a >= p + d + l
  BY <1>3 DEF Covered
<1>5. q <= p /\ e <= d /\ m <= l
  BY <1>3
<1>6. a >= q + e + m
  BY <1>4, <1>5
<1>7. QED
  BY <1>3, <1>6 DEF Covered

\* What is left only depends on the account counter.
LEMMA LeftKept ==
  ASSUME count'["login:account"] = count["login:account"]
  PROVE  Left' = Left
  BY DEF Left, Quota

\* The beginning of a request takes no guess: it counts on another counter.
LEMMA StartCovered ==
  ASSUME Typed, Covered, NEW r \in Requests, job[r] = Idle, NEW k \in Counters \ {"login:account"},
         NEW j \in Jobs \cup {Idle}, ~ Guesses(j), ~ Resets(j), Check(r, k, j), UNCHANGED startRest
  PROVE  Covered'
<1>1. TypeOK /\ "login:account" \in Counters
  BY DEF Typed, Counters
<1>2. count'["login:account"] = count["login:account"]
  BY <1>1, HitCounts DEF Check
<1>3. Left' = Left /\ allowance' = allowance
  BY <1>2, LeftKept DEF startRest, histVars
<1>4. ~ Guesses(Idle) /\ ~ Resets(Idle)
  BY DEF Guesses, Resets, Idle
<1>5. Become(r, j) \/ Become(r, Idle)
  BY DEF Check
<1>6. QED
  BY <1>1, <1>3, <1>4, <1>5, Settles

\* The account counter lets one more guess through, or counts one that is not made.
LEMMA LoginPerAccountCovered ==
  ASSUME Typed, Covered, NEW r \in Requests, LoginPerAccount(r)
  PROVE  Covered'
<1>1. TypeOK /\ "login:account" \in Counters /\ job[r].pc = "account"
  BY DEF Typed, Counters, LoginPerAccount
<1>2. job[r] \in Jobs /\ Fits(job[r])
  BY <1>1, AtCommand
<1>3. /\ Check(r, "login:account", [job[r] EXCEPT !.pc = "lookup"]) /\ allowance' = allowance
      /\ Hit("login:account")
  BY DEF LoginPerAccount, histVars, Check
<1>4. count'["login:account"] = count["login:account"] + 1
  BY <1>1, <1>3, HitCounts
<1>5. /\ Quota \in Nat /\ count["login:account"] \in Nat /\ Quota' = Quota
  BY <1>1, QuotaFacts DEF Quota
<1>6. ~ Guesses(job[r]) /\ ~ Resets(job[r])
  BY <1>1 DEF Guesses, Resets
<1>7. CASE Allows("login:account") /\ Become(r, [job[r] EXCEPT !.pc = "lookup"])
  <2> DEFINE j == [job[r] EXCEPT !.pc = "lookup"]
  <2>1. j \in Jobs /\ j.pc = "lookup" /\ j.op = "login"
    BY <1>1, <1>2 DEF Jobs, Fits, Commands
  <2>2. Become(r, j)
    BY <1>7
  <2> HIDE DEF j
  <2>3. Guesses(j) /\ ~ Resets(j)
    BY <2>1 DEF Guesses, Resets
  <2>4. Pending \in Nat /\ Pending' = Pending + 1 /\ Due \in Nat /\ Due' = Due
    BY <1>1, <1>6, <2>1, <2>2, <2>3, OwedMoves
  <2>5. count["login:account"] + 1 <= Quota
    BY <1>7 DEF Allows, Quota
  <2>6. Left \in Int /\ Left' = Left - 1
    BY <1>4, <1>5, <2>5 DEF Left
  <2>7. PICK p \in Nat, d \in Nat, l \in Int, a \in Int : p = Pending /\ d = Due /\ l = Left /\ a = allowance
    BY <1>1, <2>4, <2>6 DEF TypeOK
  <2>8. a >= p + d + l
    BY <2>7 DEF Covered
  <2>9. a >= (p + 1) + d + (l - 1)
    BY <2>8
  <2>10. QED
    BY <1>3, <2>4, <2>6, <2>7, <2>9 DEF Covered
<1>8. CASE Become(r, Idle)
  <2>1. Left' \in Nat /\ Left' <= Left
    BY <1>4, <1>5 DEF Left
  <2>2. ~ Guesses(Idle) /\ ~ Resets(Idle)
    BY DEF Guesses, Resets, Idle
  <2>3. QED
    BY <1>1, <1>3, <1>8, <2>1, <2>2, Settles
<1>9. QED
  BY <1>3, <1>7, <1>8 DEF Check

\* A reset gives back at most one quota, which was due.
LEMMA ResetCovered ==
  ASSUME Typed, Covered, NEW r \in Requests, Reset(r)
  PROVE  Covered'
<1>1. TypeOK /\ "login:account" \in Counters /\ job[r].pc = "reset"
  BY DEF Typed, Counters, Reset
<1>2. job[r] \in Jobs /\ Fits(job[r])
  BY <1>1, AtCommand
<1> DEFINE j == [job[r] EXCEPT !.pc = "session"]
<1>3. j \in Jobs /\ j.pc = "session" /\ job[r].op = "login"
  BY <1>1, <1>2 DEF Jobs, Fits, Commands
<1>4. Become(r, j) /\ allowance' = allowance /\ count' = [count EXCEPT !["login:account"] = 0]
  BY DEF Reset, Goto, histVars
<1> HIDE DEF j
<1>5. ~ Guesses(j) /\ ~ Resets(j) /\ ~ Guesses(job[r]) /\ Resets(job[r])
  BY <1>1, <1>3 DEF Guesses, Resets
<1>6. Pending \in Nat /\ Pending' = Pending /\ Due \in Nat /\ Due' = Due - Quota
  BY <1>1, <1>3, <1>4, <1>5, OwedMoves
<1>7. Quota \in Nat /\ Left \in Nat /\ Quota' = Quota
  BY <1>1, QuotaFacts DEF Quota
<1>8. count'["login:account"] = 0
  BY <1>1, <1>4 DEF TypeOK
<1>9. Left' = Quota
  BY <1>7, <1>8 DEF Left
<1>10. PICK p \in Nat, d \in Nat, l \in Nat, q \in Nat, a \in Int :
         p = Pending /\ d = Due /\ l = Left /\ q = Quota /\ a = allowance
  BY <1>1, <1>6, <1>7 DEF TypeOK
<1>11. a >= p + d + l
  BY <1>10 DEF Covered
<1>12. a >= p + (d - q) + q
  BY <1>11
<1>13. QED
  BY <1>4, <1>6, <1>9, <1>10, <1>12 DEF Covered

\* A wrong guess is paid for by the login that made it; a correct one earns its reset.
LEMMA DerivedCovered ==
  ASSUME Typed, Covered, NEW r \in Requests, Derived(r)
  PROVE  Covered'
<1>1. TypeOK /\ job[r].pc \in Deriving /\ job[r].pc # "idle"
  BY DEF Typed, Derived, Hashers, Deriving
<1>2. PICK i \in Jobs : i = job[r] /\ Fits(i)
  BY <1>1, AtCommand
<1>3. /\ Become(r, AfterDeriving(i)) /\ allowance' = Allowance(i)
      /\ Left' = Left
  BY <1>2, LeftKept DEF Derived, limitVars
<1>4. PICK j \in Jobs \cup {Idle} :
        /\ j = AfterDeriving(i)
        /\ j # Idle =>
             /\ j.op = i.op /\ j.pc \notin {"lookup", "verify", "dummy"}
             /\ j.op = "login" /\ j.pc \in {"rehash", "store", "reset"} =>
                  i.pc = "rehash" \/ (i.pc = "verify" /\ Matches(i))
  BY <1>1, <1>2, DerivedShape
<1>5. ~ Guesses(j)
  BY <1>4, JobFacts DEF Guesses, Idle
<1>6. Resets(j) => i.op = "login" /\ (i.pc = "rehash" \/ (i.pc = "verify" /\ Matches(i)))
  BY <1>4, JobFacts DEF Resets, Idle
<1>7. CASE i.op = "login" /\ i.pc = "verify"
  <2>1. Guesses(i) /\ ~ Resets(i)
    BY <1>7 DEF Guesses, Resets
  <2>2. /\ Pending \in Nat /\ Pending' = Pending - 1 /\ Due \in Nat /\ Due' \in Nat
        /\ ~ Resets(j) => Due' = Due
        /\ Due' = Due \/ Due' = Due + Quota
    BY <1>1, <1>2, <1>3, <1>4, <1>5, <2>1, OwedMoves
  <2>3. PICK p \in Nat, d \in Nat, e \in Nat, l \in Nat, q \in Nat, a \in Int :
          p = Pending /\ d = Due /\ e = Due' /\ l = Left /\ q = Quota /\ a = allowance
    BY <1>1, <2>2, QuotaFacts DEF TypeOK
  <2>4. a >= p + d + l
    BY <2>3 DEF Covered
  <2>5. CASE Matches(i)
    <3>1. allowance' = a + q
      BY <1>3, <1>7, <2>3, <2>5 DEF Allowance, Quota
    <3>2. e = d \/ e = d + q
      BY <2>2, <2>3
    <3>3. a + q >= (p - 1) + e + l
      BY <2>4, <3>2
    <3>4. QED
      BY <1>3, <2>2, <2>3, <3>1, <3>3 DEF Covered
  <2>6. CASE ~ Matches(i)
    <3>1. allowance' = a - 1
      BY <1>3, <1>7, <2>3, <2>6 DEF Allowance
    <3>2. ~ Resets(j)
      BY <1>6, <1>7, <2>6
    <3>3. Due' = d
      BY <2>2, <2>3, <3>2
    <3>4. a - 1 >= (p - 1) + d + l
      BY <2>4
    <3>5. QED
      BY <1>3, <2>2, <2>3, <3>1, <3>3, <3>4 DEF Covered
  <2>7. QED
    BY <2>5, <2>6
<1>8. CASE ~ (i.op = "login" /\ i.pc = "verify")
  <2>1. allowance' = allowance
    BY <1>3, <1>8 DEF Allowance
  <2>2. Resets(j) => Resets(job[r])
    BY <1>2, <1>6, <1>8 DEF Resets
  <2>3. QED
    BY <1>1, <1>3, <1>4, <1>5, <2>1, <2>2, Settles
<1>9. QED
  BY <1>7, <1>8

\* The other commands, and failures, only take from what is owed.
LEMMA CommandCovered ==
  ASSUME Typed, Covered, NEW r \in Requests, Command(r)
  PROVE  Covered'
<1> USE DEF limitVars, histVars, commandRest
<1>0. TypeOK
  BY DEF Typed
<1>a. job[r].pc # "idle"
  BY DEF Command, LoginPerAccount, ByEmailWithCredential, CredentialByUserID, Insert, Store,
         Reset, CreateSession, RevokeOthers
<1>b. PICK i \in Jobs : i = job[r] /\ Fits(i)
  BY <1>a, AtCommand
<1>c. Idle \in Jobs \cup {Idle} /\ ~ Guesses(Idle) /\ ~ Resets(Idle)
  BY DEF Guesses, Resets, Idle
<1>1. CASE ByEmailWithCredential(r) \/ CredentialByUserID(r)
  <2>1. /\ i.pc = "lookup" /\ allowance' = allowance /\ Left' = Left
        /\ \E pc \in {"dummy", "verify"} : Become(r, [i EXCEPT !.hash = hash, !.pc = pc])
    BY <1>1, <1>b, LeftKept DEF ByEmailWithCredential, CredentialByUserID
  <2>2. PICK pc \in {"dummy", "verify"} : Become(r, [i EXCEPT !.hash = hash, !.pc = pc])
    BY <2>1
  <2>3. pc \in Deriving \cup Commands /\ hash \in Hash \cup {NoAccount}
    BY <1>0 DEF Deriving, TypeOK
  <2> DEFINE k == [i EXCEPT !.hash = hash, !.pc = pc]
  <2>4. k \in Jobs /\ k.pc = pc /\ k.op = i.op
    BY <2>3 DEF Jobs
  <2>5. Become(r, k)
    BY <2>2
  <2> HIDE DEF k
  <2>6. ~ Resets(k) /\ (Guesses(k) => Guesses(job[r]))
    BY <1>b, <2>1, <2>4 DEF Guesses, Resets
  <2>7. QED
    BY <1>0, <2>1, <2>4, <2>5, <2>6, Settles
<1>2. CASE Insert(r)
  <2>1. /\ i.pc = "insert" /\ i.op = "register" /\ allowance' = allowance /\ Left' = Left
        /\ Become(r, Idle) \/ Become(r, [i EXCEPT !.pc = "session"])
    BY <1>2, <1>b, LeftKept DEF Insert, Goto, Fits
  <2> DEFINE k == [i EXCEPT !.pc = "session"]
  <2>2. k \in Jobs /\ k.pc = "session"
    BY DEF Jobs, Commands
  <2>3. Become(r, Idle) \/ Become(r, k)
    BY <2>1
  <2> HIDE DEF k
  <2>4. ~ Resets(k) /\ ~ Guesses(k)
    BY <2>2 DEF Guesses, Resets
  <2>5. QED
    BY <1>0, <1>c, <2>1, <2>2, <2>3, <2>4, Settles
<1>3. CASE Store(r)
  <2>1. i.pc = "store" /\ allowance' = allowance /\ Left' = Left
    BY <1>3, <1>b, LeftKept DEF Store
  <2>2. PICK pc \in {"revoke", "reset"} : Become(r, [i EXCEPT !.pc = pc]) \/ Become(r, Idle)
    BY <1>3, <1>b DEF Store, Goto
  <2> DEFINE k == [i EXCEPT !.pc = pc]
  <2>3. k \in Jobs /\ k.pc = pc /\ k.op = i.op
    BY DEF Jobs, Commands
  <2>4. Become(r, k) \/ Become(r, Idle)
    BY <2>2
  <2> HIDE DEF k
  <2>5. ~ Guesses(k) /\ (Resets(k) => Resets(job[r]))
    BY <1>b, <2>1, <2>3 DEF Guesses, Resets
  <2>6. QED
    BY <1>0, <1>c, <2>1, <2>3, <2>4, <2>5, Settles
<1>4. CASE CreateSession(r) \/ RevokeOthers(r)
  <2>1. Become(r, Idle) /\ allowance' = allowance /\ Left' = Left
    BY <1>4, LeftKept DEF CreateSession, RevokeOthers
  <2>2. QED
    BY <1>0, <1>c, <2>1, Settles
<1>5. QED
  BY <1>1, <1>2, <1>3, <1>4, LoginPerAccountCovered, ResetCovered DEF Command

\* A window that runs out brings its quota, and nothing changes otherwise.
LEMMA TickCovered ==
  ASSUME Typed, Covered, Tick
  PROVE  Covered'
<1>1. TypeOK /\ "login:account" \in Counters
  BY DEF Typed, Counters
<1>2. Pending' = Pending /\ Due' = Due
  BY DEF Tick, Pending, Due, Guessing, Resetting, Quota
<1>3. /\ Quota \in Nat /\ Quota' = Quota /\ Left \in Nat /\ Pending \in Nat /\ Due \in Nat
      /\ allowance \in Int
  BY <1>1, QuotaFacts, OwedType DEF Quota, TypeOK
<1>4. PICK p \in Nat, d \in Nat, l \in Nat, q \in Nat, a \in Int :
        p = Pending /\ d = Due /\ l = Left /\ q = Quota /\ a = allowance
  BY <1>3
<1>5. a >= p + d + l
  BY <1>4 DEF Covered
<1>6. CASE ttl["login:account"] = 1
  <2>1. allowance' = a + q /\ count'["login:account"] = 0
    BY <1>1, <1>4, <1>6 DEF Tick, Quota
  <2>2. Left' = q
    BY <1>3, <1>4, <2>1 DEF Left
  <2>3. a + q >= p + d + q
    BY <1>5
  <2>4. QED
    BY <1>2, <1>4, <2>1, <2>2, <2>3 DEF Covered
<1>7. CASE ttl["login:account"] # 1
  <2>1. allowance' = a /\ count'["login:account"] = count["login:account"]
    BY <1>1, <1>4, <1>7 DEF Tick
  <2>2. Left' = Left
    BY <2>1, LeftKept
  <2>3. QED
    BY <1>2, <1>4, <1>5, <2>1, <2>2 DEF Covered
<1>8. QED
  BY <1>6, <1>7

\* Covered is inductive, given the types.
LEMMA NextCovered ==
  ASSUME Typed, Covered, [Next]_vars
  PROVE  Covered'
<1> USE DEF limitVars, histVars
<1>0. TypeOK /\ {"register:ip", "login:ip", "password:ip"} \subseteq Counters \ {"login:account"}
  BY DEF Typed, Counters
<1>a. ~ Guesses(Idle) /\ ~ Resets(Idle)
  BY DEF Guesses, Resets, Idle
<1>1. CASE UNCHANGED vars \/ Disable \/ Finished
  <2>1. UNCHANGED <<job, count, allowance>>
    BY <1>1 DEF vars, Disable, Finished, commandRest
  <2>2. QED
    BY <2>1 DEF Covered, Pending, Due, Left, Quota, Guessing, Resetting
<1>2. ASSUME NEW r \in Requests, NEW pw \in Passwords, Register(r, pw)
      PROVE  Covered'
  <2>1. PICK j \in Jobs \cup {Idle} : Check(r, "register:ip", j) /\ (j # Idle => j.pc = "hash")
    BY <1>2, StartJobs DEF Register
  <2>2. ~ Guesses(j) /\ ~ Resets(j)
    BY <1>a, <2>1 DEF Guesses, Resets
  <2>3. job[r] = Idle /\ UNCHANGED startRest
    BY <1>2 DEF Register, Arrives
  <2>4. QED
    BY <1>0, <2>1, <2>2, <2>3, StartCovered
<1>3. ASSUME NEW r \in Requests, NEW pw \in Passwords, Login(r, pw)
      PROVE  Covered'
  <2>1. PICK j \in Jobs \cup {Idle} : Check(r, "login:ip", j) /\ j.pc = "account"
    BY <1>3, StartJobs DEF Login
  <2>2. ~ Guesses(j) /\ ~ Resets(j)
    BY <2>1 DEF Guesses, Resets
  <2>3. job[r] = Idle /\ UNCHANGED startRest
    BY <1>3 DEF Login, Arrives
  <2>4. QED
    BY <1>0, <2>1, <2>2, <2>3, StartCovered
<1>4. ASSUME NEW r \in Requests, NEW pw \in Passwords, NEW next \in Passwords,
             NEW keep \in sessions, ChangePassword(r, pw, next, keep)
      PROVE  Covered'
  <2>1. PICK j \in Jobs \cup {Idle} : Check(r, "password:ip", j) /\ j.op = "password"
    BY <1>0, <1>4, ChangeJob DEF ChangePassword, Request
  <2>2. ~ Guesses(j) /\ ~ Resets(j)
    BY <2>1 DEF Guesses, Resets
  <2>3. job[r] = Idle /\ UNCHANGED startRest
    BY <1>4 DEF ChangePassword, Arrives
  <2>4. QED
    BY <1>0, <2>1, <2>2, <2>3, StartCovered
<1>5. ASSUME NEW r \in Requests, Acquire(r)
      PROVE  Covered'
  <2>1. UNCHANGED <<job, count, allowance>>
    BY <1>5 DEF Acquire
  <2>2. QED
    BY <2>1 DEF Covered, Pending, Due, Left, Quota, Guessing, Resetting
<1>6. ASSUME NEW r \in Requests, Fails(r)
      PROVE  Covered'
  <2>1. job[r] # Idle /\ Become(r, FailsTo(job[r])) /\ allowance' = allowance /\ Left' = Left
    BY <1>6, LeftKept DEF Fails, FailsTo, commandRest
  <2>2. job[r] \in Jobs /\ Fits(job[r])
    BY <1>0, <2>1 DEF Typed, TypeOK, Shaped
  <2>3. PICK j \in Jobs \cup {Idle} :
          /\ j = FailsTo(job[r])
          /\ j # Idle =>
               /\ job[r].op = "login"
               /\ \/ j.pc = "reset" /\ job[r].pc \in {"rehash", "store"}
                  \/ j.pc = "session"
    BY <2>2, FailsShape
  <2>4. ~ Guesses(j) /\ (Resets(j) => Resets(job[r]))
    BY <1>a, <2>3 DEF Guesses, Resets
  <2>5. QED
    BY <1>0, <2>1, <2>3, <2>4, Settles
<1>7. QED
  BY <1>1, <1>2, <1>3, <1>4, <1>5, <1>6, TickCovered, DerivedCovered, CommandCovered DEF Next

\* At first nothing is owed but the window to come.
LEMMA InitCovered == Init => Covered
<1> SUFFICES ASSUME Init PROVE Covered
  OBVIOUS
<1>1. ~ Guesses(Idle) /\ ~ Resets(Idle)
  BY DEF Guesses, Resets, Idle
<1>2. Guessing = {} /\ Resetting = {}
  BY <1>1 DEF Init, Guessing, Resetting
<1>3. Quota \in Nat \ {0} /\ count["login:account"] = 0 /\ allowance = Quota
  BY CountersFinite DEF Init, Quota
<1>4. Pending = 0 /\ Due = 0
  BY <1>2, <1>3, FS_EmptySet DEF Pending, Due
<1>5. Left = Quota
  BY <1>3 DEF Left
<1>6. QED
  BY <1>3, <1>4, <1>5 DEF Covered

\* The account limit bounds guessing whatever order checks, verifications, resets and
\* expiries come in: no more wrong passwords are tried than Limit.Requests for the first
\* window, for every window that ran out and for every correct password.
THEOREM GuessingIsBounded == Spec => []GuessesBounded
<1>1. Typed /\ Covered => GuessesBounded
  <2> SUFFICES ASSUME Typed, Covered PROVE GuessesBounded
    OBVIOUS
  <2>1. TypeOK
    BY DEF Typed
  <2>2. Pending \in Nat /\ Due \in Nat /\ Left \in Nat /\ allowance \in Int
    BY <2>1, QuotaFacts, OwedType DEF TypeOK
  <2>3. QED
    BY <2>2 DEF Covered, GuessesBounded
<1>2. QED
  BY <1>1, InitTyped, NextTyped, InitCovered, NextCovered, PTL DEF Spec

=============================================================================
