----------------------------- MODULE BudgetProofs -----------------------------
(***************************************************************************)
(* TLAPS proof that a connection's token bucket enforces exactly the budget *)
(* it is meant to, stated over windows of frames: for every burst, cost,    *)
(* rate and number of connections.                                         *)
(***************************************************************************)
EXTENDS ServerProofs

-----------------------------------------------------------------------------
(* The inductive invariant *)

\* What was spent on the frames from the i-th one on, and what is left in the bucket.
Spent(c, i) == (Len(arrivals[c]) - i + 1) * Cost + tokens[c]

\* A full bucket, and what has accrued between the i-th frame and the last call.
Accrued(c, i) == Capacity + (last[c] - arrivals[c][i]) * RatePerTick

\* No window of frames that ends with the last one has spent more than it had.
Solvent(c) ==
  \A i \in DOMAIN arrivals[c] : arrivals[c][i] <= last[c] /\ Spent(c, i) <= Accrued(c, i)

\* No token is lost but to the capacity: some window, the one that began when the bucket
\* was last full, has spent or kept all it had.
Lossless(c) ==
  refused[c] = Never =>
    \/ arrivals[c] = <<>> /\ tokens[c] = Capacity
    \/ \E i \in DOMAIN arrivals[c] : Spent(c, i) = Accrued(c, i)

\* The two halves of BudgetExact, for one connection.
WindowsBounded(c) ==
  \A i, j \in DOMAIN arrivals[c] :
    i <= j => (j - i + 1) * Cost <= Capacity + (arrivals[c][j] - arrivals[c][i]) * RatePerTick

RefusalJustified(c) ==
  refused[c] # Never =>
    \E i \in DOMAIN arrivals[c] :
      (Len(arrivals[c]) - i + 2) * Cost > Capacity + (refused[c] - arrivals[c][i]) * RatePerTick

Bucket(c) == Solvent(c) /\ Lossless(c) /\ WindowsBounded(c) /\ RefusalJustified(c)

\* readPump makes its bucket when it starts, and stops at the first refusal.
Lifetime(c) ==
  /\ c \in handshake => reader[c] = "none"
  /\ reader[c] \in {"none", "adding"} => tokens[c] = Capacity /\ arrivals[c] = <<>>
  /\ refused[c] # Never => reader[c] \in {"rejecting", "dropping"}

\* The inductive invariant behind BudgetExact.
Metered == \A c \in Conns : Bucket(c) /\ Lifetime(c)

-----------------------------------------------------------------------------
(* The bucket *)

\* Multiplication by the rate, or by the cost, distributes over sums.
LEMMA Distributes ==
  ASSUME NEW x \in Int, NEW y \in Int
  PROVE  /\ (x + y) * RatePerTick = x * RatePerTick + y * RatePerTick
         /\ (x + y) * Cost = x * Cost + y * Cost
         /\ x * RatePerTick \in Int /\ x * Cost \in Int
BY BudgetAssumption

\* What accrues adds up over two intervals.
LEMMA Elapses ==
  ASSUME NEW t \in Int, NEW u \in Int, NEW v \in Int
  PROVE  /\ (v - t) * RatePerTick = (u - t) * RatePerTick + (v - u) * RatePerTick
         /\ (u - t) * RatePerTick \in Int
<1>1. v - t = (u - t) + (v - u) /\ u - t \in Int /\ v - u \in Int
  OBVIOUS
<1>2. ((u - t) + (v - u)) * RatePerTick = (u - t) * RatePerTick + (v - u) * RatePerTick
  BY <1>1, Distributes
<1>3. (u - t) * RatePerTick \in Int
  BY <1>1, Distributes
<1> QED
  BY <1>1, <1>2, <1>3

\* One frame more costs one token more.
LEMMA OneMore ==
  ASSUME NEW k \in Int
  PROVE  (k + 1) * Cost = k * Cost + Cost /\ k * Cost \in Int
<1>1. (k + 1) * Cost = k * Cost + 1 * Cost /\ k * Cost \in Int
  BY Distributes
<1>2. 1 * Cost = Cost
  BY BudgetAssumption
<1> QED
  BY <1>1, <1>2

\* A bucket that is made anew meets the invariant.
LEMMA NewBucket ==
  ASSUME NEW c \in Conns, arrivals[c] = <<>>, tokens[c] = Capacity, refused[c] = Never
  PROVE  Bucket(c)
<1>1. DOMAIN arrivals[c] = {}
  OBVIOUS
<1> QED
  BY <1>1 DEF Bucket, Solvent, Lossless, WindowsBounded, RefusalJustified

\* A connection starts with a full bucket and no arrivals.
LEMMA NewBucketNext ==
  ASSUME NEW c \in Conns, arrivals'[c] = <<>>, tokens'[c] = Capacity, refused'[c] = Never
  PROVE  Bucket(c)'
<1>1. DOMAIN arrivals'[c] = {}
  OBVIOUS
<1> QED
  BY <1>1 DEF Bucket, Solvent, Lossless, WindowsBounded, RefusalJustified

\* A bucket nobody calls stays as it is.
LEMMA SameBucket ==
  ASSUME NEW c \in Conns, Bucket(c),
         arrivals'[c] = arrivals[c], tokens'[c] = tokens[c],
         last'[c] = last[c], refused'[c] = refused[c]
  PROVE  Bucket(c)'
BY DEF Bucket, Solvent, Lossless, WindowsBounded, RefusalJustified, Spent, Accrued

\* The numbers in a call of allow.
LEMMA BucketNumbers ==
  ASSUME ConnTypeOK, Clocked, NEW c \in Conns
  PROVE  /\ now \in Nat /\ last[c] \in Nat /\ tokens[c] \in Nat /\ Capacity \in Nat /\ Cost \in Nat
         /\ arrivals[c] \in Seq(Nat) /\ Len(arrivals[c]) \in Nat
         /\ DOMAIN arrivals[c] = 1 .. Len(arrivals[c])
         /\ \A i \in DOMAIN arrivals[c] : arrivals[c][i] \in Nat
         /\ Refilled(c) \in Nat /\ Refilled(c) <= Capacity
         /\ (now - last[c]) * RatePerTick \in Nat
         /\ Refilled(c) <= tokens[c] + (now - last[c]) * RatePerTick
         /\ Refilled(c) # Capacity => Refilled(c) = tokens[c] + (now - last[c]) * RatePerTick
<1>1. /\ now \in Nat /\ last[c] \in Nat /\ last[c] <= now
      /\ tokens[c] \in Nat /\ Capacity \in Nat /\ Cost \in Nat
  BY CapacityFacts, ConnBoundsAssumption DEF ConnTypeOK, Clocked
<1>2. arrivals[c] \in Seq(Nat)
  BY ConnBoundsAssumption DEF ConnTypeOK
<1>3. (now - last[c]) * RatePerTick \in Nat
  BY <1>1, AccruedNat
<1>4. /\ Refilled(c) \in Nat /\ Refilled(c) <= Capacity
      /\ Refilled(c) <= tokens[c] + (now - last[c]) * RatePerTick
      /\ Refilled(c) # Capacity => Refilled(c) = tokens[c] + (now - last[c]) * RatePerTick
  BY <1>1, <1>3 DEF Refilled
<1> QED
  BY <1>1, <1>2, <1>3, <1>4

\* A frame that is let through keeps every window within the budget, and loses no token.
LEMMA AllowKeeps ==
  ASSUME ConnTypeOK, Clocked, NEW c \in Conns, Bucket(c), Allow(c), refused[c] = Never
  PROVE  Bucket(c)'
<1> DEFINE a == arrivals[c]
           n == Len(arrivals[c])
           gain == (now - last[c]) * RatePerTick
<1>1. /\ Refilled(c) >= Cost /\ tokens'[c] = Refilled(c) - Cost /\ last'[c] = now
      /\ arrivals'[c] = Append(a, now) /\ refused'[c] = Never
  BY DEF Allow, ConnTypeOK
<1>2. /\ now \in Nat /\ last[c] \in Nat /\ tokens[c] \in Nat /\ Capacity \in Nat /\ Cost \in Nat
      /\ a \in Seq(Nat) /\ n \in Nat /\ DOMAIN a = 1 .. n
      /\ \A i \in DOMAIN a : a[i] \in Nat
      /\ Refilled(c) \in Nat /\ Refilled(c) <= Capacity
      /\ gain \in Nat /\ Refilled(c) <= tokens[c] + gain
      /\ Refilled(c) # Capacity => Refilled(c) = tokens[c] + gain
  BY BucketNumbers
<1> HIDE DEF gain
<1>3. /\ Len(arrivals'[c]) = n + 1 /\ DOMAIN arrivals'[c] = 1 .. n + 1
      /\ arrivals'[c][n + 1] = now /\ \A i \in 1 .. n : arrivals'[c][i] = a[i]
  BY <1>1, <1>2
<1>4. ASSUME NEW i \in 1 .. n
      PROVE  /\ Spent(c, i)' = Spent(c, i) - tokens[c] + Refilled(c)
             /\ Accrued(c, i)' = Accrued(c, i) + gain
             /\ Spent(c, i) \in Int /\ Accrued(c, i) \in Int
  <2>1. a[i] \in Nat /\ n - i + 1 \in Int
    BY <1>2
  <2>2. n + 1 - i + 1 = (n - i + 1) + 1
    BY <1>2
  <2>3. /\ (now - a[i]) * RatePerTick = (last[c] - a[i]) * RatePerTick + gain
        /\ (last[c] - a[i]) * RatePerTick \in Int
    <3>1. now \in Int /\ last[c] \in Int /\ a[i] \in Int
      BY <1>2, <2>1
    <3> QED
      BY <3>1, Elapses DEF gain
  <2>4. /\ ((n - i + 1) + 1) * Cost = (n - i + 1) * Cost + Cost
        /\ (n - i + 1) * Cost \in Int
    BY <2>1, OneMore
  <2>5. Spent(c, i)' = (n + 1 - i + 1) * Cost + (Refilled(c) - Cost)
    BY <1>1, <1>3 DEF Spent
  <2>6. Accrued(c, i)' = Capacity + (now - a[i]) * RatePerTick
    BY <1>1, <1>3 DEF Accrued, Capacity
  <2>7. Spent(c, i) = (n - i + 1) * Cost + tokens[c]
    BY DEF Spent
  <2>8. Accrued(c, i) = Capacity + (last[c] - a[i]) * RatePerTick
    BY DEF Accrued
  <2>9. Spent(c, i)' = ((n - i + 1) * Cost + Cost) + (Refilled(c) - Cost)
    BY <2>2, <2>4, <2>5
  <2>10. Accrued(c, i)' = Capacity + ((last[c] - a[i]) * RatePerTick + gain)
    BY <2>3, <2>6
  <2>11. Spent(c, i)' = Spent(c, i) - tokens[c] + Refilled(c) /\ Spent(c, i) \in Int
    <3>1. PICK k \in Int : Spent(c, i) = k + tokens[c] /\ Spent(c, i)' = (k + Cost) + (Refilled(c) - Cost)
      BY <2>4, <2>7, <2>9
    <3>2. tokens[c] \in Nat /\ Cost \in Nat /\ Refilled(c) \in Nat
      BY <1>2
    <3>3. (k + Cost) + (Refilled(c) - Cost) = (k + tokens[c]) - tokens[c] + Refilled(c)
      BY <3>2
    <3> QED
      BY <3>1, <3>2, <3>3
  <2>12. Accrued(c, i)' = Accrued(c, i) + gain /\ Accrued(c, i) \in Int
    <3>1. PICK k \in Int : Accrued(c, i) = Capacity + k /\ Accrued(c, i)' = Capacity + (k + gain)
      BY <2>3, <2>8, <2>10
    <3> QED
      BY <1>2, <3>1
  <2> QED
    BY <2>11, <2>12
<1>5. ASSUME NEW i, i = n + 1
      PROVE  Spent(c, i)' = Refilled(c) /\ Accrued(c, i)' = Capacity /\ arrivals'[c][i] = now
  <2>1. Len(arrivals'[c]) - i + 1 = 1 /\ last'[c] - arrivals'[c][i] = 0
    BY <1>1, <1>2, <1>3, <1>5
  <2>2. 1 * Cost = Cost /\ 0 * RatePerTick = 0
    BY BudgetAssumption
  <2>3. Spent(c, i)' = 1 * Cost + (Refilled(c) - Cost)
    BY <1>1, <2>1 DEF Spent
  <2>4. Accrued(c, i)' = Capacity + 0 * RatePerTick
    BY <2>1 DEF Accrued, Capacity
  <2> QED
    BY <1>2, <1>3, <1>5, <2>2, <2>3, <2>4
<1>6. Solvent(c)'
  <2> SUFFICES ASSUME NEW i \in 1 .. n + 1
               PROVE  arrivals'[c][i] <= now /\ Spent(c, i)' <= Accrued(c, i)'
    BY <1>1, <1>3 DEF Solvent
  <2>1. CASE i = n + 1
    <3>1. Spent(c, i)' = Refilled(c) /\ Accrued(c, i)' = Capacity /\ arrivals'[c][i] = now
      BY <1>5, <2>1
    <3> QED
      BY <1>2, <3>1
  <2>2. CASE i \in 1 .. n
    <3>1. a[i] <= last[c] /\ Spent(c, i) <= Accrued(c, i)
      BY <1>2, <2>2 DEF Bucket, Solvent
    <3>2. last[c] <= now
      BY DEF Clocked
    <3>3. arrivals'[c][i] <= now
      <4>1. arrivals'[c][i] = a[i] /\ a[i] \in Nat
        BY <1>2, <1>3, <2>2
      <4> QED
        BY <1>2, <3>1, <3>2, <4>1
    <3>4. Spent(c, i)' <= Accrued(c, i)'
      <4>1. /\ Spent(c, i)' = Spent(c, i) - tokens[c] + Refilled(c)
            /\ Accrued(c, i)' = Accrued(c, i) + gain
            /\ Spent(c, i) \in Int /\ Accrued(c, i) \in Int
        BY <1>4, <2>2
      <4> QED
        BY <1>2, <3>1, <4>1
    <3> QED
      BY <3>3, <3>4
  <2>3. i = n + 1 \/ i \in 1 .. n
    BY <1>2
  <2> QED
    BY <2>1, <2>2, <2>3
<1>7. Lossless(c)'
  <2> SUFFICES \E i \in 1 .. n + 1 : Spent(c, i)' = Accrued(c, i)'
    BY <1>3 DEF Lossless
  <2>1. CASE Refilled(c) = Capacity
    <3>1. PICK i \in 1 .. n + 1 : i = n + 1
      BY <1>2
    <3>2. Spent(c, i)' = Accrued(c, i)'
      BY <1>5, <2>1, <3>1
    <3> QED
      BY <3>2
  <2>2. CASE Refilled(c) # Capacity
    <3>1. Refilled(c) = tokens[c] + gain
      BY <1>2, <2>2
    <3>2. ~(a = <<>> /\ tokens[c] = Capacity)
      BY <1>2, <2>2, <3>1
    <3>3. PICK i \in 1 .. n : Spent(c, i) = Accrued(c, i)
      BY <1>2, <3>2 DEF Bucket, Lossless
    <3>4. Spent(c, i)' = Accrued(c, i)'
      BY <1>2, <1>4, <3>1, <3>3
    <3> QED
      BY <1>2, <3>4
  <2> QED
    BY <2>1, <2>2
<1>8. WindowsBounded(c)'
  <2> SUFFICES ASSUME NEW i \in 1 .. n + 1, NEW j \in 1 .. n + 1, i <= j
               PROVE  (j - i + 1) * Cost <=
                        Capacity + (arrivals'[c][j] - arrivals'[c][i]) * RatePerTick
    BY <1>3 DEF WindowsBounded, Capacity
  <2>1. CASE j = n + 1
    <3>1. Spent(c, i)' <= Accrued(c, i)'
      BY <1>3, <1>6 DEF Solvent
    <3>2. Spent(c, i)' = (j - i + 1) * Cost + tokens'[c]
      BY <1>3, <2>1 DEF Spent
    <3>3. Accrued(c, i)' = Capacity + (arrivals'[c][j] - arrivals'[c][i]) * RatePerTick
      BY <1>1, <1>3, <2>1 DEF Accrued, Capacity
    <3>4. tokens'[c] \in Nat
      BY <1>1, <1>2
    <3>5. (j - i + 1) * Cost \in Int
      BY <1>2, Distributes
    <3>6. arrivals'[c][j] \in Nat /\ arrivals'[c][i] \in Nat
      <4>1. arrivals'[c] \in Seq(Nat)
        BY <1>1, <1>2
      <4> QED
        BY <1>3, <4>1
    <3>7. (arrivals'[c][j] - arrivals'[c][i]) * RatePerTick \in Int
      <4>1. arrivals'[c][j] - arrivals'[c][i] \in Int
        BY <3>6
      <4> QED
        BY <4>1, Distributes
    <3> QED
      BY <1>2, <3>1, <3>2, <3>3, <3>4, <3>5, <3>7
  <2>2. CASE j # n + 1
    <3>1. i \in DOMAIN a /\ j \in DOMAIN a
      BY <1>2, <2>2
    <3>2. arrivals'[c][i] = a[i] /\ arrivals'[c][j] = a[j]
      BY <1>2, <1>3, <3>1
    <3> QED
      BY <3>1, <3>2 DEF Bucket, WindowsBounded
  <2> QED
    BY <2>1, <2>2
<1> QED
  BY <1>1, <1>6, <1>7, <1>8 DEF Bucket, RefusalJustified

\* A frame is only refused when some window that ends with it is used up.
LEMMA RefuseKeeps ==
  ASSUME ConnTypeOK, Clocked, NEW c \in Conns, Bucket(c), Refuse(c), refused[c] = Never
  PROVE  Bucket(c)'
<1> DEFINE a == arrivals[c]
           n == Len(arrivals[c])
           gain == (now - last[c]) * RatePerTick
<1>1. /\ Refilled(c) < Cost /\ tokens'[c] = Refilled(c) /\ last'[c] = now
      /\ arrivals'[c] = a /\ refused'[c] = now
  BY DEF Refuse, ConnTypeOK
<1>2. /\ now \in Nat /\ last[c] \in Nat /\ tokens[c] \in Nat /\ Capacity \in Nat /\ Cost \in Nat
      /\ n \in Nat /\ DOMAIN a = 1 .. n
      /\ \A i \in DOMAIN a : a[i] \in Nat
      /\ Refilled(c) \in Nat /\ Refilled(c) <= Capacity
      /\ gain \in Nat /\ Refilled(c) <= tokens[c] + gain
      /\ Refilled(c) # Capacity => Refilled(c) = tokens[c] + gain
  BY BucketNumbers
<1> HIDE DEF gain
<1>3. Refilled(c) = tokens[c] + gain /\ tokens[c] # Capacity
  <2>1. Refilled(c) # Capacity
    BY <1>1, <1>2, CapacityFacts
  <2> QED
    BY <1>2, <2>1
<1>4. ASSUME NEW i \in 1 .. n
      PROVE  /\ Spent(c, i) = (n - i + 1) * Cost + tokens[c] /\ (n - i + 1) * Cost \in Int
             /\ Capacity + (now - a[i]) * RatePerTick = Accrued(c, i) + gain
             /\ (n - i + 2) * Cost = (n - i + 1) * Cost + Cost
             /\ Accrued(c, i) \in Int
  <2>1. a[i] \in Nat /\ n - i + 1 \in Int
    BY <1>2
  <2>2. n - i + 2 = (n - i + 1) + 1
    BY <1>2
  <2>3. /\ (now - a[i]) * RatePerTick = (last[c] - a[i]) * RatePerTick + gain
        /\ (last[c] - a[i]) * RatePerTick \in Int
    <3>1. now \in Int /\ last[c] \in Int /\ a[i] \in Int
      BY <1>2, <2>1
    <3> QED
      BY <3>1, Elapses DEF gain
  <2>4. /\ ((n - i + 1) + 1) * Cost = (n - i + 1) * Cost + Cost
        /\ (n - i + 1) * Cost \in Int
    BY <2>1, OneMore
  <2> QED
    BY <1>2, <2>2, <2>3, <2>4 DEF Spent, Accrued
<1>5. Solvent(c)'
  <2> SUFFICES ASSUME NEW i \in 1 .. n
               PROVE  a[i] <= now /\ Spent(c, i)' <= Accrued(c, i)'
    BY <1>1, <1>2 DEF Solvent
  <2>1. a[i] <= last[c] /\ Spent(c, i) <= Accrued(c, i) /\ last[c] <= now
    BY <1>2 DEF Bucket, Solvent, Clocked
  <2>2. Spent(c, i)' = (n - i + 1) * Cost + Refilled(c)
    BY <1>1 DEF Spent
  <2>3. Accrued(c, i)' = Capacity + (now - a[i]) * RatePerTick
    BY <1>1 DEF Accrued, Capacity
  <2>4. a[i] <= now
    BY <1>2, <2>1
  <2>5. PICK used \in Int, accrued \in Int :
          used = (n - i + 1) * Cost /\ accrued = Accrued(c, i)
    BY <1>4
  <2>6. used + Refilled(c) <= accrued + gain
    <3>1. used + tokens[c] <= accrued
      BY <1>4, <2>1, <2>5
    <3>2. PICK left \in Int, more \in Int, held \in Int :
            left = tokens[c] /\ more = gain /\ held = Refilled(c)
      BY <1>2
    <3>3. held = left + more
      BY <1>3, <3>2
    <3>4. used + left <= accrued
      BY <3>1, <3>2
    <3>5. used + held <= accrued + more
      BY <3>3, <3>4
    <3> QED
      BY <3>2, <3>5
  <2>7. Spent(c, i)' = used + Refilled(c) /\ Accrued(c, i)' = accrued + gain
    BY <1>4, <2>2, <2>3, <2>5
  <2> QED
    BY <2>4, <2>6, <2>7
<1>6. RefusalJustified(c)'
  <2>1. PICK i \in 1 .. n : Spent(c, i) = Accrued(c, i)
    BY <1>2, <1>3 DEF Bucket, Lossless
  <2>2. PICK used \in Int, accrued \in Int :
          used = (n - i + 1) * Cost /\ accrued = Accrued(c, i)
    BY <1>4
  <2>3. accrued = used + tokens[c]
    BY <1>4, <2>1, <2>2
  <2>4. used + Cost > accrued + gain
    <3>1. PICK left \in Int, more \in Int, held \in Int, price \in Int :
            left = tokens[c] /\ more = gain /\ held = Refilled(c) /\ price = Cost
      BY <1>2, CapacityFacts
    <3>2. held = left + more /\ held < price
      BY <1>1, <1>3, <3>1
    <3>3. accrued = used + left
      BY <2>3, <3>1
    <3>4. used + price > accrued + more
      BY <3>2, <3>3
    <3> QED
      BY <3>1, <3>4
  <2>5. /\ (n - i + 2) * Cost = used + Cost
        /\ Capacity + (now - a[i]) * RatePerTick = accrued + gain
    BY <1>4, <2>2
  <2>6. (n - i + 2) * Cost > Capacity + (now - a[i]) * RatePerTick
    BY <2>4, <2>5
  <2> QED
    BY <1>1, <1>2, <2>6 DEF RefusalJustified, Capacity
<1>7. WindowsBounded(c)'
  BY <1>1 DEF Bucket, WindowsBounded, Capacity
<1>8. Lossless(c)'
  <2>1. refused'[c] # Never
    BY <1>1, <1>2 DEF Never
  <2> QED
    BY <2>1 DEF Lossless, Never
<1> QED
  BY <1>5, <1>6, <1>7, <1>8 DEF Bucket

-----------------------------------------------------------------------------
(* Every step *)

\* The pumps of a connection.
LEMMA PumpsMetered ==
  ASSUME ConnTypeOK, Clocked, Metered, NEW c \in Conns, Pumps(c), UNCHANGED handshake
  PROVE  Metered'
<1> USE DEF ConnTypeOK, bucketVars
<1> SUFFICES ASSUME NEW d \in Conns PROVE Bucket(d)' /\ Lifetime(d)'
  BY DEF Metered
<1>1. Bucket(d) /\ Lifetime(d) /\ Bucket(c) /\ Lifetime(c)
  BY DEF Metered
<1>2. CASE Receive(c)
  <2>1. refused[c] = Never /\ reader[c] = "reading" /\ Allow(c) /\ UNCHANGED reader
    BY <1>1, <1>2 DEF Receive, Lifetime
  <2>2. CASE d = c
    <3>1. Bucket(c)'
      BY <1>1, <2>1, AllowKeeps
    <3>2. Lifetime(c)'
      BY <1>1, <2>1 DEF Lifetime, Allow
    <3> QED
      BY <2>2, <3>1, <3>2
  <2>3. CASE d # c
    <3>1. /\ arrivals'[d] = arrivals[d] /\ tokens'[d] = tokens[d]
          /\ last'[d] = last[d] /\ refused'[d] = refused[d]
      BY <2>1, <2>3 DEF Allow
    <3> QED
      BY <1>1, <2>1, <3>1, SameBucket DEF Lifetime
  <2> QED
    BY <2>2, <2>3
<1>3. CASE RejectExcess(c)
  <2>1. /\ refused[c] = Never /\ reader[c] = "reading" /\ Refuse(c)
        /\ reader' = [reader EXCEPT ![c] = "rejecting"]
    BY <1>1, <1>3 DEF RejectExcess, Lifetime
  <2>2. CASE d = c
    <3>1. Bucket(c)'
      BY <1>1, <2>1, RefuseKeeps
    <3>2. Lifetime(c)'
      BY <1>1, <2>1 DEF Lifetime
    <3> QED
      BY <2>2, <3>1, <3>2
  <2>3. CASE d # c
    <3>1. /\ arrivals'[d] = arrivals[d] /\ tokens'[d] = tokens[d]
          /\ last'[d] = last[d] /\ refused'[d] = refused[d] /\ reader'[d] = reader[d]
      BY <2>1, <2>3 DEF Refuse
    <3> QED
      BY <1>1, <3>1, SameBucket DEF Lifetime
  <2> QED
    BY <2>2, <2>3
<1>4. CASE Drop(c)
  <2>1. CASE d = c
    <3>1. /\ arrivals'[c] = <<>> /\ tokens'[c] = Capacity /\ refused'[c] = Never
          /\ reader'[c] = "done" /\ reader[c] = "dropping"
      BY <1>4 DEF Drop, Forget
    <3> QED
      BY <1>1, <2>1, <3>1, NewBucketNext DEF Lifetime, Never
  <2>2. CASE d # c
    <3>1. /\ arrivals'[d] = arrivals[d] /\ tokens'[d] = tokens[d]
          /\ last'[d] = last[d] /\ refused'[d] = refused[d] /\ reader'[d] = reader[d]
      BY <1>4, <2>2 DEF Drop, Forget
    <3> QED
      BY <1>1, <3>1, SameBucket DEF Lifetime
  <2> QED
    BY <2>1, <2>2
<1>5. CASE \/ RejectBinary(c) \/ Rejected(c) \/ ReadEnds(c) \/ TakeFrame(c) \/ Ping(c)
           \/ WriteEnds(c) \/ WriteAborts(c) \/ TakeClose(c) \/ CloseEnds(c)
           \/ HubPushes(c) \/ HubEvicts(c)
  <2>1. UNCHANGED <<tokens, last, arrivals, refused>>
    BY <1>5 DEF RejectBinary, Rejected, ReadEnds, TakeFrame, Ping, WriteEnds, WriteAborts,
                TakeClose, CloseEnds, HubPushes, HubEvicts, writeRest
  <2>2. \/ reader'[d] = reader[d]
        \/ reader[d] = "reading" /\ reader'[d] \in {"rejecting", "dropping"}
        \/ reader[d] = "rejecting" /\ reader'[d] = "dropping"
    BY <1>5 DEF RejectBinary, Rejected, ReadEnds, TakeFrame, Ping, WriteEnds, WriteAborts,
                TakeClose, CloseEnds, HubPushes, HubEvicts, writeRest
  <2>3. Bucket(d)'
    BY <1>1, <2>1, SameBucket
  <2> QED
    BY <1>1, <2>1, <2>2, <2>3 DEF Lifetime, Never, Capacity
<1> QED
  BY <1>2, <1>3, <1>4, <1>5 DEF Pumps

\* The end of a process: its buckets are gone, the others stay.
LEMMA ProcessEndsMetered ==
  ASSUME ConnTypeOK, Metered, NEW r \in Replicas, ProcessEnds(r), UNCHANGED handshake
  PROVE  Metered'
<1> SUFFICES ASSUME NEW d \in Conns PROVE Bucket(d)' /\ Lifetime(d)'
  BY DEF Metered
<1>1. Bucket(d) /\ Lifetime(d)
  BY DEF Metered
<1>2. CASE d \in At(r)
  <2>1. /\ arrivals'[d] = <<>> /\ tokens'[d] = Capacity /\ refused'[d] = Never
        /\ reader'[d] = IF reader[d] # "none" THEN "done" ELSE "none"
    BY <1>2 DEF ProcessEnds, Forget
  <2> QED
    BY <1>1, <2>1, NewBucketNext DEF Lifetime, Never, Capacity
<1>3. CASE d \notin At(r)
  <2>1. /\ arrivals'[d] = arrivals[d] /\ tokens'[d] = tokens[d]
        /\ last'[d] = last[d] /\ refused'[d] = refused[d] /\ reader'[d] = reader[d]
    BY <1>3 DEF ProcessEnds, Forget
  <2> QED
    BY <1>1, <2>1, SameBucket DEF Lifetime, Never, Capacity
<1> QED
  BY <1>2, <1>3

\* Every step keeps every bucket metered.
LEMMA MeteredNext ==
  ASSUME TypeOK, Clocked, Metered, [Next]_vars
  PROVE  Metered'
<1> USE DEF TypeOK, lifeVars
<1>1. ASSUME UNCHANGED <<tokens, last, arrivals, refused, reader, handshake>> PROVE Metered'
  BY <1>1, SameBucket DEF Metered, Lifetime, Never, Capacity
<1>2. ASSUME NEW r \in Replicas, RunMigrate(r) PROVE Metered'
  BY <1>1, <1>2 DEF RunMigrate, connVars, bucketVars
<1>3. ASSUME NEW r \in Replicas, Postgres(r), UNCHANGED <<connVars, lifeVars>> PROVE Metered'
  BY <1>1, <1>3 DEF connVars, bucketVars
<1>4. ASSUME NEW r \in Replicas, PhaseStep(r) \/ Crash(r) PROVE Metered'
  <2>1. UNCHANGED handshake /\ (ProcessEnds(r) \/ UNCHANGED connVars)
    BY <1>4 DEF PhaseStep, Start, Connect, Serve, StartFails, ServeFails, ShutdownBegins,
                ShutdownReturns, ShutdownTimesOut, ShutInbox, Exit, ExitTimesOut, Crash
  <2> QED
    BY <1>1, <2>1, ProcessEndsMetered DEF connVars, bucketVars
<1>5. ASSUME NEW r \in Replicas, HubStops(r) \/ RequestBegins(r) \/ RequestEnds(r) \/ Signal(r)
      PROVE  Metered'
  BY <1>1, <1>5 DEF HubStops, RequestBegins, RequestEnds, Signal, connVars, bucketVars
<1>6. ASSUME NEW c \in Conns, HandshakeBegins(c) PROVE Metered'
  <2>1. /\ UNCHANGED <<tokens, last, arrivals, refused, reader>>
        /\ handshake' = handshake \cup {c} /\ reader[c] = "none"
    BY <1>6 DEF HandshakeBegins, connVars, bucketVars
  <2> QED
    BY <2>1, SameBucket DEF Metered, Lifetime, Never, Capacity
<1>7. ASSUME NEW c \in Conns, Upgrade(c) \/ AddRefused(c) PROVE Metered'
  <2>1. /\ UNCHANGED <<tokens, last, arrivals, refused>>
        /\ \/ c \in handshake /\ handshake' = handshake \ {c} /\ reader' = [reader EXCEPT ![c] = "adding"]
           \/ reader[c] = "adding" /\ handshake' = handshake /\ reader' = [reader EXCEPT ![c] = "done"]
    BY <1>7 DEF Upgrade, AddRefused, bucketVars
  <2>2. \A d \in Conns : Bucket(d)'
    BY <2>1, SameBucket DEF Metered
  <2>3. \A d \in Conns : Lifetime(d)'
    BY <2>1 DEF Metered, Lifetime, Never, Capacity, ConnTypeOK
  <2> QED
    BY <2>2, <2>3 DEF Metered
<1>8. ASSUME NEW c \in Conns, Add(c) PROVE Metered'
  <2>1. /\ UNCHANGED <<tokens, arrivals, refused, handshake>> /\ reader[c] = "adding"
        /\ reader' = [reader EXCEPT ![c] = "reading"] /\ last' = [last EXCEPT ![c] = now]
    BY <1>8 DEF Add
  <2>2. arrivals'[c] = <<>> /\ tokens'[c] = Capacity /\ refused'[c] = Never
    BY <2>1 DEF Metered, Lifetime
  <2>3. ASSUME NEW d \in Conns PROVE Bucket(d)'
    <3>1. CASE d = c
      BY <2>2, <3>1, NewBucketNext
    <3>2. CASE d # c
      <4>1. last'[d] = last[d]
        BY <2>1, <3>2 DEF ConnTypeOK
      <4> QED
        BY <2>1, <4>1, SameBucket DEF Metered
    <3> QED
      BY <3>1, <3>2
  <2>4. \A d \in Conns : Lifetime(d)'
    BY <2>1 DEF Metered, Lifetime, Never, Capacity, ConnTypeOK
  <2> QED
    BY <2>3, <2>4 DEF Metered
<1>9. ASSUME NEW c \in Conns, RunPumps(c) PROVE Metered'
  BY <1>9, PumpsMetered DEF RunPumps
<1>10. CASE ClockTicks /\ UNCHANGED <<migrateVars, lifeVars>>
  BY <1>1, <1>10 DEF ClockTicks, bucketVars
<1>11. CASE UNCHANGED vars
  BY <1>1, <1>11 DEF vars, connVars, bucketVars
<1> QED
  BY <1>2, <1>3, <1>4, <1>5, <1>6, <1>7, <1>8, <1>9, <1>10, <1>11, NextKinds DEF ServingStep

\* The token bucket lets through no more, in any window of frames, than a full bucket and
\* what accrues in the window; and it refuses a frame, which closes the connection, only
\* when that frame would be one too many for some window.
THEOREM BudgetIsExact == Spec => []BudgetExact
<1>1. Init => Metered
  <2> SUFFICES ASSUME Init, NEW c \in Conns PROVE Bucket(c) /\ Lifetime(c)
    BY DEF Metered
  <2>1. /\ arrivals[c] = <<>> /\ tokens[c] = Capacity /\ refused[c] = Never
        /\ reader[c] = "none" /\ c \notin handshake
    BY DEF Init, ConnInit
  <2> QED
    BY <2>1, NewBucket DEF Lifetime
<1>2. TypeOK /\ Clocked /\ Metered /\ [Next]_vars => Metered'
  BY MeteredNext
<1>3. Metered => BudgetExact
  BY DEF Metered, Bucket, WindowsBounded, RefusalJustified, BudgetExact
<1>4. TypeOK /\ Clocked /\ Serialized => TypeOK /\ Clocked
  OBVIOUS
<1> QED
  BY <1>1, <1>2, <1>3, SerializedAlways, PTL DEF Spec
=============================================================================
