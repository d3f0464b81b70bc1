---------------------------- MODULE PartsProofs -----------------------------
(***************************************************************************)
(* Facts about the parts of a switch.  The arithmetic of tokens, on which  *)
(* the proofs about the shaper and the meter rest; the operators of a      *)
(* token bucket, for every rate; and an array of queues with its scheduler,*)
(* for every range of indices and every set of packets.  Then the parser   *)
(* of its configuration: for every plan and every order of its file, what  *)
(* is read is what the plan says.                                          *)
(***************************************************************************)
EXTENDS TokenAssumptions, StrictPriority, ConfigParser, SequenceTheorems, FiniteSetTheorems, TLAPS

\* What \div returns, in the only form the proofs need.
LEMMA DivBound ==
  ASSUME NEW e \in Nat, NEW t \in Nat \ {0}
  PROVE  /\ e \div t \in Nat
         /\ (e \div t) * t <= e
         /\ e < (e \div t) * t + t
  OBVIOUS

\* What the narrowing to an unsigned word returns.
LEMMA ModBound ==
  ASSUME NEW n \in Nat, NEW w \in Nat \ {0}
  PROVE  /\ n % w \in Nat
         /\ n % w <= n
         /\ n < w => n % w = n
  OBVIOUS

\* The tokens earned never exceed what the elapsed time is worth, whatever
\* the rounding and whatever the width of the word.
LEMMA EarnedBound ==
  ASSUME NEW last \in Nat, NEW time \in Nat, last <= time, NEW t \in Nat \ {0}
  PROVE  /\ Earned(last, time, t) \in Nat
         /\ Earned(last, time, t) * t <= time - last
  <1> DEFINE whole == (time - last) \div t
             n == IF /\ whole > 0
                     /\ (time - last) % t = 0
                     /\ RoundsDown(last, time)
                  THEN whole - 1 ELSE whole
  <1>1. /\ whole \in Nat
        /\ whole * t <= time - last
    BY DivBound
  <1>2. n \in Nat /\ n <= whole
    BY <1>1
  <1>3. n % WordSize \in Nat /\ n % WordSize <= n
    BY <1>2, ModBound, WordAssumption
  <1>4. Earned(last, time, t) = n % WordSize
    BY DEF Earned
  <1> HIDE DEF whole, n
  <1>5. (n % WordSize) * t <= whole * t
    BY <1>1, <1>2, <1>3
  <1>6. QED
    BY <1>1, <1>3, <1>4, <1>5

\* Without overflow, earning nothing means that at most one token's worth
\* of time has gone by.
LEMMA EarnedNothing ==
  ASSUME NEW last \in Nat, NEW time \in Nat, last <= time, NEW t \in Nat \ {0},
         time - last < WordSize * t,
         Earned(last, time, t) = 0
  PROVE  time - last <= t
  <1> DEFINE e == time - last
             whole == e \div t
             n == IF whole > 0 /\ e % t = 0 /\ RoundsDown(last, time)
                  THEN whole - 1 ELSE whole
  <1>1. /\ e \in Nat
        /\ whole \in Nat
        /\ whole * t <= e
        /\ e < whole * t + t
    BY DivBound
  <1>2. whole < WordSize
    <2>1. whole * t < WordSize * t
      BY <1>1, WordAssumption
    <2>2. SUFFICES ASSUME whole >= WordSize PROVE FALSE
      BY <1>1, WordAssumption
    <2> HIDE DEF whole, e
    <2>3. whole * t >= WordSize * t
      BY <1>1, <2>2, WordAssumption
    <2>4. QED
      BY <1>1, <2>1, <2>3, WordAssumption
  <1>3. n = 0
    <2>1. n \in Nat /\ n < WordSize
      BY <1>1, <1>2, WordAssumption
    <2>2. Earned(last, time, t) = n % WordSize
      BY DEF Earned
    <2>3. QED
      BY <2>1, <2>2, ModBound, WordAssumption
  <1>4. CASE whole = 0
    BY <1>1, <1>4
  <1>5. CASE whole = 1 /\ e % t = 0
    BY <1>1, <1>5
  <1>6. QED
    BY <1>1, <1>3, <1>4, <1>5
\* No double product is rounded below the whole number it stands for.
ExactProducts == \A last, time : ~ RoundsDown(last, time)

\* A whole number of token times, and one tick less, divided by the token
\* time.
LEMMA DivExact ==
  ASSUME NEW t \in Nat \ {0}, NEW k \in Nat \ {0}
  PROVE  (k * t) \div t = k /\ (k * t - 1) \div t = k - 1
  <1> DEFINE w == (k * t) \div t
             v == (k * t - 1) \div t
  <1>1. k * t \in Nat /\ k * t - 1 \in Nat
    OBVIOUS
  <1>2. /\ w \in Nat /\ w * t <= k * t /\ k * t < w * t + t
        /\ v \in Nat /\ v * t <= k * t - 1 /\ k * t - 1 < v * t + t
    BY <1>1, DivBound
  <1> HIDE DEF w, v
  <1>3. ~ (w < k) /\ ~ (v < k - 1)
    <2>1. w < k => w * t + t <= k * t
      BY <1>2
    <2>2. v < k - 1 => v * t + t + t <= k * t
      BY <1>2
    <2>3. QED
      BY <1>2, <2>1, <2>2
  <1>4. ~ (w > k) /\ ~ (v > k - 1)
    <2>1. w > k => k * t + t <= w * t
      BY <1>2
    <2>2. v > k - 1 => k * t <= v * t
      BY <1>2
    <2>3. QED
      BY <1>2, <2>1, <2>2
  <1>5. QED
    BY <1>2, <1>3, <1>4 DEF w, v

\* The quotient one tick later.
LEMMA DivNext ==
  ASSUME NEW e \in Nat, NEW t \in Nat \ {0}
  PROVE  (e + 1) \div t = IF (e + 1) % t = 0 THEN (e \div t) + 1 ELSE e \div t
  <1> DEFINE w == e \div t
             v == (e + 1) \div t
             rest == (e + 1) % t
  <1>1. /\ w \in Nat /\ w * t <= e /\ e < w * t + t
        /\ v \in Nat /\ v * t <= e + 1 /\ e + 1 < v * t + t
    BY DivBound
  <1>2. rest \in Nat /\ rest < t /\ e + 1 = v * t + rest
    OBVIOUS
  <1> HIDE DEF w, v, rest
  <1>3. v = w \/ v = w + 1
    <2>1. v < w => v * t + t <= w * t
      BY <1>1
    <2>2. v > w + 1 => w * t + t + t <= v * t
      BY <1>1
    <2>3. QED
      BY <1>1, <2>1, <2>2
  <1>4. CASE v = w + 1
    <2>1. v * t = w * t + t
      BY <1>1, <1>4
    <2>2. rest = 0
      BY <1>1, <1>2, <2>1
    <2>3. QED
      BY <1>4, <2>2 DEF v, w, rest
  <1>5. CASE v = w
    <2>1. rest # 0
      BY <1>1, <1>2, <1>5
    <2>2. QED
      BY <1>5, <2>1 DEF v, w, rest
  <1>6. QED
    BY <1>3, <1>4, <1>5

\* Earned without rounding and without overflow.
LEMMA EarnedExact ==
  ASSUME NEW last \in Nat, NEW time \in Nat, last <= time, NEW t \in Nat \ {0},
         (time - last) \div t < WordSize,
         ExactProducts
  PROVE  Earned(last, time, t) = (time - last) \div t
  <1> DEFINE q == (time - last) \div t
  <1>1. q \in Nat
    BY DivBound
  <1>2. Earned(last, time, t) = q % WordSize
    BY DEF Earned, ExactProducts
  <1> HIDE DEF q
  <1>3. q % WordSize = q
    BY <1>1, ModBound, WordAssumption DEF q
  <1>4. QED
    BY <1>2, <1>3 DEF q
-----------------------------------------------------------------------------
\* A refill keeps the bucket a bucket, and never earns more than the time.
LEMMA RefillBound ==
  ASSUME NEW b \in Bucket, NEW time \in Nat, NEW ticks \in Nat \ {0},
         b.last_update_time <= time
  PROVE  LET r == Refill(b, time, ticks)
         IN  /\ r \in Bucket
             /\ r.last_update_time <= time
             /\ b.tokens <= r.tokens
             /\ (r.tokens - b.tokens) * ticks
                  <= r.last_update_time - b.last_update_time
  <1> DEFINE n == Earned(b.last_update_time, time, ticks)
             r == Refill(b, time, ticks)
  <1>1. /\ b.last_update_time \in Nat
        /\ b.tokens \in Nat
        /\ b.tokens <= Capacity
    BY CapacityAssumption DEF Bucket
  <1>2. n \in Nat /\ n * ticks <= time - b.last_update_time
    BY <1>1, EarnedBound
  <1>3. /\ r.last_update_time = IF n > 0 THEN time ELSE b.last_update_time
        /\ r.tokens = IF b.tokens + n <= Capacity THEN b.tokens + n ELSE Capacity
        /\ r = [tokens |-> r.tokens, last_update_time |-> r.last_update_time]
    BY DEF Refill, UpdateTime, Least
  <1> HIDE DEF n, r
  <1>4. r \in Bucket
    BY <1>1, <1>2, <1>3, CapacityAssumption DEF Bucket
  <1>5. b.tokens <= r.tokens /\ r.tokens - b.tokens <= n
    BY <1>1, <1>2, <1>3, CapacityAssumption
  <1>6. r.tokens \in Nat
    BY <1>1, <1>2, <1>3, CapacityAssumption
  <1>7. (r.tokens - b.tokens) * ticks <= n * ticks
    BY <1>1, <1>2, <1>5, <1>6
  <1>8. n * ticks <= r.last_update_time - b.last_update_time
    BY <1>1, <1>2, <1>3
  <1>9. r.last_update_time <= time
    BY <1>1, <1>3
  <1>10. (r.tokens - b.tokens) * ticks <= r.last_update_time - b.last_update_time
    BY <1>1, <1>2, <1>3, <1>6, <1>7, <1>8
  <1>11. QED
    BY <1>4, <1>5, <1>9, <1>10 DEF r

\* After a refill without overflow, the bucket is at most one token behind.
LEMMA RefillRecent ==
  ASSUME NEW b \in Bucket, NEW time \in Nat, NEW ticks \in Nat \ {0},
         b.last_update_time <= time,
         time - b.last_update_time < WordSize * ticks
  PROVE  time - Refill(b, time, ticks).last_update_time <= ticks
  <1>1. b.last_update_time \in Nat
    BY DEF Bucket
  <1>2. Earned(b.last_update_time, time, ticks) \in Nat
    BY <1>1, EarnedBound
  <1>3. CASE Earned(b.last_update_time, time, ticks) > 0
    BY <1>1, <1>3 DEF Refill, UpdateTime
  <1>4. CASE Earned(b.last_update_time, time, ticks) = 0
    BY <1>1, <1>4, EarnedNothing DEF Refill, UpdateTime
  <1>5. QED
    BY <1>2, <1>3, <1>4

\* With exact products it is less than one token behind.
LEMMA RefillCurrent ==
  ASSUME NEW b \in Bucket, NEW time \in Nat, NEW ticks \in Nat \ {0},
         b.last_update_time <= time,
         time - b.last_update_time < WordSize * ticks,
         ExactProducts
  PROVE  time - Refill(b, time, ticks).last_update_time < ticks
  <1>1. PICK last \in Nat : last = b.last_update_time
    BY DEF Bucket
  <1>2. PICK e \in Nat : e = time - last
    BY <1>1
  <1>3. PICK w \in Nat : w = e \div ticks /\ w * ticks <= e /\ e < w * ticks + ticks
    BY DivBound
  <1>4. w < WordSize
    <2>1. w * ticks < WordSize * ticks
      BY ONLY <1>1, <1>2, <1>3, WordAssumption, ticks \in Nat \ {0},
              time - b.last_update_time < WordSize * ticks
    <2> QED
      BY ONLY <1>3, <2>1, WordAssumption, ticks \in Nat \ {0}, Z3T(30)
  <1>5. Earned(last, time, ticks) = w
    BY <1>1, <1>2, <1>3, <1>4, EarnedExact
  <1>6. CASE w = 0
    <2>1. Refill(b, time, ticks).last_update_time = last
      BY <1>1, <1>5, <1>6 DEF Refill, UpdateTime
    <2> QED
      BY <1>2, <1>3, <1>6, <2>1
  <1>7. CASE w > 0
    BY <1>1, <1>5, <1>7 DEF Refill, UpdateTime
  <1> QED
    BY <1>3, <1>6, <1>7

\* A second refill at the same time does nothing.
LEMMA RefillTwice ==
  ASSUME NEW b \in Bucket, NEW time \in Nat, NEW ticks \in Nat \ {0},
         b.last_update_time <= time
  PROVE  Refill(Refill(b, time, ticks), time, ticks) = Refill(b, time, ticks)
  <1>1. b.last_update_time \in Nat
    BY DEF Bucket
  <1>2. PICK n : n = Earned(b.last_update_time, time, ticks)
    OBVIOUS
  <1>3. n \in Nat
    BY <1>1, <1>2, EarnedBound
  <1>4. PICK r : r = Refill(b, time, ticks)
    OBVIOUS
  <1>5. r \in Bucket /\ r.last_update_time <= time
    BY <1>4, RefillBound
  <1>6. r.last_update_time = IF n > 0 THEN time ELSE b.last_update_time
    BY <1>2, <1>4 DEF Refill, UpdateTime
  <1>7. Earned(r.last_update_time, time, ticks) = 0
    <2>1. CASE n = 0
      <3>1. r.last_update_time = b.last_update_time
        BY <1>6, <2>1
      <3> QED
        BY ONLY <1>2, <2>1, <3>1
    <2>2. CASE n > 0
      <3>1. r.last_update_time = time
        BY <1>6, <2>2
      <3>2. PICK more : more = Earned(time, time, ticks)
        OBVIOUS
      <3>3. more \in Nat /\ more * ticks <= time - time
        BY <3>2, EarnedBound
      <3>4. more > 0 => more * ticks > 0
        BY ONLY <3>3, ticks \in Nat \ {0}, Z3T(30)
      <3>5. more = 0
        BY <3>3, <3>4
      <3> QED
        BY <3>1, <3>2, <3>5
    <2> QED
      BY <1>3, <2>1, <2>2
  <1>8. Refill(r, time, ticks) =
          [tokens |-> Least(r.tokens + 0, Capacity), last_update_time |-> r.last_update_time]
    BY <1>7 DEF Refill, UpdateTime
  <1>9. /\ r.tokens \in Nat /\ r.tokens <= Capacity
        /\ r = [tokens |-> r.tokens, last_update_time |-> r.last_update_time]
    BY <1>5, CapacityAssumption DEF Bucket
  <1>10. Refill(r, time, ticks) = r
    <2>1. Least(r.tokens + 0, Capacity) = r.tokens
      BY <1>9, CapacityAssumption DEF Least
    <2> QED
      BY ONLY <1>8, <1>9, <2>1
  <1> QED
    BY <1>4, <1>10

\* While the tokens for bits are being earned: a refill does not bring the
\* moment forward at which there are enough, and before that moment there are
\* not enough, whatever the rounding and the width of the word.
LEMMA RefillWhileWaiting ==
  ASSUME NEW b \in Bucket, NEW time \in Nat, NEW ticks \in Nat \ {0},
         b.last_update_time <= time,
         NEW bits \in Nat, NEW at \in Nat,
         b.tokens < bits,
         at <= b.last_update_time + (bits - b.tokens) * ticks
  PROVE  LET r == Refill(b, time, ticks)
         IN  /\ at <= r.last_update_time + (bits - r.tokens) * ticks
             /\ time <= at => r.tokens <= bits
             /\ time < at => r.tokens < bits
  <1>1. PICK r : r = Refill(b, time, ticks)
    OBVIOUS
  <1>2. /\ r \in Bucket /\ r.last_update_time <= time
        /\ (r.tokens - b.tokens) * ticks <= r.last_update_time - b.last_update_time
    BY <1>1, RefillBound
  <1>3. PICK x, y, u, v :
          /\ x = b.tokens /\ y = r.tokens
          /\ u = b.last_update_time /\ v = r.last_update_time
    OBVIOUS
  <1>4. /\ x \in Nat /\ y \in Nat /\ u \in Nat /\ v \in Nat
        /\ v <= time /\ x < bits
        /\ (y - x) * ticks <= v - u
        /\ at <= u + (bits - x) * ticks
    BY <1>2, <1>3, CapacityAssumption DEF Bucket
  <1>5. (bits - x) * ticks = (bits - y) * ticks + (y - x) * ticks
    BY ONLY <1>4, bits \in Nat, ticks \in Nat \ {0}, Z3T(30)
  <1>6. PICK p, q, w : p = (bits - x) * ticks /\ q = (bits - y) * ticks /\ w = (y - x) * ticks
    OBVIOUS
  <1>7. p \in Int /\ q \in Int /\ w \in Int
    BY ONLY <1>4, <1>6, bits \in Nat, ticks \in Nat \ {0}
  <1>8. at <= v + q
    BY ONLY <1>4, <1>5, <1>6, <1>7, at \in Nat
  <1>9. ASSUME y > bits PROVE q < 0
    BY ONLY <1>4, <1>6, <1>9, bits \in Nat, ticks \in Nat \ {0}, Z3T(30)
  <1>10. ASSUME y = bits PROVE q = 0
    BY ONLY <1>4, <1>6, <1>10, bits \in Nat, ticks \in Nat \ {0}, Z3T(30)
  <1>11. time <= at => y <= bits
    BY <1>4, <1>7, <1>8, <1>9
  <1>12. time < at => y < bits
    BY <1>4, <1>7, <1>8, <1>9, <1>10
  <1> QED
    BY <1>1, <1>3, <1>6, <1>8, <1>11, <1>12
-----------------------------------------------------------------------------
(* An array of queues with indices I, of which each of the ports N owns as *)
(* many as there are levels.                                               *)

Indexed(I, N) ==
  N \subseteq Nat /\ \A port \in N, level \in Levels : MeterIndex(port, level) \in I

\* Ports and levels are small numbers, and no two ports share a queue.
LEMMA IndexedFacts ==
  ASSUME NEW I, NEW N, Indexed(I, N)
  PROVE  /\ N \subseteq Nat
         /\ Levels = {0, 1, 2}
         /\ \A port \in N, level \in Levels : MeterIndex(port, level) \in I
         /\ \A p1, p2 \in N : \A l1, l2 \in Levels :
              MeterIndex(p1, l1) = MeterIndex(p2, l2) => p1 = p2 /\ l1 = l2
  <1>1. /\ N \subseteq Nat /\ Levels = {0, 1, 2}
        /\ \A port \in N, level \in Levels : MeterIndex(port, level) \in I
    BY DEF Indexed, Levels, NUM_QOS_LEVEL
  <1>2. \A p1, p2 \in N : \A l1, l2 \in Levels :
          MeterIndex(p1, l1) = MeterIndex(p2, l2) => p1 = p2 /\ l1 = l2
    BY <1>1 DEF MeterIndex, NUM_QOS_LEVEL
  <1> QED
    BY <1>1, <1>2

\* The scheduler finds a queue with a packet in it if there is one.
LEMMA FirstLevel ==
  ASSUME NEW qs, NEW port, Backlogged(qs, port)
  PROVE  /\ NextLevel(qs, port) \in Levels
         /\ qs[MeterIndex(port, NextLevel(qs, port))] # <<>>
         /\ \A higher \in Levels :
              qs[MeterIndex(port, higher)] # <<>> => NextLevel(qs, port) <= higher
  <1> DEFINE Busy(level) == qs[MeterIndex(port, level)] # <<>>
             First(level) == Busy(level) /\ \A higher \in Levels : Busy(higher) => level <= higher
  <1>1. \E level \in Levels : Busy(level)
    BY DEF Backlogged
  <1>2. \E level \in Levels : First(level)
    <2> HIDE DEF Busy
    <2>1. CASE Busy(0)
      BY <2>1 DEF Levels, NUM_QOS_LEVEL
    <2>2. CASE ~ Busy(0) /\ Busy(1)
      BY <2>2 DEF Levels, NUM_QOS_LEVEL
    <2>3. CASE ~ Busy(0) /\ ~ Busy(1) /\ Busy(2)
      BY <2>3 DEF Levels, NUM_QOS_LEVEL
    <2>4. QED
      BY <1>1, <2>1, <2>2, <2>3 DEF Levels, NUM_QOS_LEVEL
  <1>3. NextLevel(qs, port) = CHOOSE level \in Levels : First(level)
    BY DEF NextLevel
  <1> HIDE DEF First
  <1>4. NextLevel(qs, port) \in Levels /\ First(NextLevel(qs, port))
    BY <1>2, <1>3
  <1>5. QED
    BY <1>4 DEF First

\* What serving a port does to the queues of the switch.
LEMMA ServeChanges ==
  ASSUME NEW I, NEW P, NEW N, Indexed(I, N),
         NEW qs \in [I -> Seq(P)], NEW port \in N, Backlogged(qs, port)
  PROVE  LET i == MeterIndex(port, NextLevel(qs, port))
         IN  /\ i \in I
             /\ Serve(qs, port) \in [I -> Seq(P)]
             /\ Serve(qs, port)[i] = Tail(qs[i])
             /\ \A j \in I : j # i => Serve(qs, port)[j] = qs[j]
             /\ \A other \in N : other # port =>
                  (Backlogged(Serve(qs, port), other) <=> Backlogged(qs, other))
  <1> DEFINE i == MeterIndex(port, NextLevel(qs, port))
  <1>1. i \in I /\ qs[i] # <<>>
    BY FirstLevel, IndexedFacts
  <1>2. NextLevel(qs, port) \in Levels
    BY FirstLevel
  <1>3. Tail(qs[i]) \in Seq(P)
    BY <1>1
  <1>4. /\ Serve(qs, port) \in [I -> Seq(P)]
        /\ Serve(qs, port)[i] = Tail(qs[i])
        /\ \A j \in I : j # i => Serve(qs, port)[j] = qs[j]
    BY <1>1, <1>3 DEF Serve
  <1>5. ASSUME NEW other \in N, other # port
        PROVE  Backlogged(Serve(qs, port), other) <=> Backlogged(qs, other)
    <2>1. \A level \in Levels : MeterIndex(other, level) \in I /\ MeterIndex(other, level) # i
      BY <1>2, <1>5, IndexedFacts
    <2> HIDE DEF i
    <2>2. QED
      BY <1>4, <2>1 DEF Backlogged
  <1>6. QED
    BY <1>1, <1>4, <1>5

\* What queueing a packet does to the backlogs, and that a packet that is
\* queued and one that is then served leave the backlog of a port as it was.
LEMMA EnqueueChanges ==
  ASSUME NEW I, NEW P, NEW N, Indexed(I, N),
         NEW qs \in [I -> Seq(P)], NEW port \in N, NEW level \in Levels,
         NEW p \in P, NEW qs2 \in [I -> Seq(P)],
         qs2[MeterIndex(port, level)] = Append(qs[MeterIndex(port, level)], p),
         \A j \in I : j # MeterIndex(port, level) => qs2[j] = qs[j]
  PROVE  /\ Backlogged(qs2, port)
         /\ Backlogged(Serve(qs2, port), port) <=> Backlogged(qs, port)
         /\ \A other \in N : other # port =>
              /\ Backlogged(qs2, other) <=> Backlogged(qs, other)
              /\ Backlogged(Serve(qs2, port), other) <=> Backlogged(qs, other)
  <1> DEFINE k == MeterIndex(port, level)
             n == NextLevel(qs2, port)
             i == MeterIndex(port, n)
             qs3 == Serve(qs2, port)
  <1>1. k \in I
    BY IndexedFacts
  <1>2. /\ Append(qs[k], p) \in Seq(P)
        /\ Append(qs[k], p) # <<>>
        /\ Len(Append(qs[k], p)) = Len(qs[k]) + 1
        /\ qs[k] = <<>> => Tail(Append(qs[k], p)) = <<>>
        /\ qs[k] # <<>> => Tail(Append(qs[k], p)) # <<>>
    <2>1. qs[k] \in Seq(P)
      BY <1>1
    <2> HIDE DEF k
    <2>2. Append(qs[k], p) \in Seq(P) /\ Len(Append(qs[k], p)) = Len(qs[k]) + 1
      BY <2>1
    <2>3. Append(qs[k], p) # <<>>
      BY <2>1, <2>2
    <2>4. qs[k] = <<>> => Tail(Append(qs[k], p)) = <<>>
      BY <2>2
    <2>5. qs[k] # <<>> => Tail(Append(qs[k], p)) # <<>>
      <3>1. qs[k] # <<>> => Len(qs[k]) > 0
        BY <2>1
      <3>2. Len(Tail(Append(qs[k], p))) = Len(qs[k])
        BY <2>1, <2>2, <2>3
      <3>3. ASSUME qs[k] # <<>>, Tail(Append(qs[k], p)) = <<>> PROVE FALSE
        <4>1. PICK rest : rest = Tail(Append(qs[k], p))
          OBVIOUS
        <4>2. rest = <<>>
          BY ONLY <3>3, <4>1
        <4>3. Len(rest) = 0
          BY ONLY <4>2
        <4>4. Len(rest) = Len(qs[k])
          BY ONLY <3>2, <4>1
        <4> QED
          BY <3>1, <3>3, <4>3, <4>4
      <3>4. QED
        BY <3>3
    <2>6. QED
      BY <2>2, <2>3, <2>4, <2>5
  <1>3. /\ qs2 \in [I -> Seq(P)]
        /\ qs2[k] = Append(qs[k], p)
        /\ \A j \in I : j # k => qs2[j] = qs[j]
    OBVIOUS
  <1>4. Backlogged(qs2, port)
    BY <1>2, <1>3 DEF Backlogged
  <1>5. /\ i \in I /\ n \in Levels
        /\ qs2[i] # <<>>
        /\ qs3[i] = Tail(qs2[i])
        /\ \A j \in I : j # i => qs3[j] = qs2[j]
        /\ \A other \in N : other # port =>
             (Backlogged(qs3, other) <=> Backlogged(qs2, other))
    BY <1>3, <1>4, ServeChanges, FirstLevel
  <1>6. ASSUME NEW other \in N, other # port
        PROVE  Backlogged(qs2, other) <=> Backlogged(qs, other)
    <2>1. ASSUME NEW l \in Levels
          PROVE  MeterIndex(other, l) \in I /\ MeterIndex(other, l) # k
      <3>1. other \in N /\ port \in N /\ l \in Levels /\ level \in Levels /\ other # port
        BY <1>6, <2>1
      <3>2. MeterIndex(other, l) \in I
        BY <3>1, IndexedFacts
      <3>3. ASSUME MeterIndex(other, l) = MeterIndex(port, level)
            PROVE  FALSE
        <4>1. other = port
          BY <3>1, <3>3, IndexedFacts
        <4> QED
          BY ONLY <3>1, <4>1
      <3>4. QED
        BY <3>2, <3>3
    <2> HIDE DEF k
    <2>2. QED
      BY <1>3, <2>1 DEF Backlogged
  <1> HIDE DEF qs3, n
  <1>7. ASSUME Backlogged(qs, port) PROVE Backlogged(qs3, port)
    <2>1. PICK l \in Levels : qs[MeterIndex(port, l)] # <<>>
      BY <1>7 DEF Backlogged
    <2>2. MeterIndex(port, l) \in I
      BY IndexedFacts
    <2>3. qs2[MeterIndex(port, l)] # <<>>
      BY <1>2, <1>3, <2>1, <2>2
    <2>4. CASE MeterIndex(port, l) # i
      BY <1>5, <2>2, <2>3, <2>4 DEF Backlogged
    <2>5. CASE MeterIndex(port, l) = i /\ k # i
      BY <1>1, <1>2, <1>3, <1>5, <2>5 DEF Backlogged
    <2>6. CASE MeterIndex(port, l) = i /\ k = i
      BY <1>2, <1>3, <1>5, <2>1, <2>6 DEF Backlogged
    <2>7. QED
      BY <2>4, <2>5, <2>6
  <1>8. ASSUME ~ Backlogged(qs, port) PROVE ~ Backlogged(qs3, port)
    <2>1. \A l \in Levels : qs[MeterIndex(port, l)] = <<>> /\ MeterIndex(port, l) \in I
      BY <1>8, IndexedFacts DEF Backlogged
    <2>2. i = k
      BY <1>3, <1>5, <2>1
    <2>3. qs3[k] = <<>>
      BY <1>2, <1>3, <1>5, <2>1, <2>2
    <2>4. \A l \in Levels : qs3[MeterIndex(port, l)] = <<>>
      BY <1>3, <1>5, <2>1, <2>2, <2>3
    <2>5. QED
      BY <2>4 DEF Backlogged
  <1>9. QED
    BY <1>3, <1>4, <1>5, <1>6, <1>7, <1>8 DEF qs3

\* What a packet appended to a sequence adds to it.
LEMMA AppendFacts ==
  ASSUME NEW S, NEW seq \in Seq(S), NEW e \in S
  PROVE  /\ Append(seq, e) \in Seq(S)
         /\ DOMAIN Append(seq, e) = DOMAIN seq \cup {Len(seq) + 1}
         /\ Append(seq, e)[Len(seq) + 1] = e
         /\ \A i \in DOMAIN seq : /\ i \in Nat /\ i <= Len(seq)
                                  /\ Append(seq, e)[i] = seq[i] /\ seq[i] \in S
         /\ Len(seq) \in Nat
  <1>1. DOMAIN seq = 1 .. Len(seq) /\ Len(seq) \in Nat
    OBVIOUS
  <1>2. /\ Append(seq, e) \in Seq(S)
        /\ Len(Append(seq, e)) = Len(seq) + 1
        /\ \A i \in 1 .. Len(seq) : Append(seq, e)[i] = seq[i]
        /\ Append(seq, e)[Len(seq) + 1] = e
    BY AppendProperties
  <1>3. DOMAIN Append(seq, e) = 1 .. Len(seq) + 1
    BY <1>2
  <1>4. \A i \in DOMAIN seq : seq[i] \in S
    BY <1>1, ElementOfSeq
  <1> QED
    BY <1>1, <1>2, <1>3, <1>4

\* The packet that is sent next is the first of its queue.
LEMMA HeadOfLine ==
  ASSUME NEW I, NEW P, NEW N, Indexed(I, N),
         NEW qs \in [I -> Seq(P)], NEW port \in N, Backlogged(qs, port)
  PROVE  LET i == MeterIndex(port, NextLevel(qs, port))
         IN  /\ i \in I /\ qs[i] # <<>>
             /\ NextPacket(qs, port) = qs[i][1]
             /\ NextPacket(qs, port) \in P
  <1> DEFINE i == MeterIndex(port, NextLevel(qs, port))
  <1>1. i \in I /\ qs[i] # <<>>
    BY FirstLevel, IndexedFacts
  <1>2. PICK queue : queue = qs[i]
    OBVIOUS
  <1>3. queue \in Seq(P) /\ queue # <<>>
    BY <1>1, <1>2
  <1>4. Head(queue) = queue[1] /\ Head(queue) \in P
    BY <1>3
  <1> QED
    BY <1>1, <1>2, <1>4 DEF NextPacket

\* The ids of the packets in the queues.
WaitingAt(qs, I) == UNION {{qs[i][k].pid : k \in DOMAIN qs[i]} : i \in I}

\* No id is in two places of the queues.
DistinctAt(qs, I) ==
  \A i, j \in I : \A k \in DOMAIN qs[i], l \in DOMAIN qs[j] :
    qs[i][k].pid = qs[j][l].pid => i = j /\ k = l

\* What waits is at some place of some queue.
LEMMA WaitingAtFacts ==
  ASSUME NEW qs, NEW I, NEW x
  PROVE  x \in WaitingAt(qs, I) <=> \E i \in I : \E k \in DOMAIN qs[i] : x = qs[i][k].pid
  BY DEF WaitingAt

\* The queues qs2 are the queues qs with p behind the queue c.
Joined(qs, qs2, I, P, c, p) ==
  /\ qs \in [I -> Seq(P)] /\ c \in I /\ p \in P
  /\ qs2[c] = Append(qs[c], p)
  /\ \A j \in I : j # c => qs2[j] = qs[j]

\* A packet that is queued is one more that waits.
LEMMA EnqueueAdds ==
  ASSUME NEW I, NEW P, NEW qs, NEW qs2, NEW c, NEW p, Joined(qs, qs2, I, P, c, p)
  PROVE  /\ WaitingAt(qs2, I) = WaitingAt(qs, I) \cup {p.pid}
         /\ DistinctAt(qs, I) /\ p.pid \notin WaitingAt(qs, I) => DistinctAt(qs2, I)
  <1> USE DEF Joined
  <1>1. PICK queue, n :
          queue = qs[c] /\ queue \in Seq(P) /\ n = Len(queue) + 1
    OBVIOUS
  <1>2. /\ DOMAIN qs2[c] = DOMAIN qs[c] \cup {n}
        /\ qs2[c][n] = p
        /\ \A k \in DOMAIN qs[c] : qs2[c][k] = qs[c][k]
        /\ n \notin DOMAIN qs[c]
    <2>1. /\ DOMAIN Append(queue, p) = DOMAIN queue \cup {n}
          /\ Append(queue, p)[n] = p
          /\ \A k \in DOMAIN queue : k <= Len(queue) /\ Append(queue, p)[k] = queue[k]
          /\ Len(queue) \in Nat
      BY <1>1, AppendFacts
    <2>2. n \notin DOMAIN queue
      BY <1>1, <2>1
    <2> QED
      BY <1>1, <2>1, <2>2
  <1>3. ASSUME NEW x PROVE x \in WaitingAt(qs2, I) <=> x \in WaitingAt(qs, I) \/ x = p.pid
    <2>1. ASSUME x \in WaitingAt(qs2, I) PROVE x \in WaitingAt(qs, I) \/ x = p.pid
      <3>1. PICK i \in I : \E k \in DOMAIN qs2[i] : x = qs2[i][k].pid
        BY ONLY <2>1, WaitingAtFacts
      <3>2. PICK k \in DOMAIN qs2[i] : x = qs2[i][k].pid
        BY <3>1
      <3>3. CASE i = c
        <4>1. k = n \/ k \in DOMAIN qs[c]
          BY <1>2, <3>2, <3>3
        <4>2. k \in DOMAIN qs[c] => x \in WaitingAt(qs, I)
          BY <1>2, <3>2, <3>3, WaitingAtFacts
        <4> QED
          BY <1>2, <3>2, <3>3, <4>1, <4>2
      <3>4. CASE i # c
        <4>1. qs2[i] = qs[i]
          BY <3>4
        <4> QED
          BY <3>2, <4>1, WaitingAtFacts
      <3> QED
        BY <3>3, <3>4
    <2>2. ASSUME x \in WaitingAt(qs, I) PROVE x \in WaitingAt(qs2, I)
      <3>1. PICK i \in I : \E k \in DOMAIN qs[i] : x = qs[i][k].pid
        BY <2>2, WaitingAtFacts
      <3>2. \E k \in DOMAIN qs2[i] : x = qs2[i][k].pid
        BY <1>2, <3>1
      <3> QED
        BY <3>2, WaitingAtFacts
    <2>3. p.pid \in WaitingAt(qs2, I)
      BY <1>2, WaitingAtFacts
    <2> QED
      BY <2>1, <2>2, <2>3
  <1>4. ASSUME DistinctAt(qs, I), p.pid \notin WaitingAt(qs, I),
               NEW i \in I, NEW j \in I,
               NEW k \in DOMAIN qs2[i], NEW l \in DOMAIN qs2[j],
               qs2[i][k].pid = qs2[j][l].pid
        PROVE  i = j /\ k = l
    <2> DEFINE Old(a, b) == b \in DOMAIN qs[a] /\ qs2[a][b] = qs[a][b]
               New(a, b) == a = c /\ b = n /\ qs2[a][b] = p
    <2>1. Old(i, k) \/ New(i, k)
      BY <1>2
    <2>2. Old(j, l) \/ New(j, l)
      BY <1>2
    <2>3. \A a \in I : \A b : Old(a, b) => qs2[a][b].pid # p.pid
      BY <1>4, WaitingAtFacts
    <2>4. CASE Old(i, k) /\ Old(j, l)
      BY <1>4, <2>4 DEF DistinctAt
    <2> HIDE DEF Old
    <2> QED
      BY <1>4, <2>1, <2>2, <2>3, <2>4
  <1> QED
    BY <1>3, <1>4 DEF DistinctAt

\* A packet that is served does not wait any more.
LEMMA ServeTakes ==
  ASSUME NEW I, NEW P, NEW N, Indexed(I, N),
         NEW qs \in [I -> Seq(P)], DistinctAt(qs, I),
         NEW port \in N, Backlogged(qs, port)
  PROVE  /\ NextPacket(qs, port).pid \in WaitingAt(qs, I)
         /\ WaitingAt(Serve(qs, port), I) = WaitingAt(qs, I) \ {NextPacket(qs, port).pid}
         /\ DistinctAt(Serve(qs, port), I)
  <1>1. PICK c, p, qs2 :
          /\ c = MeterIndex(port, NextLevel(qs, port))
          /\ p = NextPacket(qs, port)
          /\ qs2 = Serve(qs, port)
    OBVIOUS
  <1>2. /\ c \in I /\ qs[c] # <<>> /\ p = qs[c][1]
        /\ qs2[c] = Tail(qs[c])
        /\ \A j \in I : j # c => qs2[j] = qs[j]
    BY <1>1, HeadOfLine, ServeChanges
  <1>3. PICK queue \in Seq(P) : queue = qs[c]
    BY <1>2
  <1>4. /\ 1 \in DOMAIN queue
        /\ \A k \in DOMAIN Tail(queue) : /\ k \in Nat \ {0}
                                         /\ k + 1 \in DOMAIN queue
                                         /\ Tail(queue)[k] = queue[k + 1]
        /\ \A k \in DOMAIN queue : k \in Nat /\ (k # 1 => k - 1 \in DOMAIN Tail(queue))
    BY <1>2, <1>3
  <1>5. /\ 1 \in DOMAIN qs[c]
        /\ \A k \in DOMAIN qs2[c] : /\ k \in Nat \ {0}
                                    /\ k + 1 \in DOMAIN qs[c]
                                    /\ qs2[c][k] = qs[c][k + 1]
        /\ \A k \in DOMAIN qs[c] : k \in Nat /\ (k # 1 => k - 1 \in DOMAIN qs2[c])
    BY ONLY <1>2, <1>3, <1>4
  <1>6. p.pid \in WaitingAt(qs, I)
    BY <1>2, <1>5, WaitingAtFacts
  <1>7. ASSUME NEW x, x \in WaitingAt(qs2, I) PROVE x \in WaitingAt(qs, I) /\ x # p.pid
    <2>1. PICK i \in I : \E k \in DOMAIN qs2[i] : x = qs2[i][k].pid
      BY <1>7, WaitingAtFacts
    <2>2. PICK k \in DOMAIN qs2[i] : x = qs2[i][k].pid
      BY <2>1
    <2>3. CASE i = c
      <3>1. k + 1 \in DOMAIN qs[c] /\ x = qs[c][k + 1].pid /\ k + 1 # 1
        BY <1>5, <2>2, <2>3
      <3>2. x # p.pid
        <4>1. ASSUME NEW l \in DOMAIN qs[c], qs[c][l].pid = qs[c][1].pid PROVE l = 1
          <5>1. c \in I /\ 1 \in DOMAIN qs[c]
            BY <1>2, <1>5
          <5> QED
            BY ONLY <4>1, <5>1, DistinctAt(qs, I) DEF DistinctAt
        <4> QED
          BY ONLY <1>2, <3>1, <4>1
      <3> QED
        BY <1>2, <3>1, <3>2, WaitingAtFacts
    <2>4. CASE i # c
      <3>1. qs2[i] = qs[i]
        BY <1>2, <2>4
      <3>2. \A l \in DOMAIN qs[i] : qs[i][l].pid # qs[c][1].pid
        BY <1>2, <1>5, <2>4 DEF DistinctAt
      <3> QED
        BY <1>2, <2>2, <3>1, <3>2, WaitingAtFacts
    <2> QED
      BY <2>3, <2>4
  <1>8. ASSUME NEW x, x \in WaitingAt(qs, I), x # p.pid PROVE x \in WaitingAt(qs2, I)
    <2>1. PICK i \in I : \E k \in DOMAIN qs[i] : x = qs[i][k].pid
      BY <1>8, WaitingAtFacts
    <2>2. PICK k \in DOMAIN qs[i] : x = qs[i][k].pid
      BY <2>1
    <2>3. CASE i = c
      <3>1. k # 1
        BY <1>2, <1>8, <2>2, <2>3
      <3>2. k \in Nat /\ k - 1 \in DOMAIN qs2[c]
        BY <1>5, <2>3, <3>1
      <3>3. qs2[c][k - 1] = qs[c][(k - 1) + 1] /\ (k - 1) + 1 = k
        BY <1>5, <3>2
      <3>4. x = qs2[c][k - 1].pid
        BY ONLY <2>2, <2>3, <3>3
      <3> QED
        BY <1>2, <3>2, <3>4, WaitingAtFacts
    <2>4. CASE i # c
      <3>1. qs2[i] = qs[i]
        BY <1>2, <2>4
      <3> QED
        BY <2>2, <3>1, WaitingAtFacts
    <2> QED
      BY <2>3, <2>4
  <1>9. ASSUME NEW i \in I, NEW j \in I,
               NEW k \in DOMAIN qs2[i], NEW l \in DOMAIN qs2[j],
               qs2[i][k].pid = qs2[j][l].pid
        PROVE  i = j /\ k = l
    <2> DEFINE Was(a, b) == IF a = c THEN b + 1 ELSE b
    <2>1. /\ Was(i, k) \in DOMAIN qs[i] /\ qs2[i][k] = qs[i][Was(i, k)]
          /\ Was(j, l) \in DOMAIN qs[j] /\ qs2[j][l] = qs[j][Was(j, l)]
      BY <1>2, <1>5
    <2>2. i = j /\ Was(i, k) = Was(j, l)
      <3>1. PICK a, b : a = Was(i, k) /\ b = Was(j, l)
        OBVIOUS
      <3> HIDE DEF Was
      <3>2. qs[i][a].pid = qs[j][b].pid /\ a \in DOMAIN qs[i] /\ b \in DOMAIN qs[j]
        BY ONLY <1>9, <2>1, <3>1
      <3>3. i = j /\ a = b
        BY <3>2 DEF DistinctAt
      <3> QED
        BY <3>1, <3>3
    <2>3. CASE i = c
      <3>1. k \in Nat /\ l \in Nat
        BY <1>5, <2>2, <2>3
      <3> QED
        BY <2>2, <2>3, <3>1
    <2>4. CASE i # c
      BY <2>2, <2>4
    <2> QED
      BY <2>3, <2>4
  <1>10. WaitingAt(qs2, I) = WaitingAt(qs, I) \ {p.pid}
    BY <1>7, <1>8
  <1>11. DistinctAt(qs2, I)
    BY <1>9 DEF DistinctAt
  <1> QED
    BY <1>1, <1>6, <1>10, <1>11
-----------------------------------------------------------------------------
\* A set of numbers has a least one.
LEMMA HasLeast ==
  ASSUME NEW T \in SUBSET Nat, T # {}
  PROVE  \E x \in T : \A y \in T : x <= y
  <1>1. PICK R : R = OpToRel(<, Nat)
    OBVIOUS
  <1>2. IsWellFoundedOn(R, Nat)
    BY <1>1, NatLessThanWellFounded
  <1>3. PICK x \in T : \A y \in T : ~ (<<y, x>> \in R)
    BY <1>2, WFMin
  <1>4. \A y \in Nat, z \in Nat : y < z => <<y, z>> \in R
    BY <1>1 DEF OpToRel
  <1>5. ASSUME NEW y \in T PROVE x <= y
    <2>1. x \in Nat /\ y \in Nat
      OBVIOUS
    <2>2. ~ (y < x)
      BY <1>3, <1>4, <2>1
    <2> QED
      BY <2>1, <2>2
  <1>6. x \in T
    OBVIOUS
  <1> QED
    BY <1>5, <1>6, Zenon
-----------------------------------------------------------------------------
(***************************************************************************)
(* The parser.  What it makes of a file is a fold over the lines, and then *)
(* one over the routes: recursive functions on the sets of indices.  Both  *)
(* folds do one step after the other; here they are one operator, so that  *)
(* this is said once.                                                      *)
(***************************************************************************)
OfLines         == [of |-> "lines"]
OfRoutes(ports) == [of |-> "routes", ports |-> ports]

Step(fold, v, x) ==
  IF fold.of = "lines" THEN ReadLine(v, x)
  ELSE [v EXCEPT ![x.dest] = [x EXCEPT !.port_id = getPortIDByName(fold.ports, x.portName)]]

\* What a fold does with the set t of indices, if f says what it does with less.
FoldOf(f, fold, base, seq, t) ==
  IF t = {} THEN base ELSE LET x == Max(t) IN Step(fold, f[t \ {x}], seq[x])

Folding(f, fold, base, seq) == f = [t \in SUBSET DOMAIN seq |-> FoldOf(f, fold, base, seq, t)]

\* What holds of 0, and of a number with the one before, holds of all up to n.
LEMMA Inductive ==
  ASSUME NEW n \in Nat, NEW X, 0 \in X, \A k \in 0 .. n - 1 : k \in X => k + 1 \in X
  PROVE  \A k \in 0 .. n : k \in X
  <1> DEFINE T == {k \in 0 .. n : k \notin X}
  <1>1. SUFFICES ASSUME T # {} PROVE FALSE
    OBVIOUS
  <1>2. T \in SUBSET Nat
    OBVIOUS
  <1>3. PICK k \in T : \A l \in T : k <= l
    <2> HIDE DEF T
    <2> QED
      BY <1>1, <1>2, HasLeast
  <1>4. k \in 0 .. n /\ k \notin X /\ k # 0
    OBVIOUS
  <1>5. k - 1 \in 0 .. n - 1 /\ k - 1 \in 0 .. n
    BY <1>4
  <1>6. k - 1 \notin T
    <2> HIDE DEF T
    <2> QED
      BY <1>3, <1>4
  <1>7. k - 1 \in X
    BY <1>5, <1>6
  <1>8. (k - 1) + 1 \in X
    BY <1>5, <1>7
  <1> QED
    BY <1>4, <1>8

\* The greatest of a set of indices is one of them.
LEMMA HasMost ==
  ASSUME NEW n \in Nat, NEW T \in SUBSET (1 .. n), T # {}
  PROVE  Max(T) \in T /\ \A y \in T : y <= Max(T)
  <1> DEFINE U == {n - x : x \in T}
  <1>1. U \in SUBSET Nat /\ U # {}
    OBVIOUS
  <1>2. PICK u \in U : \A y \in U : u <= y
    <2> HIDE DEF U
    <2> QED
      BY <1>1, HasLeast
  <1>3. PICK x \in T : u = n - x
    OBVIOUS
  <1>4. ASSUME NEW y \in T PROVE x >= y
    <2>1. u <= n - y
      BY <1>2
    <2>2. x \in 1 .. n /\ y \in 1 .. n
      OBVIOUS
    <2>3. x \in Int /\ y \in Int
      BY <2>2
    <2> QED
      BY <1>3, <2>1, <2>3
  <1>5. PICK m : m = CHOOSE z \in T : \A y \in T : z >= y
    OBVIOUS
  <1>6. m \in T /\ \A y \in T : m >= y
    BY <1>4, <1>5
  <1>7. m = Max(T)
    BY <1>5 DEF Max
  <1> QED
    BY <1>6, <1>7

\* There is a function that folds.
LEMMA FoldExists ==
  ASSUME NEW fold, NEW base, NEW n \in Nat, NEW seq, DOMAIN seq = 1 .. n
  PROVE  \E f : Folding(f, fold, base, seq)
  <1> DEFINE Small(k) == {t \in SUBSET (1 .. n) : Cardinality(t) <= k}
             X == {k \in Nat : \E h : \A t \in Small(k) : h[t] = FoldOf(h, fold, base, seq, t)}
  <1>1. ASSUME NEW t \in SUBSET (1 .. n)
        PROVE  IsFiniteSet(t) /\ Cardinality(t) \in Nat /\ Cardinality(t) <= n
    <2>1. IsFiniteSet(1 .. n) /\ Cardinality(1 .. n) = n
      BY FS_Interval
    <2>2. IsFiniteSet(t) /\ Cardinality(t) <= Cardinality(1 .. n)
      BY <2>1, FS_Subset
    <2> QED
      BY <2>1, <2>2, FS_CardinalityType
  <1>2. ASSUME NEW t \in SUBSET (1 .. n), t # {}
        PROVE  t \ {Max(t)} \in SUBSET (1 .. n) /\ Cardinality(t \ {Max(t)}) = Cardinality(t) - 1
    <2>1. Max(t) \in t
      BY <1>2, HasMost
    <2> QED
      BY <1>1, <2>1, FS_RemoveElement
  <1>3. 0 \in X
    <2>1. ASSUME NEW t \in Small(0) PROVE t = {}
      <3>1. Cardinality(t) = 0
        BY <1>1
      <3> QED
        BY <1>1, <3>1, FS_EmptySet
    <2>2. PICK h : h = [t \in {{}} |-> base]
      OBVIOUS
    <2>3. \A t \in Small(0) : h[t] = FoldOf(h, fold, base, seq, t)
      <3> HIDE DEF Small
      <3> QED
        BY <2>1, <2>2 DEF FoldOf
    <2> HIDE DEF Small
    <2> QED
      BY <2>3
  <1>4. ASSUME NEW k \in 0 .. n - 1, k \in X PROVE k + 1 \in X
    <2>1. PICK h : \A t \in Small(k) : h[t] = FoldOf(h, fold, base, seq, t)
      BY <1>4
    <2>2. PICK h2 : h2 = [t \in Small(k + 1) |-> FoldOf(h, fold, base, seq, t)]
      OBVIOUS
    <2>3. Small(k) \subseteq Small(k + 1)
      BY <1>1
    <2>4. \A t \in Small(k) : h2[t] = h[t]
      <3> HIDE DEF Small
      <3> QED
        BY <2>1, <2>2, <2>3
    <2>5. ASSUME NEW t \in Small(k + 1) PROVE h2[t] = FoldOf(h2, fold, base, seq, t)
      <3>1. CASE t = {}
        BY <2>2, <3>1 DEF FoldOf
      <3>2. CASE t # {}
        <4>1. t \ {Max(t)} \in Small(k)
          BY <1>1, <1>2, <3>2
        <4>2. h2[t \ {Max(t)}] = h[t \ {Max(t)}]
          BY <2>4, <4>1
        <4>3. h2[t] = FoldOf(h, fold, base, seq, t)
          BY <2>2
        <4> QED
          BY <3>2, <4>2, <4>3 DEF FoldOf
      <3> QED
        BY <3>1, <3>2
    <2> HIDE DEF Small
    <2> QED
      BY <2>5
  <1>5. n \in X
    <2>1. \A k \in 0 .. n - 1 : k \in X => k + 1 \in X
      BY <1>4
    <2>2. n \in 0 .. n
      OBVIOUS
    <2> HIDE DEF X
    <2> QED
      BY <1>3, <2>1, <2>2, Inductive
  <1>6. PICK h : \A t \in Small(n) : h[t] = FoldOf(h, fold, base, seq, t)
    BY <1>5
  <1>7. Small(n) = SUBSET DOMAIN seq
    BY <1>1
  <1>8. PICK f : f = [t \in SUBSET DOMAIN seq |-> h[t]]
    OBVIOUS
  <1>9. ASSUME NEW t \in SUBSET DOMAIN seq PROVE f[t] = FoldOf(f, fold, base, seq, t)
    <2>1. h[t] = FoldOf(h, fold, base, seq, t)
      BY <1>6, <1>7
    <2>2. f[t] = h[t] /\ f[t \ {Max(t)}] = h[t \ {Max(t)}]
      BY <1>8
    <2> QED
      BY <2>1, <2>2 DEF FoldOf
  <1>10. f = [t \in SUBSET DOMAIN seq |-> FoldOf(f, fold, base, seq, t)]
    BY <1>8, <1>9
  <1> QED
    BY <1>10 DEF Folding

\* What it does, one index after the other.
LEMMA FoldSteps ==
  ASSUME NEW fold, NEW base, NEW n \in Nat, NEW seq, DOMAIN seq = 1 .. n,
         NEW f, Folding(f, fold, base, seq)
  PROVE  /\ f[1 .. 0] = base
         /\ \A k \in 1 .. n : f[1 .. k] = Step(fold, f[1 .. k - 1], seq[k])
  <1>1. \A t \in SUBSET (1 .. n) : f[t] = FoldOf(f, fold, base, seq, t)
    BY DEF Folding
  <1>2. f[1 .. 0] = base
    <2>1. 1 .. 0 = {} /\ 1 .. 0 \in SUBSET (1 .. n)
      OBVIOUS
    <2> QED
      BY <1>1, <2>1 DEF FoldOf
  <1>3. ASSUME NEW k \in 1 .. n PROVE f[1 .. k] = Step(fold, f[1 .. k - 1], seq[k])
    <2>1. PICK t : t = 1 .. k
      OBVIOUS
    <2>2. t \in SUBSET (1 .. n) /\ t # {} /\ k \in t /\ \A y \in t : y <= k
      BY <2>1
    <2>3. Max(t) = k
      <3>1. Max(t) \in t /\ k <= Max(t)
        BY <2>2, HasMost
      <3>2. PICK m \in t : m = Max(t)
        BY <3>1
      <3>3. m \in Int /\ k \in Int /\ m <= k
        BY <2>1, <2>2
      <3> QED
        BY <3>1, <3>2, <3>3
    <2>4. t \ {k} = 1 .. k - 1
      BY <2>1
    <2>5. f[t] = FoldOf(f, fold, base, seq, t)
      BY <1>1, <2>2
    <2> QED
      BY <2>1, <2>2, <2>3, <2>4, <2>5 DEF FoldOf
  <1> QED
    BY <1>2, <1>3
-----------------------------------------------------------------------------
\* A sequence of n elements, whatever they are.
IsList(a, n) == n \in Nat /\ a = [i \in 1 .. n |-> a[i]]

\* The length of such a sequence, and what it is a sequence of.
LEMMA ListFacts ==
  ASSUME NEW n, NEW a, IsList(a, n)
  PROVE  Len(a) = n /\ DOMAIN a = 1 .. n /\ \A V : (\A i \in 1 .. n : a[i] \in V) => a \in Seq(V)
  <1>1. n \in Nat /\ a = [i \in 1 .. n |-> a[i]]
    BY DEF IsList
  <1>2. \A V : (\A i \in 1 .. n : a[i] \in V) => a \in Seq(V)
    BY <1>1
  <1>3. a \in Seq({a[i] : i \in 1 .. n})
    BY <1>2
  <1> QED
    BY <1>1, <1>2, <1>3

\* Every sequence is one.
LEMMA SeqIsList ==
  ASSUME NEW V, NEW a \in Seq(V)
  PROVE  IsList(a, Len(a))
  BY DEF IsList

\* Two sequences with the same elements are the same.
LEMMA SameList ==
  ASSUME NEW n, NEW a, NEW b, IsList(a, n), IsList(b, n), \A i \in 1 .. n : a[i] = b[i]
  PROVE  a = b
  BY DEF IsList

\* Two sequences, one after the other, are as long as both.
LEMMA ListsJoin ==
  ASSUME NEW m, NEW n, NEW a, NEW b, IsList(a, m), IsList(b, n)
  PROVE  IsList(a \o b, m + n)
  <1>1. PICK V : V = {a[i] : i \in 1 .. m} \cup {b[i] : i \in 1 .. n}
    OBVIOUS
  <1>2. a \in Seq(V) /\ b \in Seq(V) /\ Len(a) = m /\ Len(b) = n
    BY <1>1, ListFacts
  <1>3. a \o b \in Seq(V) /\ Len(a \o b) = m + n
    BY <1>2, ConcatProperties
  <1> QED
    BY <1>3, SeqIsList

\* The elements of two sequences, one after the other.
IsJoin(c, a, b) == c = a \o b

LEMMA JoinedFront ==
  ASSUME NEW m, NEW n, NEW a, NEW b, NEW c, IsList(a, m), IsList(b, n), IsJoin(c, a, b)
  PROVE  \A i \in 1 .. m : c[i] = a[i]
  <1>1. m \in Nat /\ n \in Nat
    BY DEF IsList
  <1>2. PICK V : V = {a[j] : j \in 1 .. m} \cup {b[j] : j \in 1 .. n}
    OBVIOUS
  <1>3. a \in Seq(V) /\ b \in Seq(V) /\ Len(a) = m /\ Len(b) = n
    BY <1>2, ListFacts
  <1>4. \A i \in 1 .. m + n : c[i] = IF i <= m THEN a[i] ELSE b[i - m]
    BY <1>3, ConcatProperties DEF IsJoin
  <1> QED
    BY <1>1, <1>4

LEMMA JoinedBack ==
  ASSUME NEW m, NEW n, NEW a, NEW b, NEW c, IsList(a, m), IsList(b, n), IsJoin(c, a, b)
  PROVE  \A i \in 1 .. n : c[m + i] = b[i]
  <1>1. m \in Nat /\ n \in Nat
    BY DEF IsList
  <1>2. PICK V : V = {a[j] : j \in 1 .. m} \cup {b[j] : j \in 1 .. n}
    OBVIOUS
  <1>3. a \in Seq(V) /\ b \in Seq(V) /\ Len(a) = m /\ Len(b) = n
    BY <1>2, ListFacts
  <1>4. \A i \in 1 .. m + n : c[i] = IF i <= m THEN a[i] ELSE b[i - m]
    BY <1>3, ConcatProperties DEF IsJoin
  <1>5. ASSUME NEW i \in 1 .. n PROVE m + i \in 1 .. m + n /\ ~ (m + i <= m) /\ (m + i) - m = i
    BY <1>1
  <1> QED
    BY <1>4, <1>5

\* A sequence with one more element.
IsGrown(c, a, x) == c = Append(a, x)

LEMMA ListGrows ==
  ASSUME NEW m, NEW a, NEW x, NEW c, IsList(a, m), IsGrown(c, a, x)
  PROVE  /\ IsList(c, m + 1) /\ c[m + 1] = x
         /\ \A i \in 1 .. m : c[i] = a[i]
  <1>1. m \in Nat
    BY DEF IsList
  <1>2. PICK V : V = {a[i] : i \in 1 .. m} \cup {x}
    OBVIOUS
  <1>3. a \in Seq(V) /\ x \in V /\ Len(a) = m
    BY <1>2, ListFacts
  <1>4. c \in Seq(V) /\ Len(c) = m + 1 /\ c[m + 1] = x /\ \A i \in 1 .. m : c[i] = a[i]
    BY <1>3, AppendProperties DEF IsGrown
  <1> QED
    BY <1>4, SeqIsList

LEMMA GrownList ==
  ASSUME NEW m, NEW a, NEW x, NEW c, IsList(a, m), IsGrown(c, a, x)
  PROVE  IsList(c, m + 1)
  BY ListGrows

LEMMA GrownLast ==
  ASSUME NEW m, NEW a, NEW x, NEW c, IsList(a, m), IsGrown(c, a, x)
  PROVE  c[m + 1] = x
  BY ListGrows

LEMMA GrownFront ==
  ASSUME NEW m, NEW a, NEW x, NEW c, IsList(a, m), IsGrown(c, a, x)
  PROVE  \A i \in 1 .. m : c[i] = a[i]
  BY ListGrows

\* Three sequences, one after the other.
LEMMA FlattenThree ==
  ASSUME NEW s, IsList(s, 3)
  PROVE  FlattenSeq(s) = (s[1] \o s[2]) \o s[3]
  <1> DEFINE Is(f) == f = [i \in 1 .. 3 |-> IF i = 1 THEN s[i] ELSE f[i - 1] \o s[i]]
  <1>1. FlattenSeq(s) = (CHOOSE f : Is(f))[3]
    <2>1. Len(s) = 3
      BY ListFacts
    <2> QED
      BY <2>1 DEF FlattenSeq
  <1>2. \E g : Is(g)
    <2>1. PICK ab, abc : ab = s[1] \o s[2] /\ abc = ab \o s[3]
      OBVIOUS
    <2>2. PICK g : g = [i \in 1 .. 3 |-> IF i = 1 THEN s[1] ELSE IF i = 2 THEN ab ELSE abc]
      OBVIOUS
    <2>3. g[1] = s[1] /\ g[2] = ab /\ g[3] = abc
      BY <2>2
    <2>4. ASSUME NEW i \in 1 .. 3 PROVE g[i] = IF i = 1 THEN s[i] ELSE g[i - 1] \o s[i]
      <3>1. i = 1 \/ i = 2 \/ i = 3
        OBVIOUS
      <3>2. 2 - 1 = 1 /\ 3 - 1 = 2 /\ 2 # 1 /\ 3 # 1
        OBVIOUS
      <3> QED
        BY <2>1, <2>3, <3>1, <3>2
    <2> QED
      BY <2>2, <2>4
  <1>3. PICK f : f = CHOOSE h : Is(h)
    OBVIOUS
  <1>4. Is(f)
    <2> HIDE DEF Is
    <2> QED
      BY <1>2, <1>3
  <1>5. f[1] = s[1] /\ f[2] = f[1] \o s[2] /\ f[3] = f[2] \o s[3]
    <2>1. /\ 1 \in 1 .. 3 /\ 2 \in 1 .. 3 /\ 3 \in 1 .. 3
          /\ 2 - 1 = 1 /\ 3 - 1 = 2 /\ 2 # 1 /\ 3 # 1
      OBVIOUS
    <2> QED
      BY <1>4, <2>1
  <1> HIDE DEF Is
  <1> QED
    BY <1>1, <1>3, <1>5

\* Groups of three elements each, one after the other.
IsFlat(c, s) == c = FlattenSeq(s)

LEMMA FlattenGroups ==
  ASSUME NEW m, NEW s, IsList(s, m), \A j \in 1 .. m : IsList(s[j], 3),
         NEW flat, IsFlat(flat, s)
  PROVE  /\ IsList(flat, 3 * m)
         /\ \A j \in 1 .. m : \A c \in 1 .. 3 : flat[3 * (j - 1) + c] = s[j][c]
  <1> DEFINE Is(f) == f = [i \in 1 .. m |-> IF i = 1 THEN s[i] ELSE f[i - 1] \o s[i]]
             G(j)  == [i \in 1 .. 3 * j |-> s[((i - 1) \div 3) + 1][((i - 1) % 3) + 1]]
  <1>0. m \in Nat /\ Len(s) = m
    BY ListFacts DEF IsList
  <1>1. ASSUME NEW j \in Nat
        PROVE  /\ IsList(G(j), 3 * j)
               /\ \A k \in 1 .. j : \A c \in 1 .. 3 : G(j)[3 * (k - 1) + c] = s[k][c]
    <2>1. ASSUME NEW k \in 1 .. j, NEW c \in 1 .. 3 PROVE G(j)[3 * (k - 1) + c] = s[k][c]
      <3>1. PICK i \in Int : i = 3 * (k - 1) + c
        OBVIOUS
      <3>2. i \in 1 .. 3 * j /\ ((i - 1) \div 3) + 1 = k /\ ((i - 1) % 3) + 1 = c
        BY <3>1
      <3> QED
        BY <3>1, <3>2
    <2>2. 3 * j \in Nat
      OBVIOUS
    <2>3. G(j) = [i \in 1 .. 3 * j |-> G(j)[i]]
      OBVIOUS
    <2> HIDE DEF G
    <2> QED
      BY <2>1, <2>2, <2>3 DEF IsList
  <1>2. ASSUME NEW j \in 1 .. m PROVE G(j) = IF j = 1 THEN s[j] ELSE G(j - 1) \o s[j]
    <2>1. IsList(G(j), 3 * j) /\ IsList(s[j], 3) /\ j \in Nat /\ j - 1 \in Nat
      BY <1>1
    <2>2. ASSUME NEW i \in 1 .. 3 * j
          PROVE  \E k \in 1 .. j : \E c \in 1 .. 3 : i = 3 * (k - 1) + c
      <3>1. PICK k \in Int, c \in Int : k = ((i - 1) \div 3) + 1 /\ c = ((i - 1) % 3) + 1
        OBVIOUS
      <3>2. k \in 1 .. j /\ c \in 1 .. 3 /\ i = 3 * (k - 1) + c
        BY <3>1
      <3> QED
        BY <3>2
    <2>3. CASE j = 1
      <3>1. ASSUME NEW i \in 1 .. 3 PROVE G(j)[i] = s[j][i]
        <4>1. 3 * (j - 1) + i = i /\ j \in 1 .. j
          BY <2>3
        <4>2. i \in 1 .. 3
          OBVIOUS
        <4> HIDE DEF G
        <4> QED
          BY <1>1, <2>1, <4>1, <4>2
      <3> HIDE DEF G
      <3> QED
        BY <2>1, <2>3, <3>1, SameList
    <2>4. CASE j # 1
      <3>1. PICK a, b : a = G(j - 1) /\ b = s[j]
        OBVIOUS
      <3>2. /\ IsList(a, 3 * (j - 1)) /\ IsList(b, 3)
            /\ \A k \in 1 .. j - 1 : \A c \in 1 .. 3 : a[3 * (k - 1) + c] = s[k][c]
        BY <1>1, <2>1, <3>1
      <3>3. PICK ab : ab = a \o b
        OBVIOUS
      <3>4. IsJoin(ab, a, b)
        BY <3>3 DEF IsJoin
      <3>5. /\ IsList(ab, 3 * (j - 1) + 3)
            /\ \A i \in 1 .. 3 * (j - 1) : ab[i] = a[i]
            /\ \A i \in 1 .. 3 : ab[3 * (j - 1) + i] = b[i]
        <4>1. PICK l, r : l = 3 * (j - 1) /\ r = 3
          OBVIOUS
        <4>2. IsList(a, l) /\ IsList(b, r)
          BY <3>2, <4>1
        <4>3. IsList(ab, l + r)
          BY <3>3, <4>2, ListsJoin
        <4>4. \A i \in 1 .. l : ab[i] = a[i]
          BY <3>4, <4>2, JoinedFront
        <4>5. \A i \in 1 .. r : ab[l + i] = b[i]
          BY <3>4, <4>2, JoinedBack
        <4> QED
          BY <4>1, <4>3, <4>4, <4>5
      <3>6. 3 * (j - 1) + 3 = 3 * j
        BY <2>1
      <3>7. ASSUME NEW i \in 1 .. 3 * j PROVE G(j)[i] = ab[i]
        <4>1. PICK k \in 1 .. j, c \in 1 .. 3 : i = 3 * (k - 1) + c
          BY <2>2
        <4>2. G(j)[i] = s[k][c]
          BY <1>1, <2>1, <4>1
        <4>3. CASE k = j
          BY <3>1, <3>5, <4>1, <4>2, <4>3
        <4>4. CASE k # j
          <5>1. k \in 1 .. j - 1 /\ i \in 1 .. 3 * (j - 1)
            BY <4>1, <4>4
          <5> QED
            BY <3>2, <3>5, <4>1, <4>2, <5>1
        <4> QED
          BY <4>3, <4>4
      <3> HIDE DEF G
      <3> QED
        BY <2>1, <2>4, <3>1, <3>3, <3>5, <3>6, <3>7, SameList
    <2> QED
      BY <2>3, <2>4
  <1>3. CASE m = 0
    <2>1. FlattenSeq(s) = s
      BY <1>0, <1>3 DEF FlattenSeq
    <2>2. flat = s /\ 3 * m = m /\ 1 .. m = {}
      BY <1>3, <2>1 DEF IsFlat
    <2> QED
      BY <2>2
  <1>4. CASE m # 0
    <2>1. FlattenSeq(s) = (CHOOSE f : Is(f))[m]
      BY <1>0, <1>4 DEF FlattenSeq
    <2>2. \E g : Is(g)
      <3>1. PICK g : g = [j \in 1 .. m |-> G(j)]
        OBVIOUS
      <3>2. ASSUME NEW j \in 1 .. m PROVE g[j] = IF j = 1 THEN s[j] ELSE g[j - 1] \o s[j]
        <4>1. j # 1 => j - 1 \in 1 .. m
          BY <1>0
        <4> HIDE DEF G
        <4>2. g[j] = G(j) /\ (j # 1 => g[j - 1] = G(j - 1))
          BY <3>1, <4>1
        <4> QED
          BY <1>2, <4>2
      <3>3. g = [j \in 1 .. m |-> g[j]]
        BY <3>1
      <3> HIDE DEF G
      <3> QED
        BY <3>2, <3>3
    <2>3. PICK f : f = CHOOSE h : Is(h)
      OBVIOUS
    <2>4. Is(f)
      <3> HIDE DEF Is
      <3> QED
        BY <2>2, <2>3
    <2> DEFINE X == {j \in Nat : j = 0 \/ f[j] = G(j)}
    <2>5. ASSUME NEW j \in 0 .. m - 1, j \in X PROVE j + 1 \in X
      <3>1. PICK k \in 1 .. m : k = j + 1 /\ k - 1 = j /\ k \in Nat /\ (k = 1 <=> j = 0)
        BY <1>0
      <3>2. f[k] = IF k = 1 THEN s[k] ELSE f[k - 1] \o s[k]
        BY <2>4
      <3>3. j = 0 \/ f[j] = G(j)
        BY <2>5
      <3>4. G(k) = IF k = 1 THEN s[k] ELSE G(k - 1) \o s[k]
        BY <1>2
      <3> HIDE DEF G
      <3>5. f[k] = G(k)
        BY <3>1, <3>2, <3>3, <3>4
      <3> QED
        BY <3>1, <3>5
    <2>6. m \in X
      <3>1. \A j \in 0 .. m - 1 : j \in X => j + 1 \in X
        BY <2>5
      <3>2. 0 \in X /\ m \in 0 .. m
        BY <1>0
      <3> HIDE DEF X
      <3> QED
        BY <1>0, <3>1, <3>2, Inductive
    <2>7. f[m] = G(m)
      BY <1>4, <2>6
    <2>8. flat = G(m)
      <3> HIDE DEF Is, G
      <3> QED
        BY <2>1, <2>3, <2>7 DEF IsFlat
    <2>9. /\ IsList(G(m), 3 * m)
          /\ \A k \in 1 .. m : \A c \in 1 .. 3 : G(m)[3 * (k - 1) + c] = s[k][c]
      BY <1>0, <1>1
    <2> HIDE DEF G
    <2> QED
      BY <2>8, <2>9
  <1> QED
    BY <1>3, <1>4

LEMMA FlatList ==
  ASSUME NEW m, NEW s, IsList(s, m), \A j \in 1 .. m : IsList(s[j], 3),
         NEW n, n = 3 * m, NEW c, IsFlat(c, s)
  PROVE  IsList(c, n)
  BY FlattenGroups

LEMMA FlatGroups ==
  ASSUME NEW m, NEW s, IsList(s, m), \A j \in 1 .. m : IsList(s[j], 3), NEW c, IsFlat(c, s)
  PROVE  \A j \in 1 .. m : \A i \in 1 .. 3 : c[3 * (j - 1) + i] = s[j][i]
  <1>1. /\ IsList(c, 3 * m)
        /\ \A j \in 1 .. m : \A i \in 1 .. 3 : c[3 * (j - 1) + i] = s[j][i]
    BY FlattenGroups
  <1> QED
    BY <1>1
-----------------------------------------------------------------------------
(***************************************************************************)
(* What the parser makes of a line.                                        *)
(***************************************************************************)
ParserAt(seg, lg, cg, md, ty, po, ro) ==
  [segment |-> seg, lineInGroup |-> lg, currentGroup |-> cg, maxDestId |-> md,
   type |-> ty, ports |-> po, routes |-> ro]

\* A line that is not indented.
LEMMA ReadsType ==
  ASSUME NEW seg, NEW lg, NEW cg, NEW md, NEW ty, NEW po, NEW ro, NEW value
  PROVE  ReadLine(ParserAt(seg, lg, cg, md, ty, po, ro), Top("type", value))
           = ParserAt("type", lg, cg, md, value, po, ro)
  BY DEF ParserAt, ReadLine, OpenSegment, Top

LEMMA ReadsPorts ==
  ASSUME NEW seg, NEW lg, NEW cg, NEW md, NEW ty, NEW po, NEW ro, NEW value
  PROVE  ReadLine(ParserAt(seg, lg, cg, md, ty, po, ro), Top("ports", value))
           = ParserAt("ports", lg, cg, md, ty, <<>>, ro)
  BY DEF ParserAt, ReadLine, OpenSegment, Top

LEMMA ReadsRouting ==
  ASSUME NEW seg, NEW lg, NEW cg, NEW md, NEW ty, NEW po, NEW ro, NEW value
  PROVE  ReadLine(ParserAt(seg, lg, cg, md, ty, po, ro), Top("routing", value))
           = ParserAt("routing", 0, cg, md, ty, po, <<>>)
  BY DEF ParserAt, ReadLine, OpenSegment, Top

\* A line in the segment with the ports.
LEMMA ReadsPort ==
  ASSUME NEW lg, NEW cg, NEW md, NEW ty, NEW po, NEW ro, NEW name, NEW value
  PROVE  ReadLine(ParserAt("ports", lg, cg, md, ty, po, ro), Indented(name, value))
           = ParserAt("ports", lg, cg, md, ty, Append(po, [id |-> Len(po), name |-> name, bandwidth |-> value]), ro)
  BY DEF ParserAt, ReadLine, PortLine, Indented

InGroup(p, x) == [p EXCEPT !.lineInGroup = x]
AtGroup(p, x) == [p EXCEPT !.currentGroup = x]
WithMost(p, x) == [p EXCEPT !.maxDestId = x]
WithRoutes(p, x) == [p EXCEPT !.routes = x]

\* One variable of the parser changes.
LEMMA ParserChanges ==
  ASSUME NEW seg, NEW lg, NEW cg, NEW md, NEW ty, NEW po, NEW ro, NEW x
  PROVE  LET p == ParserAt(seg, lg, cg, md, ty, po, ro)
         IN  /\ InGroup(p, x) = ParserAt(seg, x, cg, md, ty, po, ro)
             /\ AtGroup(p, x) = ParserAt(seg, lg, x, md, ty, po, ro)
             /\ WithMost(p, x) = ParserAt(seg, lg, cg, x, ty, po, ro)
             /\ WithRoutes(p, x) = ParserAt(seg, lg, cg, md, ty, po, x)
  BY DEF ParserAt, InGroup, AtGroup, WithMost, WithRoutes

\* The three lines of a route.
LEMMA ReadsDest ==
  ASSUME NEW cg, NEW md, NEW ty, NEW po, NEW ro, NEW word, NEW value
  PROVE  ReadLine(ParserAt("routing", 0, cg, md, ty, po, ro), Indented(word, value))
           = ParserAt("routing", 1, cg, IF word > md THEN word ELSE md, ty, po,
                      Append(ro, [null_route EXCEPT !.dest = word]))
  <1>1. PICK r : r = [null_route EXCEPT !.dest = word]
    OBVIOUS
  <1>2. PICK p, line : p = ParserAt("routing", 0, cg, md, ty, po, ro) /\ line = Indented(word, value)
    OBVIOUS
  <1>3. /\ p.lineInGroup = 0 /\ p.segment = "routing" /\ line.indented = TRUE
        /\ line.word = word /\ p.maxDestId = md /\ p.routes = ro
    BY <1>2 DEF ParserAt, Indented
  <1>4. ReadLine(p, line) = RouteLine(p, line)
    BY <1>3 DEF ReadLine
  <1>5. RouteLine(p, line)
          = [p EXCEPT !.routes = Append(p.routes, [null_route EXCEPT !.dest = line.word]),
                      !.maxDestId = IF line.word > p.maxDestId THEN line.word ELSE p.maxDestId,
                      !.lineInGroup = 1]
    BY <1>3 DEF RouteLine
  <1>6. @ = [p EXCEPT !.routes = Append(ro, r),
                      !.maxDestId = IF word > md THEN word ELSE md, !.lineInGroup = 1]
    BY <1>1, <1>3
  <1>7. PICK next, most : next = Append(ro, r) /\ most = IF word > md THEN word ELSE md
    OBVIOUS
  <1>8. [p EXCEPT !.routes = next, !.maxDestId = most, !.lineInGroup = 1]
          = InGroup(WithMost(WithRoutes(p, next), most), 1)
    BY DEF InGroup, WithMost, WithRoutes
  <1>9. @ = ParserAt("routing", 1, cg, most, ty, po, next)
    BY <1>2, ParserChanges
  <1> QED
    BY <1>1, <1>2, <1>4, <1>5, <1>6, <1>7, <1>8, <1>9

LEMMA ReadsNextHop ==
  ASSUME NEW cg, NEW md, NEW ty, NEW po, NEW ro, NEW word, NEW value
  PROVE  ReadLine(ParserAt("routing", 1, cg, md, ty, po, ro), Indented(word, value))
           = ParserAt("routing", 2, cg, md, ty, po, [ro EXCEPT ![cg + 1].nextHop = value])
  <1>1. PICK p, line : p = ParserAt("routing", 1, cg, md, ty, po, ro) /\ line = Indented(word, value)
    OBVIOUS
  <1>2. /\ p.lineInGroup = 1 /\ p.segment = "routing" /\ line.indented = TRUE
        /\ line.value = value /\ p.currentGroup = cg /\ p.routes = ro
    BY <1>1 DEF ParserAt, Indented
  <1>3. ReadLine(p, line) = RouteLine(p, line)
    BY <1>2 DEF ReadLine
  <1>4. RouteLine(p, line)
          = [p EXCEPT !.routes[p.currentGroup + 1].nextHop = line.value, !.lineInGroup = 2]
    BY <1>2 DEF RouteLine
  <1>5. PICK r : r = [ro EXCEPT ![cg + 1].nextHop = value]
    OBVIOUS
  <1>6. [p EXCEPT !.routes[p.currentGroup + 1].nextHop = line.value, !.lineInGroup = 2]
          = [p EXCEPT !.routes = r, !.lineInGroup = 2]
    BY <1>2, <1>5
  <1>7. [p EXCEPT !.routes = r, !.lineInGroup = 2] = InGroup(WithRoutes(p, r), 2)
    BY DEF InGroup, WithRoutes
  <1>8. @ = ParserAt("routing", 2, cg, md, ty, po, r)
    BY <1>1, ParserChanges
  <1> QED
    BY <1>1, <1>3, <1>4, <1>5, <1>6, <1>7, <1>8

LEMMA ReadsPortName ==
  ASSUME NEW cg, NEW md, NEW ty, NEW po, NEW ro, NEW word, NEW value
  PROVE  ReadLine(ParserAt("routing", 2, cg, md, ty, po, ro), Indented(word, value))
           = ParserAt("routing", 0, cg + 1, md, ty, po, [ro EXCEPT ![cg + 1].portName = value])
  <1>1. PICK p, line : p = ParserAt("routing", 2, cg, md, ty, po, ro) /\ line = Indented(word, value)
    OBVIOUS
  <1>2. /\ p.lineInGroup = 2 /\ p.segment = "routing" /\ line.indented = TRUE
        /\ line.value = value /\ p.currentGroup = cg /\ p.routes = ro
    BY <1>1 DEF ParserAt, Indented
  <1>3. ReadLine(p, line) = RouteLine(p, line)
    BY <1>2 DEF ReadLine
  <1>4. RouteLine(p, line)
          = [p EXCEPT !.routes[p.currentGroup + 1].portName = line.value,
                      !.lineInGroup = 0, !.currentGroup = @ + 1]
    BY <1>2 DEF RouteLine
  <1>5. PICK r : r = [ro EXCEPT ![cg + 1].portName = value]
    OBVIOUS
  <1>6. [p EXCEPT !.routes[p.currentGroup + 1].portName = line.value,
                  !.lineInGroup = 0, !.currentGroup = @ + 1]
          = [p EXCEPT !.routes = r, !.lineInGroup = 0, !.currentGroup = cg + 1]
    BY <1>2, <1>5
  <1>7. [p EXCEPT !.routes = r, !.lineInGroup = 0, !.currentGroup = cg + 1]
          = AtGroup(InGroup(WithRoutes(p, r), 0), cg + 1)
    BY DEF InGroup, AtGroup, WithRoutes
  <1>8. @ = ParserAt("routing", 0, cg + 1, md, ty, po, r)
    BY <1>1, ParserChanges
  <1> QED
    BY <1>1, <1>3, <1>4, <1>5, <1>6, <1>7, <1>8
-----------------------------------------------------------------------------
(***************************************************************************)
(* What the parser has of a plan: its first k ports, its first k routes,   *)
(* and the greatest destination of those.                                  *)
(***************************************************************************)
PortAt(plan, i) == [id |-> i - 1, name |-> plan.ports[i].name, bandwidth |-> plan.ports[i].bandwidth]
DestAt(plan, i) == [null_route EXCEPT !.dest = plan.routes[i].dest]
HopAt(plan, i)  == [DestAt(plan, i) EXCEPT !.nextHop = plan.routes[i].nextHop]
RouteAt(plan, i) == [HopAt(plan, i) EXCEPT !.portName = plan.routes[i].portName]

PortCount(plan)  == Len(plan.ports)
RouteCount(plan) == Len(plan.routes)

PortsTo(plan, k)  == [i \in 1 .. k |-> PortAt(plan, i)]
RoutesTo(plan, k) == [i \in 1 .. k |-> RouteAt(plan, i)]

IsMost(x, plan, k) ==
  /\ x \in Nat /\ \A i \in 1 .. k : plan.routes[i].dest <= x
  /\ x = 0 \/ \E i \in 1 .. k : plan.routes[i].dest = x

\* A plan has as many ports and routes as it says, and a port for every route.
LEMMA PlanFacts ==
  ASSUME NEW plan, IsPlan(plan)
  PROVE  /\ PortCount(plan) \in Nat /\ RouteCount(plan) \in Nat
         /\ IsList(plan.ports, PortCount(plan)) /\ IsList(plan.routes, RouteCount(plan))
         /\ \A i \in 1 .. RouteCount(plan) :
              /\ plan.routes[i].dest \in Nat
              /\ \E j \in 1 .. PortCount(plan) : plan.ports[j].name = plan.routes[i].portName
  <1>1. IsList(plan.ports, PortCount(plan)) /\ IsList(plan.routes, RouteCount(plan))
    BY SeqIsList DEF IsPlan, PortCount, RouteCount
  <1>2. DOMAIN plan.ports = 1 .. PortCount(plan) /\ DOMAIN plan.routes = 1 .. RouteCount(plan)
    BY <1>1, ListFacts
  <1>3. ASSUME NEW i \in 1 .. RouteCount(plan)
        PROVE  /\ plan.routes[i].dest \in Nat
               /\ \E j \in 1 .. PortCount(plan) : plan.ports[j].name = plan.routes[i].portName
    <2>1. plan.routes[i] \in Range(plan.routes)
      BY <1>2 DEF Range
    <2>2. PICK port \in Range(plan.ports) : port.name = plan.routes[i].portName
      BY <2>1 DEF IsPlan
    <2>3. PICK j \in 1 .. PortCount(plan) : port = plan.ports[j]
      BY <1>2 DEF Range
    <2> QED
      BY <2>1, <2>2, <2>3 DEF IsPlan
  <1> QED
    BY <1>1, <1>3 DEF IsList

\* There is one greatest destination.
LEMMA MostIsOne ==
  ASSUME NEW plan, NEW k, NEW x, NEW y, IsMost(x, plan, k), IsMost(y, plan, k)
  PROVE  x = y
  BY DEF IsMost

\* The greatest destination of one more route.
LEMMA MostGrows ==
  ASSUME NEW plan, NEW k \in Nat, NEW x, IsMost(x, plan, k), NEW d \in Nat,
         d = plan.routes[k + 1].dest, \A i \in 1 .. k : plan.routes[i].dest \in Nat
  PROVE  IsMost(IF d > x THEN d ELSE x, plan, k + 1)
  <1>1. 1 .. k + 1 = 1 .. k \cup {k + 1}
    OBVIOUS
  <1>2. x \in Nat
    BY DEF IsMost
  <1>3. CASE d > x
    <2>1. \A i \in 1 .. k : plan.routes[i].dest <= d
      <3> SUFFICES ASSUME NEW i \in 1 .. k PROVE plan.routes[i].dest <= d
        OBVIOUS
      <3>1. plan.routes[i].dest <= x
        BY DEF IsMost
      <3> QED
        BY <1>2, <1>3, <3>1
    <2> QED
      BY <1>1, <1>3, <2>1 DEF IsMost
  <1>4. CASE ~ (d > x)
    BY <1>1, <1>2, <1>4 DEF IsMost
  <1> QED
    BY <1>3, <1>4

\* One more port.
LEMMA PortGrows ==
  ASSUME NEW plan, NEW k \in Nat
  PROVE  Append(PortsTo(plan, k), [id |-> Len(PortsTo(plan, k)), name |-> plan.ports[k + 1].name,
                                   bandwidth |-> plan.ports[k + 1].bandwidth])
           = PortsTo(plan, k + 1)
  <1>1. PICK a, b : a = PortsTo(plan, k) /\ b = PortsTo(plan, k + 1)
    OBVIOUS
  <1>2. IsList(a, k) /\ IsList(b, k + 1)
    BY <1>1 DEF IsList, PortsTo
  <1>3. Len(a) = k
    BY <1>2, ListFacts
  <1>4. PICK x : x = [id |-> Len(a), name |-> plan.ports[k + 1].name,
                      bandwidth |-> plan.ports[k + 1].bandwidth]
    OBVIOUS
  <1>5. x = PortAt(plan, k + 1)
    BY <1>3, <1>4 DEF PortAt
  <1>6. PICK c : c = Append(a, x)
    OBVIOUS
  <1>7. IsGrown(c, a, x)
    BY <1>6 DEF IsGrown
  <1>8. IsList(c, k + 1)
    BY <1>2, <1>7, GrownList
  <1>9. c[k + 1] = x
    BY <1>2, <1>7, GrownLast
  <1>10. \A i \in 1 .. k : c[i] = a[i]
    BY <1>2, <1>7, GrownFront
  <1>11. \A i \in 1 .. k + 1 : c[i] = b[i]
    <2>1. ASSUME NEW i \in 1 .. k + 1 PROVE c[i] = b[i]
      <3>1. b[i] = PortAt(plan, i)
        BY <1>1 DEF PortsTo
      <3>2. CASE i = k + 1
        BY <1>5, <1>9, <3>1, <3>2
      <3>3. CASE i # k + 1
        <4>1. i \in 1 .. k
          BY <3>3
        <4>2. a[i] = PortAt(plan, i)
          BY <1>1, <4>1 DEF PortsTo
        <4> QED
          BY <1>10, <3>1, <4>1, <4>2
      <3> QED
        BY <3>2, <3>3
    <2> QED
      BY <2>1
  <1>12. c = b
    BY <1>2, <1>8, <1>11, SameList
  <1> QED
    BY <1>1, <1>4, <1>6, <1>12

\* One element of a sequence changed.
IsPut(b, a, k, x) == b = [a EXCEPT ![k] = x]

LEMMA PutList ==
  ASSUME NEW n, NEW a, IsList(a, n), NEW k \in 1 .. n, NEW x, NEW b, IsPut(b, a, k, x)
  PROVE  IsList(b, n) /\ b[k] = x
  BY DEF IsList, IsPut

LEMMA PutOthers ==
  ASSUME NEW n, NEW a, IsList(a, n), NEW k \in 1 .. n, NEW x, NEW b, IsPut(b, a, k, x)
  PROVE  \A i \in 1 .. n : i # k => b[i] = a[i]
  BY DEF IsList, IsPut

\* One more route, in three lines.
LEMMA RouteGrows ==
  ASSUME NEW plan, NEW k \in Nat, NEW a, NEW b, NEW c
  PROVE  /\ a = Append(RoutesTo(plan, k), DestAt(plan, k + 1))
         /\ b = [a EXCEPT ![k + 1].nextHop = plan.routes[k + 1].nextHop]
         /\ c = [b EXCEPT ![k + 1].portName = plan.routes[k + 1].portName]
         => c = RoutesTo(plan, k + 1)
  <1>0. HAVE /\ a = Append(RoutesTo(plan, k), DestAt(plan, k + 1))
             /\ b = [a EXCEPT ![k + 1].nextHop = plan.routes[k + 1].nextHop]
             /\ c = [b EXCEPT ![k + 1].portName = plan.routes[k + 1].portName]
  <1>1. PICK r, s : r = RoutesTo(plan, k) /\ s = RoutesTo(plan, k + 1)
    OBVIOUS
  <1>2. IsList(r, k) /\ IsList(s, k + 1)
    BY <1>1 DEF IsList, RoutesTo
  <1>3. PICK x, y, z, m : /\ x = DestAt(plan, k + 1) /\ y = HopAt(plan, k + 1)
                          /\ z = RouteAt(plan, k + 1) /\ m = k + 1
    OBVIOUS
  <1>4. IsGrown(a, r, x)
    BY <1>0, <1>1, <1>3 DEF IsGrown
  <1>5. IsList(a, m) /\ a[m] = x
    BY <1>2, <1>3, <1>4, GrownList, GrownLast
  <1>6. \A i \in 1 .. k : a[i] = r[i]
    BY <1>2, <1>4, GrownFront
  <1>7. m \in 1 .. m /\ \A i \in 1 .. k : i \in 1 .. m /\ i # m
    BY <1>3
  <1>8. IsPut(b, a, m, y)
    BY <1>0, <1>3, <1>5 DEF HopAt, IsPut
  <1>9. IsList(b, m) /\ b[m] = y
    BY <1>5, <1>7, <1>8, PutList
  <1>10. \A i \in 1 .. m : i # m => b[i] = a[i]
    BY <1>5, <1>7, <1>8, PutOthers
  <1>11. IsPut(c, b, m, z)
    BY <1>0, <1>3, <1>9 DEF RouteAt, IsPut
  <1>12. IsList(c, m) /\ c[m] = z
    BY <1>7, <1>9, <1>11, PutList
  <1>13. \A i \in 1 .. m : i # m => c[i] = b[i]
    BY <1>7, <1>9, <1>11, PutOthers
  <1>14. \A i \in 1 .. k + 1 : c[i] = s[i]
    <2>1. ASSUME NEW i \in 1 .. k + 1 PROVE c[i] = s[i]
      <3>1. s[i] = RouteAt(plan, i)
        BY <1>1 DEF RoutesTo
      <3>2. CASE i = k + 1
        BY <1>3, <1>12, <3>1, <3>2
      <3>3. CASE i # k + 1
        <4>1. i \in 1 .. k
          BY <3>3
        <4>2. r[i] = RouteAt(plan, i)
          BY <1>1, <4>1 DEF RoutesTo
        <4> QED
          BY <1>6, <1>7, <1>10, <1>13, <3>1, <4>1, <4>2
      <3> QED
        BY <3>2, <3>3
    <2> QED
      BY <2>1
  <1> QED
    BY <1>1, <1>2, <1>3, <1>12, <1>14, SameList
-----------------------------------------------------------------------------
(***************************************************************************)
(* The segments of a file, and what the parser has when it has read some.  *)
(***************************************************************************)
Words == {"type", "ports", "routing"}

PortLines(plan) ==
  [i \in DOMAIN plan.ports |-> Indented(plan.ports[i].name, plan.ports[i].bandwidth)]
Group(r) ==
  <<Indented(r.dest, ""), Indented("next_hop", r.nextHop), Indented("port", r.portName)>>
RouteLines(plan) == FlattenSeq([i \in DOMAIN plan.routes |-> Group(plan.routes[i])])

TypePart(plan)  == <<Top("type", plan.type)>>
PortsPart(plan) == <<Top("ports", "")>> \o PortLines(plan)
RoutesPart(plan) == <<Top("routing", "")>> \o RouteLines(plan)

\* The segments of a plan are these three.
LEMMA TheSegments ==
  ASSUME NEW plan
  PROVE  Segments(plan) = {TypePart(plan), PortsPart(plan), RoutesPart(plan)}
  BY DEF Segments, TypePart, PortsPart, RoutesPart, PortLines, RouteLines, Group

LEMMA OneIsList ==
  ASSUME NEW x
  PROVE  IsList(<<x>>, 1) /\ <<x>>[1] = x
  <1>1. <<x>> \in Seq({x}) /\ Len(<<x>>) = 1 /\ <<x>>[1] = x
    OBVIOUS
  <1> QED
    BY <1>1, SeqIsList

\* The line of the segment with the type.
LEMMA TypeLines ==
  ASSUME NEW plan
  PROVE  IsList(TypePart(plan), 1) /\ TypePart(plan)[1] = Top("type", plan.type)
  BY OneIsList DEF TypePart

\* The lines of a route.
LEMMA GroupLines ==
  ASSUME NEW r
  PROVE  /\ IsList(Group(r), 3)
         /\ Group(r)[1] = Indented(r.dest, "") /\ Group(r)[2] = Indented("next_hop", r.nextHop)
         /\ Group(r)[3] = Indented("port", r.portName)
  <1>1. PICK x, y, z : /\ x = Indented(r.dest, "") /\ y = Indented("next_hop", r.nextHop)
                       /\ z = Indented("port", r.portName)
    OBVIOUS
  <1>2. /\ <<x, y, z>> \in Seq({x, y, z}) /\ Len(<<x, y, z>>) = 3
        /\ <<x, y, z>>[1] = x /\ <<x, y, z>>[2] = y /\ <<x, y, z>>[3] = z
    OBVIOUS
  <1>3. Group(r) = <<x, y, z>>
    BY <1>1 DEF Group
  <1> QED
    BY <1>1, <1>2, <1>3, SeqIsList

\* The lines of the segment with the ports.
LEMMA PortsPartLines ==
  ASSUME NEW plan, IsPlan(plan), NEW n, n = PortCount(plan)
  PROVE  /\ IsList(PortsPart(plan), 1 + n) /\ PortsPart(plan)[1] = Top("ports", "")
         /\ \A i \in 1 .. n :
              PortsPart(plan)[1 + i] = Indented(plan.ports[i].name, plan.ports[i].bandwidth)
  <1>1. IsList(plan.ports, n) /\ DOMAIN plan.ports = 1 .. n /\ n \in Nat
    BY PlanFacts, ListFacts DEF IsList
  <1>2. PICK a, b, c : a = <<Top("ports", "")>> /\ b = PortLines(plan) /\ c = PortsPart(plan)
    OBVIOUS
  <1>3. IsList(a, 1) /\ a[1] = Top("ports", "")
    BY <1>2, OneIsList
  <1>4. IsList(b, n) /\ \A i \in 1 .. n : b[i] = Indented(plan.ports[i].name, plan.ports[i].bandwidth)
    BY <1>1, <1>2 DEF PortLines, IsList
  <1>5. IsJoin(c, a, b)
    BY <1>2 DEF PortsPart, IsJoin
  <1>6. PICK l : l = 1
    OBVIOUS
  <1>7. IsList(a, l) /\ IsList(b, n)
    BY <1>3, <1>4, <1>6
  <1>8. IsList(c, l + n)
    BY <1>5, <1>7, ListsJoin DEF IsJoin
  <1>9. \A i \in 1 .. l : c[i] = a[i]
    BY <1>5, <1>7, JoinedFront
  <1>10. \A i \in 1 .. n : c[l + i] = b[i]
    BY <1>5, <1>7, JoinedBack
  <1>11. c[1] = a[1]
    BY <1>6, <1>9
  <1> QED
    BY <1>2, <1>3, <1>4, <1>6, <1>8, <1>10, <1>11

HasGroups(part, plan, n) ==
  \A j \in 1 .. n : \A i \in 1 .. 3 : part[1 + (3 * (j - 1) + i)] = Group(plan.routes[j])[i]

\* The lines of the segment with the routes.
LEMMA RoutesPartLines ==
  ASSUME NEW plan, IsPlan(plan), NEW n, n = RouteCount(plan)
  PROVE  /\ IsList(RoutesPart(plan), 1 + 3 * n) /\ RoutesPart(plan)[1] = Top("routing", "")
         /\ HasGroups(RoutesPart(plan), plan, n)
  <1>1. IsList(plan.routes, n) /\ DOMAIN plan.routes = 1 .. n /\ n \in Nat
    BY PlanFacts, ListFacts DEF IsList
  <1>2. PICK a, b, c, s : /\ a = <<Top("routing", "")>> /\ b = RouteLines(plan) /\ c = RoutesPart(plan)
                          /\ s = [i \in 1 .. n |-> Group(plan.routes[i])]
    OBVIOUS
  <1>3. IsList(a, 1) /\ a[1] = Top("routing", "")
    BY <1>2, OneIsList
  <1>4. IsList(s, n) /\ \A j \in 1 .. n : s[j] = Group(plan.routes[j]) /\ IsList(s[j], 3)
    BY <1>1, <1>2, GroupLines DEF IsList
  <1>5. b = FlattenSeq(s)
    BY <1>1, <1>2 DEF RouteLines
  <1>6. PICK m : m = 3 * n
    OBVIOUS
  <1>7. IsFlat(b, s)
    BY <1>5 DEF IsFlat
  <1>8. IsList(s, n) /\ \A j \in 1 .. n : IsList(s[j], 3)
    BY <1>4
  <1>9. IsList(b, m)
    BY <1>6, <1>7, <1>8, FlatList
  <1>10. \A j \in 1 .. n : \A i \in 1 .. 3 : b[3 * (j - 1) + i] = s[j][i]
    BY <1>7, <1>8, FlatGroups
  <1>11. PICK l : l = 1
    OBVIOUS
  <1>12. IsList(a, l) /\ IsList(b, m)
    BY <1>3, <1>11, <1>9
  <1>13. IsJoin(c, a, b)
    BY <1>2 DEF RoutesPart, IsJoin
  <1>14. IsList(c, l + m)
    BY <1>12, <1>13, ListsJoin DEF IsJoin
  <1>15. \A i \in 1 .. l : c[i] = a[i]
    BY <1>12, <1>13, JoinedFront
  <1>16. \A i \in 1 .. m : c[l + i] = b[i]
    BY <1>12, <1>13, JoinedBack
  <1>17. ASSUME NEW j \in 1 .. n, NEW i \in 1 .. 3
         PROVE  c[1 + (3 * (j - 1) + i)] = Group(plan.routes[j])[i]
    <2>1. 3 * (j - 1) + i \in 1 .. m
      BY <1>1, <1>6
    <2> QED
      BY <1>4, <1>10, <1>11, <1>16, <2>1
  <1>18. c[1] = a[1]
    BY <1>11, <1>15
  <1>19. HasGroups(c, plan, n)
    BY <1>17 DEF HasGroups
  <1> QED
    BY <1>2, <1>3, <1>6, <1>11, <1>14, <1>18, <1>19
-----------------------------------------------------------------------------
(***************************************************************************)
(* g[k] is what the parser has after k lines of the file, of which those   *)
(* after the o-th are a segment.                                           *)
(***************************************************************************)
Runs(g, n, file) == \A k \in 1 .. n : g[k] = ReadLine(g[k - 1], file[k])

Holds(file, o, part, m) == \A i \in 1 .. m : file[o + i] = part[i]

TypeRead(plan, R)   == IF "type" \in R THEN plan.type ELSE ""
PortsRead(plan, R)  == IF "ports" \in R THEN PortsTo(plan, PortCount(plan)) ELSE <<>>
GroupsRead(plan, R) == IF "routing" \in R THEN RouteCount(plan) ELSE 0
RoutesRead(plan, R) == IF "routing" \in R THEN RoutesTo(plan, RouteCount(plan)) ELSE <<>>

HasRead(p, plan, R) ==
  \E seg, md :
    /\ IsMost(md, plan, GroupsRead(plan, R))
    /\ p = ParserAt(seg, 0, GroupsRead(plan, R), md,
                    TypeRead(plan, R), PortsRead(plan, R), RoutesRead(plan, R))

\* At the beginning nothing is read.
LEMMA NothingRead ==
  ASSUME NEW plan
  PROVE  HasRead(Parser, plan, {})
  <1>1. Parser = ParserAt("", 0, 0, 0, "", <<>>, <<>>)
    BY DEF Parser, ParserAt
  <1>2. IsMost(0, plan, 0)
    BY DEF IsMost
  <1> QED
    BY <1>1, <1>2 DEF HasRead, TypeRead, PortsRead, GroupsRead, RoutesRead

\* Before the first port and the first route there are none.
LEMMA NoneYet ==
  ASSUME NEW plan
  PROVE  PortsTo(plan, 0) = <<>> /\ RoutesTo(plan, 0) = <<>>
  BY DEF PortsTo, RoutesTo

\* The segment with the type, wherever it is in the file.
LEMMA TypeIsRead ==
  ASSUME NEW plan, NEW o \in Nat, NEW n \in Nat, NEW g, NEW file, Runs(g, n, file),
         o + 1 <= n, Holds(file, o, TypePart(plan), 1),
         NEW R, HasRead(g[o], plan, R)
  PROVE  HasRead(g[o + 1], plan, R \cup {"type"})
  <1>1. PICK seg, md : /\ IsMost(md, plan, GroupsRead(plan, R))
                       /\ g[o] = ParserAt(seg, 0, GroupsRead(plan, R), md, TypeRead(plan, R),
                                          PortsRead(plan, R), RoutesRead(plan, R))
    BY DEF HasRead
  <1>2. file[o + 1] = Top("type", plan.type)
    BY TypeLines DEF Holds
  <1>3. g[o + 1] = ReadLine(g[o], file[o + 1])
    <2>1. o + 1 \in 1 .. n /\ (o + 1) - 1 = o
      OBVIOUS
    <2> QED
      BY <2>1 DEF Runs
  <1>4. g[o + 1] = ParserAt("type", 0, GroupsRead(plan, R), md, plan.type,
                            PortsRead(plan, R), RoutesRead(plan, R))
    BY <1>1, <1>2, <1>3, ReadsType
  <1> QED
    BY <1>1, <1>4 DEF HasRead, TypeRead, PortsRead, GroupsRead, RoutesRead

\* The segment with the ports: one more port after each of its lines.
LEMMA PortsAreRead ==
  ASSUME NEW plan, IsPlan(plan), NEW o \in Nat, NEW n \in Nat, NEW g, NEW file, Runs(g, n, file),
         NEW m, m = PortCount(plan), o + (1 + m) <= n, Holds(file, o, PortsPart(plan), 1 + m),
         NEW R, HasRead(g[o], plan, R)
  PROVE  HasRead(g[o + (1 + m)], plan, R \cup {"ports"})
  <1>0. m \in Nat
    BY PlanFacts DEF IsList
  <1>1. PICK seg, md : /\ IsMost(md, plan, GroupsRead(plan, R))
                       /\ g[o] = ParserAt(seg, 0, GroupsRead(plan, R), md, TypeRead(plan, R),
                                          PortsRead(plan, R), RoutesRead(plan, R))
    BY DEF HasRead
  <1>2. PICK cg, ty, ro : /\ cg = GroupsRead(plan, R) /\ ty = TypeRead(plan, R)
                          /\ ro = RoutesRead(plan, R)
    OBVIOUS
  <1>3. \A k \in 1 .. n : g[k] = ReadLine(g[k - 1], file[k])
    BY DEF Runs
  <1>4. g[o + 1] = ParserAt("ports", 0, cg, md, ty, PortsTo(plan, 0), ro)
    <2>1. o + 1 \in 1 .. n /\ (o + 1) - 1 = o /\ 1 \in 1 .. 1 + m
      BY <1>0
    <2>2. file[o + 1] = Top("ports", "")
      BY <2>1, PortsPartLines DEF Holds
    <2>3. g[o + 1] = ReadLine(g[o], file[o + 1])
      BY <1>3, <2>1
    <2>4. g[o] = ParserAt(seg, 0, cg, md, ty, PortsRead(plan, R), ro)
      BY <1>1, <1>2
    <2>5. PICK none, po : none = "" /\ po = PortsRead(plan, R)
      OBVIOUS
    <2>6. ReadLine(ParserAt(seg, 0, cg, md, ty, po, ro), Top("ports", none))
            = ParserAt("ports", 0, cg, md, ty, <<>>, ro)
      BY ReadsPorts
    <2>7. ReadLine(ParserAt(seg, 0, cg, md, ty, PortsRead(plan, R), ro), Top("ports", ""))
            = ParserAt("ports", 0, cg, md, ty, <<>>, ro)
      BY <2>5, <2>6
    <2>8. g[o + 1] = ParserAt("ports", 0, cg, md, ty, <<>>, ro)
      BY <2>2, <2>3, <2>4, <2>7
    <2> QED
      BY <2>8, NoneYet
  <1> DEFINE Is(k) == g[(o + 1) + k] = ParserAt("ports", 0, cg, md, ty, PortsTo(plan, k), ro)
             X == {k \in Nat : Is(k)}
  <1>5. 0 \in X
    <2>1. (o + 1) + 0 = o + 1
      OBVIOUS
    <2> QED
      BY <1>4, <2>1
  <1>6. ASSUME NEW k \in 0 .. m - 1, k \in X PROVE k + 1 \in X
    <2>1. Is(k)
      BY <1>6
    <2>2. /\ (o + 1) + (k + 1) \in 1 .. n /\ ((o + 1) + (k + 1)) - 1 = (o + 1) + k
          /\ (o + 1) + (k + 1) = o + (1 + (k + 1)) /\ 1 + (k + 1) \in 1 .. 1 + m
          /\ k + 1 \in 1 .. m /\ k \in Nat /\ k + 1 \in Nat
      BY <1>0
    <2>3. file[(o + 1) + (k + 1)] = Indented(plan.ports[k + 1].name, plan.ports[k + 1].bandwidth)
      <3>1. PortsPart(plan)[1 + (k + 1)]
              = Indented(plan.ports[k + 1].name, plan.ports[k + 1].bandwidth)
        BY <2>2, PortsPartLines
      <3>2. file[o + (1 + (k + 1))] = PortsPart(plan)[1 + (k + 1)]
        BY <2>2 DEF Holds
      <3> QED
        BY <2>2, <3>1, <3>2
    <2>4. g[(o + 1) + (k + 1)] = ReadLine(g[(o + 1) + k], file[(o + 1) + (k + 1)])
      BY <1>3, <2>2
    <2>5. PICK a : a = PortsTo(plan, k)
      OBVIOUS
    <2>6. g[(o + 1) + (k + 1)]
            = ParserAt("ports", 0, cg, md, ty,
                Append(a, [id |-> Len(a), name |-> plan.ports[k + 1].name,
                           bandwidth |-> plan.ports[k + 1].bandwidth]), ro)
      BY <2>1, <2>3, <2>4, <2>5, ReadsPort
    <2>7. Is(k + 1)
      BY <2>2, <2>5, <2>6, PortGrows
    <2> HIDE DEF Is
    <2> QED
      BY <2>2, <2>7
  <1>7. m \in X
    <2>1. \A k \in 0 .. m - 1 : k \in X => k + 1 \in X
      BY <1>6
    <2>2. m \in 0 .. m
      BY <1>0
    <2> HIDE DEF X
    <2> QED
      BY <1>0, <1>5, <2>1, <2>2, Inductive
  <1>8. g[o + (1 + m)] = ParserAt("ports", 0, cg, md, ty, PortsTo(plan, m), ro)
    <2>1. (o + 1) + m = o + (1 + m)
      BY <1>0
    <2>2. Is(m)
      <3> HIDE DEF Is
      <3> QED
        BY <1>7
    <2> QED
      BY <2>1, <2>2
  <1> HIDE DEF X
  <1> QED
    BY <1>1, <1>2, <1>8 DEF HasRead, TypeRead, PortsRead, GroupsRead, RoutesRead


\* The three lines of a route.
LEMMA GroupIsRead ==
  ASSUME NEW plan, IsPlan(plan), NEW k \in Nat, k + 1 \in 1 .. RouteCount(plan),
         NEW most, IsMost(most, plan, k), NEW ty, NEW po, NEW p, NEW p1, NEW p2, NEW p3
  PROVE  /\ p = ParserAt("routing", 0, k, most, ty, po, RoutesTo(plan, k))
         /\ p1 = ReadLine(p, Group(plan.routes[k + 1])[1])
         /\ p2 = ReadLine(p1, Group(plan.routes[k + 1])[2])
         /\ p3 = ReadLine(p2, Group(plan.routes[k + 1])[3])
         => \E x : /\ IsMost(x, plan, k + 1)
                   /\ p3 = ParserAt("routing", 0, k + 1, x, ty, po, RoutesTo(plan, k + 1))
  <1>0. HAVE /\ p = ParserAt("routing", 0, k, most, ty, po, RoutesTo(plan, k))
             /\ p1 = ReadLine(p, Group(plan.routes[k + 1])[1])
             /\ p2 = ReadLine(p1, Group(plan.routes[k + 1])[2])
             /\ p3 = ReadLine(p2, Group(plan.routes[k + 1])[3])
  <1>1. PICK r, none : r = plan.routes[k + 1] /\ none = ""
    OBVIOUS
  <1>2. /\ Group(r)[1] = Indented(r.dest, none) /\ Group(r)[2] = Indented("next_hop", r.nextHop)
        /\ Group(r)[3] = Indented("port", r.portName)
    BY <1>1, GroupLines
  <1>3. PICK d, h, q : d = r.dest /\ h = r.nextHop /\ q = r.portName
    OBVIOUS
  <1>4. PICK x : x = IF d > most THEN d ELSE most
    OBVIOUS
  <1>5. IsMost(x, plan, k + 1)
    <2>1. \A i \in 1 .. k : i \in 1 .. RouteCount(plan)
      BY PlanFacts
    <2>2. d \in Nat /\ d = plan.routes[k + 1].dest /\ \A i \in 1 .. k : plan.routes[i].dest \in Nat
      BY <1>1, <1>3, <2>1, PlanFacts
    <2> QED
      BY <1>4, <2>2, MostGrows
  <1>6. PICK ro, a : ro = RoutesTo(plan, k) /\ a = Append(ro, [null_route EXCEPT !.dest = d])
    OBVIOUS
  <1>7. p1 = ParserAt("routing", 1, k, x, ty, po, a)
    <2>1. ReadLine(ParserAt("routing", 0, k, most, ty, po, ro), Indented(d, none))
            = ParserAt("routing", 1, k, IF d > most THEN d ELSE most, ty, po,
                       Append(ro, [null_route EXCEPT !.dest = d]))
      BY ReadsDest
    <2> QED
      BY <1>0, <1>1, <1>2, <1>3, <1>4, <1>6, <2>1
  <1>8. PICK b : b = [a EXCEPT ![k + 1].nextHop = h]
    OBVIOUS
  <1>9. p2 = ParserAt("routing", 2, k, x, ty, po, b)
    <2>1. ReadLine(ParserAt("routing", 1, k, x, ty, po, a), Indented("next_hop", h))
            = ParserAt("routing", 2, k, x, ty, po, [a EXCEPT ![k + 1].nextHop = h])
      BY ReadsNextHop
    <2> QED
      BY <1>0, <1>1, <1>2, <1>3, <1>7, <1>8, <2>1
  <1>10. PICK c : c = [b EXCEPT ![k + 1].portName = q]
    OBVIOUS
  <1>11. p3 = ParserAt("routing", 0, k + 1, x, ty, po, c)
    <2>1. ReadLine(ParserAt("routing", 2, k, x, ty, po, b), Indented("port", q))
            = ParserAt("routing", 0, k + 1, x, ty, po, [b EXCEPT ![k + 1].portName = q])
      BY ReadsPortName
    <2> QED
      BY <1>0, <1>1, <1>2, <1>3, <1>9, <1>10, <2>1
  <1>12. c = RoutesTo(plan, k + 1)
    <2>1. a = Append(RoutesTo(plan, k), DestAt(plan, k + 1))
      BY <1>1, <1>3, <1>6 DEF DestAt
    <2>2. b = [a EXCEPT ![k + 1].nextHop = plan.routes[k + 1].nextHop]
      BY <1>1, <1>3, <1>8
    <2>3. c = [b EXCEPT ![k + 1].portName = plan.routes[k + 1].portName]
      BY <1>1, <1>3, <1>10
    <2> QED
      BY <2>1, <2>2, <2>3, RouteGrows
  <1> QED
    BY <1>5, <1>11, <1>12

\* The segment with the routes: one more route after every three of its lines.
LEMMA RoutesAreRead ==
  ASSUME NEW plan, IsPlan(plan), NEW o \in Nat, NEW n \in Nat, NEW g, NEW file, Runs(g, n, file),
         NEW m, m = RouteCount(plan), o + (1 + 3 * m) <= n, Holds(file, o, RoutesPart(plan), 1 + 3 * m),
         NEW R, HasRead(g[o], plan, R), "routing" \notin R
  PROVE  HasRead(g[o + (1 + 3 * m)], plan, R \cup {"routing"})
  <1>0. m \in Nat
    BY PlanFacts
  <1>1. PICK seg, md : /\ IsMost(md, plan, GroupsRead(plan, R))
                       /\ g[o] = ParserAt(seg, 0, GroupsRead(plan, R), md, TypeRead(plan, R),
                                          PortsRead(plan, R), RoutesRead(plan, R))
    BY DEF HasRead
  <1>2. PICK ty, po, ro : /\ ty = TypeRead(plan, R) /\ po = PortsRead(plan, R)
                          /\ ro = RoutesRead(plan, R)
    OBVIOUS
  <1>3. \A k \in 1 .. n : g[k] = ReadLine(g[k - 1], file[k])
    BY DEF Runs
  <1>4. IsMost(md, plan, 0) /\ g[o] = ParserAt(seg, 0, 0, md, ty, po, ro)
    BY <1>1, <1>2 DEF GroupsRead
  <1>5. g[o + 1] = ParserAt("routing", 0, 0, md, ty, po, RoutesTo(plan, 0))
    <2>1. o + 1 \in 1 .. n /\ (o + 1) - 1 = o /\ 1 \in 1 .. 1 + 3 * m
      BY <1>0
    <2>2. PICK none : none = ""
      OBVIOUS
    <2>3. file[o + 1] = Top("routing", none)
      BY <2>1, <2>2, RoutesPartLines DEF Holds
    <2>4. g[o + 1] = ReadLine(g[o], file[o + 1])
      BY <1>3, <2>1
    <2>5. ReadLine(ParserAt(seg, 0, 0, md, ty, po, ro), Top("routing", none))
            = ParserAt("routing", 0, 0, md, ty, po, <<>>)
      BY ReadsRouting
    <2>6. g[o + 1] = ParserAt("routing", 0, 0, md, ty, po, <<>>)
      BY <1>4, <2>3, <2>4, <2>5
    <2> QED
      BY <2>6, NoneYet
  <1>6. HasGroups(RoutesPart(plan), plan, m)
    BY RoutesPartLines
  <1>7. \A j \in 1 .. m : \A l \in 1 .. 3 :
           RoutesPart(plan)[1 + (3 * (j - 1) + l)] = Group(plan.routes[j])[l]
    BY <1>6 DEF HasGroups
  <1> DEFINE Is(k) == \E x : /\ IsMost(x, plan, k)
                             /\ g[(o + 1) + 3 * k] = ParserAt("routing", 0, k, x, ty, po, RoutesTo(plan, k))
             X == {k \in Nat : Is(k)}
  <1>8. 0 \in X
    <2>1. (o + 1) + 3 * 0 = o + 1
      OBVIOUS
    <2> QED
      BY <1>4, <1>5, <2>1
  <1>9. ASSUME NEW k \in 0 .. m - 1, k \in X PROVE k + 1 \in X
    <2>1. Is(k)
      BY <1>9
    <2>2. PICK x : /\ IsMost(x, plan, k)
                   /\ g[(o + 1) + 3 * k] = ParserAt("routing", 0, k, x, ty, po, RoutesTo(plan, k))
      BY <2>1
    <2>3. k \in Nat /\ k + 1 \in Nat /\ k + 1 \in 1 .. m /\ (k + 1) - 1 = k
      BY <1>0
    <2>4. PICK l \in Nat : l = (o + 1) + 3 * k
      BY <2>3
    <2>5. ASSUME NEW i \in 1 .. 3
          PROVE  /\ file[l + i] = Group(plan.routes[k + 1])[i]
                 /\ g[l + i] = ReadLine(g[(l + i) - 1], file[l + i])
      <3>1. /\ l + i \in 1 .. n /\ l + i = o + (1 + (3 * k + i)) /\ 1 + (3 * k + i) \in 1 .. 1 + 3 * m
        BY <1>0, <2>3, <2>4
      <3>2. PICK j \in 1 .. m : j = k + 1 /\ j - 1 = k
        BY <2>3
      <3>3. RoutesPart(plan)[1 + (3 * (j - 1) + i)] = Group(plan.routes[j])[i]
        BY <1>7
      <3>4. RoutesPart(plan)[1 + (3 * k + i)] = Group(plan.routes[k + 1])[i]
        BY <3>2, <3>3
      <3>5. file[o + (1 + (3 * k + i))] = RoutesPart(plan)[1 + (3 * k + i)]
        BY <3>1 DEF Holds
      <3> QED
        BY <1>3, <3>1, <3>4, <3>5
    <2>6. /\ (l + 1) - 1 = l /\ (l + 2) - 1 = l + 1 /\ (l + 3) - 1 = l + 2
          /\ 1 \in 1 .. 3 /\ 2 \in 1 .. 3 /\ 3 \in 1 .. 3
      OBVIOUS
    <2>7. /\ g[l] = ParserAt("routing", 0, k, x, ty, po, RoutesTo(plan, k))
          /\ g[l + 1] = ReadLine(g[l], Group(plan.routes[k + 1])[1])
          /\ g[l + 2] = ReadLine(g[l + 1], Group(plan.routes[k + 1])[2])
          /\ g[l + 3] = ReadLine(g[l + 2], Group(plan.routes[k + 1])[3])
      BY <2>2, <2>4, <2>5, <2>6
    <2>8. \E y : /\ IsMost(y, plan, k + 1)
                 /\ g[l + 3] = ParserAt("routing", 0, k + 1, y, ty, po, RoutesTo(plan, k + 1))
      BY <2>2, <2>3, <2>7, GroupIsRead
    <2>9. l + 3 = (o + 1) + 3 * (k + 1)
      BY <2>3, <2>4
    <2>10. Is(k + 1)
      BY <2>8, <2>9
    <2> HIDE DEF Is
    <2> QED
      BY <2>3, <2>10
  <1>10. m \in X
    <2>1. \A k \in 0 .. m - 1 : k \in X => k + 1 \in X
      BY <1>9
    <2>2. m \in 0 .. m
      BY <1>0
    <2> HIDE DEF X
    <2> QED
      BY <1>0, <1>8, <2>1, <2>2, Inductive
  <1>11. PICK x : /\ IsMost(x, plan, m)
                 /\ g[o + (1 + 3 * m)] = ParserAt("routing", 0, m, x, ty, po, RoutesTo(plan, m))
    <2>1. (o + 1) + 3 * m = o + (1 + 3 * m)
      BY <1>0
    <2>2. Is(m)
      <3> HIDE DEF Is
      <3> QED
        BY <1>10
    <2> QED
      BY <2>1, <2>2
  <1> HIDE DEF X
  <1> QED
    BY <1>2, <1>11 DEF HasRead, TypeRead, PortsRead, GroupsRead, RoutesRead
-----------------------------------------------------------------------------
(***************************************************************************)
(* A file is the three segments in some order, and the parser has read the *)
(* plan when it has read the file.                                         *)
(***************************************************************************)
PartOf(plan, w) ==
  IF w = "type" THEN TypePart(plan) ELSE IF w = "ports" THEN PortsPart(plan) ELSE RoutesPart(plan)
PartSize(plan, w) ==
  IF w = "type" THEN 1 ELSE IF w = "ports" THEN 1 + PortCount(plan) ELSE 1 + 3 * RouteCount(plan)

LEMMA PartIsList ==
  ASSUME NEW plan, IsPlan(plan), NEW w \in Words
  PROVE  IsList(PartOf(plan, w), PartSize(plan, w)) /\ PartSize(plan, w) \in Nat
  <1>1. IsList(PartOf(plan, w), PartSize(plan, w))
    BY TypeLines, PortsPartLines, RoutesPartLines DEF PartOf, PartSize, Words
  <1> QED
    BY <1>1 DEF IsList

\* Any of the segments.
LEMMA WordIsRead ==
  ASSUME NEW plan, IsPlan(plan), NEW o \in Nat, NEW n \in Nat, NEW g, NEW file, Runs(g, n, file),
         NEW w \in Words, NEW m, m = PartSize(plan, w), o + m <= n, Holds(file, o, PartOf(plan, w), m),
         NEW R, HasRead(g[o], plan, R), w \notin R
  PROVE  HasRead(g[o + m], plan, R \cup {w})
  <1>1. CASE w = "type"
    BY <1>1, TypeIsRead DEF PartOf, PartSize
  <1>2. CASE w = "ports"
    BY <1>2, PortsAreRead DEF PartOf, PartSize
  <1>3. CASE w = "routing"
    BY <1>3, RoutesAreRead DEF PartOf, PartSize
  <1> QED
    BY <1>1, <1>2, <1>3 DEF Words

\* No two segments of a file are the same, so a file has all three.
LEMMA PartsDiffer ==
  ASSUME NEW plan, IsPlan(plan)
  PROVE  /\ TypePart(plan) # PortsPart(plan) /\ TypePart(plan) # RoutesPart(plan)
         /\ PortsPart(plan) # RoutesPart(plan)
  <1>1. PICK none, type : none = "" /\ type = plan.type
    OBVIOUS
  <1>2. /\ Top("type", type).word = "type" /\ Top("ports", none).word = "ports"
        /\ Top("routing", none).word = "routing"
    BY DEF Top
  <1>3. /\ TypePart(plan)[1] = Top("type", type) /\ PortsPart(plan)[1] = Top("ports", none)
        /\ RoutesPart(plan)[1] = Top("routing", none)
    BY <1>1, TypeLines, PortsPartLines, RoutesPartLines
  <1>4. "type" # "ports" /\ "type" # "routing" /\ "ports" # "routing"
    OBVIOUS
  <1> QED
    BY <1>2, <1>3, <1>4

LEMMA ThreeOf ==
  ASSUME NEW a, NEW b, NEW c, a # b, a # c, b # c
  PROVE  Cardinality({a, b, c}) = 3
  <1>1. IsFiniteSet({}) /\ Cardinality({}) = 0
    BY FS_EmptySet
  <1>2. IsFiniteSet({a}) /\ Cardinality({a}) = 1
    BY FS_Singleton
  <1>3. IsFiniteSet({a} \cup {b}) /\ Cardinality({a} \cup {b}) = 2
    BY <1>2, FS_AddElement
  <1>4. PICK s : s = {a} \cup {b}
    OBVIOUS
  <1>5. Cardinality(s \cup {c}) = 3
    BY <1>3, <1>4, FS_AddElement
  <1>6. s \cup {c} = {a, b, c}
    BY <1>4
  <1> QED
    BY <1>5, <1>6

\* A file is the three, one after the other.
LEMMA FileIsThree ==
  ASSUME NEW plan, IsPlan(plan), NEW file \in FilesOf(plan)
  PROVE  \E u, v, w \in Words :
           /\ u # v /\ u # w /\ v # w
           /\ file = (PartOf(plan, u) \o PartOf(plan, v)) \o PartOf(plan, w)
  <1>1. Segments(plan) = {PartOf(plan, w) : w \in Words}
    BY TheSegments DEF PartOf, Words
  <1>2. Cardinality(Segments(plan)) = 3
    BY TheSegments, PartsDiffer, ThreeOf
  <1>3. PICK order \in SetToSeqs(Segments(plan)) : file = FlattenSeq(order)
    BY DEF FilesOf
  <1>4. /\ order \in [1 .. 3 -> Segments(plan)]
        /\ \A i, j \in 1 .. 3 : i # j => order[i] # order[j]
    BY <1>2 DEF SetToSeqs
  <1>5. IsList(order, 3)
    BY <1>4 DEF IsList
  <1>6. file = (order[1] \o order[2]) \o order[3]
    BY <1>3, <1>5, FlattenThree
  <1>7. 1 \in 1 .. 3 /\ 2 \in 1 .. 3 /\ 3 \in 1 .. 3 /\ 1 # 2 /\ 1 # 3 /\ 2 # 3
    OBVIOUS
  <1>8. PICK u, v, w \in Words :
          order[1] = PartOf(plan, u) /\ order[2] = PartOf(plan, v) /\ order[3] = PartOf(plan, w)
    BY <1>1, <1>4, <1>7
  <1>9. u # v /\ u # w /\ v # w
    BY <1>4, <1>7, <1>8
  <1> QED
    BY <1>6, <1>8, <1>9

\* When they are read, the plan is.
LEMMA FileIsRead ==
  ASSUME NEW plan, IsPlan(plan), NEW file \in FilesOf(plan)
  PROVE  \E n \in Nat :
           /\ IsList(file, n)
           /\ \A g : g[0] = Parser /\ Runs(g, n, file) => HasRead(g[n], plan, Words)
  <1>1. PICK u, v, w \in Words :
          /\ u # v /\ u # w /\ v # w
          /\ file = (PartOf(plan, u) \o PartOf(plan, v)) \o PartOf(plan, w)
    BY FileIsThree
  <1>2. PICK a, b, c, ab : /\ a = PartOf(plan, u) /\ b = PartOf(plan, v) /\ c = PartOf(plan, w)
                           /\ ab = a \o b
    OBVIOUS
  <1>3. PICK l \in Nat, m \in Nat, k \in Nat :
          /\ l = PartSize(plan, u) /\ m = PartSize(plan, v) /\ k = PartSize(plan, w)
          /\ IsList(a, l) /\ IsList(b, m) /\ IsList(c, k)
    BY <1>2, PartIsList
  <1>4. IsJoin(ab, a, b)
    BY <1>2 DEF IsJoin
  <1>5. IsJoin(file, ab, c)
    BY <1>1, <1>2 DEF IsJoin
  <1>6. PICK lm \in Nat : lm = l + m
    OBVIOUS
  <1>7. IsList(ab, lm)
    BY <1>3, <1>4, <1>6, ListsJoin DEF IsJoin
  <1>8. PICK n \in Nat : n = lm + k
    OBVIOUS
  <1>9. IsList(file, n)
    BY <1>3, <1>5, <1>7, <1>8, ListsJoin DEF IsJoin
  <1>10. IsList(a, l) /\ IsList(b, m) /\ IsList(c, k)
    BY <1>3
  <1>11. \A i \in 1 .. l : ab[i] = a[i]
    BY <1>4, <1>10, JoinedFront
  <1>12. \A i \in 1 .. m : ab[l + i] = b[i]
    BY <1>4, <1>10, JoinedBack
  <1>13. \A i \in 1 .. lm : file[i] = ab[i]
    BY <1>5, <1>7, <1>10, JoinedFront
  <1>14. \A i \in 1 .. k : file[lm + i] = c[i]
    BY <1>5, <1>7, <1>10, JoinedBack
  <1>15. Holds(file, 0, a, l)
    <2>1. \A i \in 1 .. l : 0 + i = i /\ i \in 1 .. lm
      BY <1>6
    <2> QED
      BY <1>11, <1>13, <2>1 DEF Holds
  <1>16. Holds(file, l, b, m)
    <2>1. \A i \in 1 .. m : l + i \in 1 .. lm
      BY <1>6
    <2> QED
      BY <1>12, <1>13, <2>1 DEF Holds
  <1>17. Holds(file, lm, c, k)
    BY <1>14 DEF Holds
  <1>18. ASSUME NEW g, g[0] = Parser, Runs(g, n, file) PROVE HasRead(g[n], plan, Words)
    <2>1. HasRead(g[0], plan, {})
      BY <1>18, NothingRead
    <2>2. 0 + l <= n /\ l + m <= n /\ lm + k <= n /\ 0 + l = l /\ 0 \in Nat
      BY <1>6, <1>8
    <2>3. HasRead(g[0 + l], plan, {} \cup {u})
      BY <1>2, <1>3, <1>15, <1>18, <2>1, <2>2, WordIsRead
    <2>4. PICK first : first = {u}
      OBVIOUS
    <2>5. {} \cup {u} = first /\ v \notin first
      BY <1>1, <2>4
    <2>6. HasRead(g[l], plan, first)
      BY <2>2, <2>3, <2>5
    <2>7. HasRead(g[l + m], plan, first \cup {v})
      BY <1>2, <1>3, <1>16, <1>18, <2>2, <2>5, <2>6, WordIsRead
    <2>8. PICK both : both = {u, v}
      OBVIOUS
    <2>9. first \cup {v} = both /\ w \notin both
      BY <1>1, <2>4, <2>8
    <2>10. HasRead(g[lm], plan, both)
      BY <1>6, <2>7, <2>9
    <2>11. HasRead(g[lm + k], plan, both \cup {w})
      BY <1>2, <1>3, <1>17, <1>18, <2>2, <2>9, <2>10, WordIsRead
    <2>12. both \cup {w} = Words
      BY <1>1, <2>8 DEF Words
    <2> QED
      BY <1>8, <2>11, <2>12
  <1> QED
    BY <1>9, <1>18

\* What the fold over the lines of the file gives.
LEMMA PlanIsRead ==
  ASSUME NEW plan, IsPlan(plan), NEW file \in FilesOf(plan)
  PROVE  HasRead(FoldLeft(ReadLine, Parser, file), plan, Words)
  <1>1. PICK n \in Nat :
          /\ IsList(file, n)
          /\ \A g : g[0] = Parser /\ Runs(g, n, file) => HasRead(g[n], plan, Words)
    BY FileIsRead
  <1>2. DOMAIN file = 1 .. n
    BY <1>1, ListFacts
  <1>3. PICK f : f = CHOOSE h : Folding(h, OfLines, Parser, file)
    OBVIOUS
  <1>4. Folding(f, OfLines, Parser, file)
    BY <1>2, <1>3, FoldExists
  <1>5. FoldLeft(ReadLine, Parser, file) = f[DOMAIN file]
    BY <1>3 DEF FoldLeft, MapThenFoldSet, Folding, FoldOf, Step, OfLines
  <1>6. /\ f[1 .. 0] = Parser
        /\ \A k \in 1 .. n : f[1 .. k] = Step(OfLines, f[1 .. k - 1], file[k])
    BY <1>2, <1>4, FoldSteps
  <1>7. PICK g : g = [k \in 0 .. n |-> f[1 .. k]]
    OBVIOUS
  <1>8. g[0] = Parser /\ g[n] = f[DOMAIN file]
    BY <1>2, <1>6, <1>7
  <1>9. Runs(g, n, file)
    <2>1. ASSUME NEW k \in 1 .. n PROVE g[k] = ReadLine(g[k - 1], file[k])
      <3>1. k \in 0 .. n /\ k - 1 \in 0 .. n
        OBVIOUS
      <3>2. f[1 .. k] = Step(OfLines, f[1 .. k - 1], file[k])
        BY <1>6
      <3>3. @ = ReadLine(f[1 .. k - 1], file[k])
        BY DEF Step, OfLines
      <3> QED
        BY <1>7, <3>1, <3>2, <3>3
    <2> QED
      BY <2>1 DEF Runs
  <1> QED
    BY <1>1, <1>5, <1>8, <1>9
-----------------------------------------------------------------------------
(***************************************************************************)
(* The routing table: after k routes the entry of a destination is the     *)
(* last of them to it, or null_route.                                      *)
(***************************************************************************)
AllPorts(plan) == PortsTo(plan, PortCount(plan))

Entry(plan, i) ==
  [RouteAt(plan, i) EXCEPT !.port_id = getPortIDByName(AllPorts(plan), RouteAt(plan, i).portName)]

RouteOf(d, h, q, x) == [dest |-> d, nextHop |-> h, portName |-> q, port_id |-> x]
ToDest(r, x)  == [r EXCEPT !.dest = x]
ToHop(r, x)   == [r EXCEPT !.nextHop = x]
ByName(r, x)  == [r EXCEPT !.portName = x]
ByPort(r, x)  == [r EXCEPT !.port_id = x]

LEMMA RouteChanges ==
  ASSUME NEW d, NEW h, NEW q, NEW x, NEW y
  PROVE  /\ ToDest(RouteOf(d, h, q, x), y) = RouteOf(y, h, q, x)
         /\ ToHop(RouteOf(d, h, q, x), y) = RouteOf(d, y, q, x)
         /\ ByName(RouteOf(d, h, q, x), y) = RouteOf(d, h, y, x)
         /\ ByPort(RouteOf(d, h, q, x), y) = RouteOf(d, h, q, y)
  BY DEF RouteOf, ToDest, ToHop, ByName, ByPort

\* What a route and its entry have of the plan.
LEMMA RouteFields ==
  ASSUME NEW plan, NEW i
  PROVE  /\ RouteAt(plan, i).dest = plan.routes[i].dest
         /\ RouteAt(plan, i).portName = plan.routes[i].portName
         /\ Entry(plan, i).dest = plan.routes[i].dest
         /\ Entry(plan, i).nextHop = plan.routes[i].nextHop
         /\ Entry(plan, i).port_id = getPortIDByName(AllPorts(plan), plan.routes[i].portName)
  <1>1. PICK d, h, q, none : /\ d = plan.routes[i].dest /\ h = plan.routes[i].nextHop
                             /\ q = plan.routes[i].portName /\ none = ""
    OBVIOUS
  <1>2. null_route = RouteOf(-1, -1, none, -1)
    BY <1>1 DEF null_route, RouteOf
  <1>3. RouteAt(plan, i) = ByName(ToHop(ToDest(null_route, d), h), q)
    BY <1>1 DEF RouteAt, HopAt, DestAt, ByName, ToHop, ToDest
  <1>4. @ = RouteOf(d, h, q, -1)
    BY <1>2, RouteChanges
  <1>5. RouteOf(d, h, q, -1).dest = d /\ RouteOf(d, h, q, -1).portName = q
    BY DEF RouteOf
  <1>6. PICK x : x = getPortIDByName(AllPorts(plan), q)
    OBVIOUS
  <1>7. Entry(plan, i) = ByPort(RouteAt(plan, i), x)
    BY <1>3, <1>4, <1>5, <1>6 DEF Entry, ByPort
  <1>8. @ = RouteOf(d, h, q, x)
    BY <1>3, <1>4, RouteChanges
  <1>9. /\ RouteOf(d, h, q, x).dest = d /\ RouteOf(d, h, q, x).nextHop = h
        /\ RouteOf(d, h, q, x).port_id = x
    BY DEF RouteOf
  <1> QED
    BY <1>1, <1>3, <1>4, <1>5, <1>6, <1>7, <1>8, <1>9

\* The port of a route is one with the name that the route gives.
LEMMA PortIsNamed ==
  ASSUME NEW plan, IsPlan(plan), NEW i \in 1 .. RouteCount(plan), NEW name,
         name = plan.routes[i].portName
  PROVE  plan.ports[getPortIDByName(AllPorts(plan), name) + 1].name = name
  <1>1. PICK ports, n : ports = AllPorts(plan) /\ n = PortCount(plan)
    OBVIOUS
  <1>2. n \in Nat
    BY <1>1, PlanFacts
  <1>3. DOMAIN ports = 1 .. n /\ \A j \in 1 .. n : ports[j] = PortAt(plan, j)
    BY <1>1 DEF AllPorts, PortsTo
  <1>4. \A j \in 1 .. n : ports[j].name = plan.ports[j].name /\ ports[j].id = j - 1
    BY <1>3 DEF PortAt
  <1>5. PICK named : named = {j \in DOMAIN ports : ports[j].name = name}
    OBVIOUS
  <1>6. named # {} /\ named \in SUBSET Nat /\ named \subseteq 1 .. n
    <2>1. PICK j \in 1 .. n : plan.ports[j].name = name
      BY <1>1, PlanFacts
    <2> QED
      BY <1>3, <1>4, <1>5, <2>1
  <1>7. Min(named) \in named
    <2>1. PICK k \in named : \A j \in named : k <= j
      BY <1>6, HasLeast
    <2> QED
      BY <2>1 DEF Min
  <1>8. PICK k \in 1 .. n : k = Min(named) /\ ports[k].name = name
    BY <1>5, <1>6, <1>7
  <1>9. getPortIDByName(ports, name) = ports[k].id
    BY <1>5, <1>6, <1>8 DEF getPortIDByName
  <1>10. ports[k].id + 1 = k
    BY <1>2, <1>4
  <1> QED
    BY <1>1, <1>4, <1>8, <1>9, <1>10

NoRoute(plan, k, d)  == \A j \in 1 .. k : plan.routes[j].dest # d
LastTo(plan, k, d, i) ==
  i \in 1 .. k /\ plan.routes[i].dest = d /\ \A j \in i + 1 .. k : plan.routes[j].dest # d

TableHas(t, plan, md, k) ==
  /\ t = [d \in 0 .. md |-> t[d]]
  /\ \A d \in 0 .. md : \/ NoRoute(plan, k, d) /\ t[d] = null_route
                        \/ \E i : LastTo(plan, k, d, i) /\ t[d] = Entry(plan, i)

\* Before the first route there is no entry.
LEMMA EmptyTable ==
  ASSUME NEW plan, NEW md \in Nat
  PROVE  TableHas([d \in 0 .. md |-> null_route], plan, md, 0)
  BY DEF TableHas, NoRoute

\* One more route takes the place of the last one to its destination.
LEMMA TableGrows ==
  ASSUME NEW plan, NEW md \in Nat, NEW k \in Nat, NEW t, NEW u, TableHas(t, plan, md, k),
         NEW e, e \in 0 .. md, e = plan.routes[k + 1].dest
  PROVE  u = [t EXCEPT ![e] = Entry(plan, k + 1)] => TableHas(u, plan, md, k + 1)
  <1>0. HAVE u = [t EXCEPT ![e] = Entry(plan, k + 1)]
  <1>1. t = [d \in 0 .. md |-> t[d]]
    BY DEF TableHas
  <1>2. /\ u = [d \in 0 .. md |-> u[d]] /\ u[e] = Entry(plan, k + 1)
        /\ \A d \in 0 .. md : d # e => u[d] = t[d]
    BY <1>0, <1>1
  <1>3. ASSUME NEW d \in 0 .. md
        PROVE  \/ NoRoute(plan, k + 1, d) /\ u[d] = null_route
               \/ \E i : LastTo(plan, k + 1, d, i) /\ u[d] = Entry(plan, i)
    <2>1. CASE d = e
      <3>1. LastTo(plan, k + 1, d, k + 1)
        BY <2>1 DEF LastTo
      <3> QED
        BY <1>2, <2>1, <3>1
    <2>2. CASE d # e
      <3>1. u[d] = t[d]
        BY <1>2, <2>2
      <3>2. 1 .. k + 1 = 1 .. k \cup {k + 1}
        OBVIOUS
      <3>3. CASE NoRoute(plan, k, d) /\ t[d] = null_route
        BY <2>2, <3>1, <3>2, <3>3 DEF NoRoute
      <3>4. CASE \E i : LastTo(plan, k, d, i) /\ t[d] = Entry(plan, i)
        <4>1. PICK i : LastTo(plan, k, d, i) /\ t[d] = Entry(plan, i)
          BY <3>4
        <4>2. i \in 1 .. k /\ plan.routes[i].dest = d /\ \A j \in i + 1 .. k : plan.routes[j].dest # d
          BY <4>1 DEF LastTo
        <4>3. i \in 1 .. k + 1 /\ \A j \in i + 1 .. k + 1 : j \in i + 1 .. k \/ j = k + 1
          BY <4>2
        <4>4. LastTo(plan, k + 1, d, i)
          BY <2>2, <4>2, <4>3 DEF LastTo
        <4> QED
          BY <3>1, <4>1, <4>4
      <3> QED
        BY <3>3, <3>4 DEF TableHas
    <2> QED
      BY <2>1, <2>2
  <1> QED
    BY <1>2, <1>3 DEF TableHas

\* The table is what a fold over the routes gives.
TableFrom(ports, md, routes) ==
  (CHOOSE h : Folding(h, OfRoutes(ports), [dest \in 0 .. md |-> null_route], routes))[DOMAIN routes]

\* The code that fills the table is that fold.
LEMMA TableIsFold ==
  ASSUME NEW p
  PROVE  RoutingTable(p) = TableFrom(p.ports, p.maxDestId, SubSeq(p.routes, 1, p.currentGroup))
  BY DEF RoutingTable, TableFrom, FoldLeft, MapThenFoldSet, Folding, FoldOf, Step, OfRoutes

\* The whole table.
LEMMA TableIsRight ==
  ASSUME NEW plan, IsPlan(plan), NEW n, n = RouteCount(plan), NEW md, IsMost(md, plan, n)
  PROVE  TableHas(TableFrom(AllPorts(plan), md, RoutesTo(plan, n)), plan, md, n)
  <1>1. n \in Nat /\ md \in Nat
    BY PlanFacts DEF IsMost
  <1>2. PICK ports, routes, base : /\ ports = AllPorts(plan) /\ routes = RoutesTo(plan, n)
                                   /\ base = [dest \in 0 .. md |-> null_route]
    OBVIOUS
  <1>3. DOMAIN routes = 1 .. n /\ \A k \in 1 .. n : routes[k] = RouteAt(plan, k)
    BY <1>2 DEF RoutesTo
  <1>4. PICK f : f = CHOOSE h : Folding(h, OfRoutes(ports), base, routes)
    OBVIOUS
  <1>5. Folding(f, OfRoutes(ports), base, routes)
    BY <1>1, <1>3, <1>4, FoldExists
  <1>6. TableFrom(ports, md, routes) = f[DOMAIN routes]
    BY <1>2, <1>4 DEF TableFrom
  <1>7. /\ f[1 .. 0] = base
        /\ \A k \in 1 .. n : f[1 .. k] = Step(OfRoutes(ports), f[1 .. k - 1], routes[k])
    BY <1>1, <1>3, <1>5, FoldSteps
  <1> DEFINE X == {k \in Nat : TableHas(f[1 .. k], plan, md, k)}
  <1>8. 0 \in X
    BY <1>1, <1>2, <1>7, EmptyTable
  <1>9. ASSUME NEW k \in 0 .. n - 1, k \in X PROVE k + 1 \in X
    <2>1. k \in Nat /\ k + 1 \in 1 .. n /\ k + 1 \in Nat /\ (k + 1) - 1 = k
      BY <1>1
    <2>2. PICK t, u, e : t = f[1 .. k] /\ u = f[1 .. k + 1] /\ e = plan.routes[k + 1].dest
      OBVIOUS
    <2>3. TableHas(t, plan, md, k)
      BY <1>9, <2>2
    <2>4. u = Step(OfRoutes(ports), t, routes[k + 1])
      <3>1. f[1 .. k + 1] = Step(OfRoutes(ports), f[1 .. (k + 1) - 1], routes[k + 1])
        BY <1>7, <2>1
      <3> QED
        BY <2>1, <2>2, <3>1
    <2>5. e \in 0 .. md
      <3>1. e \in Nat /\ e <= md
        BY <2>1, <2>2, PlanFacts DEF IsMost
      <3> QED
        BY <1>1, <3>1
    <2>6. PICK x : x = RouteAt(plan, k + 1) /\ x = routes[k + 1]
      BY <1>3, <2>1
    <2>7. x.dest = e
      BY <2>2, <2>6, RouteFields
    <2>8. u = [t EXCEPT ![x.dest] = [x EXCEPT !.port_id = getPortIDByName(ports, x.portName)]]
      BY <2>4, <2>6 DEF Step, OfRoutes
    <2>9. [x EXCEPT !.port_id = getPortIDByName(ports, x.portName)] = Entry(plan, k + 1)
      BY <1>2, <2>6 DEF Entry
    <2>10. u = [t EXCEPT ![e] = Entry(plan, k + 1)]
      BY <2>7, <2>8, <2>9
    <2>11. TableHas(u, plan, md, k + 1)
      BY <1>1, <2>1, <2>2, <2>3, <2>5, <2>10, TableGrows
    <2> QED
      BY <2>1, <2>2, <2>11
  <1>10. n \in X
    <2>1. \A k \in 0 .. n - 1 : k \in X => k + 1 \in X
      BY <1>9
    <2>2. n \in 0 .. n
      BY <1>1
    <2> HIDE DEF X
    <2> QED
      BY <1>1, <1>8, <2>1, <2>2, Inductive
  <1> QED
    BY <1>2, <1>3, <1>6, <1>10


(***************************************************************************)
(* What the parser makes of a file, whatever the order of its segments.    *)
(***************************************************************************)
LEMMA FileGives ==
  ASSUME NEW plan, IsPlan(plan), NEW file \in FilesOf(plan), NEW id,
         NEW n, n = RouteCount(plan), NEW md, IsMost(md, plan, n)
  PROVE  parseConfigFile(file, id)
           = [id |-> id, type |-> plan.type, ports |-> AllPorts(plan),
              routing |-> TableFrom(AllPorts(plan), md, RoutesTo(plan, n))]
  <1>1. PICK p : p = FoldLeft(ReadLine, Parser, file)
    OBVIOUS
  <1>2. PICK ty, po, ro : ty = plan.type /\ po = AllPorts(plan) /\ ro = RoutesTo(plan, n)
    OBVIOUS
  <1>3. \E seg, m : IsMost(m, plan, n) /\ p = ParserAt(seg, 0, n, m, ty, po, ro)
    <2>1. "type" \in Words /\ "ports" \in Words /\ "routing" \in Words
      BY DEF Words
    <2>2. HasRead(p, plan, Words)
      BY <1>1, PlanIsRead
    <2> QED
      BY <1>2, <2>1, <2>2 DEF HasRead, TypeRead, PortsRead, GroupsRead, RoutesRead, AllPorts
  <1>4. PICK seg : p = ParserAt(seg, 0, n, md, ty, po, ro)
    BY <1>3, MostIsOne
  <1>5. p.type = ty /\ p.ports = po /\ p.maxDestId = md /\ p.routes = ro /\ p.currentGroup = n
    BY <1>4 DEF ParserAt
  <1>6. SubSeq(ro, 1, n) = ro
    <2>1. n \in Nat
      BY PlanFacts
    <2>2. IsList(ro, n)
      BY <1>2, <2>1 DEF RoutesTo, IsList
    <2> QED
      BY <2>2, ListFacts DEF IsList
  <1>7. RoutingTable(p) = TableFrom(po, md, ro)
    BY <1>5, <1>6, TableIsFold
  <1>8. parseConfigFile(file, id)
          = [id |-> id, type |-> p.type, ports |-> p.ports, routing |-> RoutingTable(p)]
    BY <1>1 DEF parseConfigFile
  <1> QED
    BY <1>2, <1>5, <1>7, <1>8

LEMMA PortFields ==
  ASSUME NEW plan, NEW i
  PROVE  /\ PortAt(plan, i).id = i - 1 /\ PortAt(plan, i).name = plan.ports[i].name
         /\ PortAt(plan, i).bandwidth = plan.ports[i].bandwidth
  BY DEF PortAt

\* There is a greatest destination.
LEMMA HasGreatest ==
  ASSUME NEW plan, IsPlan(plan)
  PROVE  \E md : IsMost(md, plan, RouteCount(plan))
  <1>1. RouteCount(plan) \in Nat
    BY PlanFacts
  <1> DEFINE X == {k \in Nat : \E md : IsMost(md, plan, k)}
  <1>2. 0 \in X
    BY DEF IsMost
  <1>3. ASSUME NEW k \in 0 .. RouteCount(plan) - 1, k \in X PROVE k + 1 \in X
    <2>1. PICK md : IsMost(md, plan, k)
      BY <1>3
    <2>2. k \in Nat /\ k + 1 \in Nat /\ k + 1 \in 1 .. RouteCount(plan)
          /\ \A i \in 1 .. k : i \in 1 .. RouteCount(plan)
      BY <1>1
    <2>3. plan.routes[k + 1].dest \in Nat /\ \A i \in 1 .. k : plan.routes[i].dest \in Nat
      BY <2>2, PlanFacts
    <2>4. PICK d \in Nat : d = plan.routes[k + 1].dest
      BY <2>3
    <2>5. IsMost(IF d > md THEN d ELSE md, plan, k + 1)
      BY <2>1, <2>2, <2>3, <2>4, MostGrows
    <2> QED
      BY <2>2, <2>5
  <1>4. \A k \in 0 .. RouteCount(plan) - 1 : k \in X => k + 1 \in X
    BY <1>3
  <1>5. RouteCount(plan) \in 0 .. RouteCount(plan)
    BY <1>1
  <1>6. RouteCount(plan) \in X
    <2> HIDE DEF X
    <2> QED
      BY <1>1, <1>2, <1>4, <1>5, Inductive
  <1> QED
    BY <1>6

(***************************************************************************)
(* For every plan and every order of the segments of its file: what        *)
(* parseConfigFile makes of the file says what the plan says.  The ports   *)
(* have their ids, names and bandwidths in order; every destination of a   *)
(* route is in the routing table; and the entry of a destination is the    *)
(* last route to it, out of the port that the route names.                 *)
(***************************************************************************)
THEOREM ParserReadsPlan ==
  ASSUME NEW plan, IsPlan(plan), NEW file \in FilesOf(plan), NEW id
  PROVE  Says(parseConfigFile(file, id), plan, id)
<1>1. PICK n, md : n = RouteCount(plan) /\ IsMost(md, plan, n)
  BY HasGreatest
<1>2. PICK config : config = parseConfigFile(file, id)
  OBVIOUS
<1>3. PICK table : table = TableFrom(AllPorts(plan), md, RoutesTo(plan, n))
  OBVIOUS
<1>4. config = [id |-> id, type |-> plan.type, ports |-> AllPorts(plan), routing |-> table]
  BY <1>1, <1>2, <1>3, FileGives
<1>5. /\ config.id = id /\ config.type = plan.type /\ config.ports = AllPorts(plan)
      /\ config.routing = table
  BY <1>4
<1>6. TableHas(table, plan, md, n)
  BY <1>1, <1>3, TableIsRight
<1>7. DOMAIN table = 0 .. md
  BY <1>6 DEF TableHas
<1>8. /\ DOMAIN plan.ports = 1 .. PortCount(plan) /\ DOMAIN plan.routes = 1 .. n
      /\ PortCount(plan) \in Nat /\ n \in Nat /\ md \in Nat
  BY <1>1, PlanFacts, ListFacts DEF IsMost
<1>9. /\ DOMAIN config.ports = 1 .. PortCount(plan)
      /\ \A i \in 1 .. PortCount(plan) : config.ports[i] = PortAt(plan, i)
  BY <1>5 DEF AllPorts, PortsTo
<1>10. \A i \in 1 .. PortCount(plan) :
         /\ config.ports[i].id = i - 1 /\ config.ports[i].name = plan.ports[i].name
         /\ config.ports[i].bandwidth = plan.ports[i].bandwidth
  BY <1>9, PortFields
<1>11. [i \in DOMAIN config.ports |-> <<config.ports[i].name, config.ports[i].bandwidth>>]
         = [i \in DOMAIN plan.ports |-> <<plan.ports[i].name, plan.ports[i].bandwidth>>]
  BY <1>8, <1>9, <1>10
<1>12. ASSUME NEW r \in Range(plan.routes) PROVE r.dest \in DOMAIN config.routing
  <2>1. PICK i \in 1 .. n : r = plan.routes[i]
    BY <1>8 DEF Range
  <2>2. r.dest \in Nat /\ r.dest <= md
    BY <1>1, <2>1, PlanFacts DEF IsMost
  <2> QED
    BY <1>5, <1>7, <1>8, <2>2
<1>13. ASSUME NEW dest \in DOMAIN config.routing
       PROVE  EntryIsRight(config.routing[dest], plan, dest)
  <2>1. PICK those : those = {i \in DOMAIN plan.routes : plan.routes[i].dest = dest}
    OBVIOUS
  <2>2. dest \in 0 .. md /\ config.routing[dest] = table[dest]
    BY <1>5, <1>7
  <2>3. CASE NoRoute(plan, n, dest) /\ table[dest] = null_route
    <3>1. those = {}
      BY <1>8, <2>1, <2>3 DEF NoRoute
    <3> QED
      BY <2>1, <2>2, <2>3, <3>1 DEF EntryIsRight
  <2>4. CASE \E i : LastTo(plan, n, dest, i) /\ table[dest] = Entry(plan, i)
    <3>1. PICK i : LastTo(plan, n, dest, i) /\ table[dest] = Entry(plan, i)
      BY <2>4
    <3>2. /\ i \in 1 .. n /\ plan.routes[i].dest = dest
          /\ \A j \in i + 1 .. n : plan.routes[j].dest # dest
      BY <3>1 DEF LastTo
    <3>3. those \in SUBSET (1 .. n) /\ i \in those /\ \A j \in those : j <= i
      <4>1. ASSUME NEW j \in those PROVE j <= i
        <5>1. j \in 1 .. n /\ plan.routes[j].dest = dest
          BY <1>8, <2>1
        <5> QED
          BY <1>8, <3>2, <5>1
      <4> QED
        BY <1>8, <2>1, <3>2, <4>1
    <3>4. Max(those) = i
      <4>1. Max(those) \in those /\ \A y \in those : y <= Max(those)
        BY <1>8, <3>3, HasMost
      <4>2. PICK m \in those : m = Max(those) /\ i <= m
        BY <3>3, <4>1
      <4>3. m \in Int /\ i \in Int /\ m <= i
        BY <3>3, <4>2
      <4> QED
        BY <4>2, <4>3
    <3>5. PICK r, entry, name : /\ r = plan.routes[i] /\ entry = Entry(plan, i)
                                /\ name = plan.routes[i].portName
      OBVIOUS
    <3>6. /\ entry.dest = dest /\ entry.nextHop = r.nextHop
          /\ entry.port_id = getPortIDByName(AllPorts(plan), name)
      BY <3>2, <3>5, RouteFields
    <3>7. plan.ports[entry.port_id + 1].name = name
      BY <1>1, <3>2, <3>5, <3>6, PortIsNamed
    <3>8. EntryIsRight(entry, plan, dest)
      BY <2>1, <3>3, <3>4, <3>5, <3>6, <3>7 DEF EntryIsRight
    <3> QED
      BY <2>2, <3>1, <3>5, <3>8
  <2> QED
    BY <1>6, <2>2, <2>3, <2>4 DEF TableHas
<1> QED
  BY <1>2, <1>5, <1>9, <1>10, <1>11, <1>12, <1>13 DEF Says

\* Its order makes no difference to what a file says.
LEMMA OrderIsFree ==
  ASSUME NEW plan, IsPlan(plan), NEW f \in FilesOf(plan), NEW g \in FilesOf(plan), NEW id
  PROVE  parseConfigFile(f, id) = parseConfigFile(g, id)
  BY HasGreatest, FileGives
=============================================================================
