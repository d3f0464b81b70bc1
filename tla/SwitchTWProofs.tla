---------------------------- MODULE SwitchTWProofs ----------------------------
(***************************************************************************)
(* Proofs about a switch under the optimistic event loop: every event that *)
(* is undone, in whatever order events are handled, undone and cancelled,  *)
(* gives the switch back what the event found.                             *)
(***************************************************************************)
EXTENDS SwitchTW, SwitchProofs

(* The statistics, as the record they are. *)
St(a, b, c, d, r, k) ==
  [received |-> a, num_packets_recvd |-> b, num_packets_dropped |-> c,
   num_packets_sent |-> d, records |-> r, records_capacity |-> k]

\* The statistics are made of their six fields.
LEMMA StIsRecord ==
  ASSUME NEW st, StatsOK(st)
  PROVE  st = St(st.received, st.num_packets_recvd, st.num_packets_dropped,
                 st.num_packets_sent, st.records, st.records_capacity)
  BY DEF StatsOK, St

\* When six fields make proper statistics.
LEMMA StIsOK ==
  ASSUME NEW a, NEW b, NEW c, NEW d, NEW r, NEW k
  PROVE  StatsOK(St(a, b, c, d, r, k)) <=>
           /\ a \in Int /\ b \in Int /\ c \in Int /\ d \in Int /\ r \in Seq(Record) /\ k \in Nat
           /\ Len(r) = b + c
  BY DEF StatsOK, St

\* The two counters that have no records.
WithReceived(st, x) == [st EXCEPT !.received = x]
OneReceived(st) == [st EXCEPT !.received = @ + 1]
WithCounters(st, x, y) == [st EXCEPT !.received = x, !.num_packets_sent = y]

\* Changes of single fields.
LEMMA StFields ==
  ASSUME NEW a, NEW b, NEW c, NEW d, NEW r, NEW k, NEW x, NEW y
  PROVE  /\ WithReceived(St(a, b, c, d, r, k), x) = St(x, b, c, d, r, k)
         /\ WithCounters(St(a, b, c, d, r, k), x, y) = St(x, b, c, y, r, k)
         /\ St(a, b, c, d, r, k).received = a
         /\ St(a, b, c, d, r, k).num_packets_recvd = b
         /\ St(a, b, c, d, r, k).num_packets_dropped = c
         /\ St(a, b, c, d, r, k).num_packets_sent = d
         /\ St(a, b, c, d, r, k).records = r
         /\ St(a, b, c, d, r, k).records_capacity = k
  <1>1. PICK st : st = St(a, b, c, d, r, k)
    OBVIOUS
  <1>2. [st EXCEPT !.received = x] = St(x, b, c, d, r, k)
    BY ONLY <1>1 DEF St
  <1>4. [st EXCEPT !.received = x, !.num_packets_sent = y] = St(x, b, c, y, r, k)
    <2>1. PICK s1 : s1 = [st EXCEPT !.received = x]
      OBVIOUS
    <2>2. s1 = St(x, b, c, d, r, k)
      BY ONLY <1>2, <2>1
    <2>3. [s1 EXCEPT !.num_packets_sent = y] = St(x, b, c, y, r, k)
      BY ONLY <2>2 DEF St
    <2> QED
      BY ONLY <2>1, <2>3
  <1>5. /\ st.received = a
        /\ st.num_packets_recvd = b
        /\ st.num_packets_dropped = c
        /\ st.num_packets_sent = d
        /\ st.records = r
        /\ st.records_capacity = k
    BY ONLY <1>1 DEF St
  <1> QED
    BY ONLY <1>1, <1>2, <1>4, <1>5 DEF WithReceived, WithCounters

\* The statistics but for the size of the array.
Norm(st) == [st EXCEPT !.records_capacity = MaxRecords]

\* The size of the array when it has an entry n and may be full.
Grown(n, k) == IF n + 1 >= k THEN 2 * k ELSE k

\* The entry that is added last is the one that is taken back.
LEMMA UpdateSt ==
  ASSUME NEW a, NEW b \in Int, NEW c \in Int, NEW d, NEW r \in Seq(Record), NEW k, Len(r) = b + c,
         NEW rec \in Record, NEW b2, NEW c2,
         b2 = IF rec.drop THEN b ELSE b + 1, c2 = IF rec.drop THEN c + 1 ELSE c
  PROVE  UpdateStats(St(a, b, c, d, r, k), rec.pid, rec.delay, rec.drop)
           = St(a, b2, c2, d, Append(r, rec), Grown(b + c, k))
  <1>0. PICK pid, delay, drop : pid = rec.pid /\ delay = rec.delay /\ drop = rec.drop
    OBVIOUS
  <1> rec = [pid |-> pid, delay |-> delay, drop |-> drop]
    BY <1>0 DEF Record
  <1>1. PICK n, k2 :
          /\ n = b + c /\ rec = [pid |-> pid, delay |-> delay, drop |-> drop]
          /\ k2 = Grown(n, k)
          /\ b2 = IF drop THEN b ELSE b + 1
          /\ c2 = IF drop THEN c + 1 ELSE c
    BY <1>0
  <1>2. SubSeq(r, 1, n) \o <<rec>> = Append(r, rec)
    <2>1. SubSeq(r, 1, n) = r /\ rec \in Record
      BY <1>1 DEF Record
    <2>2. Append(r, rec) = r \o <<rec>>
      BY <2>1, AppendIsConcat
    <2> QED
      BY ONLY <2>1, <2>2
  <1>3. PICK st : st = St(a, b, c, d, r, k)
    OBVIOUS
  <1>4. PICK s1 : s1 = [st EXCEPT !.records_capacity = IF n + 1 >= @ THEN 2 * @ ELSE @]
    OBVIOUS
  <1>5. PICK s2 : s2 = [s1 EXCEPT !.records = SubSeq(@, 1, n) \o <<rec>>]
    OBVIOUS
  <1>6. PICK s3 : s3 = [s2 EXCEPT !.num_packets_dropped = IF drop THEN @ + 1 ELSE @]
    OBVIOUS
  <1>7. PICK s4 : s4 = [s3 EXCEPT !.num_packets_recvd = IF drop THEN @ ELSE @ + 1]
    OBVIOUS
  <1>8. UpdateStats(st, pid, delay, drop) = s4
    <2>1. st.num_packets_recvd + st.num_packets_dropped = n
      BY ONLY <1>1, <1>3 DEF St
    <2> QED
      BY ONLY <1>1, <1>4, <1>5, <1>6, <1>7, <2>1 DEF UpdateStats
  <1>9. s1 = St(a, b, c, d, r, k2)
    BY ONLY <1>1, <1>3, <1>4 DEF St, Grown
  <1>10. s2 = St(a, b, c, d, Append(r, rec), k2)
    <2>1. s2 = St(a, b, c, d, SubSeq(r, 1, n) \o <<rec>>, k2)
      BY ONLY <1>5, <1>9 DEF St
    <2> QED
      BY ONLY <1>2, <2>1
  <1>11. s3 = St(a, b, c2, d, Append(r, rec), k2)
    BY ONLY <1>1, <1>6, <1>10 DEF St
  <1>12. s4 = St(a, b2, c2, d, Append(r, rec), k2)
    BY ONLY <1>1, <1>7, <1>11 DEF St
  <1> QED
    BY ONLY <1>0, <1>1, <1>3, <1>8, <1>12

\* stats_update_reverse takes back the record and the counter of stats_update.
LEMMA UpdateStUndone ==
  ASSUME NEW a, NEW b \in Int, NEW c \in Int, NEW d, NEW r \in Seq(Record), NEW k, Len(r) = b + c,
         NEW rec \in Record, NEW b2, NEW c2,
         b2 = IF rec.drop THEN b ELSE b + 1, c2 = IF rec.drop THEN c + 1 ELSE c
  PROVE  UpdateStatsReverse(St(a, b2, c2, d, Append(r, rec), k)) = St(a, b, c, d, r, k)
  <1>1. PICK last, r2, drop : last = b2 + c2 /\ r2 = Append(r, rec) /\ drop = rec.drop
    OBVIOUS
  <1>2. drop \in BOOLEAN
    BY <1>1 DEF Record
  <1>3. last = Len(r) + 1
    BY <1>1, <1>2
  <1>4. r2[last] = rec /\ SubSeq(r2, 1, last - 1) = r
    BY <1>1, <1>3
  <1>5. /\ b = IF drop THEN b2 ELSE b2 - 1
        /\ c = IF drop THEN c2 - 1 ELSE c2
    BY <1>1, <1>2
  <1>6. PICK st, s1, s2, s3 :
          /\ st = St(a, b2, c2, d, r2, k)
          /\ s1 = [st EXCEPT !.records = SubSeq(@, 1, last - 1)]
          /\ s2 = [s1 EXCEPT !.num_packets_dropped = IF drop THEN @ - 1 ELSE @]
          /\ s3 = [s2 EXCEPT !.num_packets_recvd = IF drop THEN @ ELSE @ - 1]
    OBVIOUS
  <1>7. st.num_packets_recvd + st.num_packets_dropped = last /\ st.records[last].drop = drop
    BY ONLY <1>1, <1>4, <1>6 DEF St
  <1>8. UpdateStatsReverse(st) = s3
    BY ONLY <1>6, <1>7 DEF UpdateStatsReverse
  <1>9. s1 = St(a, b2, c2, d, r, k)
    <2>1. s1 = St(a, b2, c2, d, SubSeq(r2, 1, last - 1), k)
      BY ONLY <1>6 DEF St
    <2> QED
      BY ONLY <1>4, <2>1
  <1>10. s2 = St(a, b2, c, d, r, k)
    <2>1. s1.num_packets_dropped = c2
      BY ONLY <1>9 DEF St
    <2>2. (IF drop THEN s1.num_packets_dropped - 1 ELSE s1.num_packets_dropped) = c
      BY ONLY <1>5, <2>1
    <2>3. s2 = [s1 EXCEPT !.num_packets_dropped = c]
      BY ONLY <1>6, <2>2
    <2> QED
      BY ONLY <1>9, <2>3 DEF St
  <1>11. s3 = St(a, b, c, d, r, k)
    <2>1. s2.num_packets_recvd = b2
      BY ONLY <1>10 DEF St
    <2>2. (IF drop THEN s2.num_packets_recvd ELSE s2.num_packets_recvd - 1) = b
      BY ONLY <1>5, <2>1
    <2>3. s3 = [s2 EXCEPT !.num_packets_recvd = b]
      BY ONLY <1>6, <2>2
    <2> QED
      BY ONLY <1>10, <2>3 DEF St
  <1> QED
    BY ONLY <1>1, <1>6, <1>8, <1>11

\* What is taken back depends on the records and the two counters only.
LEMMA UpdateStBack ==
  ASSUME NEW b, NEW c, NEW r
  PROVE  \E b2, c2, r2 : \A a, d, k :
           UpdateStatsReverse(St(a, b, c, d, r, k)) = St(a, b2, c2, d, r2, k)
  <1>1. PICK last, drop, b2, c2, r2 :
          /\ last = b + c /\ drop = r[last].drop
          /\ r2 = SubSeq(r, 1, last - 1)
          /\ c2 = IF drop THEN c - 1 ELSE c
          /\ b2 = IF drop THEN b ELSE b - 1
    OBVIOUS
  <1>2. ASSUME NEW a, NEW d, NEW k
        PROVE  UpdateStatsReverse(St(a, b, c, d, r, k)) = St(a, b2, c2, d, r2, k)
    <2>1. PICK st, s1, s2, s3 :
            /\ st = St(a, b, c, d, r, k)
            /\ s1 = [st EXCEPT !.records = SubSeq(@, 1, last - 1)]
            /\ s2 = [s1 EXCEPT !.num_packets_dropped = IF drop THEN @ - 1 ELSE @]
            /\ s3 = [s2 EXCEPT !.num_packets_recvd = IF drop THEN @ ELSE @ - 1]
      OBVIOUS
    <2>2. st.num_packets_recvd + st.num_packets_dropped = last /\ st.records[last].drop = drop
      BY ONLY <1>1, <2>1 DEF St
    <2>3. UpdateStatsReverse(st) = s3
      BY ONLY <2>1, <2>2 DEF UpdateStatsReverse
    <2>4. s1 = St(a, b, c, d, r2, k)
      BY ONLY <1>1, <2>1 DEF St
    <2>5. s2 = St(a, b, c2, d, r2, k)
      BY ONLY <1>1, <2>1, <2>4 DEF St
    <2>6. s3 = St(a, b2, c2, d, r2, k)
      BY ONLY <1>1, <2>1, <2>5 DEF St
    <2> QED
      BY ONLY <2>1, <2>3, <2>6
  <1> QED
    BY ONLY <1>2

\* Two statistics are compared without the capacity of the array.
LEMMA NormSt ==
  ASSUME NEW a, NEW b, NEW c, NEW d, NEW r, NEW k
  PROVE  Norm(St(a, b, c, d, r, k)) = St(a, b, c, d, r, MaxRecords)
  <1>1. PICK st : st = St(a, b, c, d, r, k)
    OBVIOUS
  <1>2. Norm(st) = St(a, b, c, d, r, MaxRecords)
    BY ONLY <1>1 DEF Norm, St
  <1> QED
    BY ONLY <1>1, <1>2

\* The statistics but for the size of the array, in the view of the switch.
LEMMA NormFacts ==
  ASSUME NEW st, StatsOK(st)
  PROVE  /\ Norm(st) = St(st.received, st.num_packets_recvd, st.num_packets_dropped,
                          st.num_packets_sent, st.records, MaxRecords)
         /\ StatsOK(Norm(st))
  <1>1. PICK a, b, c, d, r, k :
          /\ a = st.received /\ b = st.num_packets_recvd /\ c = st.num_packets_dropped
          /\ d = st.num_packets_sent /\ r = st.records /\ k = st.records_capacity
    OBVIOUS
  <1>2. st = St(a, b, c, d, r, k)
    BY <1>1, StIsRecord
  <1>3. Norm(st) = St(a, b, c, d, r, MaxRecords)
    BY ONLY <1>2 DEF Norm, St
  <1>4. /\ a \in Int /\ b \in Int /\ c \in Int /\ d \in Int /\ r \in Seq(Record)
        /\ Len(r) = b + c /\ MaxRecords \in Nat
    BY <1>1, StatsAssumption DEF StatsOK
  <1>5. StatsOK(St(a, b, c, d, r, MaxRecords))
    BY <1>4, StIsOK
  <1> QED
    BY ONLY <1>1, <1>3, <1>5

\* A packet that was received, or dropped, is taken back.
LEMMA RecordUndone ==
  ASSUME NEW st, StatsOK(st), NEW pid \in Nat, NEW delay \in Int,
         NEW drop \in BOOLEAN, NEW st2, st2 = UpdateStats(st, pid, delay, drop)
  PROVE  UpdateStatsReverse(Norm(st2)) = Norm(st)
  <1>0. PICK rec \in Record : rec.pid = pid /\ rec.delay = delay /\ rec.drop = drop
    <2>1. PICK rec : rec = [pid |-> pid, delay |-> delay, drop |-> drop]
      OBVIOUS
    <2> QED
      BY <2>1 DEF Record
  <1>1. PICK a, b, c, d, r, k, b2, c2 :
          /\ a = st.received /\ b = st.num_packets_recvd /\ c = st.num_packets_dropped
          /\ d = st.num_packets_sent /\ r = st.records /\ k = st.records_capacity
          /\ b2 = IF drop THEN b ELSE b + 1
          /\ c2 = IF drop THEN c + 1 ELSE c
    OBVIOUS
  <1>2. /\ st = St(a, b, c, d, r, k)
        /\ Norm(st) = St(a, b, c, d, r, MaxRecords)
    BY <1>1, StIsRecord, NormFacts
  <1>3. /\ a \in Int /\ b \in Int /\ c \in Int /\ d \in Int /\ r \in Seq(Record)
        /\ Len(r) = b + c
    BY <1>1 DEF StatsOK
  <1>4. PICK k2 : st2 = St(a, b2, c2, d, Append(r, rec), k2)
    <2>1. UpdateStats(St(a, b, c, d, r, k), rec.pid, rec.delay, rec.drop)
            = St(a, b2, c2, d, Append(r, rec), Grown(b + c, k))
      <3>1. b2 = (IF rec.drop THEN b ELSE b + 1) /\ c2 = (IF rec.drop THEN c + 1 ELSE c)
        BY ONLY <1>0, <1>1
      <3> QED
        BY <1>3, <3>1, UpdateSt
    <2> QED
      BY ONLY <1>0, <1>2, <2>1, st2 = UpdateStats(st, pid, delay, drop)
  <1>5. Norm(st2) = St(a, b2, c2, d, Append(r, rec), MaxRecords)
    BY ONLY <1>4, NormSt
  <1>6. /\ b2 = IF rec.drop THEN b ELSE b + 1
        /\ c2 = IF rec.drop THEN c + 1 ELSE c
    BY ONLY <1>0, <1>1
  <1>7. UpdateStatsReverse(St(a, b2, c2, d, Append(r, rec), MaxRecords)) =
          St(a, b, c, d, r, MaxRecords)
    BY <1>3, <1>6, UpdateStUndone
  <1> QED
    BY ONLY <1>2, <1>5, <1>7

\* Counting a packet as received and taking that back again, however the
\* records have changed in between.
LEMMA ReceivedUndone ==
  ASSUME NEW st, StatsOK(st), NEW s1, s1 = WithReceived(st, st.received + 1),
         NEW pid \in Nat, NEW delay \in Int, NEW drop \in BOOLEAN
  PROVE  /\ Norm(UpdateStats(s1, pid, delay, drop)).received - 1 = st.received
         /\ WithReceived(Norm(UpdateStats(s1, pid, delay, drop)), st.received)
              = Norm(UpdateStats(st, pid, delay, drop))
  <1>1. PICK a, b, c, d, r, k, a2 :
          /\ a = st.received /\ b = st.num_packets_recvd /\ c = st.num_packets_dropped
          /\ d = st.num_packets_sent /\ r = st.records /\ k = st.records_capacity
          /\ a2 = a + 1
    OBVIOUS
  <1>2. st = St(a, b, c, d, r, k)
    BY <1>1, StIsRecord
  <1>3. /\ a \in Int /\ b \in Int /\ c \in Int /\ r \in Seq(Record) /\ Len(r) = b + c
    BY <1>1 DEF StatsOK
  <1>4. s1 = St(a2, b, c, d, r, k)
    BY ONLY <1>1, <1>2, StFields, s1 = WithReceived(st, st.received + 1)
  <1>0. PICK rec \in Record : rec.pid = pid /\ rec.delay = delay /\ rec.drop = drop
    <2>1. PICK rec : rec = [pid |-> pid, delay |-> delay, drop |-> drop]
      OBVIOUS
    <2> QED
      BY <2>1 DEF Record
  <1>5. PICK b2, c2, r2 :
          /\ b2 = IF drop THEN b ELSE b + 1
          /\ c2 = IF drop THEN c + 1 ELSE c
          /\ r2 = Append(r, rec)
    OBVIOUS
  <1>6. PICK k1 : UpdateStats(s1, pid, delay, drop) = St(a2, b2, c2, d, r2, k1)
    <2>1. UpdateStats(St(a2, b, c, d, r, k), rec.pid, rec.delay, rec.drop)
            = St(a2, b2, c2, d, Append(r, rec), Grown(b + c, k))
      <3>1. b2 = (IF rec.drop THEN b ELSE b + 1) /\ c2 = (IF rec.drop THEN c + 1 ELSE c)
        BY ONLY <1>0, <1>5
      <3> QED
        BY <1>3, <3>1, UpdateSt
    <2> QED
      BY ONLY <1>0, <1>4, <1>5, <2>1
  <1>7. PICK k2 : UpdateStats(st, pid, delay, drop) = St(a, b2, c2, d, r2, k2)
    <2>1. UpdateStats(St(a, b, c, d, r, k), rec.pid, rec.delay, rec.drop)
            = St(a, b2, c2, d, Append(r, rec), Grown(b + c, k))
      <3>1. b2 = (IF rec.drop THEN b ELSE b + 1) /\ c2 = (IF rec.drop THEN c + 1 ELSE c)
        BY ONLY <1>0, <1>5
      <3> QED
        BY <1>3, <3>1, UpdateSt
    <2> QED
      BY ONLY <1>0, <1>2, <1>5, <2>1
  <1>8. /\ Norm(UpdateStats(s1, pid, delay, drop)) = St(a2, b2, c2, d, r2, MaxRecords)
        /\ Norm(UpdateStats(st, pid, delay, drop)) = St(a, b2, c2, d, r2, MaxRecords)
    BY ONLY <1>6, <1>7, NormSt
  <1>9. /\ WithReceived(St(a2, b2, c2, d, r2, MaxRecords), a) = St(a, b2, c2, d, r2, MaxRecords)
        /\ St(a2, b2, c2, d, r2, MaxRecords).received = a2
    BY ONLY StFields
  <1>10. a2 - 1 = a
    BY ONLY <1>1, <1>3
  <1> QED
    BY ONLY <1>1, <1>8, <1>9, <1>10
-----------------------------------------------------------------------------
(* Statistics, as the reverse handlers leave them.                         *)

\* Taking something back does not depend on the size of the array.
LEMMA RecordBack ==
  ASSUME NEW st, StatsOK(st), StatsOK(UpdateStatsReverse(Norm(st)))
  PROVE  /\ Norm(UpdateStatsReverse(st)) = UpdateStatsReverse(Norm(st))
         /\ StatsOK(UpdateStatsReverse(st))
  <1>1. PICK a, b, c, d, r, k :
          /\ a = st.received /\ b = st.num_packets_recvd /\ c = st.num_packets_dropped
          /\ d = st.num_packets_sent /\ r = st.records /\ k = st.records_capacity
    OBVIOUS
  <1>2. st = St(a, b, c, d, r, k) /\ k \in Nat
    BY <1>1, StIsRecord DEF StatsOK
  <1>3. PICK b2, c2, r2 : \A x, y, z :
          UpdateStatsReverse(St(x, b, c, y, r, z)) = St(x, b2, c2, y, r2, z)
    BY UpdateStBack
  <1>4. /\ Norm(st) = St(a, b, c, d, r, MaxRecords)
        /\ UpdateStatsReverse(Norm(st)) = St(a, b2, c2, d, r2, MaxRecords)
        /\ UpdateStatsReverse(st) = St(a, b2, c2, d, r2, k)
    BY ONLY <1>2, <1>3, NormSt
  <1>5. Norm(UpdateStatsReverse(st)) = St(a, b2, c2, d, r2, MaxRecords)
    BY ONLY <1>4, NormSt
  <1>6. StatsOK(St(a, b2, c2, d, r2, MaxRecords))
    BY <1>4
  <1>7. StatsOK(St(a, b2, c2, d, r2, k))
    BY ONLY <1>2, <1>6, StIsOK
  <1> QED
    BY ONLY <1>4, <1>5, <1>7

\* The same for the counters that have no records.
LEMMA CountersBack ==
  ASSUME NEW st, StatsOK(st), NEW x \in Int, NEW y \in Int
  PROVE  /\ WithReceived(Norm(st), x) = Norm(WithReceived(st, x))
         /\ WithCounters(Norm(st), x, y)
              = Norm(WithCounters(st, x, y))
         /\ StatsOK(WithReceived(st, x))
         /\ StatsOK(WithCounters(st, x, y))
         /\ Norm(st).received = st.received
         /\ Norm(st).num_packets_sent = st.num_packets_sent
         /\ st.received \in Int /\ st.num_packets_sent \in Int
  <1>1. PICK a, b, c, d, r, k :
          /\ a = st.received /\ b = st.num_packets_recvd /\ c = st.num_packets_dropped
          /\ d = st.num_packets_sent /\ r = st.records /\ k = st.records_capacity
    OBVIOUS
  <1>2. st = St(a, b, c, d, r, k)
    BY <1>1, StIsRecord
  <1>3. /\ a \in Int /\ b \in Int /\ c \in Int /\ d \in Int /\ r \in Seq(Record) /\ k \in Nat
        /\ Len(r) = b + c
    BY <1>1 DEF StatsOK
  <1>4. /\ WithReceived(st, x) = St(x, b, c, d, r, k)
        /\ WithCounters(st, x, y) = St(x, b, c, y, r, k)
    BY ONLY <1>2, StFields
  <1>5. PICK n : n = St(a, b, c, d, r, MaxRecords)
    OBVIOUS
  <1>6. /\ WithReceived(n, x) = St(x, b, c, d, r, MaxRecords)
        /\ WithCounters(n, x, y) = St(x, b, c, y, r, MaxRecords)
    BY ONLY <1>5, StFields
  <1>7. Norm(st) = n
    BY ONLY <1>2, <1>5, NormSt
  <1>8. /\ Norm(WithReceived(st, x)) = St(x, b, c, d, r, MaxRecords)
        /\ Norm(WithCounters(st, x, y)) = St(x, b, c, y, r, MaxRecords)
    BY ONLY <1>4, NormSt
  <1>9. StatsOK(St(x, b, c, d, r, k)) /\ StatsOK(St(x, b, c, y, r, k))
    BY <1>3, StIsOK
  <1>10. n.received = a /\ n.num_packets_sent = d
    BY ONLY <1>5, StFields
  <1> QED
    BY ONLY <1>1, <1>3, <1>4, <1>6, <1>7, <1>8, <1>9, <1>10

\* Two counters that are counted up and down again.
LEMMA CountersUndone ==
  ASSUME NEW st, StatsOK(st), NEW x \in Int, NEW y \in Int, NEW st2,
         st2 = WithCounters(st, x, y)
  PROVE  WithCounters(Norm(st2), st.received, st.num_packets_sent)
           = Norm(st)
  <1>1. PICK a, b, c, d, r, k :
          /\ a = st.received /\ b = st.num_packets_recvd /\ c = st.num_packets_dropped
          /\ d = st.num_packets_sent /\ r = st.records /\ k = st.records_capacity
    OBVIOUS
  <1>2. st = St(a, b, c, d, r, k)
    BY <1>1, StIsRecord
  <1>3. st2 = St(x, b, c, y, r, k)
    BY ONLY <1>2, StFields, st2 = WithCounters(st, x, y)
  <1>4. PICK n : n = St(x, b, c, y, r, MaxRecords)
    OBVIOUS
  <1>5. WithCounters(n, a, d) = St(a, b, c, d, r, MaxRecords)
    BY ONLY <1>4, StFields
  <1> QED
    BY ONLY <1>1, <1>2, <1>3, <1>4, <1>5, NormSt
-----------------------------------------------------------------------------
(* Droppers.  What a switch does depends on their averages, and rollback   *)
(* restores these.                                                         *)

\* A dropper with its two fields.
Dropper(d) == [avg |-> d.avg, q_time |-> d.q_time]

Shaped(ds) == ds = [i \in Droppers |-> Dropper(ds[i])]

Avgs(ds) == [i \in Droppers |-> ds[i].avg]

\* What it means that the droppers are an array of droppers.
LEMMA ShapedFacts ==
  ASSUME NEW ds
  PROVE  Shaped(ds) <=> /\ ds = [i \in Droppers |-> ds[i]]
                        /\ \A i \in Droppers : ds[i] = Dropper(ds[i])
  BY DEF Shaped

\* The averages of an array of droppers.
LEMMA AvgsFacts ==
  ASSUME NEW ds, NEW ds2
  PROVE  /\ Avgs(ds) = Avgs(ds2) <=> \A i \in Droppers : ds[i].avg = ds2[i].avg
         /\ DOMAIN Avgs(ds) = Droppers
         /\ \A i \in Droppers : Avgs(ds)[i] = ds[i].avg
  BY DEF Avgs

\* A new value for one dropper, and a new time for one.
PutIn(f, i, y)   == [f EXCEPT ![i] = y]
Timed(ds, i, t) == [ds EXCEPT ![i].q_time = t]

\* Writing one dropper writes one average.
LEMMA OneDropper ==
  ASSUME NEW ds, Shaped(ds), NEW i, NEW d, d = Dropper(d), NEW ds2, ds2 = PutIn(ds, i, d)
  PROVE  Shaped(ds2) /\ Avgs(ds2) = PutIn(Avgs(ds), i, d.avg)
  <1>1. /\ ds = [j \in Droppers |-> ds[j]]
        /\ \A j \in Droppers : ds[j] = Dropper(ds[j])
    BY ShapedFacts
  <1>2. ds2 = [j \in Droppers |-> IF j = i THEN d ELSE ds[j]]
    BY <1>1 DEF PutIn
  <1>3. Shaped(ds2)
    BY <1>1, <1>2, ShapedFacts
  <1>4. PutIn(Avgs(ds), i, d.avg) = [j \in Droppers |-> IF j = i THEN d.avg ELSE ds[j].avg]
    BY DEF Avgs, PutIn
  <1>5. Avgs(ds2) = [j \in Droppers |-> IF j = i THEN d.avg ELSE ds[j].avg]
    BY <1>2 DEF Avgs
  <1> QED
    BY ONLY <1>3, <1>4, <1>5

\* Writing the time of a dropper writes no average.
LEMMA OneTime ==
  ASSUME NEW ds, Shaped(ds), NEW i, NEW t, NEW ds2, ds2 = Timed(ds, i, t)
  PROVE  Shaped(ds2) /\ Avgs(ds2) = Avgs(ds)
  <1>1. /\ ds = [j \in Droppers |-> ds[j]]
        /\ \A j \in Droppers : ds[j] = Dropper(ds[j])
    BY ShapedFacts
  <1>2. PICK d : d = [ds[i] EXCEPT !.q_time = t]
    OBVIOUS
  <1>3. ds2 = [j \in Droppers |-> IF j = i THEN d ELSE ds[j]]
    BY <1>1, <1>2 DEF Timed
  <1>4. ASSUME i \in Droppers PROVE d = Dropper(d) /\ d.avg = ds[i].avg
    <2>1. PICK old : old = ds[i]
      OBVIOUS
    <2>2. old = [avg |-> old.avg, q_time |-> old.q_time]
      BY ONLY <1>1, <1>4, <2>1 DEF Dropper
    <2>3. d = [avg |-> old.avg, q_time |-> t]
      BY ONLY <1>2, <2>1, <2>2
    <2> QED
      BY ONLY <2>1, <2>3 DEF Dropper
  <1>5. Shaped(ds2)
    BY <1>1, <1>3, <1>4, ShapedFacts
  <1>6. \A j \in Droppers : ds2[j].avg = ds[j].avg
    BY ONLY <1>3, <1>4
  <1>7. Avgs(ds2) = Avgs(ds)
    BY <1>6, AvgsFacts
  <1> QED
    BY ONLY <1>5, <1>7
-----------------------------------------------------------------------------
(* What the reverse handlers make of the statistics.                       *)

DroppedStatsBack(st) == UpdateStatsReverse(WithReceived(st, st.received - 1))

QueuedStatsBack(m, st) ==
  WithCounters(st, st.received - 1,
               IF "c2" \in m.bf THEN st.num_packets_sent - 1 ELSE st.num_packets_sent)

\* Counting a packet received writes one counter.
LEMMA OneCounter ==
  ASSUME NEW st, StatsOK(st), NEW x
  PROVE  WithReceived(st, x) = WithCounters(st, x, st.num_packets_sent)
  <1>1. PICK a, b, c, d, r, k :
          /\ a = st.received /\ b = st.num_packets_recvd /\ c = st.num_packets_dropped
          /\ d = st.num_packets_sent /\ r = st.records /\ k = st.records_capacity
    OBVIOUS
  <1>2. st = St(a, b, c, d, r, k)
    BY <1>1, StIsRecord
  <1>3. /\ WithReceived(st, x) = St(x, b, c, d, r, k)
        /\ WithCounters(st, x, d) = St(x, b, c, d, r, k)
    BY ONLY <1>2, StFields
  <1> QED
    BY ONLY <1>1, <1>3

\* The statistics of a packet that was dropped or had arrived are taken back.
LEMMA DroppedStatsUndone ==
  ASSUME NEW st, StatsOK(st), NEW pid \in Nat, NEW delay \in Int, NEW drop \in BOOLEAN
  PROVE  DroppedStatsBack(Norm(UpdateStats(OneReceived(st), pid, delay, drop))) = Norm(st)
  <1>1. PICK s1, st2 : s1 = OneReceived(st) /\ st2 = UpdateStats(s1, pid, delay, drop)
    OBVIOUS
  <1>2. PICK n, n2 :
          n = Norm(UpdateStats(s1, pid, delay, drop)) /\ n2 = UpdateStats(st, pid, delay, drop)
    OBVIOUS
  <1>3. n.received - 1 = st.received /\ WithReceived(n, st.received) = Norm(n2)
    <2>1. s1 = WithReceived(st, st.received + 1)
      BY <1>1 DEF WithReceived, OneReceived
    <2> QED
      BY <1>2, <2>1, ReceivedUndone
  <1>4. UpdateStatsReverse(Norm(n2)) = Norm(st)
    BY <1>2, RecordUndone
  <1>5. n = Norm(st2)
    BY ONLY <1>1, <1>2
  <1> QED
    BY ONLY <1>1, <1>3, <1>4, <1>5 DEF DroppedStatsBack

\* The statistics of a packet that was queued or sent at once are taken back.
LEMMA QueuedStatsUndone ==
  ASSUME NEW st, StatsOK(st), NEW m, NEW st2,
         \/ "c2" \notin m.bf /\ st2 = [st EXCEPT !.received = @ + 1]
         \/ "c2" \in m.bf /\ st2 = [st EXCEPT !.received = @ + 1, !.num_packets_sent = @ + 1]
  PROVE  QueuedStatsBack(m, Norm(st2)) = Norm(st)
  <1>1. PICK a, a2, d, d2, st1 :
          /\ a = st.received /\ d = st.num_packets_sent /\ a2 = a + 1
          /\ d2 = IF "c2" \in m.bf THEN d + 1 ELSE d
          /\ st1 = [st EXCEPT !.received = @ + 1]
    OBVIOUS
  <1>2. a \in Int /\ a2 \in Int /\ d \in Int /\ d2 \in Int
    BY ONLY <1>1, StatsOK(st), CountersBack, 0 \in Int
  <1>3. st1 = WithReceived(st, a2) /\ st1 = WithCounters(st, a2, d)
    BY ONLY <1>1, StatsOK(st), OneCounter DEF WithReceived
  <1>4. st2 = WithCounters(st, a2, d2)
    <2>1. CASE "c2" \in m.bf
      BY ONLY <1>1, <2>1, \/ "c2" \notin m.bf /\ st2 = [st EXCEPT !.received = @ + 1]
                          \/ /\ "c2" \in m.bf
                             /\ st2 = [st EXCEPT !.received = @ + 1, !.num_packets_sent = @ + 1]
         DEF WithCounters
    <2>2. CASE "c2" \notin m.bf
      BY <1>1, <1>3, <2>2
    <2> QED
      BY ONLY <2>1, <2>2
  <1>5. StatsOK(st2) /\ st2.received = a2 /\ st2.num_packets_sent = d2
    <2>1. StatsOK(st2)
      BY <1>2, <1>4, CountersBack
    <2>2. PICK b, c, r, k :
            /\ b = st.num_packets_recvd /\ c = st.num_packets_dropped
            /\ r = st.records /\ k = st.records_capacity
      OBVIOUS
    <2>3. st2 = St(a2, b, c, d2, r, k)
      BY ONLY <1>1, <1>4, <2>2, StatsOK(st), StIsRecord, StFields
    <2> QED
      BY ONLY <2>1, <2>3, StFields
  <1>6. WithCounters(Norm(st2), a, d) = Norm(st)
    BY <1>1, <1>2, <1>4, CountersUndone
  <1>7. Norm(st2).received = a2 /\ Norm(st2).num_packets_sent = d2
    BY ONLY <1>5, CountersBack, 0 \in Int
  <1>8. /\ Norm(st2).received - 1 = a
        /\ (IF "c2" \in m.bf THEN Norm(st2).num_packets_sent - 1
                             ELSE Norm(st2).num_packets_sent) = d
    BY ONLY <1>1, <1>2, <1>7
  <1> QED
    BY ONLY <1>6, <1>8 DEF QueuedStatsBack

\* The size of the array does not matter to them.
LEMMA DroppedStatsCommute ==
  ASSUME NEW st, StatsOK(st), StatsOK(DroppedStatsBack(Norm(st)))
  PROVE  /\ Norm(DroppedStatsBack(st)) = DroppedStatsBack(Norm(st))
         /\ StatsOK(DroppedStatsBack(st))
  <1>1. PICK x : x = st.received - 1
    OBVIOUS
  <1>2. x \in Int
    BY <1>1, 0 \in Int, CountersBack
  <1>3. PICK s1 : s1 = WithReceived(st, x)
    OBVIOUS
  <1>4. StatsOK(s1) /\ Norm(s1) = WithReceived(Norm(st), x)
    BY <1>2, <1>3, CountersBack
  <1>5. Norm(st).received - 1 = x
    BY <1>1, 0 \in Int, CountersBack
  <1>6. DroppedStatsBack(Norm(st)) = UpdateStatsReverse(Norm(s1))
    BY ONLY <1>4, <1>5 DEF DroppedStatsBack
  <1>7. DroppedStatsBack(st) = UpdateStatsReverse(s1)
    BY ONLY <1>1, <1>3 DEF DroppedStatsBack
  <1> QED
    BY <1>4, <1>6, <1>7, RecordBack

\* Taking them back does not depend on the capacity of the array.
LEMMA QueuedStatsCommute ==
  ASSUME NEW st, StatsOK(st), NEW m
  PROVE  /\ Norm(QueuedStatsBack(m, st)) = QueuedStatsBack(m, Norm(st))
         /\ StatsOK(QueuedStatsBack(m, st))
  <1>1. PICK x, y : /\ x = st.received - 1
                    /\ y = IF "c2" \in m.bf THEN st.num_packets_sent - 1 ELSE st.num_packets_sent
    OBVIOUS
  <1>2. /\ st.received \in Int /\ st.num_packets_sent \in Int
        /\ Norm(st).received = st.received /\ Norm(st).num_packets_sent = st.num_packets_sent
    BY 0 \in Int, CountersBack
  <1>3. x \in Int /\ y \in Int
    BY ONLY <1>1, <1>2
  <1>4. /\ QueuedStatsBack(m, st) = WithCounters(st, x, y)
        /\ QueuedStatsBack(m, Norm(st)) = WithCounters(Norm(st), x, y)
    BY ONLY <1>1, <1>2 DEF QueuedStatsBack
  <1> QED
    BY <1>3, <1>4, CountersBack
-----------------------------------------------------------------------------
(* What a reverse handler makes of the parts of a view of the switch,      *)
(* given what m the forward handler left with its event.                   *)

MetersBack(m, ms) == [ms EXCEPT ![m.saved.meter_index] = m.saved.meter_state]

AvgsBack(m, avgs) ==
  IF "c5" \in m.bf THEN [avgs EXCEPT ![YellowOf(m.saved.meter_index)] = m.saved.dropper_state.avg]
  ELSE IF "c6" \in m.bf THEN [avgs EXCEPT ![GreenOf(m.saved.meter_index)] = m.saved.dropper_state.avg]
  ELSE avgs

ServedBack(m, bit, qs) ==
  IF bit \in m.bf THEN ServeReverse(qs, m.port_id, m.saved.scheduler_state) ELSE qs

WireBack(m, bit, times) ==
  IF bit \in m.bf THEN [times EXCEPT ![m.port_id] = m.saved.port_available_time_rc] ELSE times

FlagBack(m, bit, flag, flags) ==
  IF bit \in m.bf THEN [flags EXCEPT ![m.port_id] = flag] ELSE flags

ShaperBack(m, bs) == [bs EXCEPT ![m.port_id] = m.saved.shaper_state]

LastOut(queue) == SubSeq(queue, 1, Len(queue) - 1)
Dequeued(m, qs) == [qs EXCEPT ![m.saved.meter_index] = LastOut(@)]

\* The head of a queue, put back before its tail.
LEMMA HeadBack ==
  ASSUME NEW S, NEW queue \in Seq(S), queue # <<>>, NEW p, p = Head(queue)
  PROVE  <<p>> \o Tail(queue) = queue
  OBVIOUS

\* The last of a queue, taken off again.
LEMMA LastBack ==
  ASSUME NEW S, NEW queue \in Seq(S), NEW p \in S
  PROVE  LastOut(Append(queue, p)) = queue
  <1>1. PICK q2, n : q2 = Append(queue, p) /\ n = Len(queue)
    OBVIOUS
  <1>2. Len(q2) - 1 = n /\ n \in Nat
    BY <1>1
  <1>3. SubSeq(q2, 1, n) = queue
    BY <1>1
  <1> QED
    BY ONLY <1>1, <1>2, <1>3 DEF LastOut

\* The scheduler puts back the packet it served at the head of its queue.
LEMMA ServeIsUndone ==
  ASSUME NEW qs \in [Queues -> Seq(QueuedPackets)], NEW port \in Ports, Backlogged(qs, port),
         NEW state, state.last_priority = NextLevel(qs, port), state.packet = NextPacket(qs, port)
  PROVE  ServeReverse(Serve(qs, port), port, state) = qs
  <1>1. PICK i : i = MeterIndex(port, NextLevel(qs, port))
    OBVIOUS
  <1>2. i \in Queues /\ qs[i] # <<>> /\ NextPacket(qs, port) = Head(qs[i])
    BY <1>1, NextLevelFacts, IndexFacts DEF NextPacket
  <1>3. PICK queue, p : queue = qs[i] /\ p = NextPacket(qs, port)
    OBVIOUS
  <1>4. queue \in Seq(QueuedPackets) /\ queue # <<>> /\ p = Head(queue)
    BY <1>2, <1>3
  <1>5. <<p>> \o Tail(queue) = queue
    BY <1>4, HeadBack
  <1>6. PICK qs2 : qs2 = [qs EXCEPT ![i] = Tail(queue)]
    OBVIOUS
  <1>7. Serve(qs, port) = qs2
    BY ONLY <1>1, <1>3, <1>6 DEF Serve
  <1>8. qs2[i] = Tail(queue)
    BY <1>2, <1>6
  <1>9. [qs2 EXCEPT ![i] = queue] = qs
    BY <1>2, <1>3, <1>6
  <1>10. ServeReverse(qs2, port, state) = [qs2 EXCEPT ![i] = <<p>> \o qs2[i]]
    BY ONLY <1>1, <1>3, state.last_priority = NextLevel(qs, port),
            state.packet = NextPacket(qs, port) DEF ServeReverse
  <1> QED
    BY ONLY <1>5, <1>7, <1>8, <1>9, <1>10

\* A packet that was queued is taken off the tail again.
LEMMA EnqueueIsUndone ==
  ASSUME queues \in [Queues -> Seq(QueuedPackets)], NEW p \in QueuedPackets,
         NEW m, m.saved.meter_index = PacketMeter(p)
  PROVE  Dequeued(m, Enqueued(p)) = queues
  <1>1. PICK i : i = PacketMeter(p)
    OBVIOUS
  <1>2. PICK qs : qs = Enqueued(p)
    OBVIOUS
  <1>3. qs = [queues EXCEPT ![i] = Append(@, p)]
    BY ONLY <1>1, <1>2 DEF Enqueued
  <1>4. Dequeued(m, qs) = [qs EXCEPT ![i] = LastOut(@)]
    BY ONLY <1>1, m.saved.meter_index = PacketMeter(p) DEF Dequeued
  <1>5. ASSUME i \in Queues PROVE LastOut(qs[i]) = queues[i]
    <2>1. PICK queue : queue = queues[i]
      OBVIOUS
    <2>2. queue \in Seq(QueuedPackets) /\ qs[i] = Append(queue, p)
      BY <1>3, <1>5, <2>1
    <2> QED
      BY <2>1, <2>2, LastBack
  <1>6. [qs EXCEPT ![i] = LastOut(@)] = queues
    BY <1>3, <1>5
  <1> QED
    BY ONLY <1>2, <1>4, <1>6
-----------------------------------------------------------------------------
(***************************************************************************)
(* Undone(entry, v): undoing this entry of the log in the view v gives the *)
(* view b that its event found, but for the times of the droppers.         *)
(***************************************************************************)
FinalUndone(m, b, v) ==
  /\ v.meters = b.meters
  /\ v.queues = b.queues
  /\ Avgs(v.droppers) = Avgs(b.droppers)
  /\ v.shapers = b.shapers
  /\ v.port_flags = b.port_flags
  /\ v.ports_available_time = b.ports_available_time
  /\ UpdateStatsReverse(v.stats) = b.stats

PolicingUndone(m, b, v) ==
  /\ MetersBack(m, v.meters) = b.meters
  /\ AvgsBack(m, Avgs(v.droppers)) = Avgs(b.droppers)
  /\ "c5" \in m.bf \/ "c6" \in m.bf => m.saved.dropper_state = Dropper(m.saved.dropper_state)

DroppedUndone(m, b, v) ==
  /\ PolicingUndone(m, b, v)
  /\ v.queues = b.queues
  /\ v.shapers = b.shapers
  /\ v.port_flags = b.port_flags
  /\ v.ports_available_time = b.ports_available_time
  /\ DroppedStatsBack(v.stats) = b.stats

QueuedUndone(m, b, v) ==
  /\ PolicingUndone(m, b, v)
  /\ Dequeued(m, ServedBack(m, "c2", v.queues)) = b.queues
  /\ ShaperBack(m, v.shapers) = b.shapers
  /\ FlagBack(m, "c3", 0, v.port_flags) = b.port_flags
  /\ WireBack(m, "c2", v.ports_available_time) = b.ports_available_time
  /\ QueuedStatsBack(m, v.stats) = b.stats

ArriveUndone(m, b, v) ==
  IF "c0" \in m.bf THEN FinalUndone(m, b, v)
  ELSE IF "c1" \in m.bf THEN DroppedUndone(m, b, v)
  ELSE QueuedUndone(m, b, v)

SendUndone(m, b, v) ==
  /\ v.meters = b.meters
  /\ Avgs(v.droppers) = Avgs(b.droppers)
  /\ ServedBack(m, "c0", v.queues) = b.queues
  /\ ShaperBack(m, v.shapers) = b.shapers
  /\ FlagBack(m, "c1", 1, v.port_flags) = b.port_flags
  /\ WireBack(m, "c0", v.ports_available_time) = b.ports_available_time
  /\ v.stats = b.stats

Undone(entry, v) ==
  \/ entry.event.type = "ARRIVE" /\ ArriveUndone(entry.done, entry.before, v)
  \/ entry.event.type = "SEND" /\ SendUndone(entry.done, entry.before, v)

\* The fields of the view.
LEMMA ViewFields ==
  /\ View.meters = meters /\ View.queues = queues /\ View.droppers = droppers
  /\ View.shapers = shapers /\ View.port_flags = port_flags
  /\ View.ports_available_time = ports_available_time /\ View.stats = Norm(stats)
  BY DEF View, Norm

\* The fields of the view after a step.
LEMMA ViewFieldsNext ==
  /\ View'.meters = meters' /\ View'.queues = queues' /\ View'.droppers = droppers'
  /\ View'.shapers = shapers' /\ View'.port_flags = port_flags'
  /\ View'.ports_available_time = ports_available_time' /\ View'.stats = Norm(stats')
  BY DEF View, Norm
-----------------------------------------------------------------------------
(* What the forward handlers do to the droppers.                           *)

\* A decision of a dropper writes the average of that dropper only.
LEMMA JudgedFacts ==
  ASSUME Shaped(droppers), NEW p, NEW time, PacketMeter(p) \in Queues,
         Considered(p, time), NEW i, i = DropperOf(p, time)
  PROVE  /\ droppers[i] = Dropper(droppers[i])
         /\ Shaped(Judged(p, time))
         /\ [Avgs(Judged(p, time)) EXCEPT ![i] = droppers[i].avg] = Avgs(droppers)
  <1>1. i \in Droppers
    BY DropperIndexFacts DEF DropperOf
  <1>2. PICK d, qlen : d = droppers[i] /\ qlen = QueueLength(p)
    OBVIOUS
  <1>3. d = Dropper(d)
    BY <1>1, <1>2, ShapedFacts
  <1>4. PICK d2 : d2 = DropperUpdate(d, qlen, time)
    OBVIOUS
  <1>5. d2 = Dropper(d2)
    <2>1. CASE qlen > 0
      <3>1. PICK avg : avg = d.avg + (qlen * AvgUnit - d.avg) \div Gain
        OBVIOUS
      <3>2. d2 = [d EXCEPT !.avg = avg]
        BY ONLY <1>4, <2>1, <3>1 DEF DropperUpdate
      <3>3. d2 = [avg |-> avg, q_time |-> d.q_time]
        BY ONLY <1>3, <3>2 DEF Dropper
      <3> QED
        BY ONLY <3>3 DEF Dropper
    <2>2. CASE ~ (qlen > 0)
      <3>1. d2 = [avg |-> Aged(d.avg, time - d.q_time), q_time |-> time]
        BY ONLY <1>4, <2>2 DEF DropperUpdate
      <3> QED
        BY ONLY <3>1 DEF Dropper
    <2> QED
      BY ONLY <2>1, <2>2
  <1>6. PICK ds : ds = Judged(p, time)
    OBVIOUS
  <1>7. ds = PutIn(droppers, i, d2)
    BY <1>2, <1>4, <1>6 DEF Judged, PutIn
  <1>8. Shaped(ds) /\ Avgs(ds) = PutIn(Avgs(droppers), i, d2.avg)
    BY <1>5, <1>7, OneDropper
  <1>9. [Avgs(ds) EXCEPT ![i] = d.avg] = Avgs(droppers)
    <2>1. PICK f, g, y : f = Avgs(droppers) /\ g = Avgs(ds) /\ y = d2.avg
      OBVIOUS
    <2>2. f = [x \in Droppers |-> f[x]] /\ f[i] = d.avg
      BY <1>1, <1>2, <2>1 DEF Avgs
    <2>3. g = [f EXCEPT ![i] = y]
      BY ONLY <1>8, <2>1 DEF PutIn
    <2>4. [g EXCEPT ![i] = f[i]] = f
      BY ONLY <2>2, <2>3
    <2> QED
      BY ONLY <2>1, <2>2, <2>4
  <1> QED
    BY ONLY <1>2, <1>3, <1>6, <1>8, <1>9

\* The averages are left as they are when a queue has run empty.
LEMMA StampedFacts ==
  ASSUME NEW qs, NEW ds, Shaped(ds), NEW port, NEW time
  PROVE  Shaped(Stamped(qs, ds, port, time)) /\ Avgs(Stamped(qs, ds, port, time)) = Avgs(ds)
  <1>1. PICK i, i2 : i = StampedDropper(port, NextLevel(qs, port)) /\ i2 = i + 1
    OBVIOUS
  <1>2. PICK ds1 : ds1 = Timed(ds, i, time)
    OBVIOUS
  <1>3. PICK ds2 : ds2 = Timed(ds1, i2, time)
    OBVIOUS
  <1>4. Shaped(ds2) /\ Avgs(ds2) = Avgs(ds)
    BY <1>2, <1>3, OneTime
  <1>5. Stamped(qs, ds, port, time) = IF Emptied(qs, port) THEN ds2 ELSE ds
    BY ONLY <1>1, <1>2, <1>3 DEF Stamped, DropperTimeUpdate, Timed
  <1> QED
    BY ONLY <1>4, <1>5, Shaped(ds)
-----------------------------------------------------------------------------
(* What the forward handlers save.                                         *)

\* What is saved of the meter and the droppers.
PolicingSaved(s, p, time) ==
  /\ s.meter_index = PacketMeter(p)
  /\ s.meter_state = meters[PacketMeter(p)]
  /\ Considered(p, time) => s.dropper_state = droppers[DropperOf(p, time)]

\* What handle_arrive_event saves in the message.
LEMMA SavedByArrive ==
  ASSUME NEW p, NEW time, NEW port, port = OutPort(p), NEW qs, qs = Enqueued(p)
  PROVE  LET policing == PolicingSnapshot(p, time)
             waiting  == WaitingSnapshot(p, time)
             sending  == SendingSnapshot(p, time)
         IN  /\ PolicingSaved(policing, p, time)
             /\ PolicingSaved(waiting, p, time)
             /\ PolicingSaved(sending, p, time)
             /\ waiting.shaper_state = shapers[port]
             /\ sending.shaper_state = shapers[port]
             /\ sending.scheduler_state.last_priority = NextLevel(qs, port)
             /\ sending.scheduler_state.packet = NextPacket(qs, port)
             /\ sending.port_available_time_rc = ports_available_time[port]
  <1>1. PICK a, b, c, d, e, f, g :
          /\ a = PacketMeter(p) /\ b = meters[PacketMeter(p)]
          /\ c = SavedDropper(p, time) /\ d = SavedTime(p, time)
          /\ e = shapers[port] /\ f = SavedScheduler(qs, port) /\ g = ports_available_time[port]
    OBVIOUS
  <1>2. PICK s, w, v :
          /\ s = PolicingSnapshot(p, time) /\ w = WaitingSnapshot(p, time)
          /\ v = SendingSnapshot(p, time)
    OBVIOUS
  <1>3. s.meter_index = a /\ s.meter_state = b /\ s.dropper_state = c
    BY ONLY <1>1, <1>2 DEF PolicingSnapshot
  <1>4. w.meter_index = a /\ w.meter_state = b /\ w.dropper_state = c /\ w.shaper_state = e
    BY ONLY <1>1, <1>2, port = OutPort(p) DEF WaitingSnapshot
  <1>5. /\ v.meter_index = a /\ v.meter_state = b /\ v.dropper_state = c /\ v.shaper_state = e
        /\ v.scheduler_state = f /\ v.port_available_time_rc = g
    BY ONLY <1>1, <1>2, port = OutPort(p), qs = Enqueued(p) DEF SendingSnapshot
  <1>6. f.last_priority = NextLevel(qs, port) /\ f.packet = NextPacket(qs, port)
    BY ONLY <1>1 DEF SavedScheduler
  <1>7. c = droppers[DropperOf(p, time)] \/ ~ Considered(p, time)
    BY ONLY <1>1 DEF SavedDropper
  <1> QED
    BY ONLY <1>1, <1>2, <1>3, <1>4, <1>5, <1>6, <1>7 DEF PolicingSaved

\* What handle_send_event saves in the message.
LEMMA SavedBySend ==
  ASSUME NEW port
  PROVE  /\ SendSnapshot(port).shaper_state = shapers[port]
         /\ SendSnapshot(port).scheduler_state.last_priority = NextLevel(queues, port)
         /\ SendSnapshot(port).scheduler_state.packet = NextPacket(queues, port)
         /\ SendSnapshot(port).port_available_time_rc = ports_available_time[port]
  <1>1. PICK e, f, g, h :
          /\ e = shapers[port] /\ f = SavedScheduler(queues, port)
          /\ g = ports_available_time[port] /\ h = SavedStamp(port)
    OBVIOUS
  <1>2. PICK v : v = SendSnapshot(port)
    OBVIOUS
  <1>3. v.shaper_state = e /\ v.scheduler_state = f /\ v.port_available_time_rc = g
    BY ONLY <1>1, <1>2 DEF SendSnapshot
  <1>4. f.last_priority = NextLevel(queues, port) /\ f.packet = NextPacket(queues, port)
    BY ONLY <1>1 DEF SavedScheduler
  <1> QED
    BY ONLY <1>1, <1>2, <1>3, <1>4

\* What the meter and the droppers did is undone.
LEMMA PolicingIsUndone ==
  ASSUME meters = [i \in Queues |-> meters[i]], Shaped(droppers),
         NEW p, PacketMeter(p) \in Queues, NEW time, NEW m,
         meters' = Metered(p, time), Avgs(droppers') = Avgs(Judged(p, time)),
         PolicingSaved(m.saved, p, time),
         "c5" \in m.bf <=> Considered(p, time) /\ PacketColor(p, time) = "yellow",
         "c6" \in m.bf <=> Considered(p, time) /\ PacketColor(p, time) # "yellow"
  PROVE  PolicingUndone(m, View, View')
  <1>0. /\ m.saved.meter_index = PacketMeter(p) /\ m.saved.meter_state = meters[PacketMeter(p)]
        /\ Considered(p, time) => m.saved.dropper_state = droppers[DropperOf(p, time)]
    BY DEF PolicingSaved
  <1>1. PICK k, ms, x : k = PacketMeter(p) /\ ms = meters' /\ x = Metered(p, time)[k]
    OBVIOUS
  <1>2. MetersBack(m, ms) = meters
    <2>1. PICK y : y = MeterUpdate(meters[k], p.size, time, MeterTicks(p))
      OBVIOUS
    <2>2. ms = [meters EXCEPT ![k] = y]
      BY ONLY <1>1, <2>1, meters' = Metered(p, time) DEF Metered
    <2>3. [ms EXCEPT ![k] = meters[k]] = meters
      BY ONLY <2>2, meters = [i \in Queues |-> meters[i]]
    <2> QED
      BY ONLY <1>0, <1>1, <2>3 DEF MetersBack
  <1>3. /\ AvgsBack(m, Avgs(droppers')) = Avgs(droppers)
        /\ "c5" \in m.bf \/ "c6" \in m.bf => m.saved.dropper_state = Dropper(m.saved.dropper_state)
    <2>1. CASE ~ Considered(p, time)
      <3>1. Judged(p, time) = droppers
        BY ONLY <2>1 DEF Judged
      <3>2. "c5" \notin m.bf /\ "c6" \notin m.bf
        BY <2>1
      <3> QED
        BY <3>1, <3>2 DEF AvgsBack
    <2>2. CASE Considered(p, time)
      <3>1. PICK i, old, avgs :
              i = DropperOf(p, time) /\ old = droppers[i] /\ avgs = Avgs(Judged(p, time))
        OBVIOUS
      <3>2. old = Dropper(old) /\ PutIn(avgs, i, old.avg) = Avgs(droppers)
        BY <2>2, <3>1, JudgedFacts DEF PutIn
      <3>3. m.saved.dropper_state = old
        BY <1>0, <2>2, <3>1
      <3>4. AvgsBack(m, avgs) = PutIn(avgs, i, old.avg)
        <4>1. CASE PacketColor(p, time) = "yellow"
          <5>1. i = YellowOf(m.saved.meter_index) /\ "c5" \in m.bf
            BY <1>0, <2>2, <3>1, <4>1 DEF DropperOf
          <5> QED
            BY ONLY <3>3, <5>1 DEF AvgsBack, PutIn
        <4>2. CASE PacketColor(p, time) # "yellow"
          <5>1. i = GreenOf(m.saved.meter_index) /\ "c5" \notin m.bf /\ "c6" \in m.bf
            BY <1>0, <2>2, <3>1, <4>2 DEF DropperOf
          <5> QED
            BY ONLY <3>3, <5>1 DEF AvgsBack, PutIn
        <4> QED
          BY ONLY <4>1, <4>2
      <3> QED
        BY <3>1, <3>2, <3>3, <3>4
    <2> QED
      BY ONLY <2>1, <2>2
  <1> QED
    BY ONLY <1>1, <1>2, <1>3, ViewFields, ViewFieldsNext DEF PolicingUndone

\* Which bits of the message the policing of a packet sets.
LEMMA PolicingBitsFacts ==
  ASSUME NEW p, NEW time, NEW bits, bits = PolicingBits(p, time)
  PROVE  /\ "c0" \notin bits /\ "c1" \notin bits /\ "c2" \notin bits /\ "c3" \notin bits
         /\ "c5" \in bits <=> Considered(p, time) /\ PacketColor(p, time) = "yellow"
         /\ "c6" \in bits <=> Considered(p, time) /\ PacketColor(p, time) # "yellow"
  BY DEF PolicingBits
-----------------------------------------------------------------------------
(* Each forward handler leaves what it takes to undo it.                   *)

Typed ==
  /\ meters = [i \in Queues |-> meters[i]]
  /\ queues \in [Queues -> Seq(QueuedPackets)]
  /\ Shaped(droppers)
  /\ shapers \in [Ports -> Bucket]
  /\ port_flags \in [Ports -> {0, 1}]
  /\ ports_available_time \in [Ports -> Nat]
  /\ StatsOK(stats)

\* The fields of a port that a reverse handler writes.
LEMMA ShaperIsUndone ==
  ASSUME NEW bs, bs = [port \in Ports |-> bs[port]], NEW m, m.saved.shaper_state = bs[m.port_id],
         NEW b, NEW bs2, bs2 = PutIn(bs, m.port_id, b)
  PROVE  ShaperBack(m, bs2) = bs
  BY DEF ShaperBack, PutIn

\* A packet for this switch leaves a message from which it is undone.
LEMMA FinalIsUndone ==
  ASSUME Typed, NEW p, NEW time, p.pid \in Nat, time - p.send_time \in Int, ArriveFinal(p, time)
  PROVE  ArriveUndone(done', View, View')
  <1>1. /\ "c0" \in done'.bf
        /\ stats' = UpdateStats(stats, p.pid, time - p.send_time, FALSE)
        /\ UNCHANGED <<meters, queues, droppers, shapers, port_flags, ports_available_time>>
    BY DEF ArriveFinal, arrays, ports
  <1>2. PICK pid, delay, drop : pid = p.pid /\ delay = time - p.send_time /\ drop = FALSE
    OBVIOUS
  <1>3. PICK st : st = stats'
    OBVIOUS
  <1>4. UpdateStatsReverse(Norm(st)) = Norm(stats)
    <2>1. pid \in Nat /\ delay \in Int /\ drop \in BOOLEAN /\ StatsOK(stats)
      BY <1>2 DEF Typed
    <2>2. st = UpdateStats(stats, pid, delay, drop)
      BY ONLY <1>1, <1>2, <1>3
    <2> QED
      BY ONLY <2>1, <2>2, RecordUndone
  <1> QED
    BY <1>1, <1>3, <1>4, ViewFields, ViewFieldsNext DEF ArriveUndone, FinalUndone

\* A packet that is dropped leaves a message from which it is undone.
LEMMA DroppedIsUndone ==
  ASSUME Typed, NEW p, NEW time, p.pid \in Nat, PacketMeter(p) \in Queues, ArriveDropped(p, time)
  PROVE  ArriveUndone(done', View, View')
  <1>1. PICK m, st, bits : m = done' /\ st = stats' /\ bits = PolicingBits(p, time)
    OBVIOUS
  <1>2. /\ m.bf = bits \cup {"c1"} /\ m.saved = PolicingSnapshot(p, time)
        /\ meters' = Metered(p, time) /\ droppers' = Judged(p, time)
        /\ st = UpdateStats([stats EXCEPT !.received = @ + 1], p.pid, 0, TRUE)
        /\ UNCHANGED <<queues, shapers, port_flags, ports_available_time>>
    BY ONLY <1>1, ArriveDropped(p, time) DEF ArriveDropped, ports
  <1>3. /\ "c0" \notin m.bf /\ "c1" \in m.bf
        /\ "c5" \in m.bf <=> Considered(p, time) /\ PacketColor(p, time) = "yellow"
        /\ "c6" \in m.bf <=> Considered(p, time) /\ PacketColor(p, time) # "yellow"
    BY <1>1, <1>2, PolicingBitsFacts
  <1>4. PolicingSaved(m.saved, p, time)
    BY <1>2, SavedByArrive
  <1>5. PolicingUndone(m, View, View')
    BY <1>2, <1>3, <1>4, PolicingIsUndone DEF Typed
  <1>6. DroppedStatsBack(Norm(st)) = Norm(stats)
    <2>1. PICK pid, delay, drop : pid = p.pid /\ delay = 0 /\ drop = TRUE
      OBVIOUS
    <2>2. pid \in Nat /\ StatsOK(stats) /\ delay \in Int /\ drop \in BOOLEAN
      BY <2>1 DEF Typed
    <2>3. st = UpdateStats(OneReceived(stats), pid, delay, drop)
      BY ONLY <1>2, <2>1 DEF OneReceived
    <2> QED
      BY <2>2, <2>3, DroppedStatsUndone
  <1>7. DroppedUndone(m, View, View')
    BY <1>1, <1>2, <1>5, <1>6, ViewFields, ViewFieldsNext DEF DroppedUndone
  <1> QED
    BY <1>1, <1>3, <1>7 DEF ArriveUndone

\* A packet that is sent at once leaves a message from which it is undone.
LEMMA SendsNowIsUndone ==
  ASSUME Typed, NEW p \in QueuedPackets, OutPort(p) \in Ports, NEW time, ArriveSendsNow(p, time)
  PROVE  ArriveUndone(done', View, View')
  <1>1. PICK m, st, bits, port, qs :
          /\ m = done' /\ st = stats' /\ bits = PolicingBits(p, time)
          /\ port = OutPort(p) /\ qs = Enqueued(p)
    OBVIOUS
  <1>2. /\ m.bf = bits \cup {"c2"} /\ m.port_id = port
        /\ m.saved = SendingSnapshot(p, time)
        /\ meters' = Metered(p, time) /\ SendNextPacket(qs, Judged(p, time), port, time)
        /\ st = [stats EXCEPT !.received = @ + 1, !.num_packets_sent = @ + 1]
        /\ UNCHANGED port_flags
    BY ONLY <1>1, ArriveSendsNow(p, time) DEF ArriveSendsNow
  <1>3. /\ "c0" \notin m.bf /\ "c1" \notin m.bf /\ "c2" \in m.bf /\ "c3" \notin m.bf
        /\ "c5" \in m.bf <=> Considered(p, time) /\ PacketColor(p, time) = "yellow"
        /\ "c6" \in m.bf <=> Considered(p, time) /\ PacketColor(p, time) # "yellow"
    BY <1>1, <1>2, PolicingBitsFacts
  <1>4. /\ PolicingSaved(m.saved, p, time) /\ m.saved.shaper_state = shapers[port]
        /\ m.saved.scheduler_state.last_priority = NextLevel(qs, port)
        /\ m.saved.scheduler_state.packet = NextPacket(qs, port)
        /\ m.saved.port_available_time_rc = ports_available_time[port]
    BY ONLY <1>1, <1>2, SavedByArrive
  <1>5. PacketMeter(p) \in Queues
    BY IndexFacts DEF PacketMeter, QueuedPackets
  <1>6. PICK ds : ds = Judged(p, time)
    OBVIOUS
  <1>7. Shaped(ds)
    BY <1>5, <1>6, JudgedFacts DEF Typed, Judged
  <1>8. /\ queues' = Serve(qs, port) /\ droppers' = Stamped(qs, ds, port, time)
        /\ shapers' = [shapers EXCEPT ![port] =
                         Consume(Refilled(port, time), NextPacket(qs, port).size, time, Ticks[port])]
        /\ ports_available_time' = [ports_available_time EXCEPT ![port] = InjectedAt(qs, port, time)]
    BY ONLY <1>2, <1>6 DEF SendNextPacket
  <1>9. Avgs(droppers') = Avgs(Judged(p, time))
    BY ONLY <1>6, <1>7, <1>8, StampedFacts
  <1>10. PolicingUndone(m, View, View')
    BY <1>2, <1>3, <1>4, <1>5, <1>9, PolicingIsUndone DEF Typed
  <1>11. Dequeued(m, ServedBack(m, "c2", queues')) = queues
    <2>1. qs \in [Queues -> Seq(QueuedPackets)] /\ Backlogged(qs, port) /\ port \in Ports
      BY <1>1, EnqueuedFacts DEF Typed
    <2>2. PICK state : state = m.saved.scheduler_state
      OBVIOUS
    <2>3. state.last_priority = NextLevel(qs, port) /\ state.packet = NextPacket(qs, port)
      BY ONLY <1>4, <2>2
    <2>4. ServeReverse(Serve(qs, port), port, state) = qs
      BY <2>1, <2>3, ServeIsUndone
    <2>5. ServedBack(m, "c2", queues') = qs
      BY ONLY <1>2, <1>3, <1>8, <2>2, <2>4 DEF ServedBack
    <2>6. m.saved.meter_index = PacketMeter(p) /\ queues \in [Queues -> Seq(QueuedPackets)]
      BY <1>4 DEF PolicingSaved, Typed
    <2>7. Dequeued(m, Enqueued(p)) = queues
      BY <2>6, EnqueueIsUndone
    <2> QED
      BY ONLY <1>1, <2>5, <2>7
  <1>12. /\ ShaperBack(m, shapers') = shapers
         /\ WireBack(m, "c2", ports_available_time') = ports_available_time
         /\ FlagBack(m, "c3", 0, port_flags') = port_flags
    <2>1. shapers' = PutIn(shapers, m.port_id, Consume(Refilled(port, time),
                       NextPacket(qs, port).size, time, Ticks[port]))
      BY ONLY <1>2, <1>8 DEF PutIn
    <2>2. ports_available_time' = PutIn(ports_available_time, m.port_id, InjectedAt(qs, port, time))
      BY ONLY <1>2, <1>8 DEF PutIn
    <2>3. ShaperBack(m, shapers') = shapers
      BY <1>2, <1>4, <2>1, ShaperIsUndone DEF Typed
    <2>4. WireBack(m, "c2", ports_available_time') = ports_available_time
      <3>1. ports_available_time = [q \in DOMAIN ports_available_time |-> ports_available_time[q]]
        BY DEF Typed
      <3> QED
        BY ONLY <1>2, <1>3, <1>4, <2>2, <3>1 DEF WireBack, PutIn
    <2> QED
      BY <1>2, <1>3, <2>3, <2>4 DEF FlagBack
  <1>13. QueuedStatsBack(m, Norm(st)) = Norm(stats)
    BY ONLY <1>2, <1>3, Typed, QueuedStatsUndone DEF Typed
  <1>14. QueuedUndone(m, View, View')
    BY ONLY <1>1, <1>10, <1>11, <1>12, <1>13, ViewFields, ViewFieldsNext DEF QueuedUndone
  <1> QED
    BY ONLY <1>1, <1>3, <1>14 DEF ArriveUndone

\* A packet that waits leaves a message from which it is undone.
LEMMA WaitsIsUndone ==
  ASSUME Typed, NEW p \in QueuedPackets, OutPort(p) \in Ports, NEW time,
         ArriveSchedulesSend(p, time) \/ ArriveJoinsQueue(p, time)
  PROVE  ArriveUndone(done', View, View')
  <1>1. PICK m, st, bits, port :
          m = done' /\ st = stats' /\ bits = PolicingBits(p, time) /\ port = OutPort(p)
    OBVIOUS
  <1>2. /\ m.saved = WaitingSnapshot(p, time) /\ m.port_id = port
        /\ meters' = Metered(p, time) /\ droppers' = Judged(p, time)
        /\ queues' = Enqueued(p)
        /\ shapers' = [shapers EXCEPT ![port] = Refilled(port, time)]
        /\ st = [stats EXCEPT !.received = @ + 1]
        /\ UNCHANGED ports_available_time
        /\ \/ /\ port_flags[port] = 0 /\ port_flags' = [port_flags EXCEPT ![port] = 1]
              /\ m.bf = bits \cup {"c3"}
           \/ port_flags' = port_flags /\ m.bf = bits
    BY ONLY <1>1, ArriveSchedulesSend(p, time) \/ ArriveJoinsQueue(p, time)
       DEF ArriveSchedulesSend, ArriveJoinsQueue, ArriveWaits
  <1>3. /\ "c0" \notin m.bf /\ "c1" \notin m.bf /\ "c2" \notin m.bf
        /\ "c5" \in m.bf <=> Considered(p, time) /\ PacketColor(p, time) = "yellow"
        /\ "c6" \in m.bf <=> Considered(p, time) /\ PacketColor(p, time) # "yellow"
        /\ \/ /\ port_flags[port] = 0 /\ port_flags' = [port_flags EXCEPT ![port] = 1]
              /\ "c3" \in m.bf
           \/ port_flags' = port_flags /\ "c3" \notin m.bf
    BY <1>1, <1>2, PolicingBitsFacts
  <1>4. PolicingSaved(m.saved, p, time) /\ m.saved.shaper_state = shapers[port]
    BY ONLY <1>1, <1>2, SavedByArrive
  <1>5. PacketMeter(p) \in Queues
    BY IndexFacts DEF PacketMeter, QueuedPackets
  <1>6. PolicingUndone(m, View, View')
    BY <1>2, <1>3, <1>4, <1>5, PolicingIsUndone DEF Typed
  <1>7. Dequeued(m, ServedBack(m, "c2", queues')) = queues
    <2>1. m.saved.meter_index = PacketMeter(p) /\ queues \in [Queues -> Seq(QueuedPackets)]
      BY <1>4 DEF PolicingSaved, Typed
    <2>2. Dequeued(m, Enqueued(p)) = queues
      BY <2>1, EnqueueIsUndone
    <2> QED
      BY ONLY <1>2, <1>3, <2>2 DEF ServedBack
  <1>8. ShaperBack(m, shapers') = shapers
    <2>1. shapers' = PutIn(shapers, m.port_id, Refilled(port, time))
      BY ONLY <1>2 DEF PutIn
    <2> QED
      BY <1>2, <1>4, <2>1, ShaperIsUndone DEF Typed
  <1>9. WireBack(m, "c2", ports_available_time') = ports_available_time
    BY ONLY <1>2, <1>3 DEF WireBack
  <1>10. FlagBack(m, "c3", 0, port_flags') = port_flags
    BY ONLY <1>2, <1>3, Typed DEF Typed, FlagBack
  <1>11. QueuedStatsBack(m, Norm(st)) = Norm(stats)
    BY ONLY <1>2, <1>3, Typed, QueuedStatsUndone DEF Typed
  <1>12. QueuedUndone(m, View, View')
    BY ONLY <1>1, <1>6, <1>7, <1>8, <1>9, <1>10, <1>11, ViewFields, ViewFieldsNext DEF QueuedUndone
  <1> QED
    BY <1>1, <1>3, <1>12 DEF ArriveUndone

\* Every arrival leaves a message from which it is undone.
LEMMA ArriveIsUndone ==
  ASSUME Typed, NEW p, NEW time, p.pid \in Nat, time - p.send_time \in Int,
         p.dest # Self => p \in QueuedPackets /\ OutPort(p) \in Ports,
         Arrive(p, time)
  PROVE  ArriveUndone(done', View, View')
  <1>1. CASE ArriveFinal(p, time)
    BY <1>1, FinalIsUndone
  <1>2. CASE ArriveDropped(p, time)
    <2>1. PacketMeter(p) \in Queues
      BY <1>2, IndexFacts DEF ArriveDropped, PacketMeter, QueuedPackets
    <2> QED
      BY <1>2, <2>1, DroppedIsUndone
  <1>3. CASE ArriveSendsNow(p, time)
    <2>1. p \in QueuedPackets /\ OutPort(p) \in Ports
      BY <1>3 DEF ArriveSendsNow
    <2> QED
      BY <1>3, <2>1, SendsNowIsUndone
  <1>4. CASE ArriveSchedulesSend(p, time) \/ ArriveJoinsQueue(p, time)
    <2>1. p \in QueuedPackets /\ OutPort(p) \in Ports
      BY <1>4 DEF ArriveSchedulesSend, ArriveJoinsQueue, ArriveWaits
    <2> QED
      BY <1>4, <2>1, WaitsIsUndone
  <1> QED
    BY <1>1, <1>2, <1>3, <1>4 DEF Arrive

\* Every SEND event leaves a message from which it is undone.
LEMMA SendIsUndone ==
  ASSUME Typed, NEW port \in Ports, port_flags[port] = 1, NEW time, Send(port, time)
  PROVE  SendUndone(done', View, View')
  <1>1. PICK m : m = done'
    OBVIOUS
  <1>2. CASE SendPostponed(port, time)
    <2>1. /\ m.bf = {} /\ m.port_id = port /\ m.saved.shaper_state = shapers[port]
          /\ shapers' = PutIn(shapers, m.port_id, Refilled(port, time))
          /\ UNCHANGED <<meters, queues, droppers, port_flags, ports_available_time, stats>>
      BY ONLY <1>1, <1>2 DEF SendPostponed, ports, PutIn
    <2>2. ShaperBack(m, shapers') = shapers
      BY <2>1, ShaperIsUndone DEF Typed
    <2>3. "c0" \notin m.bf /\ "c1" \notin m.bf
      BY <2>1
    <2> QED
      BY <1>1, <2>1, <2>2, <2>3, ViewFields, ViewFieldsNext
         DEF SendUndone, ServedBack, FlagBack, WireBack
  <1>3. CASE SendLast(port, time) \/ SendOneOfMany(port, time)
    <2>1. /\ "c0" \in m.bf /\ m.port_id = port /\ m.saved = SendSnapshot(port)
          /\ Backlogged(queues, port)
          /\ SendNextPacket(queues, droppers, port, time)
          /\ UNCHANGED <<meters, stats>>
          /\ \/ "c1" \in m.bf /\ port_flags' = FlagCleared(port)
             \/ "c1" \notin m.bf /\ UNCHANGED port_flags
      BY ONLY <1>1, <1>3 DEF SendLast, SendOneOfMany, EmptiedBits
    <2>2. /\ queues' = Serve(queues, port) /\ droppers' = Stamped(queues, droppers, port, time)
          /\ shapers' = PutIn(shapers, m.port_id, Consume(Refilled(port, time),
                          NextPacket(queues, port).size, time, Ticks[port]))
          /\ ports_available_time'
               = PutIn(ports_available_time, m.port_id, InjectedAt(queues, port, time))
      BY ONLY <2>1 DEF SendNextPacket, PutIn
    <2>3. /\ m.saved.shaper_state = shapers[port]
          /\ m.saved.scheduler_state.last_priority = NextLevel(queues, port)
          /\ m.saved.scheduler_state.packet = NextPacket(queues, port)
          /\ m.saved.port_available_time_rc = ports_available_time[port]
      BY ONLY <2>1, SavedBySend
    <2>4. Avgs(droppers') = Avgs(droppers)
      BY <2>2, StampedFacts DEF Typed
    <2>5. ServedBack(m, "c0", queues') = queues
      <3>1. PICK state : state = m.saved.scheduler_state
        OBVIOUS
      <3>2. state.last_priority = NextLevel(queues, port) /\ state.packet = NextPacket(queues, port)
        BY ONLY <2>3, <3>1
      <3>3. ServeReverse(Serve(queues, port), port, state) = queues
        BY <2>1, <3>2, ServeIsUndone DEF Typed
      <3> QED
        BY ONLY <2>1, <2>2, <3>1, <3>3 DEF ServedBack
    <2>6. ShaperBack(m, shapers') = shapers
      BY <2>1, <2>2, <2>3, ShaperIsUndone DEF Typed
    <2>7. WireBack(m, "c0", ports_available_time') = ports_available_time
      BY <2>1, <2>2, <2>3 DEF Typed, WireBack, PutIn
    <2>8. FlagBack(m, "c1", 1, port_flags') = port_flags
      BY <2>1 DEF Typed, FlagBack, FlagCleared
    <2> QED
      BY ONLY <1>1, <2>1, <2>4, <2>5, <2>6, <2>7, <2>8, ViewFields, ViewFieldsNext DEF SendUndone
  <1> QED
    BY <1>2, <1>3 DEF Send
-----------------------------------------------------------------------------
(* The reverse handlers undo what can be undone.                           *)

\* Two views that differ in the times of the droppers only.
Same(v, w) ==
  /\ v.meters = w.meters
  /\ v.queues = w.queues
  /\ Avgs(v.droppers) = Avgs(w.droppers)
  /\ v.shapers = w.shapers
  /\ v.port_flags = w.port_flags
  /\ v.ports_available_time = w.ports_available_time
  /\ v.stats = w.stats

\* The reverse handler restores the meter and the averages of the droppers.
LEMMA PolicingReverseFacts ==
  ASSUME Shaped(droppers), NEW m, NEW b, PolicingUndone(m, b, View), PolicingReverse(m)
  PROVE  meters' = b.meters /\ Avgs(droppers') = Avgs(b.droppers) /\ Shaped(droppers')
  <1>1. meters' = b.meters
    BY ViewFields DEF PolicingUndone, PolicingReverse, MetersBack
  <1>2. PICK avgs, yellow, green, s, t :
          /\ avgs = Avgs(droppers)
          /\ yellow = YellowOf(m.saved.meter_index) /\ green = GreenOf(m.saved.meter_index)
          /\ s = m.saved.dropper_state /\ t = m.saved.dropper_q_time
    OBVIOUS
  <1>3. AvgsBack(m, avgs) = Avgs(b.droppers)
    BY <1>2, ViewFields DEF PolicingUndone
  <1>4. "c5" \in m.bf \/ "c6" \in m.bf => s = Dropper(s)
    BY <1>2 DEF PolicingUndone
  <1>5. CASE "c5" \in m.bf
    <2>1. PICK ds : ds = PutIn(droppers, yellow, s)
      OBVIOUS
    <2>2. droppers' = Timed(ds, green, t)
      BY ONLY <1>2, <1>5, <2>1, PolicingReverse(m) DEF PolicingReverse, Timed, PutIn
    <2>3. Shaped(ds) /\ Avgs(ds) = PutIn(avgs, yellow, s.avg)
      BY <1>2, <1>4, <1>5, <2>1, OneDropper
    <2>4. Shaped(droppers') /\ Avgs(droppers') = Avgs(ds)
      BY <2>2, <2>3, OneTime
    <2>5. AvgsBack(m, avgs) = PutIn(avgs, yellow, s.avg)
      BY ONLY <1>2, <1>5 DEF AvgsBack, PutIn
    <2> QED
      BY ONLY <1>1, <1>3, <2>3, <2>4, <2>5
  <1>6. CASE "c5" \notin m.bf /\ "c6" \in m.bf
    <2>1. PICK ds : ds = PutIn(droppers, green, s)
      OBVIOUS
    <2>2. droppers' = Timed(ds, yellow, t)
      BY ONLY <1>2, <1>6, <2>1, PolicingReverse(m) DEF PolicingReverse, Timed, PutIn
    <2>3. Shaped(ds) /\ Avgs(ds) = PutIn(avgs, green, s.avg)
      BY <1>2, <1>4, <1>6, <2>1, OneDropper
    <2>4. Shaped(droppers') /\ Avgs(droppers') = Avgs(ds)
      BY <2>2, <2>3, OneTime
    <2>5. AvgsBack(m, avgs) = PutIn(avgs, green, s.avg)
      BY ONLY <1>2, <1>6 DEF AvgsBack, PutIn
    <2> QED
      BY ONLY <1>1, <1>3, <2>3, <2>4, <2>5
  <1>7. CASE "c5" \notin m.bf /\ "c6" \notin m.bf
    <2>1. droppers' = droppers
      BY ONLY <1>7, PolicingReverse(m) DEF PolicingReverse
    <2>2. AvgsBack(m, avgs) = avgs
      BY ONLY <1>7 DEF AvgsBack
    <2> QED
      BY ONLY <1>1, <1>2, <1>3, <2>1, <2>2, Shaped(droppers)
  <1> QED
    BY ONLY <1>5, <1>6, <1>7

\* handle_arrive_event_rc gives back what the message promises.
LEMMA ArriveReverseRestores ==
  ASSUME Shaped(droppers), StatsOK(stats), NEW m, NEW b, StatsOK(b.stats),
         ArriveUndone(m, b, View), ArriveReverse(m)
  PROVE  Same(View', b) /\ Shaped(droppers') /\ StatsOK(stats')
  <1>1. CASE "c0" \in m.bf
    <2>1. FinalUndone(m, b, View) /\ ArriveFinalReverse(m)
      BY <1>1 DEF ArriveUndone, ArriveReverse, ArriveFinalReverse, ArriveDroppedReverse,
                  ArriveQueuedReverse
    <2>2. /\ stats' = UpdateStatsReverse(stats)
          /\ UNCHANGED <<meters, queues, droppers, shapers, port_flags, ports_available_time>>
      BY ONLY <2>1 DEF ArriveFinalReverse, arrays, ports
    <2>3. UpdateStatsReverse(Norm(stats)) = b.stats
      BY ONLY <2>1, ViewFields DEF FinalUndone
    <2>4. Norm(stats') = b.stats /\ StatsOK(stats')
      BY <2>2, <2>3, RecordBack
    <2> QED
      BY <2>1, <2>2, <2>4, ViewFields, ViewFieldsNext DEF Same, FinalUndone
  <1>2. CASE "c0" \notin m.bf /\ "c1" \in m.bf
    <2>1. DroppedUndone(m, b, View) /\ ArriveDroppedReverse(m)
      BY <1>2 DEF ArriveUndone, ArriveReverse, ArriveFinalReverse, ArriveDroppedReverse,
                  ArriveQueuedReverse
    <2>2. /\ stats' = DroppedStatsBack(stats)
          /\ PolicingReverse(m)
          /\ UNCHANGED <<queues, shapers, port_flags, ports_available_time>>
      BY ONLY <2>1 DEF ArriveDroppedReverse, ports, DroppedStatsBack, WithReceived
    <2>3. DroppedStatsBack(Norm(stats)) = b.stats /\ PolicingUndone(m, b, View)
      BY ONLY <2>1, ViewFields DEF DroppedUndone
    <2>4. Norm(stats') = b.stats /\ StatsOK(stats')
      BY <2>2, <2>3, DroppedStatsCommute
    <2>5. meters' = b.meters /\ Avgs(droppers') = Avgs(b.droppers) /\ Shaped(droppers')
      BY <2>2, <2>3, PolicingReverseFacts
    <2> QED
      BY <2>1, <2>2, <2>4, <2>5, ViewFields, ViewFieldsNext DEF Same, DroppedUndone
  <1>3. CASE "c0" \notin m.bf /\ "c1" \notin m.bf
    <2>1. QueuedUndone(m, b, View) /\ ArriveQueuedReverse(m)
      BY <1>3 DEF ArriveUndone, ArriveReverse, ArriveFinalReverse, ArriveDroppedReverse,
                  ArriveQueuedReverse
    <2>2. PolicingReverse(m) /\ PolicingUndone(m, b, View)
      BY ONLY <2>1 DEF ArriveQueuedReverse, QueuedUndone
    <2>3. meters' = b.meters /\ Avgs(droppers') = Avgs(b.droppers) /\ Shaped(droppers')
      BY <2>2, PolicingReverseFacts
    <2>4. stats' = QueuedStatsBack(m, stats)
      BY ONLY <2>1 DEF ArriveQueuedReverse, QueuedStatsBack, WithCounters
    <2>5. Norm(stats') = b.stats /\ StatsOK(stats')
      <3>1. QueuedStatsBack(m, Norm(stats)) = b.stats
        BY ONLY <2>1, ViewFields DEF QueuedUndone
      <3> QED
        BY <2>4, <3>1, QueuedStatsCommute
    <2>6. queues' = b.queues
      <3>1. queues' = Dequeued(m, ServedBack(m, "c2", queues))
        BY ONLY <2>1 DEF ArriveQueuedReverse, QueuesReversed, Dequeued, ServedBack, LastOut
      <3> QED
        BY ONLY <2>1, <3>1, ViewFields DEF QueuedUndone
    <2>7. /\ shapers' = b.shapers /\ port_flags' = b.port_flags
          /\ ports_available_time' = b.ports_available_time
      <3>1. /\ shapers' = ShaperBack(m, shapers) /\ port_flags' = FlagBack(m, "c3", 0, port_flags)
            /\ ports_available_time' = WireBack(m, "c2", ports_available_time)
        BY ONLY <2>1 DEF ArriveQueuedReverse, FlagsReversed, ShaperBack, FlagBack, WireBack
      <3> QED
        BY ONLY <2>1, <3>1, ViewFields DEF QueuedUndone
    <2> QED
      BY ONLY <2>3, <2>5, <2>6, <2>7, ViewFieldsNext DEF Same
  <1> QED
    BY ONLY <1>1, <1>2, <1>3

\* handle_send_event_rc gives back what the message promises.
LEMMA SendReverseRestores ==
  ASSUME Shaped(droppers), StatsOK(stats), NEW m, NEW b,
         SendUndone(m, b, View), SendReverse(m)
  PROVE  Same(View', b) /\ Shaped(droppers') /\ StatsOK(stats')
  <1>1. Avgs(droppers') = Avgs(droppers) /\ Shaped(droppers')
    <2>1. PICK i, i2, t : /\ i = StampedDropper(m.port_id, last_priority[m.port_id]) /\ i2 = i + 1
                          /\ t = m.saved.dropper_q_time
      OBVIOUS
    <2>2. PICK ds : ds = Timed(droppers, i, t)
      OBVIOUS
    <2>3. PICK ds2 : ds2 = Timed(ds, i2, t)
      OBVIOUS
    <2>4. Shaped(ds2) /\ Avgs(ds2) = Avgs(droppers)
      BY <2>2, <2>3, OneTime
    <2>5. droppers' = IF {"c0", "c2"} \subseteq m.bf THEN ds2 ELSE droppers
      BY ONLY <2>1, <2>2, <2>3, SendReverse(m) DEF SendReverse, Timed
    <2> QED
      BY ONLY <2>4, <2>5, Shaped(droppers)
  <1>2. /\ shapers' = ShaperBack(m, shapers) /\ port_flags' = FlagBack(m, "c1", 1, port_flags)
        /\ ports_available_time' = WireBack(m, "c0", ports_available_time)
        /\ queues' = ServedBack(m, "c0", queues)
        /\ UNCHANGED <<meters, stats>>
    BY ONLY SendReverse(m) DEF SendReverse, ShaperBack, FlagBack, WireBack, ServedBack
  <1> QED
    BY ONLY <1>1, <1>2, StatsOK(stats), SendUndone(m, b, View), ViewFields, ViewFieldsNext
       DEF SendUndone, Same
-----------------------------------------------------------------------------
(***************************************************************************)
(* The history that a rollback goes back through.  Its stage k is what the *)
(* first k entries of the log lg left: the view and the SEND events that   *)
(* entry k + 1 found, or, at the last stage, what the switch has now.      *)
(***************************************************************************)
ViewOf(lg, v, k)  == IF k = Len(lg) THEN v ELSE lg[k + 1].before
DueOf(lg, due, k) == IF k = Len(lg) THEN due ELSE lg[k + 1].due

PidsSent(sent) == {e.packet.pid : e \in {f \in sent : f.type = "ARRIVE"}}

HandledIn(lg, k) == {lg[i].event.packet.pid : i \in {j \in 1 .. k : lg[j].event.type = "ARRIVE"}}
SentIn(lg, k)    == UNION {PidsSent(lg[i].done.sent) : i \in 1 .. k}

\* The events that the switch is sent.
AnEvent(e) ==
  \/ /\ e.type = "ARRIVE"
     /\ \E o \in Offers : e.packet = Packet(o, e.packet.pid)
     /\ e.packet.pid \in Nat
     /\ e.at \in Nat
  \/ e.type = "SEND" /\ e.port \in Ports /\ e.at \in Nat

\* The SEND events due, and the flags: one for a port with a backlog.
DueAt(due, port) == {e \in due : e.port = port}

OneDue(qs, flags, due) ==
  /\ \A e \in due : e.type = "SEND"
  /\ \A port \in Ports :
       IF Backlogged(qs, port)
       THEN flags[port] = 1 /\ \E e \in due : DueAt(due, port) = {e}
       ELSE flags[port] = 0 /\ DueAt(due, port) = {}

AView(v) ==
  /\ v = [meters |-> v.meters, queues |-> v.queues, droppers |-> v.droppers,
          shapers |-> v.shapers, port_flags |-> v.port_flags,
          ports_available_time |-> v.ports_available_time, stats |-> v.stats]
  /\ v.meters = [i \in Queues |-> v.meters[i]]
  /\ v.queues \in [Queues -> Seq(QueuedPackets)]
  /\ v.shapers \in [Ports -> Bucket]
  /\ v.port_flags \in [Ports -> {0, 1}]
  /\ v.ports_available_time \in [Ports -> Nat]

\* The packets H are handled, and the packets out are sent.
Account(v, due, out, H) ==
  /\ AView(v)
  /\ OneDue(v.queues, v.port_flags, due)
  /\ IsFiniteSet(H)
  /\ Counted(v.queues, out, Cardinality(out), v.stats, H)

\* The SEND events due after an entry of the log.
Follows(entry, due) ==
  /\ due = (entry.due \ {entry.event}) \cup OwnEvents(entry.done.sent)
  /\ OwnEvents(entry.done.sent) \cap (entry.due \ {entry.event}) = {}
  /\ entry.event.type = "SEND" => entry.event \in entry.due

\* Entry k of the log, of which v and due are what it left.
EntryOK(lg, k, v, due) ==
  /\ AnEvent(lg[k].event)
  /\ lg[k].event.type = "ARRIVE" => lg[k].event.packet.pid \notin HandledIn(lg, k - 1)
  /\ Undone(lg[k], v)
  /\ Follows(lg[k], due)

Stage(lg, k, v, due) ==
  /\ Account(v, due, SentIn(lg, k), HandledIn(lg, k))
  /\ k > 0 => EntryOK(lg, k, v, due)

History(lg, v, due) ==
  \A k \in 0 .. Len(lg) : Stage(lg, k, ViewOf(lg, v, k), DueOf(lg, due, k))

IsLog(lg) == lg \in Seq({lg[i] : i \in DOMAIN lg})

\* The events that are to be handled, H being the packets handled.
Arrivals(events) == {e \in events : e.type = "ARRIVE"}

BoxOK(box, H, n) ==
  /\ \A e \in box : AnEvent(e)
  /\ \A e \in Arrivals(box) : e.packet.pid \in (1 .. n) \ H
  /\ \A e, f \in Arrivals(box) : e.packet.pid = f.packet.pid => e = f
  /\ H \subseteq 1 .. n

DoomedOK(gone, lg) ==
  \A e \in gone : e.type = "ARRIVE" /\ \E i \in 1 .. Len(lg) : e = lg[i].event

TWInv ==
  /\ Shaped(droppers)
  /\ StatsOK(stats)
  /\ arrived \in Nat
  /\ IsLog(log)
  /\ BoxOK(inbox, HandledIn(log, Len(log)), arrived)
  /\ DoomedOK(doomed, log)
  /\ History(log, View, OwnEvents(inbox))
-----------------------------------------------------------------------------
(* The log, when an entry is added and when the last one is taken off.     *)

\* An entry more in the log.
LEMMA LogGrows ==
  ASSUME NEW lg, IsLog(lg), NEW e, NEW lg2, lg2 = Append(lg, e)
  PROVE  /\ IsLog(lg2) /\ Len(lg) \in Nat /\ Len(lg2) = Len(lg) + 1
         /\ lg2[Len(lg) + 1] = e
         /\ \A i \in 1 .. Len(lg) : lg2[i] = lg[i]
  <1>1. PICK S : S = {lg[i] : i \in DOMAIN lg} \cup {e}
    OBVIOUS
  <1>2. lg \in Seq(S) /\ e \in S
    BY <1>1 DEF IsLog
  <1>3. /\ lg2 \in Seq(S)
        /\ DOMAIN lg2 = DOMAIN lg \cup {Len(lg) + 1}
        /\ lg2[Len(lg) + 1] = e
        /\ \A i \in DOMAIN lg : lg2[i] = lg[i]
    BY <1>2, AppendFacts
  <1>4. S = {lg2[i] : i \in DOMAIN lg2}
    BY <1>1, <1>3
  <1>5. Len(lg) \in Nat /\ DOMAIN lg = 1 .. Len(lg) /\ Len(lg2) = Len(lg) + 1
    BY <1>2
  <1> QED
    BY <1>3, <1>4, <1>5 DEF IsLog

\* An entry less in the log.
LEMMA LogShrinks ==
  ASSUME NEW lg, IsLog(lg), Len(lg) # 0, NEW lg2, lg2 = SubSeq(lg, 1, Len(lg) - 1)
  PROVE  /\ IsLog(lg2) /\ Len(lg) \in Nat \ {0} /\ Len(lg2) = Len(lg) - 1
         /\ \A i \in 1 .. Len(lg) - 1 : lg2[i] = lg[i]
  <1>1. PICK S, n : S = {lg[i] : i \in DOMAIN lg} /\ n = Len(lg) - 1
    OBVIOUS
  <1>2. lg \in Seq(S) /\ n \in Nat /\ Len(lg) = n + 1 /\ DOMAIN lg = 1 .. Len(lg)
    BY <1>1 DEF IsLog
  <1>3. /\ lg2 \in Seq(S) /\ Len(lg2) = n /\ DOMAIN lg2 = 1 .. n
        /\ \A i \in 1 .. n : lg2[i] = lg[i]
    <2>1. \A i \in 1 .. n : lg[i] \in S
      BY ONLY <1>1, <1>2
    <2>2. lg2 = SubSeq(lg, 1, n)
      BY ONLY <1>1, lg2 = SubSeq(lg, 1, Len(lg) - 1)
    <2>3. /\ lg2 \in Seq(S) /\ Len(lg2) = n
          /\ \A i \in 1 .. n : lg2[i] = lg[i]
      BY ONLY <1>2, <2>1, <2>2, SubSeqProperties
    <2> QED
      BY ONLY <2>3
  <1>4. PICK T : T = {lg2[i] : i \in DOMAIN lg2}
    OBVIOUS
  <1>5. lg2 \in Seq(T)
    <2>1. lg2 = [i \in 1 .. n |-> lg2[i]]
      BY ONLY <1>2, <1>3
    <2>2. \A i \in 1 .. n : lg2[i] \in T
      BY ONLY <1>3, <1>4
    <2>3. lg2 \in [1 .. n -> T]
      BY ONLY <2>1, <2>2
    <2> QED
      BY ONLY <1>2, <2>3
  <1>6. IsLog(lg2)
    BY ONLY <1>4, <1>5 DEF IsLog
  <1> QED
    BY ONLY <1>1, <1>2, <1>3, <1>6

\* What was handled and sent, up to an entry that both logs have.
LEMMA SamePrefix ==
  ASSUME NEW lg, NEW lg2, NEW k \in Nat, \A i \in 1 .. k : lg2[i] = lg[i]
  PROVE  HandledIn(lg2, k) = HandledIn(lg, k) /\ SentIn(lg2, k) = SentIn(lg, k)
  BY DEF HandledIn, SentIn

\* What one entry adds to the packets handled and sent.
LEMMA OneEntryMore ==
  ASSUME NEW lg, NEW k \in Nat
  PROVE  /\ HandledIn(lg, k + 1) = HandledIn(lg, k) \cup
              (IF lg[k + 1].event.type = "ARRIVE" THEN {lg[k + 1].event.packet.pid} ELSE {})
         /\ SentIn(lg, k + 1) = SentIn(lg, k) \cup PidsSent(lg[k + 1].done.sent)
  <1>1. PICK n : n = k + 1
    OBVIOUS
  <1>2. 1 .. n = (1 .. k) \cup {n}
    BY <1>1
  <1>3. HandledIn(lg, n) = HandledIn(lg, k) \cup
              (IF lg[n].event.type = "ARRIVE" THEN {lg[n].event.packet.pid} ELSE {})
    BY ONLY <1>2 DEF HandledIn
  <1>4. SentIn(lg, n) = SentIn(lg, k) \cup PidsSent(lg[n].done.sent)
    BY ONLY <1>2 DEF SentIn
  <1> QED
    BY ONLY <1>1, <1>3, <1>4

\* Whatever stage a log is at, its first entries are what they are.
LEMMA SameEntry ==
  ASSUME NEW lg, NEW lg2, NEW k \in Nat, \A i \in 1 .. k : lg2[i] = lg[i],
         NEW v, NEW due
  PROVE  Stage(lg2, k, v, due) <=> Stage(lg, k, v, due)
  <1>1. HandledIn(lg2, k) = HandledIn(lg, k) /\ SentIn(lg2, k) = SentIn(lg, k)
    BY SamePrefix
  <1>2. ASSUME k > 0 PROVE EntryOK(lg2, k, v, due) <=> EntryOK(lg, k, v, due)
    <2>1. lg2[k] = lg[k] /\ k - 1 \in Nat /\ \A i \in 1 .. k - 1 : lg2[i] = lg[i]
      BY <1>2
    <2>2. HandledIn(lg2, k - 1) = HandledIn(lg, k - 1)
      BY <2>1, SamePrefix
    <2> QED
      BY ONLY <2>1, <2>2 DEF EntryOK
  <1> QED
    BY ONLY <1>1, <1>2 DEF Stage

\* A handled event extends the history.
LEMMA HistoryGrows ==
  ASSUME NEW lg, IsLog(lg), NEW v, NEW due, History(lg, v, due),
         NEW e, e.before = v, e.due = due, NEW lg2, lg2 = Append(lg, e),
         NEW v2, NEW due2, Stage(lg2, Len(lg2), v2, due2)
  PROVE  History(lg2, v2, due2)
  <1>1. PICK n, m : n = Len(lg) /\ m = Len(lg2)
    OBVIOUS
  <1>2. n \in Nat /\ m = n + 1 /\ lg2[m] = e /\ \A i \in 1 .. n : lg2[i] = lg[i]
    BY <1>1, LogGrows
  <1>3. ASSUME NEW k \in 0 .. m PROVE Stage(lg2, k, ViewOf(lg2, v2, k), DueOf(lg2, due2, k))
    <2>1. CASE k = m
      BY ONLY <1>1, <2>1, Stage(lg2, Len(lg2), v2, due2) DEF ViewOf, DueOf
    <2>2. CASE k # m
      <3>1. k \in 0 .. n /\ k \in Nat /\ \A i \in 1 .. k : lg2[i] = lg[i]
        <4>1. k \in 0 .. n /\ k \in Nat
          BY ONLY <1>2, <2>2, k \in 0 .. m
        <4>2. ASSUME NEW i \in 1 .. k PROVE lg2[i] = lg[i]
          <5>1. i \in 1 .. n
            BY ONLY <1>2, <4>1, i \in 1 .. k
          <5> QED
            BY ONLY <1>2, <5>1
        <4> QED
          BY ONLY <4>1, <4>2
      <3>2. Stage(lg, k, ViewOf(lg, v, k), DueOf(lg, due, k))
        BY ONLY <1>1, <3>1, History(lg, v, due) DEF History
      <3>3. ViewOf(lg2, v2, k) = ViewOf(lg, v, k) /\ DueOf(lg2, due2, k) = DueOf(lg, due, k)
        <4>1. CASE k = n
          BY ONLY <1>1, <1>2, <2>2, <4>1, e.before = v, e.due = due DEF ViewOf, DueOf
        <4>2. CASE k # n
          <5>0. k + 1 \in 1 .. n
            BY ONLY <1>2, <3>1, <4>2
          <5>1. lg2[k + 1] = lg[k + 1]
            BY ONLY <1>2, <5>0
          <5> QED
            BY ONLY <1>1, <2>2, <4>2, <5>1 DEF ViewOf, DueOf
        <4> QED
          BY ONLY <4>1, <4>2
      <3> QED
        BY ONLY <3>1, <3>2, <3>3, SameEntry
    <2> QED
      BY ONLY <2>1, <2>2
  <1> QED
    BY ONLY <1>1, <1>3 DEF History

\* Only the times of the droppers make a difference between the views.
LEMMA SameStage ==
  ASSUME NEW v, NEW w, Same(v, w), AView(v), NEW lg, NEW k, NEW due, Stage(lg, k, w, due)
  PROVE  Stage(lg, k, v, due)
  <1>1. Account(v, due, SentIn(lg, k), HandledIn(lg, k))
    BY DEF Same, Stage, Account
  <1>2. Undone(lg[k], w) => Undone(lg[k], v)
    BY ONLY Same(v, w)
       DEF Same, Undone, ArriveUndone, SendUndone, FinalUndone, DroppedUndone, QueuedUndone,
           PolicingUndone
  <1> QED
    BY <1>1, <1>2 DEF Stage, EntryOK

\* An undone event leaves the history before it.
LEMMA HistoryShrinks ==
  ASSUME NEW lg, IsLog(lg), Len(lg) # 0, NEW v, NEW due, History(lg, v, due),
         NEW lg2, lg2 = SubSeq(lg, 1, Len(lg) - 1),
         NEW v2, AView(v2), Same(v2, lg[Len(lg)].before)
  PROVE  History(lg2, v2, lg[Len(lg)].due)
  <1>1. PICK n, m, b, due2 : n = Len(lg) /\ m = Len(lg2) /\ b = lg[n].before /\ due2 = lg[n].due
    OBVIOUS
  <1>2. n \in Nat /\ m \in Nat /\ m = n - 1 /\ m + 1 = n /\ \A i \in 1 .. m : lg2[i] = lg[i]
    BY <1>1, LogShrinks
  <1>3. ASSUME NEW k \in 0 .. m PROVE Stage(lg2, k, ViewOf(lg2, v2, k), DueOf(lg2, due2, k))
    <2>1. k \in 0 .. n /\ k # n /\ k \in Nat /\ \A i \in 1 .. k : lg2[i] = lg[i]
      <3>1. k \in 0 .. n /\ k # n /\ k \in Nat
        BY ONLY <1>2, k \in 0 .. m
      <3>2. ASSUME NEW i \in 1 .. k PROVE lg2[i] = lg[i]
        <4>1. i \in 1 .. m
          BY ONLY <1>2, k \in 0 .. m, i \in 1 .. k
        <4> QED
          BY ONLY <1>2, <4>1
      <3> QED
        BY ONLY <3>1, <3>2
    <2>2. Stage(lg, k, ViewOf(lg, v, k), DueOf(lg, due, k))
      BY ONLY <1>1, <2>1, History(lg, v, due) DEF History
    <2>3. CASE k = m
      <3>1. Stage(lg, k, b, due2)
        BY ONLY <1>1, <1>2, <2>1, <2>2, <2>3 DEF ViewOf, DueOf
      <3>2. Stage(lg, k, v2, due2)
        BY <1>1, <3>1, SameStage
      <3>3. ViewOf(lg2, v2, k) = v2 /\ DueOf(lg2, due2, k) = due2
        BY ONLY <1>1, <2>3 DEF ViewOf, DueOf
      <3> QED
        BY ONLY <2>1, <3>2, <3>3, SameEntry
    <2>4. CASE k # m
      <3>0. k + 1 \in 1 .. m
        BY ONLY <1>2, <2>4, k \in 0 .. m
      <3>1. lg2[k + 1] = lg[k + 1]
        BY ONLY <1>2, <3>0
      <3>2. ViewOf(lg2, v2, k) = ViewOf(lg, v, k) /\ DueOf(lg2, due2, k) = DueOf(lg, due, k)
        BY ONLY <1>1, <2>1, <2>4, <3>1 DEF ViewOf, DueOf
      <3> QED
        BY ONLY <2>1, <2>2, <3>2, SameEntry
    <2> QED
      BY ONLY <2>3, <2>4
  <1> QED
    BY ONLY <1>1, <1>3 DEF History
-----------------------------------------------------------------------------
(* What a step does to the SEND events due.                                *)

\* Only this port is concerned.
OthersDue(port, qs, flags, due, qs2, flags2, due2) ==
  \A other \in Ports : other # port =>
    /\ Backlogged(qs2, other) <=> Backlogged(qs, other)
    /\ flags2[other] = flags[other]
    /\ DueAt(due2, other) = DueAt(due, other)

\* One SEND event per waiting port, when one port moves and the others do not.
LEMMA DueStep ==
  ASSUME NEW qs, NEW flags, NEW due, OneDue(qs, flags, due),
         NEW port \in Ports, NEW qs2, NEW flags2, NEW due2,
         OthersDue(port, qs, flags, due, qs2, flags2, due2),
         \A e \in due2 : e.type = "SEND",
         IF Backlogged(qs2, port)
         THEN flags2[port] = 1 /\ \E e \in due2 : DueAt(due2, port) = {e}
         ELSE flags2[port] = 0 /\ DueAt(due2, port) = {}
  PROVE  OneDue(qs2, flags2, due2)
  <1>1. ASSUME NEW other \in Ports, other # port
        PROVE  IF Backlogged(qs2, other)
               THEN flags2[other] = 1 /\ \E e \in due2 : DueAt(due2, other) = {e}
               ELSE flags2[other] = 0 /\ DueAt(due2, other) = {}
    <2>1. /\ Backlogged(qs2, other) <=> Backlogged(qs, other)
          /\ flags2[other] = flags[other]
          /\ DueAt(due2, other) = DueAt(due, other)
      BY ONLY <1>1, OthersDue(port, qs, flags, due, qs2, flags2, due2) DEF OthersDue
    <2>2. IF Backlogged(qs, other)
          THEN flags[other] = 1 /\ \E e \in due : DueAt(due, other) = {e}
          ELSE flags[other] = 0 /\ DueAt(due, other) = {}
      BY ONLY <1>1, OneDue(qs, flags, due) DEF OneDue
    <2>3. ASSUME NEW e \in due, DueAt(due, other) = {e}
          PROVE  e \in due2 /\ DueAt(due2, other) = {e}
      <3>1. DueAt(due2, other) = {e}
        BY ONLY <2>1, <2>3
      <3> QED
        BY ONLY <3>1 DEF DueAt
    <2> QED
      BY ONLY <2>1, <2>2, <2>3
  <1> QED
    BY <1>1 DEF OneDue

\* A port that has a backlog now, and had none.
LEMMA DueAdded ==
  ASSUME NEW qs, NEW flags \in [Ports -> {0, 1}], NEW due, OneDue(qs, flags, due),
         NEW port \in Ports, flags[port] = 0,
         NEW qs2, Backlogged(qs2, port),
         \A other \in Ports : other # port => (Backlogged(qs2, other) <=> Backlogged(qs, other)),
         NEW w, w.type = "SEND", w.port = port
  PROVE  OneDue(qs2, PutIn(flags, port, 1), due \cup {w}) /\ w \notin due
  <1>1. PICK flags2, due2 : flags2 = PutIn(flags, port, 1) /\ due2 = due \cup {w}
    OBVIOUS
  <1>2. DueAt(due, port) = {} /\ \A e \in due : e.type = "SEND"
    <2>1. ~ (0 = 1)
      OBVIOUS
    <2> QED
      BY <2>1 DEF OneDue
  <1>3. OthersDue(port, qs, flags, due, qs2, flags2, due2)
    BY <1>1 DEF OthersDue, DueAt, PutIn
  <1>4. flags2[port] = 1 /\ w \in due2 /\ DueAt(due2, port) = {w} /\ \A e \in due2 : e.type = "SEND"
    BY <1>1, <1>2 DEF DueAt, PutIn
  <1>5. OneDue(qs2, flags2, due2)
    BY <1>3, <1>4, DueStep
  <1> QED
    BY <1>1, <1>2, <1>5 DEF DueAt

\* Ports that have a backlog if they had one.
LEMMA DueKept ==
  ASSUME NEW qs, NEW flags, NEW due, OneDue(qs, flags, due),
         NEW qs2, \A port \in Ports : Backlogged(qs2, port) <=> Backlogged(qs, port)
  PROVE  OneDue(qs2, flags, due)
  BY DEF OneDue

\* The event of a port is handled, and the port has a backlog still.
LEMMA DueReplaced ==
  ASSUME NEW qs, NEW flags, NEW due, OneDue(qs, flags, due),
         NEW e \in due, e.port \in Ports,
         NEW qs2, \A port \in Ports : Backlogged(qs2, port) <=> Backlogged(qs, port),
         NEW w, w.type = "SEND", w.port = e.port
  PROVE  OneDue(qs2, flags, (due \ {e}) \cup {w}) /\ w \notin due \ {e}
  <1>1. PICK port, due2 : port = e.port /\ due2 = (due \ {e}) \cup {w}
    OBVIOUS
  <1>2. /\ DueAt(due, port) = {e} /\ flags[port] = 1 /\ Backlogged(qs, port)
        /\ \A f \in due : f.type = "SEND"
    <2>1. e \in DueAt(due, port)
      BY <1>1 DEF DueAt
    <2> QED
      BY <1>1, <2>1 DEF OneDue
  <1>3. OthersDue(port, qs, flags, due, qs2, flags, due2)
    BY <1>1 DEF OthersDue, DueAt
  <1>4. w \in due2 /\ DueAt(due2, port) = {w} /\ \A f \in due2 : f.type = "SEND"
    BY <1>1, <1>2 DEF DueAt
  <1>5. OneDue(qs2, flags, due2)
    <2>1. Backlogged(qs2, port) /\ port \in Ports
      BY <1>1, <1>2
    <2> QED
      BY <1>2, <1>3, <1>4, <2>1, DueStep
  <1> QED
    BY <1>1, <1>2, <1>5 DEF DueAt

\* The event of a port is handled, and the port has no backlog any more.
LEMMA DueTaken ==
  ASSUME NEW qs, NEW flags \in [Ports -> {0, 1}], NEW due, OneDue(qs, flags, due),
         NEW e \in due, NEW port \in Ports, port = e.port,
         NEW qs2, ~ Backlogged(qs2, port),
         \A other \in Ports : other # port => (Backlogged(qs2, other) <=> Backlogged(qs, other))
  PROVE  OneDue(qs2, [flags EXCEPT ![port] = 0], due \ {e})
  <1>1. PICK flags2, due2 : flags2 = [flags EXCEPT ![port] = 0] /\ due2 = due \ {e}
    OBVIOUS
  <1>2. DueAt(due, port) = {e} /\ \A f \in due : f.type = "SEND"
    <2>1. e \in DueAt(due, port)
      BY DEF DueAt
    <2> QED
      BY <2>1 DEF OneDue
  <1>3. OthersDue(port, qs, flags, due, qs2, flags2, due2)
    BY <1>1 DEF OthersDue, DueAt
  <1>4. flags2[port] = 0 /\ DueAt(due2, port) = {} /\ \A f \in due2 : f.type = "SEND"
    BY <1>1, <1>2 DEF DueAt
  <1>5. OneDue(qs2, flags2, due2)
    BY <1>3, <1>4, DueStep
  <1> QED
    BY <1>1, <1>5
-----------------------------------------------------------------------------
(* What a forward handler does to the account of the switch.               *)

\* The SEND events and the packets among the events that a handler sends.
LEMMA SentFacts ==
  ASSUME NEW d, d.type = "ARRIVE", NEW w, w.type = "SEND"
  PROVE  /\ OwnEvents({}) = {} /\ PidsSent({}) = {}
         /\ OwnEvents({d}) = {} /\ PidsSent({d}) = {d.packet.pid}
         /\ OwnEvents({w}) = {w} /\ PidsSent({w}) = {}
         /\ OwnEvents({d, w}) = {w} /\ PidsSent({d, w}) = {d.packet.pid}
  <1>1. "ARRIVE" # "SEND"
    OBVIOUS
  <1>2. OwnEvents({}) = {} /\ OwnEvents({d}) = {} /\ OwnEvents({w}) = {w} /\ OwnEvents({d, w}) = {w}
    BY <1>1 DEF OwnEvents
  <1>3. /\ {f \in {d} : f.type = "ARRIVE"} = {d}
        /\ {f \in {w} : f.type = "ARRIVE"} = {}
        /\ {f \in {d, w} : f.type = "ARRIVE"} = {d}
    BY <1>1
  <1>4. PidsSent({}) = {} /\ PidsSent({d}) = {d.packet.pid} /\ PidsSent({w}) = {}
    BY <1>3 DEF PidsSent
  <1>5. PidsSent({d, w}) = {d.packet.pid}
    BY ONLY <1>3 DEF PidsSent
  <1> QED
    BY ONLY <1>2, <1>4, <1>5

\* The two kinds of event that a handler sends.
LEMMA EventFacts ==
  ASSUME NEW qs, NEW port, NEW hop, NEW time, NEW b, NEW qs2
  PROVE  /\ Departure(qs, port, hop, time).type = "ARRIVE"
         /\ Departure(qs, port, hop, time).packet = NextPacket(qs, port)
         /\ Wakeup(b, qs2, port).type = "SEND" /\ Wakeup(b, qs2, port).port = port
  BY DEF Departure, Wakeup

\* handle_arrive_event keeps one SEND event due per waiting port.
LEMMA ArriveDue ==
  ASSUME Typed, NEW due, OneDue(queues, port_flags, due), NEW p, NEW time,
         p.dest # Self => p \in QueuedPackets /\ OutPort(p) \in Ports,
         Arrive(p, time)
  PROVE  /\ OneDue(queues', port_flags', due \cup OwnEvents(done'.sent))
         /\ OwnEvents(done'.sent) \cap due = {}
         /\ port_flags' \in [Ports -> {0, 1}]
         /\ \A e \in OwnEvents(done'.sent) : e.port \in Ports
  <1>1. queues \in [Queues -> Seq(QueuedPackets)] /\ port_flags \in [Ports -> {0, 1}]
    BY DEF Typed
  <1>2. CASE UNCHANGED <<queues, port_flags>> /\ done'.sent = {}
    <2>1. OwnEvents(done'.sent) = {}
      BY <1>2 DEF OwnEvents
    <2> QED
      BY <1>1, <1>2, <2>1
  <1>3. ASSUME p.dest # Self
        PROVE  /\ OutPort(p) \in Ports
               /\ Backlogged(Enqueued(p), OutPort(p))
               /\ Backlogged(Serve(Enqueued(p), OutPort(p)), OutPort(p))
                    <=> Backlogged(queues, OutPort(p))
               /\ \A other \in Ports : other # OutPort(p) =>
                    /\ Backlogged(Enqueued(p), other) <=> Backlogged(queues, other)
                    /\ Backlogged(Serve(Enqueued(p), OutPort(p)), other)
                         <=> Backlogged(queues, other)
    <2>1. PICK port, level, qs2 : port = OutPort(p) /\ level = p.type /\ qs2 = Enqueued(p)
      OBVIOUS
    <2>2. p \in QueuedPackets /\ port \in Ports /\ level \in Levels
      BY <1>3, <2>1 DEF QueuedPackets
    <2>3. /\ qs2 \in [Queues -> Seq(QueuedPackets)]
          /\ qs2[MeterIndex(port, level)] = Append(queues[MeterIndex(port, level)], p)
          /\ \A i \in Queues : i # MeterIndex(port, level) => qs2[i] = queues[i]
      BY <1>1, <2>1, <2>2, EnqueuedFacts
    <2>4. /\ Backlogged(qs2, port)
          /\ Backlogged(Serve(qs2, port), port) <=> Backlogged(queues, port)
          /\ \A other \in Ports : other # port =>
               /\ Backlogged(qs2, other) <=> Backlogged(queues, other)
               /\ Backlogged(Serve(qs2, port), other) <=> Backlogged(queues, other)
      <3>1. PICK qs : qs = queues
        OBVIOUS
      <3>2. /\ qs \in [Queues -> Seq(QueuedPackets)] /\ qs2 \in [Queues -> Seq(QueuedPackets)]
            /\ port \in Ports /\ level \in Levels /\ p \in QueuedPackets
            /\ qs2[MeterIndex(port, level)] = Append(qs[MeterIndex(port, level)], p)
            /\ \A j \in Queues : j # MeterIndex(port, level) => qs2[j] = qs[j]
        BY ONLY <1>1, <2>2, <2>3, <3>1
      <3>3. /\ Backlogged(qs2, port)
            /\ Backlogged(Serve(qs2, port), port) <=> Backlogged(qs, port)
            /\ \A other \in Ports : other # port =>
                 /\ Backlogged(qs2, other) <=> Backlogged(qs, other)
                 /\ Backlogged(Serve(qs2, port), other) <=> Backlogged(qs, other)
        BY ONLY <3>2, EnqueueFacts
      <3> QED
        BY ONLY <3>1, <3>3
    <2>5. ASSUME NEW other \in Ports, other # OutPort(p)
          PROVE  /\ Backlogged(Enqueued(p), other) <=> Backlogged(queues, other)
                 /\ Backlogged(Serve(Enqueued(p), OutPort(p)), other) <=> Backlogged(queues, other)
      BY ONLY <2>1, <2>4, <2>5
    <2>6. /\ OutPort(p) \in Ports /\ Backlogged(Enqueued(p), OutPort(p))
          /\ Backlogged(Serve(Enqueued(p), OutPort(p)), OutPort(p)) <=> Backlogged(queues, OutPort(p))
      BY ONLY <2>1, <2>2, <2>4
    <2> QED
      BY ONLY <2>5, <2>6
  <1>4. CASE /\ p.dest # Self
             /\ queues' = Serve(Enqueued(p), OutPort(p))
             /\ port_flags' = port_flags
             /\ \E hop : done'.sent = {Departure(Enqueued(p), OutPort(p), hop, time)}
    <2>1. OwnEvents(done'.sent) = {}
      <3>1. PICK hop, d : d = Departure(Enqueued(p), OutPort(p), hop, time) /\ done'.sent = {d}
        BY <1>4
      <3>2. d.type = "ARRIVE"
        BY <3>1, EventFacts
      <3> QED
        BY ONLY <3>1, <3>2 DEF OwnEvents
    <2>2. \A port \in Ports : Backlogged(queues', port) <=> Backlogged(queues, port)
      BY <1>3, <1>4
    <2>3. OneDue(queues', port_flags, due)
      BY <2>2, DueKept
    <2> QED
      BY <1>1, <1>4, <2>1, <2>3
  <1>5. CASE /\ p.dest # Self
             /\ queues' = Enqueued(p)
             /\ port_flags[OutPort(p)] = 0
             /\ port_flags' = [port_flags EXCEPT ![OutPort(p)] = 1]
             /\ done'.sent = {Wakeup(Refilled(OutPort(p), time), Enqueued(p), OutPort(p))}
    <2>1. PICK port, w : port = OutPort(p) /\ w = Wakeup(Refilled(port, time), Enqueued(p), port)
      OBVIOUS
    <2>2. w.type = "SEND" /\ w.port = port
      BY <2>1, EventFacts
    <2>3. OwnEvents(done'.sent) = {w}
      BY ONLY <1>5, <2>1, <2>2 DEF OwnEvents
    <2>4. port \in Ports /\ Backlogged(queues', port)
          /\ \A other \in Ports : other # port => (Backlogged(queues', other) <=> Backlogged(queues, other))
      BY <1>3, <1>5, <2>1
    <2>5. OneDue(queues', PutIn(port_flags, port, 1), due \cup {w}) /\ w \notin due
      <3>1. port_flags[port] = 0
        BY <1>5, <2>1
      <3>2. PICK qs, qs2, flags : qs = queues /\ qs2 = queues' /\ flags = port_flags
        OBVIOUS
      <3>3. /\ flags \in [Ports -> {0, 1}] /\ OneDue(qs, flags, due) /\ flags[port] = 0
            /\ port \in Ports /\ Backlogged(qs2, port)
            /\ \A other \in Ports : other # port => (Backlogged(qs2, other) <=> Backlogged(qs, other))
        BY ONLY <1>1, <2>4, <3>1, <3>2, OneDue(queues, port_flags, due)
      <3>4. OneDue(qs2, PutIn(flags, port, 1), due \cup {w}) /\ w \notin due
        BY ONLY <2>2, <3>3, DueAdded
      <3> QED
        BY ONLY <3>2, <3>4
    <2>6. port_flags' = PutIn(port_flags, port, 1)
      BY <1>5, <2>1 DEF PutIn
    <2>7. port_flags' \in [Ports -> {0, 1}]
      BY ONLY <1>1, <2>4, <2>6 DEF PutIn
    <2> QED
      BY ONLY <2>2, <2>3, <2>4, <2>5, <2>6, <2>7
  <1>6. CASE /\ p.dest # Self
             /\ queues' = Enqueued(p)
             /\ port_flags[OutPort(p)] # 0
             /\ port_flags' = port_flags
             /\ done'.sent = {}
    <2>1. OwnEvents(done'.sent) = {}
      BY <1>6 DEF OwnEvents
    <2>2. Backlogged(queues, OutPort(p))
      BY <1>3, <1>6 DEF OneDue
    <2>3. \A port \in Ports : Backlogged(queues', port) <=> Backlogged(queues, port)
      BY <1>3, <1>6, <2>2
    <2>4. OneDue(queues', port_flags, due)
      BY <2>3, DueKept
    <2> QED
      BY <1>1, <1>6, <2>1, <2>4
  <1> QED
    BY <1>2, <1>4, <1>5, <1>6, ArriveEffect

\* handle_send_event keeps one SEND event due per waiting port.
LEMMA SendDue ==
  ASSUME Typed, NEW due, OneDue(queues, port_flags, due), NEW e \in due, NEW port \in Ports,
         port = e.port, NEW time, Send(port, time)
  PROVE  /\ OneDue(queues', port_flags', (due \ {e}) \cup OwnEvents(done'.sent))
         /\ OwnEvents(done'.sent) \cap (due \ {e}) = {}
         /\ port_flags' \in [Ports -> {0, 1}]
         /\ \A f \in OwnEvents(done'.sent) : f.port \in Ports
  <1>1. /\ queues \in [Queues -> Seq(QueuedPackets)] /\ port_flags \in [Ports -> {0, 1}]
        /\ Backlogged(queues, port)
    BY SendEffect DEF Typed
  <1>2. \A other \in Ports : other # port =>
          (Backlogged(Serve(queues, port), other) <=> Backlogged(queues, other))
    BY <1>1, ServeFacts
  <1>3. CASE /\ queues' = Serve(queues, port)
             /\ ~ Backlogged(Serve(queues, port), port)
             /\ port_flags' = [port_flags EXCEPT ![port] = 0]
             /\ \E hop : done'.sent = {Departure(queues, port, hop, time)}
    <2>1. OwnEvents(done'.sent) = {}
      <3>1. PICK hop, d : d = Departure(queues, port, hop, time) /\ done'.sent = {d}
        BY <1>3
      <3>2. d.type = "ARRIVE"
        BY <3>1, EventFacts
      <3> QED
        BY ONLY <3>1, <3>2 DEF OwnEvents
    <2>2. OneDue(queues', [port_flags EXCEPT ![port] = 0], due \ {e})
      BY <1>1, <1>2, <1>3, DueTaken
    <2>3. port_flags' \in [Ports -> {0, 1}]
      BY ONLY <1>1, <1>3
    <2> QED
      BY ONLY <1>3, <2>1, <2>2, <2>3
  <1>4. ASSUME NEW w, w.type = "SEND", w.port = port, OwnEvents(done'.sent) = {w},
               Backlogged(queues', port),
               \A other \in Ports : other # port =>
                 (Backlogged(queues', other) <=> Backlogged(queues, other)),
               port_flags' = port_flags
        PROVE  /\ OneDue(queues', port_flags', (due \ {e}) \cup OwnEvents(done'.sent))
               /\ OwnEvents(done'.sent) \cap (due \ {e}) = {}
               /\ port_flags' \in [Ports -> {0, 1}]
               /\ \A f \in OwnEvents(done'.sent) : f.port \in Ports
    <2>1. OneDue(queues', port_flags, (due \ {e}) \cup {w}) /\ w \notin due \ {e}
      <3>1. \A any \in Ports : Backlogged(queues', any) <=> Backlogged(queues, any)
        BY ONLY <1>1, <1>4
      <3> QED
        BY <1>4, <3>1, DueReplaced
    <2> QED
      BY <1>1, <1>4, <2>1
  <1>5. CASE /\ queues' = Serve(queues, port)
             /\ Backlogged(Serve(queues, port), port)
             /\ port_flags' = port_flags
             /\ \E hop : done'.sent = {Departure(queues, port, hop, time),
                                       Wakeup(shapers'[port], Serve(queues, port), port)}
    <2>1. PICK hop, w, d : /\ w = Wakeup(shapers'[port], Serve(queues, port), port)
                           /\ d = Departure(queues, port, hop, time)
                           /\ done'.sent = {d, w}
      BY <1>5
    <2>2. w.type = "SEND" /\ w.port = port /\ d.type = "ARRIVE"
      BY <2>1, EventFacts
    <2>3. OwnEvents({d, w}) = {w}
      BY <2>2, SentFacts
    <2>4. OwnEvents(done'.sent) = {w}
      BY ONLY <2>1, <2>3
    <2> QED
      BY <1>2, <1>4, <1>5, <2>2, <2>4
  <1>6. CASE /\ queues' = queues
             /\ port_flags' = port_flags
             /\ done'.sent = {Wakeup(Refilled(port, time), queues, port)}
    <2>1. PICK w : w = Wakeup(Refilled(port, time), queues, port)
      OBVIOUS
    <2>2. w.type = "SEND" /\ w.port = port
      BY <2>1, EventFacts
    <2>3. OwnEvents(done'.sent) = {w}
      BY <1>6, <2>1, <2>2 DEF OwnEvents
    <2> QED
      BY <1>1, <1>4, <1>6, <2>2, <2>3
  <1> QED
    BY <1>3, <1>5, <1>6, SendEffect

\* Meters and droppers remain what they are.
LEMMA ArriveShapes ==
  ASSUME Typed, NEW p, NEW time,
         p.dest # Self => p \in QueuedPackets /\ OutPort(p) \in Ports,
         Arrive(p, time)
  PROVE  meters' = [i \in Queues |-> meters'[i]] /\ Shaped(droppers')
  <1>1. meters = [i \in Queues |-> meters[i]] /\ Shaped(droppers)
    BY DEF Typed
  <1>2. ASSUME p.dest # Self
        PROVE  /\ Metered(p, time) = [i \in Queues |-> Metered(p, time)[i]]
               /\ Shaped(Judged(p, time))
    <2>1. PacketMeter(p) \in Queues
      BY <1>2, IndexFacts DEF PacketMeter, QueuedPackets
    <2>2. Shaped(Judged(p, time))
      BY <1>1, <2>1, JudgedFacts DEF Judged
    <2>3. PICK y : y = MeterUpdate(meters[PacketMeter(p)], p.size, time, MeterTicks(p))
      OBVIOUS
    <2>4. PICK ms : ms = [meters EXCEPT ![PacketMeter(p)] = y]
      OBVIOUS
    <2>5. ms = [i \in Queues |-> ms[i]]
      BY ONLY <1>1, <2>4
    <2>6. Metered(p, time) = ms
      BY ONLY <2>3, <2>4 DEF Metered
    <2> QED
      BY ONLY <2>2, <2>5, <2>6
  <1>3. CASE ArriveFinal(p, time)
    BY <1>1, <1>3 DEF ArriveFinal, arrays
  <1>4. CASE ArriveDropped(p, time)
    <2>1. p.dest # Self /\ meters' = Metered(p, time) /\ droppers' = Judged(p, time)
      BY ONLY <1>4 DEF ArriveDropped
    <2> QED
      BY ONLY <1>2, <2>1
  <1>5. CASE ArriveSendsNow(p, time)
    <2>1. PICK qs, ds, port : qs = Enqueued(p) /\ ds = Judged(p, time) /\ port = OutPort(p)
      OBVIOUS
    <2>2. p.dest # Self /\ meters' = Metered(p, time) /\ droppers' = Stamped(qs, ds, port, time)
      BY ONLY <1>5, <2>1 DEF ArriveSendsNow, SendNextPacket
    <2>3. Shaped(Stamped(qs, ds, port, time))
      BY <1>2, <2>1, <2>2, StampedFacts
    <2> QED
      BY ONLY <1>2, <2>2, <2>3
  <1>6. CASE ArriveSchedulesSend(p, time) \/ ArriveJoinsQueue(p, time)
    <2>1. p.dest # Self /\ meters' = Metered(p, time) /\ droppers' = Judged(p, time)
      BY ONLY <1>6 DEF ArriveSchedulesSend, ArriveJoinsQueue, ArriveWaits
    <2> QED
      BY ONLY <1>2, <2>1
  <1> QED
    BY <1>3, <1>4, <1>5, <1>6 DEF Arrive

\* handle_send_event keeps the shape of what it does not write.
LEMMA SendShapes ==
  ASSUME Typed, NEW port, NEW time, Send(port, time)
  PROVE  /\ meters' = [i \in Queues |-> meters'[i]]
         /\ Shaped(droppers')
         /\ UNCHANGED stats
  <1>1. meters = [i \in Queues |-> meters[i]] /\ Shaped(droppers)
    BY DEF Typed
  <1>2. Shaped(Stamped(queues, droppers, port, time))
    BY <1>1, StampedFacts
  <1> QED
    BY ONLY <1>1, <1>2, Send(port, time) DEF Send, SendLast, SendOneOfMany, SendPostponed, SendNextPacket

\* Queues, buckets and times remain what they are.
ClocksOK ==
  /\ queues \in [Queues -> Seq(QueuedPackets)]
  /\ shapers \in [Ports -> Bucket]
  /\ ports_available_time \in [Ports -> Nat]

\* A port that is served or delayed keeps proper clocks.
LEMMA MovedClocks ==
  ASSUME ClocksOK, NEW qs \in [Queues -> Seq(QueuedPackets)], NEW port \in Ports, NEW time \in Nat,
         Served(qs, port, time) \/ Delayed(qs, port, time)
  PROVE  ClocksOK' /\ \A e \in done'.sent : e.at \in Nat
  <1>1. CASE Served(qs, port, time)
    <2>1. /\ shapers' \in [Ports -> Bucket] /\ ports_available_time' \in [Ports -> Nat]
          /\ \A e \in done'.sent : e.at \in Nat
      BY <1>1, ServedClocks DEF ClocksOK
    <2>2. queues' = Serve(qs, port) /\ Backlogged(qs, port)
      BY <1>1 DEF Served
    <2>3. queues' \in [Queues -> Seq(QueuedPackets)]
      BY <2>2, ServeFacts
    <2> QED
      BY <2>1, <2>3 DEF ClocksOK
  <1>2. CASE Delayed(qs, port, time)
    <2>1. /\ shapers' \in [Ports -> Bucket] /\ ports_available_time' \in [Ports -> Nat]
          /\ \A e \in done'.sent : e.at \in Nat
      BY <1>2, DelayedClocks DEF ClocksOK
    <2>2. queues' \in [Queues -> Seq(QueuedPackets)]
      BY <1>2 DEF Delayed
    <2> QED
      BY <2>1, <2>2 DEF ClocksOK
  <1> QED
    BY <1>1, <1>2

\* handle_arrive_event keeps proper clocks.
LEMMA ArriveClocks ==
  ASSUME ClocksOK, NEW p, NEW time \in Nat,
         p.dest # Self => p \in QueuedPackets /\ OutPort(p) \in Ports,
         Arrive(p, time)
  PROVE  ClocksOK' /\ \A e \in done'.sent : e.at \in Nat
  <1>1. ASSUME p.dest # Self
        PROVE  /\ Enqueued(p) \in [Queues -> Seq(QueuedPackets)]
               /\ Backlogged(Enqueued(p), OutPort(p)) /\ p.dest \in DOMAIN Routing
    BY <1>1, EnqueuedFacts DEF ClocksOK, QueuedPackets
  <1>2. CASE UNCHANGED <<queues, shapers, ports_available_time>> /\ done'.sent = {}
    BY <1>2 DEF ClocksOK
  <1>3. ASSUME p.dest # Self,
               Served(Enqueued(p), OutPort(p), time) \/ Delayed(Enqueued(p), OutPort(p), time)
        PROVE  ClocksOK' /\ \A e \in done'.sent : e.at \in Nat
    <2>1. PICK qs, port : qs = Enqueued(p) /\ port = OutPort(p)
      OBVIOUS
    <2>2. /\ qs \in [Queues -> Seq(QueuedPackets)] /\ port \in Ports
          /\ Served(qs, port, time) \/ Delayed(qs, port, time)
      BY <1>1, <1>3, <2>1
    <2> QED
      BY <2>2, MovedClocks
  <1> QED
    BY <1>1, <1>2, <1>3, ArriveMoves

\* handle_send_event keeps proper clocks.
LEMMA SendClocks ==
  ASSUME ClocksOK, NEW port \in Ports, NEW time \in Nat, Send(port, time)
  PROVE  ClocksOK' /\ \A e \in done'.sent : e.at \in Nat
  <1>1. PICK qs : qs = queues
    OBVIOUS
  <1>2. qs \in [Queues -> Seq(QueuedPackets)] /\ (Served(qs, port, time) \/ Delayed(qs, port, time))
    BY <1>1, SendMoves DEF ClocksOK
  <1> QED
    BY <1>2, MovedClocks

\* What is sent is the next packet of the queues qs, or nothing.
LEMMA PidsServed ==
  ASSUME NEW qs, NEW port, NEW time, Served(qs, port, time)
  PROVE  PidsSent(done'.sent) = {NextPacket(qs, port).pid}
  <1>1. PICK hop, d, w :
          /\ d = Departure(qs, port, hop, time) /\ w = Wakeup(shapers'[port], Serve(qs, port), port)
          /\ done'.sent = {d} \/ done'.sent = {d, w}
    BY DEF Served
  <1>2. d.type = "ARRIVE" /\ w.type = "SEND" /\ d.packet = NextPacket(qs, port)
    BY <1>1, EventFacts
  <1>3. PidsSent({d}) = {d.packet.pid} /\ PidsSent({d, w}) = {d.packet.pid}
    BY <1>2, SentFacts
  <1> QED
    BY ONLY <1>1, <1>2, <1>3

\* A delayed port sends no packet.
LEMMA PidsDelayed ==
  ASSUME NEW qs, NEW port, NEW time, Delayed(qs, port, time)
  PROVE  PidsSent(done'.sent) = {}
  <1>1. PICK w : w = Wakeup(Refilled(port, time), qs, port)
    OBVIOUS
  <1>2. w.type = "SEND"
    BY <1>1, EventFacts
  <1>3. done'.sent = {} \/ done'.sent = {w}
    BY <1>1 DEF Delayed
  <1> QED
    BY <1>2, <1>3 DEF PidsSent

\* A set of packets sent, which is a part of those handled.
Balance(qs, out, st, H) == IsFiniteSet(H) /\ Counted(qs, out, Cardinality(out), st, H)

\* The packets sent are finitely many.
LEMMA BalanceFacts ==
  ASSUME NEW qs, NEW out, NEW st, NEW H, Balance(qs, out, st, H)
  PROVE  IsFiniteSet(out) /\ Cardinality(out) \in Nat
  <1>1. out \subseteq H
    BY DEF Balance, Counted
  <1> QED
    BY <1>1, PartIsFinite DEF Balance

\* A served port moves one packet from its queue to the wire.
LEMMA ServedBalance ==
  ASSUME NEW qs \in [Queues -> Seq(QueuedPackets)], NEW port \in Ports, NEW time,
         NEW out, NEW st, NEW H, Balance(qs, out, st, H), Served(qs, port, time)
  PROVE  Balance(queues', out \cup PidsSent(done'.sent), st, H)
  <1>1. PICK m, x : m = Cardinality(out) /\ x = NextPacket(qs, port).pid
    OBVIOUS
  <1>2. m \in Nat /\ IsFiniteSet(out)
    BY <1>1, BalanceFacts
  <1>3. Counted(Serve(qs, port), out \cup {x}, m + 1, st, H) /\ x \notin out
    BY <1>1, <1>2, ServedIsCounted DEF Balance, Served
  <1>4. Cardinality(out \cup {x}) = m + 1
    BY <1>1, <1>2, <1>3, OneMore
  <1>5. PidsSent(done'.sent) = {x} /\ queues' = Serve(qs, port)
    BY <1>1, PidsServed DEF Served
  <1> QED
    BY <1>3, <1>4, <1>5 DEF Balance

\* A delayed port moves no packet.
LEMMA DelayedBalance ==
  ASSUME NEW qs, NEW port, NEW time, NEW out, NEW st, NEW H, Balance(qs, out, st, H),
         Delayed(qs, port, time)
  PROVE  Balance(queues', out \cup PidsSent(done'.sent), st, H)
  <1>1. PidsSent(done'.sent) = {} /\ queues' = qs
    BY PidsDelayed DEF Delayed
  <1>2. out \cup {} = out
    OBVIOUS
  <1> QED
    BY ONLY <1>1, <1>2, Balance(qs, out, st, H)

\* handle_arrive_event accounts for the packet that arrived.
LEMMA ArriveBalance ==
  ASSUME ClocksOK, StatsOK(stats), NEW p, NEW time \in Nat, p.pid \in Nat, time - p.send_time \in Int,
         p.dest # Self => p \in QueuedPackets /\ OutPort(p) \in Ports,
         Arrive(p, time),
         NEW out, NEW H, Balance(queues, out, stats, H), p.pid \notin H
  PROVE  /\ Balance(queues', out \cup PidsSent(done'.sent), stats', H \cup {p.pid})
         /\ StatsOK(stats')
  <1>1. PICK x, m, st, st2 :
          x = p.pid /\ m = Cardinality(out) /\ st = stats /\ st2 = stats'
    OBVIOUS
  <1>2. m \in Nat /\ IsFiniteSet(H \cup {x}) /\ x \in Nat /\ x \notin H /\ IsFiniteSet(H)
    BY <1>1, BalanceFacts, FS_AddElement DEF Balance
  <1>3. ASSUME p.dest # Self
        PROVE  /\ Enqueued(p) \in [Queues -> Seq(QueuedPackets)]
               /\ Enqueued(p)[MeterIndex(OutPort(p), p.type)]
                    = Append(queues[MeterIndex(OutPort(p), p.type)], p)
               /\ \A i \in Queues : i # MeterIndex(OutPort(p), p.type) => Enqueued(p)[i] = queues[i]
               /\ Backlogged(Enqueued(p), OutPort(p))
               /\ MeterIndex(OutPort(p), p.type) \in Queues
    BY <1>3, EnqueuedFacts, IndexFacts DEF ClocksOK, QueuedPackets
  <1>4. CASE /\ UNCHANGED queues /\ done'.sent = {}
             /\ \/ stats' = UpdateStats(stats, p.pid, time - p.send_time, FALSE)
                \/ stats' = UpdateStats([stats EXCEPT !.received = @ + 1], p.pid, 0, TRUE)
    <2>1. PICK delay \in Int :
            \/ stats' = UpdateStats(stats, x, delay, FALSE)
            \/ stats' = UpdateStats([stats EXCEPT !.received = @ + 1], x, delay, TRUE)
      <3>1. PICK d \in Int : d = time - p.send_time
        OBVIOUS
      <3> QED
        BY ONLY <1>1, <1>4, <3>1, 0 \in Int
    <2>2. /\ StatsOK(st2)
          /\ RecordedIn(st2) = RecordedIn(st) \cup {x}
          /\ Len(st2.records) = Len(st.records) + 1
          /\ st2.received - st2.num_packets_dropped = st.received - st.num_packets_dropped
      BY <1>1, <1>2, <2>1, ArrivalIsRecorded
    <2>3. Counted(queues, out, m, st2, H \cup {x})
      BY <1>1, <1>2, <2>2, RecordedIsCounted DEF Balance
    <2>4. PidsSent(done'.sent) = {} /\ queues' = queues
      BY <1>4 DEF PidsSent
    <2>5. out \cup {} = out
      OBVIOUS
    <2> QED
      BY ONLY <1>1, <1>2, <2>2, <2>3, <2>4, <2>5 DEF Balance
  <1>5. ASSUME p.dest # Self,
               Served(Enqueued(p), OutPort(p), time) \/ Delayed(Enqueued(p), OutPort(p), time),
               \/ stats' = [stats EXCEPT !.received = @ + 1]
               \/ stats' = [stats EXCEPT !.received = @ + 1, !.num_packets_sent = @ + 1]
        PROVE  /\ Balance(queues', out \cup PidsSent(done'.sent), stats', H \cup {p.pid})
               /\ StatsOK(stats')
    <2>1. PICK qs, c, port : qs = Enqueued(p) /\ port = OutPort(p) /\ c = MeterIndex(port, p.type)
      OBVIOUS
    <2>2. /\ StatsOK(st2) /\ st2.records = st.records /\ st2.received = st.received + 1
          /\ st2.num_packets_dropped = st.num_packets_dropped
      <3>1. PICK r, n : r = st.received + 1 /\ n = st.num_packets_sent + 1
        OBVIOUS
      <3>2. r \in Int /\ n \in Int
        BY <1>1, <3>1 DEF StatsOK
      <3>3. PICK s1 : s1 = [st EXCEPT !.received = r]
        OBVIOUS
      <3>4. /\ StatsOK(s1) /\ s1.received = r /\ s1.records = st.records
            /\ s1.num_packets_dropped = st.num_packets_dropped
        BY <1>1, <3>2, <3>3, ReceivedFacts
      <3>5. CASE st2 = s1
        BY ONLY <3>1, <3>4, <3>5
      <3>6. PICK s2 : s2 = [s1 EXCEPT !.num_packets_sent = n]
        OBVIOUS
      <3>7. CASE st2 = s2
        <4>1. /\ StatsOK(s2) /\ s2.received = r /\ s2.records = st.records
              /\ s2.num_packets_dropped = st.num_packets_dropped
          BY ONLY <3>2, <3>4, <3>6, SentAtOnceFacts
        <4> QED
          BY ONLY <3>1, <3>7, <4>1
      <3>8. st2 = s1 \/ st2 = s2
        BY ONLY <1>1, <1>5, <3>1, <3>3, <3>6
      <3> QED
        BY ONLY <3>5, <3>7, <3>8
    <2>3. /\ qs \in [Queues -> Seq(QueuedPackets)] /\ c \in Queues /\ port \in Ports
          /\ p \in QueuedPackets
          /\ qs[c] = Append(queues[c], p)
          /\ \A j \in Queues : j # c => qs[j] = queues[j]
      BY <1>3, <1>5, <2>1
    <2>4. Counted(qs, out, m, st2, H \cup {x})
      <3>1. PICK qs0 : qs0 = queues
        OBVIOUS
      <3>2. /\ qs0 \in [Queues -> Seq(QueuedPackets)] /\ Counted(qs0, out, m, st, H)
            /\ qs[c] = Append(qs0[c], p)
            /\ \A j \in Queues : j # c => qs[j] = qs0[j]
        BY <1>1, <2>3, <3>1 DEF ClocksOK, Balance
      <3>3. p.pid \notin H /\ m \in Nat /\ IsFiniteSet(H)
        BY ONLY <1>1, <1>2
      <3>4. st.received \in Int
        BY <1>1 DEF StatsOK
      <3>5. PICK r \in Int : r = st.received + 1
        BY <3>4
      <3>6. StatsOK(st2) /\ st2.records = st.records /\ st2.received = r
            /\ st2.num_packets_dropped = st.num_packets_dropped
        BY ONLY <2>2, <3>5
      <3>7. Counted(qs, out, m, st2, H \cup {p.pid})
        <4>1. JoinsQueue(qs0, qs, c, p)
          BY ONLY <2>3, <3>2 DEF JoinsQueue
        <4>2. Receives(st, st2)
          BY ONLY <3>5, <3>6 DEF Receives
        <4> QED
          BY ONLY <4>1, <4>2, <3>2, <3>3, QueuedIsCounted
      <3> QED
        BY ONLY <1>1, <3>7
    <2>5. Balance(qs, out, st2, H \cup {x})
      BY ONLY <1>1, <1>2, <2>4 DEF Balance
    <2>6. Balance(queues', out \cup PidsSent(done'.sent), st2, H \cup {x})
      <3>1. Served(qs, port, time) \/ Delayed(qs, port, time)
        BY ONLY <1>5, <2>1
      <3>2. CASE Served(qs, port, time)
        BY ONLY <2>3, <2>5, <3>2, ServedBalance
      <3>3. CASE Delayed(qs, port, time)
        BY ONLY <2>5, <3>3, DelayedBalance
      <3> QED
        BY ONLY <3>1, <3>2, <3>3
    <2> QED
      BY ONLY <1>1, <2>2, <2>6
  <1>6. p.dest # Self => p.dest \in DOMAIN Routing /\ Backlogged(Enqueued(p), OutPort(p))
    BY <1>3 DEF QueuedPackets
  <1> QED
    BY <1>4, <1>5, <1>6, ArriveCounts

\* handle_send_event accounts for the packet it sends, if it does.
LEMMA SendBalance ==
  ASSUME ClocksOK, NEW port \in Ports, NEW time, Send(port, time),
         NEW out, NEW H, Balance(queues, out, stats, H)
  PROVE  Balance(queues', out \cup PidsSent(done'.sent), stats', H)
  <1>1. PICK qs, st : qs = queues /\ st = stats
    OBVIOUS
  <1>2. qs \in [Queues -> Seq(QueuedPackets)] /\ Balance(qs, out, st, H) /\ stats' = st
    BY <1>1, SendCounts DEF ClocksOK
  <1>3. CASE Served(qs, port, time)
    BY <1>2, <1>3, ServedBalance
  <1>4. CASE Delayed(qs, port, time)
    BY <1>2, <1>4, DelayedBalance
  <1> QED
    BY <1>1, <1>2, <1>3, <1>4, SendMoves

\* The size of the array of records is not part of the account.
LEMMA NormBalance ==
  ASSUME NEW qs, NEW out, NEW st, StatsOK(st), NEW H
  PROVE  Balance(qs, out, Norm(st), H) <=> Balance(qs, out, st, H)
  <1>1. PICK n : n = Norm(st)
    OBVIOUS
  <1>2. /\ StatsOK(n)
        /\ n = St(st.received, st.num_packets_recvd, st.num_packets_dropped,
                  st.num_packets_sent, st.records, MaxRecords)
    BY ONLY <1>1, StatsOK(st), NormFacts
  <1>3. /\ n.received = st.received /\ n.records = st.records
        /\ n.num_packets_dropped = st.num_packets_dropped
    BY ONLY <1>2, StFields
  <1>4. RecordedIn(n) = RecordedIn(st)
    BY ONLY <1>3 DEF RecordedIn
  <1> QED
    BY ONLY <1>1, <1>2, <1>3, <1>4, StatsOK(st) DEF Balance, Counted
-----------------------------------------------------------------------------
(* What an event leaves when it is handled.                                *)

\* What the account of the view says of the switch.
LEMMA AccountFacts ==
  ASSUME Shaped(droppers), StatsOK(stats), NEW due, NEW out, NEW H, Account(View, due, out, H)
  PROVE  /\ Typed /\ ClocksOK
         /\ OneDue(queues, port_flags, due)
         /\ Balance(queues, out, stats, H)
  <1>1. AView(View) /\ OneDue(queues, port_flags, due) /\ Balance(queues, out, Norm(stats), H)
    BY ViewFields DEF Account, Balance
  <1>2. Balance(queues, out, stats, H)
    BY <1>1, NormBalance
  <1>3. /\ meters = [i \in Queues |-> meters[i]]
        /\ queues \in [Queues -> Seq(QueuedPackets)]
        /\ shapers \in [Ports -> Bucket]
        /\ port_flags \in [Ports -> {0, 1}]
        /\ ports_available_time \in [Ports -> Nat]
    BY ONLY <1>1, ViewFields DEF AView
  <1> QED
    BY <1>1, <1>2, <1>3 DEF Typed, ClocksOK

\* The view of a switch of the right shape is a view.
LEMMA ViewIsView ==
  ASSUME meters' = [i \in Queues |-> meters'[i]], ClocksOK', port_flags' \in [Ports -> {0, 1}]
  PROVE  AView(View')
  <1>1. PICK a, b, c, d, e, f, g :
          /\ a = meters' /\ b = queues' /\ c = droppers' /\ d = shapers' /\ e = port_flags'
          /\ f = ports_available_time' /\ g = Norm(stats')
    OBVIOUS
  <1>2. PICK v : v = View'
    OBVIOUS
  <1>3. v = [meters |-> a, queues |-> b, droppers |-> c, shapers |-> d, port_flags |-> e,
             ports_available_time |-> f, stats |-> g]
    BY ONLY <1>1, <1>2 DEF View, Norm
  <1>4. /\ v = [meters |-> v.meters, queues |-> v.queues, droppers |-> v.droppers,
                shapers |-> v.shapers, port_flags |-> v.port_flags,
                ports_available_time |-> v.ports_available_time, stats |-> v.stats]
        /\ v.meters = a /\ v.queues = b /\ v.shapers = d /\ v.port_flags = e
        /\ v.ports_available_time = f
    BY ONLY <1>3
  <1>5. AView(v)
    BY <1>1, <1>4 DEF AView, ClocksOK
  <1> QED
    BY ONLY <1>2, <1>5

\* The account of the view after a step, from its parts.
LEMMA AccountNext ==
  ASSUME meters' = [i \in Queues |-> meters'[i]], ClocksOK', port_flags' \in [Ports -> {0, 1}],
         StatsOK(stats'),
         NEW due, OneDue(queues', port_flags', due),
         NEW out, NEW H, Balance(queues', out, stats', H)
  PROVE  Account(View', due, out, H)
  <1>1. AView(View')
    BY ViewIsView
  <1>2. PICK qs, st : qs = queues' /\ st = stats'
    OBVIOUS
  <1>3. Balance(qs, out, Norm(st), H)
    BY <1>2, NormBalance
  <1> QED
    BY ONLY <1>1, <1>2, <1>3, OneDue(queues', port_flags', due), ViewFieldsNext DEF Account, Balance

\* What is known of a packet that arrives.
LEMMA ArrivingFacts ==
  ASSUME NEW e, AnEvent(e), e.type = "ARRIVE", NEW p, p = e.packet
  PROVE  /\ p.pid \in Nat /\ e.at \in Nat /\ e.at - p.send_time \in Int
         /\ p.dest # Self => p \in QueuedPackets /\ OutPort(p) \in Ports
  <1>1. "ARRIVE" # "SEND"
    OBVIOUS
  <1>2. PICK o \in Offers : p = Packet(o, p.pid)
    BY <1>1 DEF AnEvent
  <1>3. p.pid \in Nat /\ e.at \in Nat
    BY <1>1 DEF AnEvent
  <1>4. o \in [dest : DOMAIN Routing \cup {Self}, type : Levels, size : Nat \ {0}]
    BY <1>2, OptimisticAssumption
  <1>5. /\ p.dest = o.dest /\ p.send_time = 0
        /\ p = [pid |-> p.pid, dest |-> o.dest, type |-> o.type, size |-> o.size, send_time |-> 0]
    BY <1>2 DEF Packet
  <1>6. e.at - p.send_time \in Int
    BY <1>3, <1>5
  <1>7. ASSUME p.dest # Self PROVE p \in QueuedPackets /\ OutPort(p) \in Ports
    <2>1. o.dest \in DOMAIN Routing /\ o.type \in Levels /\ o.size \in Nat \ {0}
      BY <1>4, <1>5, <1>7
    <2>2. p \in QueuedPackets
      BY <1>3, <1>5, <2>1 DEF QueuedPackets
    <2> QED
      BY <1>5, <2>1, <2>2, SwitchAssumption DEF OutPort
  <1> QED
    BY <1>3, <1>6, <1>7

\* The view after the event, and what is due, sent and handled then.
LEMMA ArriveHandled ==
  ASSUME Shaped(droppers), StatsOK(stats), NEW due, NEW out, NEW H, Account(View, due, out, H),
         NEW e, AnEvent(e), e.type = "ARRIVE", e.packet.pid \notin H, Arrive(e.packet, e.at)
  PROVE  /\ Account(View', due \cup OwnEvents(done'.sent), out \cup PidsSent(done'.sent),
                    H \cup {e.packet.pid})
         /\ ArriveUndone(done', View, View')
         /\ OwnEvents(done'.sent) \cap due = {}
         /\ Shaped(droppers') /\ StatsOK(stats')
         /\ \A f \in OwnEvents(done'.sent) : AnEvent(f)
  <1>1. /\ Typed /\ ClocksOK /\ OneDue(queues, port_flags, due)
        /\ Balance(queues, out, stats, H)
    BY AccountFacts
  <1>2. PICK p, time : p = e.packet /\ time = e.at
    OBVIOUS
  <1>3. /\ p.pid \in Nat /\ time \in Nat /\ time - p.send_time \in Int
        /\ p.dest # Self => p \in QueuedPackets /\ OutPort(p) \in Ports
        /\ p.pid \notin H /\ Arrive(p, time)
    BY <1>2, ArrivingFacts
  <1>4. ArriveUndone(done', View, View')
    BY <1>1, <1>3, ArriveIsUndone
  <1>5. /\ OneDue(queues', port_flags', due \cup OwnEvents(done'.sent))
        /\ OwnEvents(done'.sent) \cap due = {}
        /\ port_flags' \in [Ports -> {0, 1}]
        /\ \A f \in OwnEvents(done'.sent) : f.port \in Ports
    BY <1>1, <1>3, ArriveDue
  <1>6. meters' = [i \in Queues |-> meters'[i]] /\ Shaped(droppers')
    BY <1>1, <1>3, ArriveShapes
  <1>7. ClocksOK' /\ \A f \in done'.sent : f.at \in Nat
    BY <1>1, <1>3, ArriveClocks
  <1>8. /\ Balance(queues', out \cup PidsSent(done'.sent), stats', H \cup {p.pid})
        /\ StatsOK(stats')
    BY <1>1, <1>3, ArriveBalance
  <1>9. Account(View', due \cup OwnEvents(done'.sent), out \cup PidsSent(done'.sent), H \cup {p.pid})
    BY <1>5, <1>6, <1>7, <1>8, AccountNext
  <1>10. \A f \in OwnEvents(done'.sent) : AnEvent(f)
    BY <1>5, <1>7 DEF OwnEvents, AnEvent
  <1> QED
    BY ONLY <1>2, <1>4, <1>5, <1>6, <1>8, <1>9, <1>10

\* Handling a SEND event leads from one account to the next.
LEMMA SendHandled ==
  ASSUME Shaped(droppers), StatsOK(stats), NEW due, NEW out, NEW H, Account(View, due, out, H),
         NEW e \in due, AnEvent(e), Send(e.port, e.at)
  PROVE  /\ Account(View', (due \ {e}) \cup OwnEvents(done'.sent), out \cup PidsSent(done'.sent), H)
         /\ SendUndone(done', View, View')
         /\ OwnEvents(done'.sent) \cap (due \ {e}) = {}
         /\ Shaped(droppers') /\ StatsOK(stats')
         /\ \A f \in OwnEvents(done'.sent) : AnEvent(f)
  <1>1. /\ Typed /\ ClocksOK /\ OneDue(queues, port_flags, due)
        /\ Balance(queues, out, stats, H)
    BY AccountFacts
  <1>2. PICK port, time : port = e.port /\ time = e.at
    OBVIOUS
  <1>3. port \in Ports /\ time \in Nat /\ Send(port, time)
    <2>1. e.type = "SEND"
      BY <1>1 DEF OneDue
    <2>2. "ARRIVE" # "SEND"
      OBVIOUS
    <2> QED
      BY <1>2, <2>1, <2>2 DEF AnEvent
  <1>4. SendUndone(done', View, View')
    <2>1. Backlogged(queues, port)
      BY <1>3, SendEffect
    <2>2. port_flags[port] = 1
      BY <1>1, <1>3, <2>1 DEF OneDue
    <2> QED
      BY <1>1, <1>3, <2>2, SendIsUndone
  <1>5. /\ OneDue(queues', port_flags', (due \ {e}) \cup OwnEvents(done'.sent))
        /\ OwnEvents(done'.sent) \cap (due \ {e}) = {}
        /\ port_flags' \in [Ports -> {0, 1}]
        /\ \A f \in OwnEvents(done'.sent) : f.port \in Ports
    BY <1>1, <1>2, <1>3, SendDue
  <1>6. meters' = [i \in Queues |-> meters'[i]] /\ Shaped(droppers') /\ UNCHANGED stats
    BY <1>1, <1>3, SendShapes
  <1>7. ClocksOK' /\ \A f \in done'.sent : f.at \in Nat
    BY <1>1, <1>3, SendClocks
  <1>8. Balance(queues', out \cup PidsSent(done'.sent), stats', H)
    BY <1>1, <1>3, SendBalance
  <1>9. StatsOK(stats')
    BY <1>6
  <1>10. Account(View', (due \ {e}) \cup OwnEvents(done'.sent), out \cup PidsSent(done'.sent), H)
    BY <1>5, <1>6, <1>7, <1>8, <1>9, AccountNext
  <1>11. \A f \in OwnEvents(done'.sent) : AnEvent(f)
    BY <1>5, <1>7 DEF OwnEvents, AnEvent
  <1> QED
    BY ONLY <1>4, <1>5, <1>6, <1>9, <1>10, <1>11
-----------------------------------------------------------------------------
(* The events that are to be handled.                                      *)

Known(e) == IF e.type = "ARRIVE" THEN {e.packet.pid} ELSE {}

\* The inbox after an event is handled.
LEMMA BoxHandled ==
  ASSUME NEW box, NEW H, NEW n, BoxOK(box, H, n), NEW e \in box,
         NEW own, own = OwnEvents(own), \A f \in own : AnEvent(f)
  PROVE  BoxOK((box \ {e}) \cup own, H \cup Known(e), n)
  <1>1. PICK box2, H2 : box2 = (box \ {e}) \cup own /\ H2 = H \cup Known(e)
    OBVIOUS
  <1>2. \A f \in box2 : AnEvent(f)
    BY <1>1 DEF BoxOK
  <1>3. Arrivals(box2) = Arrivals(box) \ {e}
    <2>1. \A f \in own : f.type # "ARRIVE"
      <3>1. "ARRIVE" # "SEND"
        OBVIOUS
      <3> QED
        BY ONLY <3>1, own = OwnEvents(own) DEF OwnEvents
    <2> QED
      BY ONLY <1>1, <2>1 DEF Arrivals
  <1>4. \A f, g \in Arrivals(box) : f.packet.pid = g.packet.pid => f = g
    BY DEF BoxOK
  <1>5. /\ \A f \in Arrivals(box) : f.packet.pid \in (1 .. n) \ H
        /\ H \subseteq 1 .. n
    BY DEF BoxOK
  <1>6. H2 \subseteq 1 .. n
    BY <1>1, <1>5 DEF Known, Arrivals
  <1>7. \A f \in Arrivals(box2) : f.packet.pid \in (1 .. n) \ H2
    <2>1. ASSUME NEW f \in Arrivals(box2) PROVE f.packet.pid \notin Known(e)
      <3>1. CASE e.type = "ARRIVE"
        <4>1. e \in Arrivals(box) /\ f \in Arrivals(box) /\ f # e
          BY <1>3, <2>1, <3>1 DEF Arrivals
        <4> QED
          BY <1>4, <3>1, <4>1 DEF Known
      <3>2. CASE e.type # "ARRIVE"
        BY <3>2 DEF Known
      <3> QED
        BY <3>1, <3>2
    <2> QED
      BY ONLY <1>1, <1>3, <1>5, <2>1
  <1> QED
    BY ONLY <1>1, <1>2, <1>3, <1>4, <1>6, <1>7 DEF BoxOK

\* The inbox after an event is undone.
LEMMA BoxUndone ==
  ASSUME NEW box, NEW H, NEW n, NEW e, BoxOK(box, H \cup Known(e), n), AnEvent(e),
         e.type = "ARRIVE" => e.packet.pid \notin H,
         NEW own, NEW gone
  PROVE  BoxOK((box \ own) \cup ({e} \ gone), H, n)
  <1>1. PICK box2, H2 : box2 = (box \ own) \cup ({e} \ gone) /\ H2 = H \cup Known(e)
    OBVIOUS
  <1>2. /\ \A f \in box : AnEvent(f)
        /\ \A f \in Arrivals(box) : f.packet.pid \in (1 .. n) \ H2
        /\ \A f, g \in Arrivals(box) : f.packet.pid = g.packet.pid => f = g
        /\ H2 \subseteq 1 .. n
    BY ONLY <1>1, BoxOK(box, H \cup Known(e), n) DEF BoxOK
  <1>3. \A f \in Arrivals(box2) : f \in Arrivals(box) \/ (f = e /\ e.type = "ARRIVE")
    BY <1>1 DEF Arrivals
  <1>4. e.type = "ARRIVE" => e.packet.pid \in H2
    BY <1>1 DEF Known
  <1>5. \A f \in box2 : AnEvent(f)
    BY <1>1, <1>2
  <1>6. \A f \in Arrivals(box2) : f.packet.pid \in (1 .. n) \ H
    BY <1>1, <1>2, <1>3, <1>4
  <1>7. \A f, g \in Arrivals(box2) : f.packet.pid = g.packet.pid => f = g
    BY ONLY <1>2, <1>3, <1>4
  <1>8. H \subseteq 1 .. n
    BY <1>1, <1>2
  <1> QED
    BY ONLY <1>1, <1>5, <1>6, <1>7, <1>8 DEF BoxOK

\* What has been handled before an entry and with it.
LEMMA HandledMore ==
  ASSUME NEW lg, NEW k \in Nat
  PROVE  /\ HandledIn(lg, k + 1) = HandledIn(lg, k) \cup Known(lg[k + 1].event)
         /\ SentIn(lg, k + 1) = SentIn(lg, k) \cup PidsSent(lg[k + 1].done.sent)
  BY OneEntryMore DEF Known
-----------------------------------------------------------------------------
(* Each step keeps the history.                                            *)

\* The switch and its SEND events are as they were.
LEMMA Untouched ==
  ASSUME TWInv, UNCHANGED <<swvars, log>>, OwnEvents(inbox') = OwnEvents(inbox),
         arrived' \in Nat, BoxOK(inbox', HandledIn(log, Len(log)), arrived'),
         DoomedOK(doomed', log)
  PROVE  TWInv'
  <1>1. View' = View
    BY DEF View, swvars
  <1>2. UNCHANGED <<droppers, stats, log>>
    BY DEF swvars
  <1>3. History(log', View', OwnEvents(inbox'))
    BY ONLY <1>1, <1>2, TWInv, OwnEvents(inbox') = OwnEvents(inbox) DEF TWInv
  <1> QED
    BY <1>2, <1>3 DEF TWInv

\* A packet that comes from elsewhere leaves the history alone.
LEMMA ReceiveKeepsHistory ==
  ASSUME TWInv, NEW o \in Offers, NEW time \in ArrivalTimes, Receive(o, time)
  PROVE  TWInv'
  <1>1. PICK n, H, p, e : /\ n = arrived + 1 /\ H = HandledIn(log, Len(log))
                          /\ p = Packet(o, n) /\ e = [type |-> "ARRIVE", packet |-> p, at |-> time]
    OBVIOUS
  <1>2. arrived \in Nat /\ n \in Nat /\ BoxOK(inbox, H, arrived)
    BY <1>1 DEF TWInv
  <1>3. arrived' = n /\ inbox' = inbox \cup {e} /\ UNCHANGED <<swvars, log, doomed>>
    BY <1>1 DEF Receive
  <1>4. e.type = "ARRIVE" /\ e.packet = p /\ e.at = time /\ p.pid = n
    BY <1>1 DEF Packet
  <1>5. AnEvent(e)
    <2>1. e.packet = Packet(o, e.packet.pid) /\ time \in Nat
      BY <1>1, <1>4, OptimisticAssumption
    <2> QED
      BY <1>2, <1>4, <2>1 DEF AnEvent
  <1>6. OwnEvents(inbox') = OwnEvents(inbox)
    <2>1. "ARRIVE" # "SEND"
      OBVIOUS
    <2> QED
      BY <1>3, <1>4, <2>1 DEF OwnEvents
  <1>7. BoxOK(inbox', H, n)
    <2>1. Arrivals(inbox') = Arrivals(inbox) \cup {e}
      BY <1>3, <1>4 DEF Arrivals
    <2>2. /\ \A f \in inbox : AnEvent(f)
          /\ \A f \in Arrivals(inbox) : f.packet.pid \in (1 .. arrived) \ H
          /\ \A f, g \in Arrivals(inbox) : f.packet.pid = g.packet.pid => f = g
          /\ H \subseteq 1 .. arrived
      BY ONLY <1>2 DEF BoxOK
    <2>3. n \in 1 .. n /\ n \notin 1 .. arrived /\ 1 .. arrived \subseteq 1 .. n
      BY <1>1, <1>2
    <2>4. \A f \in inbox' : AnEvent(f)
      BY <1>3, <1>5, <2>2
    <2>5. \A f \in Arrivals(inbox') : f.packet.pid \in (1 .. n) \ H
      BY ONLY <1>4, <2>1, <2>2, <2>3
    <2>6. \A f, g \in Arrivals(inbox') : f.packet.pid = g.packet.pid => f = g
      BY ONLY <1>4, <2>1, <2>2, <2>3
    <2>7. H \subseteq 1 .. n
      BY ONLY <2>2, <2>3
    <2> QED
      BY ONLY <2>4, <2>5, <2>6, <2>7 DEF BoxOK
  <1>8. DoomedOK(doomed', log)
    BY <1>3 DEF TWInv
  <1> QED
    BY <1>1, <1>2, <1>3, <1>6, <1>7, <1>8, Untouched

\* An anti-message leaves the history alone.
LEMMA CancelKeepsHistory ==
  ASSUME TWInv, NEW pid, Cancel(pid)
  PROVE  TWInv'
  <1>1. PICK H : H = HandledIn(log, Len(log))
    OBVIOUS
  <1>2. /\ UNCHANGED <<swvars, log, arrived>>
        /\ \/ /\ inbox' = {e \in inbox : ~ (e.type = "ARRIVE" /\ e.packet.pid = pid)}
              /\ UNCHANGED doomed
           \/ /\ UNCHANGED inbox
              /\ \E i \in DOMAIN log : log[i].event.type = "ARRIVE" /\ doomed' = {log[i].event}
    BY DEF Cancel
  <1>3. inbox' \subseteq inbox /\ OwnEvents(inbox') = OwnEvents(inbox)
    <2>1. "ARRIVE" # "SEND"
      OBVIOUS
    <2> QED
      BY ONLY <1>2, <2>1 DEF OwnEvents
  <1>4. BoxOK(inbox', H, arrived)
    <2>1. BoxOK(inbox, H, arrived)
      BY <1>1 DEF TWInv
    <2>2. Arrivals(inbox') \subseteq Arrivals(inbox)
      BY <1>3 DEF Arrivals
    <2> QED
      BY ONLY <1>3, <2>1, <2>2 DEF BoxOK
  <1>5. DoomedOK(doomed', log)
    <2>1. DOMAIN log = 1 .. Len(log)
      <3>1. IsLog(log)
        BY DEF TWInv
      <3> QED
        BY <3>1 DEF IsLog
    <2>2. DoomedOK(doomed, log)
      BY DEF TWInv
    <2> QED
      BY ONLY <1>2, <2>1, <2>2 DEF DoomedOK
  <1>6. arrived' \in Nat /\ arrived' = arrived
    BY <1>2 DEF TWInv
  <1> QED
    BY <1>1, <1>2, <1>3, <1>4, <1>5, <1>6, Untouched

\* An event that is handled extends the history.
LEMMA HandleKeepsHistory ==
  ASSUME TWInv, NEW e \in inbox, Handle(e)
  PROVE  TWInv'
  <1>1. PICK n, m, lg, lg2, v, v2, due, H, out, d :
          /\ lg = log /\ lg2 = log' /\ n = Len(log) /\ m = n + 1
          /\ v = View /\ v2 = View' /\ due = OwnEvents(inbox) /\ d = done'
          /\ H = HandledIn(log, n) /\ out = SentIn(log, n)
    OBVIOUS
  <1>2. PICK entry : entry = [event |-> e, done |-> d, before |-> v, due |-> due]
    OBVIOUS
  <1>3. entry.event = e /\ entry.done = d /\ entry.before = v /\ entry.due = due
    BY ONLY <1>2
  <1>4. /\ \/ e.type = "ARRIVE" /\ Arrive(e.packet, e.at)
           \/ e.type = "SEND" /\ Send(e.port, e.at)
        /\ lg2 = Append(lg, entry)
        /\ inbox' = (inbox \ {e}) \cup OwnEvents(d.sent)
        /\ doomed = {} /\ doomed' = doomed /\ arrived' = arrived
    BY ONLY <1>1, <1>2, Handle(e) DEF Handle, RollbackDue
  <1>5. /\ Shaped(droppers) /\ StatsOK(stats) /\ arrived \in Nat /\ IsLog(lg)
        /\ BoxOK(inbox, H, arrived) /\ History(lg, v, due)
    BY ONLY <1>1, TWInv DEF TWInv
  <1>6. /\ n \in Nat /\ m \in Nat /\ Len(lg2) = m /\ IsLog(lg2) /\ lg2[m] = entry
        /\ \A i \in 1 .. n : lg2[i] = lg[i]
    <2>1. n = Len(lg)
      BY ONLY <1>1
    <2>2. IsLog(lg) /\ lg2 = Append(lg, entry)
      BY ONLY <1>4, <1>5
    <2>3. PICK k : k = Len(lg2)
      OBVIOUS
    <2>4. n \in Nat /\ k = n + 1 /\ lg2[k] = entry /\ \A i \in 1 .. n : lg2[i] = lg[i]
      BY ONLY <2>1, <2>2, <2>3, LogGrows
    <2>5. IsLog(lg2)
      BY ONLY <2>2, LogGrows
    <2> QED
      BY ONLY <1>1, <2>3, <2>4, <2>5
  <1>7. /\ HandledIn(lg2, m) = H \cup Known(e) /\ SentIn(lg2, m) = out \cup PidsSent(d.sent)
        /\ HandledIn(lg2, n) = H
    <2>1. HandledIn(lg2, n) = H /\ SentIn(lg2, n) = out
      BY <1>1, <1>6, SamePrefix
    <2>2. /\ HandledIn(lg2, m) = HandledIn(lg2, n) \cup Known(lg2[m].event)
          /\ SentIn(lg2, m) = SentIn(lg2, n) \cup PidsSent(lg2[m].done.sent)
      <3>1. n \in Nat /\ m = n + 1
        BY <1>1, <1>6
      <3> QED
        BY ONLY <3>1, HandledMore
    <2> QED
      BY ONLY <1>3, <1>6, <2>1, <2>2
  <1>8. Account(v, due, out, H)
    <2>1. n \in 0 .. Len(lg) /\ ViewOf(lg, v, n) = v /\ DueOf(lg, due, n) = due
      BY <1>1, <1>6 DEF ViewOf, DueOf
    <2> QED
      BY <1>1, <1>5, <2>1 DEF History, Stage
  <1>9. /\ AnEvent(e)
        /\ e.type = "ARRIVE" => e.packet.pid \notin H
    BY <1>5 DEF BoxOK, Arrivals
  <1>10. PICK own : own = OwnEvents(d.sent)
    OBVIOUS
  <1>11. /\ Account(v2, (due \ {e}) \cup own, out \cup PidsSent(d.sent), H \cup Known(e))
         /\ Undone(entry, v2)
         /\ own \cap (due \ {e}) = {}
         /\ e.type = "SEND" => e \in due
         /\ Shaped(droppers') /\ StatsOK(stats')
         /\ \A f \in own : AnEvent(f)
    <2>1. CASE e.type = "ARRIVE" /\ Arrive(e.packet, e.at)
      <3>1. e \notin due /\ Known(e) = {e.packet.pid} /\ e.type # "SEND"
        <4>1. "ARRIVE" # "SEND"
          OBVIOUS
        <4> QED
          BY <1>1, <2>1, <4>1 DEF OwnEvents, Known
      <3>2. due \ {e} = due
        BY <3>1
      <3>3. /\ Account(v2, due \cup own, out \cup PidsSent(d.sent), H \cup {e.packet.pid})
            /\ ArriveUndone(d, v, v2)
            /\ own \cap due = {}
            /\ Shaped(droppers') /\ StatsOK(stats')
            /\ \A f \in own : AnEvent(f)
        BY <1>1, <1>5, <1>8, <1>9, <1>10, <2>1, ArriveHandled
      <3> QED
        BY ONLY <1>3, <2>1, <3>1, <3>2, <3>3 DEF Undone
    <2>2. CASE e.type = "SEND" /\ Send(e.port, e.at)
      <3>1. e \in due /\ Known(e) = {}
        <4>1. "ARRIVE" # "SEND"
          OBVIOUS
        <4> QED
          BY <1>1, <2>2, <4>1 DEF OwnEvents, Known
      <3>2. H \cup {} = H
        OBVIOUS
      <3>3. /\ Account(v2, (due \ {e}) \cup own, out \cup PidsSent(d.sent), H)
            /\ SendUndone(d, v, v2)
            /\ own \cap (due \ {e}) = {}
            /\ Shaped(droppers') /\ StatsOK(stats')
            /\ \A f \in own : AnEvent(f)
        BY <1>1, <1>5, <1>8, <1>9, <1>10, <2>2, <3>1, SendHandled
      <3> QED
        BY ONLY <1>3, <2>2, <3>1, <3>2, <3>3 DEF Undone
    <2> QED
      BY ONLY <1>4, <2>1, <2>2
  <1>12. own = OwnEvents(own)
    BY <1>10 DEF OwnEvents
  <1>13. BoxOK(inbox', H \cup Known(e), arrived)
    BY <1>4, <1>5, <1>10, <1>11, <1>12, BoxHandled
  <1>14. OwnEvents(inbox') = (due \ {e}) \cup own
    BY ONLY <1>1, <1>4, <1>10, <1>12 DEF OwnEvents
  <1>15. Stage(lg2, m, v2, OwnEvents(inbox'))
    <2>1. EntryOK(lg2, m, v2, OwnEvents(inbox'))
      <3>1. Follows(entry, OwnEvents(inbox'))
        BY ONLY <1>3, <1>10, <1>11, <1>14 DEF Follows
      <3>2. m - 1 = n
        BY <1>1, <1>6
      <3> QED
        BY ONLY <1>3, <1>6, <1>7, <1>9, <1>11, <3>1, <3>2 DEF EntryOK
    <2> QED
      BY ONLY <1>7, <1>11, <1>14, <2>1 DEF Stage
  <1>16. History(lg2, v2, OwnEvents(inbox'))
    BY <1>3, <1>4, <1>5, <1>6, <1>15, HistoryGrows
  <1>17. DoomedOK(doomed', lg2)
    BY <1>4 DEF DoomedOK
  <1> QED
    BY ONLY <1>1, <1>4, <1>5, <1>6, <1>7, <1>11, <1>13, <1>16, <1>17 DEF TWInv

\* There is something to undo when a rollback is due.
LEMMA RollbackHasLog ==
  ASSUME TWInv, RollbackDue
  PROVE  Len(log) # 0
  <1>1. IsLog(log) /\ DoomedOK(doomed, log) /\ \A e \in inbox : AnEvent(e)
    BY DEF TWInv, BoxOK
  <1>2. CASE doomed # {}
    <2>1. PICK i : i \in 1 .. Len(log)
      BY <1>1, <1>2 DEF DoomedOK
    <2> QED
      BY <1>1, <2>1 DEF IsLog
  <1>3. CASE \E e \in inbox : e.at < LocalTime
    <2>1. PICK e \in inbox : e.at < LocalTime
      BY <1>3
    <2>2. e.at \in Nat
      BY <1>1 DEF AnEvent
    <2>3. log # <<>>
      BY <2>1, <2>2 DEF LocalTime
    <2> QED
      BY <1>1, <2>3 DEF IsLog
  <1> QED
    BY <1>2, <1>3 DEF RollbackDue

\* The last entry of the log is taken back.
LEMMA UndoRestores ==
  ASSUME TWInv, Undo
  PROVE  /\ Len(log) # 0
         /\ AView(log[Len(log)].before) /\ AView(View') /\ Same(View', log[Len(log)].before)
         /\ Shaped(droppers') /\ StatsOK(stats')
  <1>1. Len(log) # 0
    BY RollbackHasLog DEF Undo
  <1>2. PICK n, m, v, b, last, H, out :
          /\ n = Len(log) /\ m = n - 1 /\ v = View /\ last = log[n] /\ b = last.before
          /\ H = HandledIn(log, m) /\ out = SentIn(log, m)
    OBVIOUS
  <1>3. /\ IsLog(log) /\ History(log, v, OwnEvents(inbox)) /\ Shaped(droppers) /\ StatsOK(stats)
    BY <1>2 DEF TWInv
  <1>4. n \in Nat /\ m \in Nat /\ m + 1 = n /\ m # n /\ m \in 0 .. Len(log) /\ n \in 0 .. Len(log) /\ n > 0
    BY <1>1, <1>2, <1>3 DEF IsLog
  <1>5. Undone(last, v)
    <2>1. Stage(log, n, ViewOf(log, v, n), DueOf(log, OwnEvents(inbox), n)) /\ ViewOf(log, v, n) = v
      BY <1>2, <1>3, <1>4 DEF History, ViewOf
    <2> QED
      BY <1>2, <1>4, <2>1 DEF Stage, EntryOK
  <1>6. Account(b, last.due, out, H)
    <2>1. Stage(log, m, ViewOf(log, v, m), DueOf(log, OwnEvents(inbox), m))
      BY <1>3, <1>4 DEF History
    <2>2. ViewOf(log, v, m) = b /\ DueOf(log, OwnEvents(inbox), m) = last.due
      BY ONLY <1>2, <1>4 DEF ViewOf, DueOf
    <2> QED
      BY <1>2, <2>1, <2>2 DEF Stage
  <1>7. AView(b) /\ StatsOK(b.stats)
    BY <1>6 DEF Account, Counted
  <1>8. Same(View', b) /\ Shaped(droppers') /\ StatsOK(stats')
    <2>1. PICK d : d = last.done
      OBVIOUS
    <2>2. CASE last.event.type = "ARRIVE" /\ ArriveReverse(last.done)
      <3>1. ArriveUndone(d, b, View) /\ ArriveReverse(d)
        <4>1. "ARRIVE" # "SEND"
          OBVIOUS
        <4> QED
          BY <1>2, <1>5, <2>1, <2>2, <4>1 DEF Undone
      <3> QED
        BY <1>3, <1>7, <3>1, ArriveReverseRestores
    <2>3. CASE last.event.type = "SEND" /\ SendReverse(last.done)
      <3>1. SendUndone(d, b, View) /\ SendReverse(d)
        <4>1. "ARRIVE" # "SEND"
          OBVIOUS
        <4> QED
          BY <1>2, <1>5, <2>1, <2>3, <4>1 DEF Undone
      <3> QED
        BY <1>3, <3>1, SendReverseRestores
    <2> QED
      BY <1>2, <2>2, <2>3 DEF Undo
  <1>9. AView(View')
    <2>1. /\ meters' = b.meters /\ queues' = b.queues /\ shapers' = b.shapers
          /\ port_flags' = b.port_flags /\ ports_available_time' = b.ports_available_time
      BY ONLY <1>8, ViewFieldsNext DEF Same
    <2>2. /\ meters' = [i \in Queues |-> meters'[i]]
          /\ queues' \in [Queues -> Seq(QueuedPackets)]
          /\ shapers' \in [Ports -> Bucket]
          /\ port_flags' \in [Ports -> {0, 1}]
          /\ ports_available_time' \in [Ports -> Nat]
      BY ONLY <1>7, <2>1 DEF AView
    <2> QED
      BY <2>2, ViewIsView DEF ClocksOK
  <1> QED
    BY ONLY <1>1, <1>2, <1>7, <1>8, <1>9

\* An event that is undone shortens the history.
LEMMA UndoKeepsHistory ==
  ASSUME TWInv, Undo
  PROVE  TWInv'
  <1>1. PICK n, m, lg, lg2, v, v2, due, last, e, own, H :
          /\ lg = log /\ lg2 = log' /\ n = Len(lg) /\ m = n - 1
          /\ v = View /\ v2 = View' /\ due = OwnEvents(inbox)
          /\ last = lg[n] /\ e = last.event /\ own = OwnEvents(last.done.sent)
          /\ H = HandledIn(lg, m)
    OBVIOUS
  <1>2. /\ n # 0 /\ AView(v2) /\ Same(v2, last.before) /\ Shaped(droppers') /\ StatsOK(stats')
    BY ONLY <1>1, TWInv, Undo, UndoRestores
  <1>3. /\ lg2 = SubSeq(lg, 1, Len(lg) - 1)
        /\ inbox' = (inbox \ own) \cup ({e} \ doomed)
        /\ doomed' = doomed \ {e} /\ arrived' = arrived
    BY ONLY <1>1, Undo DEF Undo
  <1>4. /\ arrived \in Nat /\ IsLog(lg) /\ BoxOK(inbox, HandledIn(lg, n), arrived)
        /\ DoomedOK(doomed, lg) /\ History(lg, v, due)
    BY ONLY <1>1, TWInv DEF TWInv
  <1>5. Len(lg) # 0
    BY ONLY <1>1, <1>2
  <1>6. /\ n \in Nat \ {0} /\ m \in Nat /\ m + 1 = n /\ Len(lg2) = m
        /\ \A i \in 1 .. m : lg2[i] = lg[i]
    BY ONLY <1>1, <1>3, <1>4, <1>5, LogShrinks
  <1>7. IsLog(lg2)
    BY ONLY <1>3, <1>4, <1>5, LogShrinks
  <1>8. History(lg2, v2, last.due)
    <2>1. Same(v2, lg[Len(lg)].before) /\ last.due = lg[Len(lg)].due
      BY ONLY <1>1, <1>2
    <2>2. History(lg2, v2, lg[Len(lg)].due)
      BY ONLY <1>2, <1>3, <1>4, <1>5, <2>1, HistoryShrinks
    <2> QED
      BY ONLY <2>1, <2>2
  <1>9. EntryOK(lg, n, v, due)
    <2>1. n \in 0 .. Len(lg) /\ n > 0 /\ ViewOf(lg, v, n) = v /\ DueOf(lg, due, n) = due
      BY ONLY <1>1, <1>6 DEF ViewOf, DueOf
    <2>2. Stage(lg, n, v, due)
      BY ONLY <1>4, <2>1 DEF History
    <2> QED
      BY ONLY <2>1, <2>2 DEF Stage
  <1>10. /\ AnEvent(e) /\ (e.type = "ARRIVE" => e.packet.pid \notin H)
         /\ Follows(last, due)
    BY ONLY <1>1, <1>9 DEF EntryOK
  <1>11. \A f \in last.due : f.type = "SEND"
    <2>1. m \in 0 .. Len(lg2) /\ DueOf(lg2, last.due, m) = last.due
      BY ONLY <1>6 DEF DueOf
    <2>2. Stage(lg2, m, ViewOf(lg2, v2, m), last.due)
      BY ONLY <1>8, <2>1 DEF History
    <2> QED
      BY ONLY <2>2 DEF Stage, Account, OneDue
  <1>12. OwnEvents(inbox') = last.due
    <2>1. /\ due = (last.due \ {e}) \cup own /\ own \cap (last.due \ {e}) = {}
          /\ e.type = "SEND" => e \in last.due
      BY ONLY <1>1, <1>10 DEF Follows
    <2>2. OwnEvents(inbox \ own) = last.due \ {e}
      <3>1. OwnEvents(inbox \ own) = due \ own
        BY ONLY <1>1 DEF OwnEvents
      <3> QED
        BY ONLY <2>1, <3>1
    <2>3. OwnEvents(inbox') = OwnEvents(inbox \ own) \cup OwnEvents({e} \ doomed)
      BY ONLY <1>3 DEF OwnEvents
    <2>4. "ARRIVE" # "SEND"
      OBVIOUS
    <2>5. CASE e.type = "SEND"
      <3>1. e \notin doomed
        BY ONLY <1>4, <2>4, <2>5 DEF DoomedOK
      <3>2. OwnEvents({e} \ doomed) = {e}
        BY ONLY <2>5, <3>1 DEF OwnEvents
      <3> QED
        BY ONLY <2>1, <2>2, <2>3, <2>5, <3>2
    <2>6. CASE e.type # "SEND"
      <3>1. OwnEvents({e} \ doomed) = {} /\ e \notin last.due
        BY ONLY <1>11, <2>6 DEF OwnEvents
      <3> QED
        BY ONLY <2>2, <2>3, <3>1
    <2> QED
      BY ONLY <2>5, <2>6
  <1>13. BoxOK(inbox', H, arrived)
    <2>1. HandledIn(lg, n) = H \cup Known(e)
      <3>1. HandledIn(lg, m + 1) = HandledIn(lg, m) \cup Known(lg[m + 1].event)
        BY ONLY <1>6, HandledMore
      <3> QED
        BY ONLY <1>1, <1>6, <3>1
    <2>2. BoxOK(inbox, H \cup Known(e), arrived)
      BY ONLY <1>4, <2>1
    <2>3. BoxOK((inbox \ own) \cup ({e} \ doomed), H, arrived)
      BY ONLY <1>10, <2>2, BoxUndone
    <2> QED
      BY ONLY <1>3, <2>3
  <1>14. HandledIn(lg2, m) = H
    BY ONLY <1>1, <1>6, SamePrefix
  <1>15. DoomedOK(doomed', lg2)
    <2>1. ASSUME NEW f \in doomed' PROVE f.type = "ARRIVE" /\ \E i \in 1 .. Len(lg2) : f = lg2[i].event
      <3>1. f \in doomed /\ f # e
        BY ONLY <1>3, <2>1
      <3>2. PICK i \in 1 .. Len(lg) : f = lg[i].event
        BY ONLY <1>4, <3>1 DEF DoomedOK
      <3>3. i # n
        BY ONLY <1>1, <3>1, <3>2
      <3>4. i \in 1 .. m
        BY ONLY <1>1, <1>6, <3>2, <3>3
      <3>5. f = lg2[i].event /\ i \in 1 .. Len(lg2)
        BY ONLY <1>6, <3>2, <3>4
      <3>6. f.type = "ARRIVE"
        BY ONLY <1>4, <3>1 DEF DoomedOK
      <3> QED
        BY ONLY <3>5, <3>6
    <2> QED
      BY ONLY <2>1 DEF DoomedOK
  <1> QED
    BY ONLY <1>1, <1>2, <1>3, <1>4, <1>6, <1>7, <1>8, <1>12, <1>13, <1>14, <1>15 DEF TWInv

\* Before anything is handled, the account of the view is the whole stage.
LEMMA FirstStage ==
  ASSUME NEW lg, NEW v, Account(v, {}, {}, {}), SentIn(lg, 0) = {}, HandledIn(lg, 0) = {}
  PROVE  Stage(lg, 0, v, {})
  <1>1. ~ (0 > 0)
    OBVIOUS
  <1> QED
    BY ONLY <1>1, Account(v, {}, {}, {}), SentIn(lg, 0) = {}, HandledIn(lg, 0) = {} DEF Stage

\* The history starts empty.
LEMMA InitHasHistory == Init => TWInv
  <1> SUFFICES ASSUME Init PROVE TWInv
    OBVIOUS
  <1>1. /\ meters = [i \in Queues |-> FullMeter]
        /\ queues = [i \in Queues |-> <<>>]
        /\ droppers = [i \in Droppers |-> NewDropper]
        /\ shapers = [port \in Ports |-> FullBucket]
        /\ port_flags = [port \in Ports |-> 0]
        /\ ports_available_time = [port \in Ports |-> 0]
        /\ stats = NewStats
        /\ inbox = {} /\ log = <<>> /\ doomed = {} /\ arrived = 0
    BY DEF Init, SwitchInit
  <1>2. Shaped(droppers)
    BY <1>1 DEF Shaped, Dropper, NewDropper
  <1>3. StatsOK(stats)
    BY <1>1, StatsAssumption DEF StatsOK, NewStats
  <1>4. /\ meters = [i \in Queues |-> meters[i]] /\ ClocksOK /\ port_flags \in [Ports -> {0, 1}]
    <2>1. FullBucket \in Bucket
      BY CapacityAssumption DEF FullBucket, Bucket
    <2>2. <<>> \in Seq(QueuedPackets)
      OBVIOUS
    <2> QED
      BY <1>1, <2>1, <2>2 DEF ClocksOK
  <1>5. \A port \in Ports : ~ Backlogged(queues, port)
    BY <1>1, IndexFacts DEF Backlogged
  <1>6. OneDue(queues, port_flags, {})
    BY <1>1, <1>5 DEF OneDue, DueAt
  <1>7. Balance(queues, {}, stats, {})
    <2>1. WaitingIn(queues) = {} /\ Distinct(queues)
      BY <1>1 DEF WaitingIn, Distinct
    <2>2. RecordedIn(stats) = {} /\ Len(stats.records) = 0 /\ stats.received = 0
          /\ stats.num_packets_dropped = 0
      BY <1>1 DEF RecordedIn, NewStats
    <2>3. IsFiniteSet({}) /\ Cardinality({}) = 0
      BY FS_EmptySet
    <2> QED
      BY <1>3, <2>1, <2>2, <2>3 DEF Balance, Counted
  <1>8. Account(View, {}, {}, {})
    <2>1. AView(View)
      <3>1. View = [meters |-> View.meters, queues |-> View.queues, droppers |-> View.droppers,
                    shapers |-> View.shapers, port_flags |-> View.port_flags,
                    ports_available_time |-> View.ports_available_time, stats |-> View.stats]
        BY DEF View
      <3> QED
        BY <1>4, <3>1, ViewFields DEF AView, ClocksOK
    <2>2. Balance(queues, {}, Norm(stats), {})
      BY <1>3, <1>7, NormBalance
    <2> QED
      BY <1>6, <2>1, <2>2, ViewFields DEF Account, Balance
  <1>9. /\ Len(log) = 0 /\ IsLog(log) /\ OwnEvents(inbox) = {}
        /\ HandledIn(log, 0) = {} /\ SentIn(log, 0) = {}
    BY <1>1 DEF IsLog, OwnEvents, HandledIn, SentIn
  <1>10. History(log, View, OwnEvents(inbox))
    <2>1. Stage(log, 0, View, {})
      BY ONLY <1>8, <1>9, FirstStage
    <2>2. ViewOf(log, View, 0) = View /\ DueOf(log, {}, 0) = {}
      BY <1>9 DEF ViewOf, DueOf
    <2>3. \A k \in 0 .. 0 : k = 0
      OBVIOUS
    <2> QED
      BY ONLY <1>9, <2>1, <2>2, <2>3 DEF History
  <1>11. BoxOK(inbox, {}, arrived) /\ DoomedOK(doomed, log)
    BY <1>1 DEF BoxOK, Arrivals, DoomedOK
  <1>12. arrived \in Nat
    BY <1>1
  <1> QED
    BY ONLY <1>2, <1>3, <1>9, <1>10, <1>11, <1>12 DEF TWInv

\* Every step keeps the history.
LEMMA NextKeepsHistory == TWInv /\ [Next]_vars => TWInv'
  <1> SUFFICES ASSUME TWInv, [Next]_vars PROVE TWInv'
    OBVIOUS
  <1>1. CASE \E o \in Offers, time \in ArrivalTimes : Receive(o, time)
    BY <1>1, ReceiveKeepsHistory
  <1>2. CASE \E pid \in 1 .. arrived : Cancel(pid)
    BY <1>2, CancelKeepsHistory
  <1>3. CASE \E e \in inbox : Handle(e)
    BY <1>3, HandleKeepsHistory
  <1>4. CASE Undo
    BY <1>4, UndoKeepsHistory
  <1>5. CASE UNCHANGED vars
    <2>1. UNCHANGED <<swvars, inbox, log, doomed, arrived>>
      BY <1>5 DEF vars
    <2>2. /\ arrived' \in Nat /\ BoxOK(inbox', HandledIn(log, Len(log)), arrived')
          /\ DoomedOK(doomed', log) /\ OwnEvents(inbox') = OwnEvents(inbox)
      BY <2>1 DEF TWInv
    <2> QED
      BY <2>1, <2>2, Untouched
  <1> QED
    BY <1>1, <1>2, <1>3, <1>4, <1>5 DEF Next

(***************************************************************************)
(* The log and what it says of the switch, of the events due and of the    *)
(* packets handled, whatever is received, cancelled, handled and undone.   *)
(***************************************************************************)
THEOREM SwitchHasHistory == Spec => []TWInv
  <1> QED
    BY InitHasHistory, NextKeepsHistory, PTL DEF Spec
-----------------------------------------------------------------------------
\* Two views that agree but for the times of the droppers are the same for the property.
LEMMA SameView ==
  ASSUME NEW v, NEW w, AView(v), AView(w), Same(v, w)
  PROVE  ButForDropperTimes(v) = ButForDropperTimes(w)
  <1>1. PICK a, b, c, d, e, f, g :
          /\ a = v.meters /\ b = v.queues /\ c = v.droppers /\ d = v.shapers /\ e = v.port_flags
          /\ f = v.ports_available_time /\ g = v.stats
    OBVIOUS
  <1>2. PICK c2, avgs : c2 = w.droppers /\ avgs = Avgs(c)
    OBVIOUS
  <1>3. /\ v = [meters |-> a, queues |-> b, droppers |-> c, shapers |-> d, port_flags |-> e,
                ports_available_time |-> f, stats |-> g]
        /\ w = [meters |-> a, queues |-> b, droppers |-> c2, shapers |-> d, port_flags |-> e,
                ports_available_time |-> f, stats |-> g]
        /\ Avgs(c2) = avgs
    BY ONLY <1>1, <1>2, AView(v), AView(w), Same(v, w) DEF AView, Same
  <1>4. /\ ButForDropperTimes(v) = [v EXCEPT !.droppers = avgs]
        /\ ButForDropperTimes(w) = [w EXCEPT !.droppers = avgs]
    <2>1. v.droppers = c /\ w.droppers = c2
      BY ONLY <1>1, <1>2
    <2> QED
      BY ONLY <1>2, <1>3, <2>1 DEF ButForDropperTimes, Avgs
  <1>5. [v EXCEPT !.droppers = avgs] = [w EXCEPT !.droppers = avgs]
    BY ONLY <1>3
  <1> QED
    BY ONLY <1>4, <1>5

\* A step that shortens the log is a step of Undo.
LEMMA OnlyUndoUndoes ==
  ASSUME TWInv, [Next]_vars, Undoing
  PROVE  Undo
  <1>1. Len(log) \in Nat /\ IsLog(log)
    BY DEF TWInv, IsLog
  <1>2. log' # log
    BY <1>1 DEF Undoing
  <1>3. ASSUME NEW e, Handle(e) PROVE FALSE
    <2>1. PICK entry : log' = Append(log, entry)
      BY ONLY <1>3 DEF Handle
    <2>2. PICK lg, lg2 : lg = log /\ lg2 = log'
      OBVIOUS
    <2>3. Len(lg2) = Len(lg) + 1 /\ Len(lg) \in Nat
      <3>1. IsLog(lg) /\ lg2 = Append(lg, entry)
        BY ONLY <1>1, <2>1, <2>2
      <3> QED
        BY ONLY <3>1, LogGrows
    <2> QED
      BY ONLY <2>2, <2>3, Undoing DEF Undoing
  <1> QED
    BY <1>2, <1>3 DEF Next, Receive, Cancel, vars

(***************************************************************************)
(* Rollback is exact: undoing an event gives back the view of the switch   *)
(* that it found, but for the times of the droppers, at any depth of a     *)
(* rollback, for any packets and times, and for switches of any size.      *)
(***************************************************************************)
THEOREM SwitchRollsBack == Spec => RollbackRestores
  <1>1. ASSUME TWInv, [Next]_vars
        PROVE  [Undoing => ButForDropperTimes(View') = ButForDropperTimes(UndoneEntry.before)]_vars
    <2>1. ASSUME Undoing
          PROVE  ButForDropperTimes(View') = ButForDropperTimes(UndoneEntry.before)
      <3>1. Undo
        BY <1>1, <2>1, OnlyUndoUndoes
      <3>2. PICK v, w : v = View' /\ w = UndoneEntry.before
        OBVIOUS
      <3>3. AView(v) /\ AView(w) /\ Same(v, w)
        BY <1>1, <3>1, <3>2, UndoRestores DEF UndoneEntry
      <3> QED
        BY ONLY <3>2, <3>3, SameView
    <2> QED
      BY <2>1
  <1> QED
    BY <1>1, SwitchHasHistory, PTL DEF Spec, RollbackRestores

\* What the history says of the switch as it is now.
LEMMA NowFacts ==
  ASSUME TWInv
  PROVE  /\ OneDue(queues, port_flags, OwnEvents(inbox))
         /\ Balance(queues, SentIn(log, Len(log)), stats, HandledIn(log, Len(log)))
         /\ DOMAIN log = 1 .. Len(log)
  <1>1. Len(log) \in Nat /\ DOMAIN log = 1 .. Len(log)
    BY DEF TWInv, IsLog
  <1>2. Len(log) \in 0 .. Len(log)
    BY <1>1
  <1>3. /\ ViewOf(log, View, Len(log)) = View
        /\ DueOf(log, OwnEvents(inbox), Len(log)) = OwnEvents(inbox)
    BY DEF ViewOf, DueOf
  <1>4. Stage(log, Len(log), View, OwnEvents(inbox))
    BY <1>2, <1>3 DEF TWInv, History
  <1>5. Account(View, OwnEvents(inbox), SentIn(log, Len(log)), HandledIn(log, Len(log)))
    BY ONLY <1>4 DEF Stage
  <1> QED
    BY <1>1, <1>5, AccountFacts DEF TWInv

(***************************************************************************)
(* The protocol between the handlers survives rollbacks: a port has one    *)
(* SEND event to come if its flag is set, and none otherwise, and its flag *)
(* is set exactly when it has a backlog.                                   *)
(***************************************************************************)
LEMMA HistoryImpliesProtocol == TWInv => PortProtocol
  <1> SUFFICES ASSUME TWInv, NEW port \in Ports
               PROVE  /\ Cardinality({e \in inbox : e.type = "SEND" /\ e.port = port}) = port_flags[port]
                      /\ port_flags[port] = 1 <=> Backlogged(queues, port)
    BY DEF PortProtocol
  <1>1. PICK due : due = OwnEvents(inbox)
    OBVIOUS
  <1>2. {e \in inbox : e.type = "SEND" /\ e.port = port} = DueAt(due, port)
    BY ONLY <1>1 DEF OwnEvents, DueAt
  <1>3. OneDue(queues, port_flags, due)
    BY <1>1, NowFacts
  <1>4. CASE Backlogged(queues, port)
    <2>1. PICK e : DueAt(due, port) = {e} /\ port_flags[port] = 1
      BY <1>3, <1>4 DEF OneDue
    <2>2. Cardinality({e}) = 1
      BY FS_Singleton
    <2> QED
      BY ONLY <1>2, <1>4, <2>1, <2>2
  <1>5. CASE ~ Backlogged(queues, port)
    <2>1. DueAt(due, port) = {} /\ port_flags[port] = 0
      BY <1>3, <1>5 DEF OneDue
    <2>2. Cardinality({}) = 0 /\ 0 # 1
      BY FS_EmptySet
    <2> QED
      BY ONLY <1>2, <1>5, <2>1, <2>2
  <1> QED
    BY ONLY <1>4, <1>5

\* However events are handled and undone, a port has one SEND event to come if its
\* flag is set and packets wait, and none otherwise.
THEOREM RollbackKeepsPortProtocol == Spec => []PortProtocol
  <1> QED
    BY SwitchHasHistory, HistoryImpliesProtocol, PTL

(***************************************************************************)
(* Packets are conserved at every point of a rollback: what was handled    *)
(* and not undone waits in one queue, or was sent in one event that is not *)
(* cancelled, or is in one record.                                         *)
(***************************************************************************)
LEMMA HistoryImpliesConservation == TWInv => Conservation
  <1> SUFFICES ASSUME TWInv PROVE Conservation
    OBVIOUS
  <1>1. PICK out, H : out = SentIn(log, Len(log)) /\ H = HandledIn(log, Len(log))
    OBVIOUS
  <1>2. Balance(queues, out, stats, H) /\ DOMAIN log = 1 .. Len(log)
    BY <1>1, NowFacts
  <1>3. Waiting = WaitingIn(queues)
    BY DEF Waiting, WaitingIn, Pids
  <1>4. Recorded = RecordedIn(stats)
    BY DEF Recorded, RecordedIn
  <1>5. Handled = H
    BY ONLY <1>1, <1>2 DEF Handled, HandledIn
  <1>6. OnTheWire = out
    BY ONLY <1>1, <1>2 DEF OnTheWire, SentIn, PidsSent
  <1>7. /\ Len(stats.records) = stats.num_packets_recvd + stats.num_packets_dropped
        /\ stats.num_packets_recvd \in Int /\ stats.num_packets_dropped \in Int
    BY <1>2 DEF Balance, Counted, StatsOK
  <1>8. Len(stats.records) = stats.num_packets_dropped + stats.num_packets_recvd
    BY ONLY <1>7
  <1> QED
    BY ONLY <1>2, <1>3, <1>4, <1>5, <1>6, <1>8 DEF Balance, Counted, Conservation

\* At every point of a rollback a packet that was handled and not undone waits in one
\* queue, was sent on once, or is in one record, and the counters agree.
THEOREM RollbackConservesPackets == Spec => []Conservation
  <1> QED
    BY SwitchHasHistory, HistoryImpliesConservation, PTL
=============================================================================
