---------------------------- MODULE SwitchProofs -----------------------------
(***************************************************************************)
(* What the handlers of a switch do, for every number of ports, every      *)
(* speed and every routing table, whatever order they are called in.       *)
(***************************************************************************)
EXTENDS SwitchAssumptions, PartsProofs

\* Ports and priority levels are small numbers, and no two ports share a queue.
LEMMA IndexFacts ==
  /\ Ports \subseteq Nat
  /\ Levels = {0, 1, 2}
  /\ \A port \in Ports, level \in Levels : MeterIndex(port, level) \in Queues
  /\ \A p1, p2 \in Ports : \A l1, l2 \in Levels :
       MeterIndex(p1, l1) = MeterIndex(p2, l2) => p1 = p2 /\ l1 = l2
  <1>1. NumPorts \in Nat \ {0}
    BY SwitchAssumption
  <1>2. /\ Ports \subseteq Nat /\ Levels = {0, 1, 2}
        /\ \A port \in Ports : port <= NumPorts - 1
    BY <1>1 DEF Ports, Levels, NUM_QOS_LEVEL
  <1>3. \A port \in Ports, level \in Levels : MeterIndex(port, level) \in Queues
    BY <1>1, <1>2 DEF MeterIndex, NUM_QOS_LEVEL, Queues
  <1>4. \A p1, p2 \in Ports : \A l1, l2 \in Levels :
          MeterIndex(p1, l1) = MeterIndex(p2, l2) => p1 = p2 /\ l1 = l2
    BY <1>2 DEF MeterIndex, NUM_QOS_LEVEL
  <1>5. QED
    BY <1>2, <1>3, <1>4

\* A queue belongs to one port.
LEMMA OneQueue ==
  ASSUME NEW p1 \in Ports, NEW p2 \in Ports, NEW l1 \in Levels, NEW l2 \in Levels,
         MeterIndex(p1, l1) = MeterIndex(p2, l2)
  PROVE  p1 = p2
  BY IndexFacts

\* Both droppers of a queue are droppers of the switch.
LEMMA DropperIndexFacts ==
  ASSUME NEW i \in Queues
  PROVE  YellowOf(i) \in Droppers /\ GreenOf(i) \in Droppers
  BY SwitchAssumption DEF YellowOf, GreenOf, Queues, Droppers, NUM_QOS_LEVEL

\* The scheduler finds a queue with a packet in it if there is one.
LEMMA NextLevelFacts ==
  ASSUME NEW qs, NEW port \in Ports, Backlogged(qs, port)
  PROVE  /\ NextLevel(qs, port) \in Levels
         /\ qs[MeterIndex(port, NextLevel(qs, port))] # <<>>
         /\ \A higher \in Levels :
              qs[MeterIndex(port, higher)] # <<>> => NextLevel(qs, port) <= higher
  BY FirstLevel

\* What serving a port does to the queues of the switch.
LEMMA ServeFacts ==
  ASSUME NEW qs \in [Queues -> Seq(QueuedPackets)], NEW port \in Ports, Backlogged(qs, port)
  PROVE  LET i == MeterIndex(port, NextLevel(qs, port))
         IN  /\ i \in Queues
             /\ Serve(qs, port) \in [Queues -> Seq(QueuedPackets)]
             /\ Serve(qs, port)[i] = Tail(qs[i])
             /\ \A j \in Queues : j # i => Serve(qs, port)[j] = qs[j]
             /\ \A other \in Ports : other # port =>
                  (Backlogged(Serve(qs, port), other) <=> Backlogged(qs, other))
  <1>1. Indexed(Queues, Ports)
    BY IndexFacts DEF Indexed
  <1> QED
    BY <1>1, ServeChanges

\* What queueing a packet does to the backlogs, and that a packet that is
\* queued and one that is then served leave the backlog of a port as it was.
LEMMA EnqueueFacts ==
  ASSUME NEW qs \in [Queues -> Seq(QueuedPackets)], NEW port \in Ports, NEW level \in Levels,
         NEW p \in QueuedPackets, NEW qs2 \in [Queues -> Seq(QueuedPackets)],
         qs2[MeterIndex(port, level)] = Append(qs[MeterIndex(port, level)], p),
         \A j \in Queues : j # MeterIndex(port, level) => qs2[j] = qs[j]
  PROVE  /\ Backlogged(qs2, port)
         /\ Backlogged(Serve(qs2, port), port) <=> Backlogged(qs, port)
         /\ \A other \in Ports : other # port =>
              /\ Backlogged(qs2, other) <=> Backlogged(qs, other)
              /\ Backlogged(Serve(qs2, port), other) <=> Backlogged(qs, other)
  <1>1. Indexed(Queues, Ports)
    BY IndexFacts DEF Indexed
  <1> QED
    BY <1>1, EnqueueChanges

\* A queue belongs to one port and one level.
LEMMA OwnQueue ==
  ASSUME NEW p1 \in Ports, NEW p2 \in Ports, NEW l1 \in Levels, NEW l2 \in Levels,
         MeterIndex(p1, l1) = MeterIndex(p2, l2)
  PROVE  p1 = p2 /\ l1 = l2
  BY IndexFacts
-----------------------------------------------------------------------------
(* What arrives and what leaves.                                           *)

\* The packet that is sent next is the first of its queue.
LEMMA NextPacketFacts ==
  ASSUME NEW qs \in [Queues -> Seq(QueuedPackets)], NEW port \in Ports, Backlogged(qs, port)
  PROVE  LET i == MeterIndex(port, NextLevel(qs, port))
         IN  /\ i \in Queues /\ qs[i] # <<>>
             /\ NextPacket(qs, port) = qs[i][1]
             /\ NextPacket(qs, port) \in QueuedPackets
  <1>1. Indexed(Queues, Ports)
    BY IndexFacts DEF Indexed
  <1> QED
    BY <1>1, HeadOfLine

\* The queues after an arriving packet has been put in its own.
LEMMA EnqueuedFacts ==
  ASSUME queues \in [Queues -> Seq(QueuedPackets)], NEW p \in QueuedPackets, OutPort(p) \in Ports
  PROVE  /\ Enqueued(p) \in [Queues -> Seq(QueuedPackets)]
         /\ Enqueued(p)[MeterIndex(OutPort(p), p.type)]
              = Append(queues[MeterIndex(OutPort(p), p.type)], p)
         /\ \A i \in Queues : i # MeterIndex(OutPort(p), p.type) => Enqueued(p)[i] = queues[i]
         /\ Backlogged(Enqueued(p), OutPort(p))
  <1>1. PICK k : k = MeterIndex(OutPort(p), p.type)
    OBVIOUS
  <1>2. p.type \in Levels
    BY DEF QueuedPackets
  <1>3. k \in Queues
    BY <1>1, <1>2, IndexFacts
  <1>4. PICK queue \in Seq(QueuedPackets) : queue = queues[k]
    BY <1>3
  <1>5. Append(queue, p) \in Seq(QueuedPackets) /\ Append(queue, p) # <<>>
    BY AppendProperties
  <1>6. PICK qs : qs = Enqueued(p)
    OBVIOUS
  <1>7. qs = [queues EXCEPT ![k] = Append(queue, p)]
    BY <1>1, <1>4, <1>6 DEF Enqueued, PacketMeter
  <1>8. /\ qs \in [Queues -> Seq(QueuedPackets)]
        /\ qs[k] = Append(queue, p)
        /\ \A i \in Queues : i # k => qs[i] = queues[i]
    BY <1>3, <1>5, <1>7
  <1>9. Backlogged(qs, OutPort(p))
    BY <1>1, <1>2, <1>5, <1>8 DEF Backlogged
  <1> QED
    BY <1>1, <1>4, <1>6, <1>8, <1>9

Hops   == {Routing[dest].nextHop : dest \in DOMAIN Routing}
Events == [type : {"ARRIVE"}, port : Ports, packet : QueuedPackets, to : Hops, at : Nat]
-----------------------------------------------------------------------------
(* The shaper of a port, and the time a packet takes.                      *)

\* No packet takes negative time, and none is injected in no time.
LEMMA InjectionFacts ==
  ASSUME NEW size \in Nat \ {0}, NEW port \in Ports
  PROVE  InjectionDelay(size, port) \in Nat \ {0}
  <1>1. PICK ticks \in Nat \ {0} : ticks = Ticks[port]
    BY SwitchAssumption
  <1>2. PICK bits \in Nat \ {0} : bits = size * BitsPerByte
    BY DEF BitsPerByte
  <1>3. bits * ticks \in Nat \ {0}
    BY ONLY <1>1, <1>2, Z3T(30)
  <1> QED
    BY <1>1, <1>2, <1>3 DEF InjectionDelay

\* Whatever the times are, a refilled bucket is a bucket and has not lost tokens.
LEMMA RefillType ==
  ASSUME NEW b \in Bucket, NEW time \in Nat, NEW ticks \in Nat \ {0}
  PROVE  Refill(b, time, ticks) \in Bucket /\ b.tokens <= Refill(b, time, ticks).tokens
  <1>1. /\ b.last_update_time \in Nat /\ b.tokens \in Nat
        /\ b.tokens <= Capacity
    BY CapacityAssumption DEF Bucket
  <1>2. PICK n : n = Earned(b.last_update_time, time, ticks)
    OBVIOUS
  <1>3. n \in Nat
    <2>1. (time - b.last_update_time) \div ticks \in Int
      BY <1>1
    <2> QED
      BY <1>2, <2>1, ModBound, WordAssumption DEF Earned
  <1>4. /\ Refill(b, time, ticks) =
             [tokens |-> IF b.tokens + n <= Capacity THEN b.tokens + n ELSE Capacity,
              last_update_time |-> IF n > 0 THEN time ELSE b.last_update_time]
    BY <1>2 DEF Refill, UpdateTime, Least
  <1> QED
    BY <1>1, <1>3, <1>4, CapacityAssumption DEF Bucket

\* A shaper that lets a packet pass has the tokens for it.
LEMMA ConsumeType ==
  ASSUME NEW b \in Bucket, NEW time \in Nat, NEW ticks \in Nat \ {0}, NEW size \in Nat,
         Ready(b, size)
  PROVE  Consume(b, size, time, ticks) \in Bucket
  <1>1. PICK r : r = Refill(b, time, ticks)
    OBVIOUS
  <1>2. r \in Bucket /\ b.tokens <= r.tokens
    BY <1>1, RefillType
  <1>3. PICK bits \in Nat : bits = size * BitsPerByte
    BY DEF BitsPerByte
  <1>4. bits <= b.tokens
    BY <1>3 DEF Ready
  <1>5. Consume(b, size, time, ticks) = [r EXCEPT !.tokens = @ - bits]
    BY <1>1, <1>3 DEF Consume
  <1> QED
    BY <1>2, <1>4, <1>5, CapacityAssumption DEF Bucket

\* A SEND event is scheduled for a time.
LEMMA WakeupType ==
  ASSUME NEW b \in Bucket, NEW qs \in [Queues -> Seq(QueuedPackets)], NEW port \in Ports,
         Backlogged(qs, port)
  PROVE  Wakeup(b, qs, port).at \in Nat
  <1>1. PICK size \in Nat : size = NextPacket(qs, port).size
    BY NextPacketFacts DEF QueuedPackets
  <1>2. PICK ticks \in Nat : ticks = Ticks[port]
    BY SwitchAssumption
  <1>3. PICK bits \in Nat : bits = size * BitsPerByte
    BY DEF BitsPerByte
  <1>4. b.last_update_time \in Nat /\ b.tokens \in Nat
    BY CapacityAssumption DEF Bucket
  <1>5. bits > b.tokens => (bits - b.tokens) * ticks \in Nat
    <2>1. ASSUME bits > b.tokens PROVE (bits - b.tokens) * ticks \in Nat
      <3>1. PICK short \in Nat : short = bits - b.tokens
        BY <1>4, <2>1
      <3> QED
        BY <3>1
    <2> QED
      BY <2>1
  <1>6. NextAvailableTime(b, size, ticks) \in Nat
    BY <1>3, <1>4, <1>5 DEF NextAvailableTime, Ready
  <1> QED
    BY <1>1, <1>2, <1>6 DEF Wakeup

\* What a departure is, and how long the wire of its port is taken.
LEMMA DepartureFacts ==
  ASSUME ports_available_time \in [Ports -> Nat],
         NEW qs \in [Queues -> Seq(QueuedPackets)], NEW port \in Ports, NEW hop \in Hops,
         NEW time \in Nat, Backlogged(qs, port)
  PROVE  LET e == Departure(qs, port, hop, time)
         IN  /\ e \in Events /\ e.port = port /\ e.packet = NextPacket(qs, port)
             /\ InjectedAt(qs, port, time) \in Nat
             /\ InjectedAt(qs, port, time)
                  >= ports_available_time[port] + InjectionDelay(e.packet.size, port)
             /\ e.at = InjectedAt(qs, port, time) + PropagationDelay
  <1>1. PICK p : p = NextPacket(qs, port)
    OBVIOUS
  <1>2. p \in QueuedPackets
    BY <1>1, NextPacketFacts
  <1>3. p.size \in Nat \ {0} /\ p.dest \in DOMAIN Routing
    BY <1>2 DEF QueuedPackets
  <1>4. PICK d \in Nat : d = InjectionDelay(p.size, port)
    BY <1>3, InjectionFacts
  <1>5. PICK free \in Nat : free = ports_available_time[port]
    OBVIOUS
  <1>6. PICK t : t = InjectedAt(qs, port, time)
    OBVIOUS
  <1>7. t \in Nat /\ t >= free + d
    BY <1>1, <1>4, <1>5, <1>6 DEF InjectedAt, Most
  <1>8. t + PropagationDelay \in Nat
    BY <1>7, SwitchAssumption
  <1>9. Departure(qs, port, hop, time) =
          [type |-> "ARRIVE", port |-> port, packet |-> p, to |-> hop,
           at |-> t + PropagationDelay]
    BY <1>1, <1>6 DEF Departure
  <1> QED
    BY <1>1, <1>2, <1>4, <1>5, <1>6, <1>7, <1>8, <1>9 DEF Events
-----------------------------------------------------------------------------
(* What the handlers do to the queues and flags, and which events they send. *)

\* What handle_arrive_event does to the queues and the flags, and what it sends.
LEMMA ArriveEffect ==
  ASSUME NEW p, NEW time, Arrive(p, time)
  PROVE  \/ UNCHANGED <<queues, port_flags>> /\ done'.sent = {}
         \/ /\ p.dest # Self
            /\ \/ /\ queues' = Serve(Enqueued(p), OutPort(p))
                  /\ port_flags' = port_flags
                  /\ \E hop : done'.sent = {Departure(Enqueued(p), OutPort(p), hop, time)}
               \/ /\ queues' = Enqueued(p)
                  /\ port_flags[OutPort(p)] = 0
                  /\ port_flags' = [port_flags EXCEPT ![OutPort(p)] = 1]
                  /\ done'.sent = {Wakeup(Refilled(OutPort(p), time), Enqueued(p), OutPort(p))}
               \/ /\ queues' = Enqueued(p)
                  /\ port_flags[OutPort(p)] # 0
                  /\ port_flags' = port_flags
                  /\ done'.sent = {}
  <1>1. CASE ArriveFinal(p, time)
    BY <1>1 DEF ArriveFinal, arrays, ports
  <1>2. CASE ArriveDropped(p, time)
    BY <1>2 DEF ArriveDropped, ports
  <1>3. CASE ArriveSendsNow(p, time)
    BY <1>3 DEF ArriveSendsNow, SendNextPacket
  <1>4. CASE ArriveSchedulesSend(p, time)
    BY <1>4 DEF ArriveSchedulesSend, ArriveWaits
  <1>5. CASE ArriveJoinsQueue(p, time)
    BY <1>5 DEF ArriveJoinsQueue, ArriveWaits
  <1>6. QED
    BY <1>1, <1>2, <1>3, <1>4, <1>5 DEF Arrive

\* What handle_send_event does to the queues and the flags, and what it sends.
LEMMA SendEffect ==
  ASSUME NEW port, NEW time, Send(port, time)
  PROVE  /\ Backlogged(queues, port)
         /\ \/ /\ queues' = Serve(queues, port)
               /\ ~ Backlogged(Serve(queues, port), port)
               /\ port_flags' = [port_flags EXCEPT ![port] = 0]
               /\ \E hop : done'.sent = {Departure(queues, port, hop, time)}
            \/ /\ queues' = Serve(queues, port)
               /\ Backlogged(Serve(queues, port), port)
               /\ port_flags' = port_flags
               /\ \E hop : done'.sent = {Departure(queues, port, hop, time),
                                          Wakeup(shapers'[port], Serve(queues, port), port)}
            \/ /\ queues' = queues
               /\ port_flags' = port_flags
               /\ done'.sent = {Wakeup(Refilled(port, time), queues, port)}
  <1>1. CASE SendLast(port, time)
    BY <1>1 DEF SendLast, SendNextPacket, FlagCleared, OwnDeparture
  <1>2. CASE SendOneOfMany(port, time)
    BY <1>2 DEF SendOneOfMany, SendNextPacket, OwnDeparture
  <1>3. CASE SendPostponed(port, time)
    BY <1>3 DEF SendPostponed, Postponed, ports
  <1>4. QED
    BY <1>1, <1>2, <1>3 DEF Send
-----------------------------------------------------------------------------
(* What they do to queues, shapers and wires.                              *)

\* A packet has been taken out of the queues qs of a port, for some next hop.
Served(qs, port, time) ==
  /\ Backlogged(qs, port)
  /\ ReadyToSend(qs, port, time)
  /\ queues' = Serve(qs, port)
  /\ shapers' = [shapers EXCEPT ![port] =
                   Consume(Refilled(port, time), NextPacket(qs, port).size, time, Ticks[port])]
  /\ ports_available_time' = [ports_available_time EXCEPT ![port] = InjectedAt(qs, port, time)]
  /\ \E hop \in Hops :
       \/ done'.sent = {Departure(qs, port, hop, time)}
       \/ /\ Backlogged(Serve(qs, port), port)
          /\ done'.sent = {Departure(qs, port, hop, time),
                           Wakeup(shapers'[port], Serve(qs, port), port)}

\* The port has been looked at, and cannot send yet.
Delayed(qs, port, time) ==
  /\ Backlogged(qs, port)
  /\ ~ ReadyToSend(qs, port, time)
  /\ queues' = qs
  /\ shapers' = [shapers EXCEPT ![port] = Refilled(port, time)]
  /\ UNCHANGED ports_available_time
  /\ \/ done'.sent = {}
     \/ done'.sent = {Wakeup(Refilled(port, time), qs, port)}

\* An arriving packet leaves the clocks alone, or serves or delays its port.
LEMMA ArriveMoves ==
  ASSUME NEW p, NEW time, Arrive(p, time),
         p.dest # Self => p.dest \in DOMAIN Routing /\ Backlogged(Enqueued(p), OutPort(p))
  PROVE  \/ UNCHANGED <<queues, shapers, ports_available_time>> /\ done'.sent = {}
         \/ p.dest # Self /\ Served(Enqueued(p), OutPort(p), time)
         \/ p.dest # Self /\ Delayed(Enqueued(p), OutPort(p), time)
  <1>1. CASE ArriveFinal(p, time)
    BY <1>1 DEF ArriveFinal, arrays, ports
  <1>2. CASE ArriveDropped(p, time)
    BY <1>2 DEF ArriveDropped, ports
  <1>3. CASE ArriveSendsNow(p, time)
    BY <1>3 DEF ArriveSendsNow, SendNextPacket, NextHop, Served, Hops
  <1>4. CASE ArriveSchedulesSend(p, time)
    BY <1>4 DEF ArriveSchedulesSend, ArriveWaits, Delayed
  <1>5. CASE ArriveJoinsQueue(p, time)
    BY <1>5 DEF ArriveJoinsQueue, ArriveWaits, Delayed
  <1> QED
    BY <1>1, <1>2, <1>3, <1>4, <1>5 DEF Arrive

\* A SEND event serves or delays its port.
LEMMA SendMoves ==
  ASSUME queues \in [Queues -> Seq(QueuedPackets)], NEW port \in Ports, NEW time,
         Send(port, time)
  PROVE  Served(queues, port, time) \/ Delayed(queues, port, time)
  <1>0. Backlogged(queues, port) => NextHop(NextPacket(queues, port)) \in Hops
    BY NextPacketFacts DEF NextHop, Hops, QueuedPackets
  <1>1. CASE SendLast(port, time)
    BY <1>0, <1>1 DEF SendLast, SendNextPacket, OwnDeparture, Served
  <1>2. CASE SendOneOfMany(port, time)
    BY <1>0, <1>2 DEF SendOneOfMany, SendNextPacket, OwnDeparture, Served
  <1>3. CASE SendPostponed(port, time)
    BY <1>3 DEF SendPostponed, Postponed, Delayed, ports
  <1> QED
    BY <1>1, <1>2, <1>3 DEF Send

\* Buckets and times remain what they are.
LEMMA ServedClocks ==
  ASSUME shapers \in [Ports -> Bucket], ports_available_time \in [Ports -> Nat],
         NEW qs \in [Queues -> Seq(QueuedPackets)],
         NEW port \in Ports, NEW time \in Nat, Served(qs, port, time)
  PROVE  /\ shapers' \in [Ports -> Bucket]
         /\ ports_available_time' \in [Ports -> Nat]
         /\ \A e \in done'.sent : e.at \in Nat
  <1>1. /\ shapers \in [Ports -> Bucket] /\ ports_available_time \in [Ports -> Nat]
        /\ Backlogged(qs, port) /\ ReadyToSend(qs, port, time)
    BY DEF Served
  <1>2. PICK b, ticks, size :
          b = Refilled(port, time) /\ ticks = Ticks[port] /\ size = NextPacket(qs, port).size
    OBVIOUS
  <1>3. ticks \in Nat \ {0} /\ size \in Nat
    BY <1>1, <1>2, NextPacketFacts, SwitchAssumption DEF QueuedPackets
  <1>4. b \in Bucket /\ Ready(b, size)
    BY <1>1, <1>2, <1>3, RefillType DEF Refilled, ReadyToSend
  <1>5. PICK spent \in Bucket : spent = Consume(b, size, time, ticks)
    BY <1>3, <1>4, ConsumeType
  <1>6. shapers' = [shapers EXCEPT ![port] = spent]
    BY <1>2, <1>5 DEF Served
  <1>7. shapers' \in [Ports -> Bucket] /\ shapers'[port] \in Bucket
    BY <1>1, <1>6
  <1>8. ports_available_time' \in [Ports -> Nat]
    BY <1>1, DepartureFacts DEF Served
  <1>9. \A hop \in Hops : Departure(qs, port, hop, time).at \in Nat
    BY <1>1, DepartureFacts DEF Events
  <1>10. ASSUME Backlogged(Serve(qs, port), port)
         PROVE  Wakeup(shapers'[port], Serve(qs, port), port).at \in Nat
    <2>1. PICK qs2, b2 : qs2 = Serve(qs, port) /\ b2 = shapers'[port]
      OBVIOUS
    <2>2. qs2 \in [Queues -> Seq(QueuedPackets)]
      BY <1>1, <2>1, ServeFacts
    <2>3. Wakeup(b2, qs2, port).at \in Nat
      BY <1>7, <1>10, <2>1, <2>2, WakeupType
    <2> QED
      BY <2>1, <2>3
  <1> QED
    BY <1>7, <1>8, <1>9, <1>10 DEF Served

\* A delayed port keeps proper clocks.
LEMMA DelayedClocks ==
  ASSUME shapers \in [Ports -> Bucket], ports_available_time \in [Ports -> Nat],
         NEW qs \in [Queues -> Seq(QueuedPackets)],
         NEW port \in Ports, NEW time \in Nat, Delayed(qs, port, time)
  PROVE  /\ shapers' \in [Ports -> Bucket]
         /\ ports_available_time' \in [Ports -> Nat]
         /\ \A e \in done'.sent : e.at \in Nat
  <1>1. PICK b : b = Refilled(port, time)
    OBVIOUS
  <1>2. b \in Bucket
    BY <1>1, RefillType, SwitchAssumption DEF Refilled
  <1>3. shapers' \in [Ports -> Bucket]
    BY <1>1, <1>2 DEF Delayed
  <1>4. ports_available_time' \in [Ports -> Nat]
    BY DEF Delayed
  <1>5. Wakeup(b, qs, port).at \in Nat
    BY <1>2, WakeupType DEF Delayed
  <1> QED
    BY <1>1, <1>3, <1>4, <1>5 DEF Delayed
-----------------------------------------------------------------------------
(***************************************************************************)
(* Where the packets are: in the queues qs, among the events sent, or in   *)
(* the records of the statistics.                                          *)
(***************************************************************************)
WaitingIn(qs) == UNION {{qs[i][k].pid : k \in DOMAIN qs[i]} : i \in Queues}

\* No packet is in two places of the queues.
Distinct(qs) ==
  \A i, j \in Queues : \A k \in DOMAIN qs[i], l \in DOMAIN qs[j] :
    qs[i][k].pid = qs[j][l].pid => i = j /\ k = l

\* The packets in the queues are those at some place of some queue.
LEMMA WaitingFacts ==
  ASSUME NEW qs, NEW x
  PROVE  x \in WaitingIn(qs) <=> \E i \in Queues : \E k \in DOMAIN qs[i] : x = qs[i][k].pid
  BY DEF WaitingIn

\* A packet that is queued is one more that waits.
LEMMA EnqueueWaiting ==
  ASSUME NEW qs \in [Queues -> Seq(QueuedPackets)], NEW qs2, NEW c \in Queues,
         NEW p \in QueuedPackets,
         qs2[c] = Append(qs[c], p),
         \A j \in Queues : j # c => qs2[j] = qs[j]
  PROVE  /\ WaitingIn(qs2) = WaitingIn(qs) \cup {p.pid}
         /\ Distinct(qs) /\ p.pid \notin WaitingIn(qs) => Distinct(qs2)
  <1>1. /\ WaitingAt(qs2, Queues) = WaitingAt(qs, Queues) \cup {p.pid}
        /\ DistinctAt(qs, Queues) /\ p.pid \notin WaitingAt(qs, Queues) => DistinctAt(qs2, Queues)
    <2>1. Joined(qs, qs2, Queues, QueuedPackets, c, p)
      BY DEF Joined
    <2> QED
      BY ONLY <2>1, EnqueueAdds
  <1>2. /\ WaitingIn(qs) = WaitingAt(qs, Queues) /\ WaitingIn(qs2) = WaitingAt(qs2, Queues)
        /\ Distinct(qs) <=> DistinctAt(qs, Queues)
        /\ Distinct(qs2) <=> DistinctAt(qs2, Queues)
    BY DEF WaitingIn, WaitingAt, Distinct, DistinctAt
  <1> QED
    BY <1>1, <1>2

\* A packet that is served does not wait any more.
LEMMA ServeWaiting ==
  ASSUME NEW qs \in [Queues -> Seq(QueuedPackets)], Distinct(qs),
         NEW port \in Ports, Backlogged(qs, port)
  PROVE  /\ NextPacket(qs, port).pid \in WaitingIn(qs)
         /\ WaitingIn(Serve(qs, port)) = WaitingIn(qs) \ {NextPacket(qs, port).pid}
         /\ Distinct(Serve(qs, port))
  <1>1. Indexed(Queues, Ports)
    BY IndexFacts DEF Indexed
  <1>2. DistinctAt(qs, Queues)
    BY ONLY Distinct(qs) DEF Distinct, DistinctAt
  <1>3. /\ NextPacket(qs, port).pid \in WaitingAt(qs, Queues)
        /\ WaitingAt(Serve(qs, port), Queues) = WaitingAt(qs, Queues) \ {NextPacket(qs, port).pid}
        /\ DistinctAt(Serve(qs, port), Queues)
    BY <1>1, <1>2, ServeTakes
  <1> QED
    BY ONLY <1>3 DEF WaitingIn, WaitingAt, Distinct, DistinctAt
-----------------------------------------------------------------------------
(* The statistics.                                                         *)

Record == [pid : Nat, delay : Int, drop : BOOLEAN]

\* The two counters say how many records there are.
StatsOK(st) ==
  /\ st \in [received : Int, num_packets_recvd : Int, num_packets_dropped : Int,
             num_packets_sent : Int, records : Seq(Record), records_capacity : Nat]
  /\ Len(st.records) = st.num_packets_recvd + st.num_packets_dropped

\* There is room for one record more.
HasRoom(st) == Len(st.records) < st.records_capacity

RecordedIn(st) == {st.records[i].pid : i \in DOMAIN st.records}

\* The handlers count what they receive and what they send at once.
LEMMA ReceivedFacts ==
  ASSUME NEW st, StatsOK(st), NEW r \in Int, NEW st2, st2 = [st EXCEPT !.received = r]
  PROVE  /\ StatsOK(st2)
         /\ st2.received = r
         /\ st2.records = st.records
         /\ st2.num_packets_dropped = st.num_packets_dropped
         /\ st2.num_packets_recvd = st.num_packets_recvd
         /\ st2.records_capacity = st.records_capacity
         /\ RecordedIn(st2) = RecordedIn(st)
  <1>1. /\ StatsOK(st2)
        /\ st2.records_capacity = st.records_capacity
        /\ st2.received = r
        /\ st2.records = st.records
        /\ st2.num_packets_dropped = st.num_packets_dropped
        /\ st2.num_packets_recvd = st.num_packets_recvd
    BY DEF StatsOK
  <1> QED
    BY <1>1 DEF RecordedIn

\* Counting a packet that is sent at once touches nothing else.
LEMMA SentAtOnceFacts ==
  ASSUME NEW st, StatsOK(st), NEW n \in Int, NEW st2, st2 = [st EXCEPT !.num_packets_sent = n]
  PROVE  /\ StatsOK(st2)
         /\ st2.received = st.received
         /\ st2.records = st.records
         /\ st2.num_packets_dropped = st.num_packets_dropped
         /\ st2.num_packets_recvd = st.num_packets_recvd
         /\ st2.records_capacity = st.records_capacity
  BY DEF StatsOK

\* The entry goes behind the others, and the array is doubled in time.
LEMMA UpdateStatsFacts ==
  ASSUME NEW st, StatsOK(st), NEW pid \in Nat, NEW delay \in Int, NEW drop \in BOOLEAN
  PROVE  LET st2 == UpdateStats(st, pid, delay, drop)
         IN  /\ StatsOK(st2) /\ (HasRoom(st) => HasRoom(st2))
             /\ st2.received = st.received
             /\ st2.num_packets_sent = st.num_packets_sent
             /\ st2.num_packets_recvd = st.num_packets_recvd + (IF drop THEN 0 ELSE 1)
             /\ st2.num_packets_dropped = st.num_packets_dropped + (IF drop THEN 1 ELSE 0)
             /\ st2.records = Append(st.records, [pid |-> pid, delay |-> delay, drop |-> drop])
             /\ RecordedIn(st2) = RecordedIn(st) \cup {pid}
             /\ Len(st2.records) = Len(st.records) + 1
  <1>1. PICK rs, n, cap, rec :
          /\ rs = st.records /\ n = st.num_packets_recvd + st.num_packets_dropped
          /\ cap = st.records_capacity
          /\ rec = [pid |-> pid, delay |-> delay, drop |-> drop]
    OBVIOUS
  <1>2. /\ rs \in Seq(Record) /\ n = Len(rs) /\ n \in Nat /\ cap \in Nat
        /\ rec \in Record
    BY <1>1 DEF StatsOK, Record
  <1>3. SubSeq(rs, 1, n) \o <<rec>> = Append(rs, rec)
    <2>1. SubSeq(rs, 1, n) = rs
      BY <1>2
    <2>2. Append(rs, rec) = rs \o <<rec>>
      BY <1>2, AppendIsConcat
    <2> QED
      BY ONLY <2>1, <2>2
  <1>4. PICK rs2 : rs2 = Append(rs, rec)
    OBVIOUS
  <1>5. rs2 \in Seq(Record) /\ Len(rs2) = n + 1
    BY <1>2, <1>4, AppendProperties
  <1>6. PICK s1 : s1 = [st EXCEPT !.records_capacity = IF n + 1 >= @ THEN 2 * @ ELSE @]
    OBVIOUS
  <1>7. PICK s2 : s2 = [s1 EXCEPT !.records = SubSeq(@, 1, n) \o <<rec>>]
    OBVIOUS
  <1>8. PICK s3 : s3 = [s2 EXCEPT !.num_packets_dropped = IF drop THEN @ + 1 ELSE @]
    OBVIOUS
  <1>9. PICK s4 : s4 = [s3 EXCEPT !.num_packets_recvd = IF drop THEN @ ELSE @ + 1]
    OBVIOUS
  <1> DEFINE Type == [received : Int, num_packets_recvd : Int, num_packets_dropped : Int,
                      num_packets_sent : Int, records : Seq(Record), records_capacity : Nat]
  <1>10. /\ s1 \in Type /\ s1.received = st.received /\ s1.records = rs
         /\ s1.num_packets_sent = st.num_packets_sent
         /\ s1.num_packets_recvd = st.num_packets_recvd
         /\ s1.num_packets_dropped = st.num_packets_dropped
         /\ (n < cap => s1.records_capacity > n + 1)
    <2>1. PICK room \in Nat : room = IF n + 1 >= cap THEN 2 * cap ELSE cap
      BY <1>2
    <2>2. n < cap => room > n + 1
      BY ONLY <1>2, <2>1
    <2>3. s1 = [st EXCEPT !.records_capacity = room]
      BY ONLY <1>1, <1>6, <2>1
    <2>4. st \in Type
      BY DEF StatsOK
    <2> QED
      BY ONLY <1>1, <2>2, <2>3, <2>4
  <1>11. /\ s2 \in Type /\ s2.received = st.received /\ s2.records = rs2
         /\ s2.num_packets_sent = st.num_packets_sent
         /\ s2.num_packets_recvd = st.num_packets_recvd
         /\ s2.num_packets_dropped = st.num_packets_dropped
         /\ (n < cap => s2.records_capacity > n + 1)
    <2>1. s2 = [s1 EXCEPT !.records = rs2]
      <3>1. SubSeq(s1.records, 1, n) \o <<rec>> = rs2
        BY ONLY <1>3, <1>4, <1>10
      <3> QED
        BY ONLY <1>7, <3>1
    <2>2. s2 \in Type /\ s2.records = rs2
      BY ONLY <1>5, <1>10, <2>1
    <2>3. /\ s2.received = s1.received
          /\ s2.num_packets_sent = s1.num_packets_sent
          /\ s2.num_packets_recvd = s1.num_packets_recvd
          /\ s2.num_packets_dropped = s1.num_packets_dropped
          /\ s2.records_capacity = s1.records_capacity
      BY ONLY <1>10, <2>1
    <2> QED
      BY ONLY <1>10, <2>2, <2>3
  <1>12. /\ s3 \in Type /\ s3.received = st.received /\ s3.records = rs2
         /\ s3.num_packets_sent = st.num_packets_sent
         /\ s3.num_packets_recvd = st.num_packets_recvd
         /\ s3.num_packets_dropped = st.num_packets_dropped + (IF drop THEN 1 ELSE 0)
         /\ (n < cap => s3.records_capacity > n + 1)
    BY <1>8, <1>11
  <1>13. /\ s4 \in Type /\ s4.received = st.received /\ s4.records = rs2
         /\ s4.num_packets_sent = st.num_packets_sent
         /\ s4.num_packets_recvd = st.num_packets_recvd + (IF drop THEN 0 ELSE 1)
         /\ s4.num_packets_dropped = st.num_packets_dropped + (IF drop THEN 1 ELSE 0)
         /\ (n < cap => s4.records_capacity > n + 1)
    <2>1. s3.num_packets_recvd = st.num_packets_recvd /\ st.num_packets_recvd \in Int
      BY <1>12 DEF StatsOK
    <2>2. s4 = [s3 EXCEPT !.num_packets_recvd = st.num_packets_recvd + (IF drop THEN 0 ELSE 1)]
      BY <1>9, <2>1
    <2>3. PICK m \in Int : m = st.num_packets_recvd + (IF drop THEN 0 ELSE 1)
      BY <2>1
    <2>4. s4 = [s3 EXCEPT !.num_packets_recvd = m]
      BY ONLY <2>2, <2>3
    <2>5. /\ s4 \in Type /\ s4.num_packets_recvd = m
          /\ s4.received = s3.received
          /\ s4.records = s3.records
          /\ s4.num_packets_sent = s3.num_packets_sent
          /\ s4.num_packets_dropped = s3.num_packets_dropped
          /\ s4.records_capacity = s3.records_capacity
      BY ONLY <1>12, <2>3, <2>4
    <2> QED
      BY ONLY <1>12, <2>3, <2>5
  <1>14. UpdateStats(st, pid, delay, drop) = s4
    BY <1>1, <1>6, <1>7, <1>8, <1>9 DEF UpdateStats
  <1>15. StatsOK(s4)
    <2>1. s4.num_packets_recvd + s4.num_packets_dropped = n + 1
      <3>1. st.num_packets_recvd \in Int /\ st.num_packets_dropped \in Int
        BY DEF StatsOK
      <3>2. PICK a \in Int, b \in Int : a = st.num_packets_recvd /\ b = st.num_packets_dropped
        BY ONLY <3>1
      <3>3. n = a + b
        BY ONLY <1>1, <3>2
      <3>4. /\ s4.num_packets_recvd = a + (IF drop THEN 0 ELSE 1)
            /\ s4.num_packets_dropped = b + (IF drop THEN 1 ELSE 0)
        BY ONLY <1>13, <3>2
      <3>5. (a + (IF drop THEN 0 ELSE 1)) + (b + (IF drop THEN 1 ELSE 0)) = a + b + 1
        OBVIOUS
      <3> QED
        BY ONLY <3>3, <3>4, <3>5
    <2>2. s4 \in Type /\ Len(s4.records) = n + 1
      BY ONLY <1>5, <1>13
    <2> QED
      BY ONLY <2>1, <2>2 DEF StatsOK
  <1>17. HasRoom(st) => HasRoom(s4)
    BY <1>1, <1>2, <1>5, <1>13 DEF HasRoom
  <1>16. RecordedIn(s4) = RecordedIn(st) \cup {pid}
    <2>1. /\ DOMAIN rs2 = DOMAIN rs \cup {n + 1} /\ rs2[n + 1] = rec
          /\ \A i \in DOMAIN rs : rs2[i] = rs[i]
      BY <1>2, <1>4, AppendFacts
    <2>2. rec.pid = pid
      BY <1>1
    <2>3. RecordedIn(s4) = {rs2[i].pid : i \in DOMAIN rs2}
      BY <1>13 DEF RecordedIn
    <2>4. RecordedIn(st) = {rs[i].pid : i \in DOMAIN rs}
      BY <1>1 DEF RecordedIn
    <2> QED
      BY ONLY <2>1, <2>2, <2>3, <2>4
  <1> QED
    BY <1>1, <1>2, <1>4, <1>5, <1>13, <1>14, <1>15, <1>16, <1>17
-----------------------------------------------------------------------------
(***************************************************************************)
(* The account of the packets H that a switch has handled: they wait in    *)
(* the queues qs, or are the m packets out that it has sent, or are        *)
(* recorded in the statistics st.                                          *)
(***************************************************************************)
Counted(qs, out, m, st, H) ==
  /\ StatsOK(st)
  /\ Distinct(qs)
  /\ WaitingIn(qs) \cup out \cup RecordedIn(st) = H
  /\ WaitingIn(qs) \cap out = {}
  /\ Cardinality(WaitingIn(qs)) + m + Len(st.records) = Cardinality(H)
  /\ st.received = Cardinality(WaitingIn(qs)) + m + st.num_packets_dropped

\* The parts of the account.
LEMMA CountedFacts ==
  ASSUME NEW qs, NEW out, NEW m, NEW st, NEW H, Counted(qs, out, m, st, H)
  PROVE  /\ Len(st.records) \in Nat
         /\ st.num_packets_dropped \in Int /\ st.received \in Int
         /\ StatsOK(st) /\ Distinct(qs)
         /\ WaitingIn(qs) \cup out \cup RecordedIn(st) = H
         /\ WaitingIn(qs) \cap out = {}
         /\ Cardinality(WaitingIn(qs)) + m + Len(st.records) = Cardinality(H)
         /\ st.received = Cardinality(WaitingIn(qs)) + m + st.num_packets_dropped
  <1>1. StatsOK(st)
    BY DEF Counted
  <1>2. /\ Len(st.records) \in Nat
        /\ st.num_packets_dropped \in Int /\ st.received \in Int
    BY <1>1 DEF StatsOK
  <1> QED
    BY <1>2 DEF Counted

\* Finite sets that grow or shrink by one element.
LEMMA PartIsFinite ==
  ASSUME NEW S, IsFiniteSet(S), NEW T, T \subseteq S
  PROVE  IsFiniteSet(T) /\ Cardinality(T) \in Nat
  <1>1. T \in SUBSET S
    OBVIOUS
  <1>2. IsFiniteSet(T)
    BY <1>1, FS_Subset
  <1> QED
    BY <1>2, FS_CardinalityType

\* A finite set with one element more.
LEMMA OneMore ==
  ASSUME NEW S, IsFiniteSet(S), NEW x, x \notin S
  PROVE  /\ IsFiniteSet(S \cup {x})
         /\ Cardinality(S) \in Nat /\ Cardinality(S \cup {x}) = Cardinality(S) + 1
  BY FS_AddElement, FS_CardinalityType

\* A finite set with one element less.
LEMMA OneLess ==
  ASSUME NEW S, IsFiniteSet(S), NEW x \in S
  PROVE  Cardinality(S) \in Nat /\ Cardinality(S \ {x}) = Cardinality(S) - 1
  BY FS_RemoveElement, FS_CardinalityType

\* Packet p joins queue c, and a switch counts one more packet.
JoinsQueue(qs, qs2, c, p) ==
  /\ qs \in [Queues -> Seq(QueuedPackets)] /\ c \in Queues /\ p \in QueuedPackets
  /\ qs2[c] = Append(qs[c], p)
  /\ \A j \in Queues : j # c => qs2[j] = qs[j]

Receives(st, st2) ==
  /\ StatsOK(st2) /\ st2.records = st.records
  /\ st2.received = st.received + 1
  /\ st2.num_packets_dropped = st.num_packets_dropped

\* A packet that is not known yet is queued, and counted as received.
LEMMA QueuedIsCounted ==
  ASSUME NEW qs, NEW qs2, NEW c, NEW p, JoinsQueue(qs, qs2, c, p),
         NEW st, NEW st2, Receives(st, st2),
         NEW out, NEW m \in Nat, NEW H, IsFiniteSet(H), Counted(qs, out, m, st, H), p.pid \notin H
  PROVE  Counted(qs2, out, m, st2, H \cup {p.pid})
  <1> USE DEF JoinsQueue, Receives
  <1>1. PICK W, R, x : W = WaitingIn(qs) /\ R = RecordedIn(st) /\ x = p.pid
    OBVIOUS
  <1>2. /\ Distinct(qs) /\ W \cup out \cup R = H /\ W \cap out = {}
        /\ Cardinality(W) + m + Len(st.records) = Cardinality(H)
        /\ st.received = Cardinality(W) + m + st.num_packets_dropped
        /\ x \notin H
        /\ Len(st.records) \in Nat /\ st.num_packets_dropped \in Int
    BY <1>1, CountedFacts
  <1>3. WaitingIn(qs2) = W \cup {x} /\ Distinct(qs2)
    <2>1. x \notin W
      BY <1>2
    <2> QED
      BY <1>1, <1>2, <2>1, EnqueueWaiting
  <1>4. RecordedIn(st2) = R
    BY <1>1 DEF RecordedIn
  <1>5. /\ Cardinality(W) \in Nat /\ Cardinality(W \cup {x}) = Cardinality(W) + 1
        /\ Cardinality(H) \in Nat /\ Cardinality(H \cup {x}) = Cardinality(H) + 1
    <2>1. W \subseteq H /\ x \notin W
      BY <1>2
    <2>2. IsFiniteSet(W)
      BY <2>1, PartIsFinite
    <2> QED
      BY <1>2, <2>1, <2>2, OneMore
  <1>6. /\ (W \cup {x}) \cup out \cup R = H \cup {x}
        /\ (W \cup {x}) \cap out = {}
    BY <1>2
  <1>7. Cardinality(W \cup {x}) + m + Len(st2.records) = Cardinality(H \cup {x})
    BY <1>2, <1>5
  <1>8. st2.received = Cardinality(W \cup {x}) + m + st2.num_packets_dropped
    BY <1>2, <1>5
  <1> QED
    BY ONLY <1>1, <1>3, <1>4, <1>6, <1>7, <1>8, StatsOK(st2) DEF Counted

\* A packet that is sent goes from a queue to the wire.
LEMMA ServedIsCounted ==
  ASSUME NEW qs \in [Queues -> Seq(QueuedPackets)], NEW out, NEW m \in Nat, NEW st, NEW H,
         IsFiniteSet(H), Counted(qs, out, m, st, H), NEW port \in Ports, Backlogged(qs, port)
  PROVE  /\ Counted(Serve(qs, port), out \cup {NextPacket(qs, port).pid}, m + 1, st, H)
         /\ NextPacket(qs, port).pid \notin out
  <1>1. PICK W, R, x, W2 :
          /\ W = WaitingIn(qs) /\ R = RecordedIn(st) /\ x = NextPacket(qs, port).pid
          /\ W2 = WaitingIn(Serve(qs, port))
    OBVIOUS
  <1>2. /\ Distinct(qs) /\ W \cup out \cup R = H /\ W \cap out = {}
        /\ Cardinality(W) + m + Len(st.records) = Cardinality(H)
        /\ st.received = Cardinality(W) + m + st.num_packets_dropped
        /\ StatsOK(st)
        /\ Len(st.records) \in Nat /\ st.num_packets_dropped \in Int
    BY <1>1, CountedFacts
  <1>3. x \in W /\ W2 = W \ {x} /\ Distinct(Serve(qs, port))
    BY <1>1, <1>2, ServeWaiting
  <1>4. Cardinality(W) \in Nat /\ Cardinality(W2) = Cardinality(W) - 1
    <2>1. IsFiniteSet(W) /\ Cardinality(W) \in Nat
      <3>1. W \subseteq H
        BY <1>2
      <3> QED
        BY <3>1, PartIsFinite
    <2> QED
      BY <1>3, <2>1, OneLess
  <1>5. /\ W2 \cup (out \cup {x}) \cup R = H
        /\ W2 \cap (out \cup {x}) = {}
        /\ x \notin out
    BY <1>2, <1>3
  <1>6. Cardinality(W2) + (m + 1) + Len(st.records) = Cardinality(H)
    BY <1>2, <1>4
  <1>7. st.received = Cardinality(W2) + (m + 1) + st.num_packets_dropped
    BY <1>2, <1>4
  <1> QED
    BY ONLY <1>1, <1>2, <1>3, <1>5, <1>6, <1>7 DEF Counted

\* A packet that is not known yet is recorded; if it is dropped, it has been received.
LEMMA RecordedIsCounted ==
  ASSUME NEW qs, NEW out, NEW m \in Nat, NEW st, NEW H,
         IsFiniteSet(H), Counted(qs, out, m, st, H),
         NEW pid \in Nat, pid \notin H,
         NEW st2, StatsOK(st2), RecordedIn(st2) = RecordedIn(st) \cup {pid},
         Len(st2.records) = Len(st.records) + 1,
         st2.received - st2.num_packets_dropped = st.received - st.num_packets_dropped
  PROVE  Counted(qs, out, m, st2, H \cup {pid})
  <1>1. PICK W, R : W = WaitingIn(qs) /\ R = RecordedIn(st)
    OBVIOUS
  <1>2. /\ Distinct(qs) /\ W \cup out \cup R = H /\ W \cap out = {}
        /\ Cardinality(W) + m + Len(st.records) = Cardinality(H)
        /\ st.received = Cardinality(W) + m + st.num_packets_dropped
        /\ Len(st.records) \in Nat /\ st.num_packets_dropped \in Int /\ st.received \in Int
        /\ st2.num_packets_dropped \in Int /\ st2.received \in Int
    <2>1. st2.num_packets_dropped \in Int /\ st2.received \in Int
      BY ONLY StatsOK(st2) DEF StatsOK
    <2>2. Counted(qs, out, m, st, H)
      OBVIOUS
    <2> QED
      BY ONLY <1>1, <2>1, <2>2, CountedFacts
  <1>3. /\ Cardinality(W) \in Nat
        /\ Cardinality(H) \in Nat /\ Cardinality(H \cup {pid}) = Cardinality(H) + 1
    <2>1. IsFiniteSet(W) /\ Cardinality(W) \in Nat
      <3>1. W \subseteq H
        BY <1>2
      <3> QED
        BY <3>1, PartIsFinite
    <2> QED
      BY <2>1, OneMore
  <1>4. W \cup out \cup RecordedIn(st2) = H \cup {pid}
    BY <1>1, <1>2
  <1>5. Cardinality(W) + m + Len(st2.records) = Cardinality(H \cup {pid})
    BY <1>2, <1>3
  <1>6. st2.received = Cardinality(W) + m + st2.num_packets_dropped
    <2>1. PICK w \in Nat, r \in Int, d \in Int, r2 \in Int, d2 \in Int :
            /\ w = Cardinality(W) /\ r = st.received /\ d = st.num_packets_dropped
            /\ r2 = st2.received /\ d2 = st2.num_packets_dropped
      BY <1>2, <1>3
    <2>2. r = w + m + d /\ r2 - d2 = r - d
      BY ONLY <1>2, <2>1, st2.received - st2.num_packets_dropped = st.received - st.num_packets_dropped
    <2>3. r2 = w + m + d2
      BY ONLY <2>2, m \in Nat, w \in Nat, r \in Int, d \in Int, r2 \in Int, d2 \in Int
    <2> QED
      BY ONLY <2>1, <2>3
  <1> QED
    BY ONLY <1>1, <1>2, <1>4, <1>5, <1>6, StatsOK(st2) DEF Counted

\* What the handlers do to the statistics.
LEMMA ArriveCounts ==
  ASSUME NEW p, NEW time, Arrive(p, time),
         p.dest # Self => p.dest \in DOMAIN Routing /\ Backlogged(Enqueued(p), OutPort(p))
  PROVE  \/ /\ UNCHANGED queues /\ done'.sent = {}
            /\ \/ stats' = UpdateStats(stats, p.pid, time - p.send_time, FALSE)
               \/ stats' = UpdateStats([stats EXCEPT !.received = @ + 1], p.pid, 0, TRUE)
         \/ /\ p.dest # Self
            /\ Served(Enqueued(p), OutPort(p), time) \/ Delayed(Enqueued(p), OutPort(p), time)
            /\ \/ stats' = [stats EXCEPT !.received = @ + 1]
               \/ stats' = [stats EXCEPT !.received = @ + 1, !.num_packets_sent = @ + 1]
  <1>1. CASE ArriveFinal(p, time)
    BY <1>1 DEF ArriveFinal, arrays, ports
  <1>2. CASE ArriveDropped(p, time)
    BY <1>2 DEF ArriveDropped, ports
  <1>3. CASE ArriveSendsNow(p, time)
    BY <1>3 DEF ArriveSendsNow, SendNextPacket, NextHop, Served, Hops
  <1>4. CASE ArriveSchedulesSend(p, time)
    BY <1>4 DEF ArriveSchedulesSend, ArriveWaits, Delayed
  <1>5. CASE ArriveJoinsQueue(p, time)
    BY <1>5 DEF ArriveJoinsQueue, ArriveWaits, Delayed
  <1> QED
    BY <1>1, <1>2, <1>3, <1>4, <1>5 DEF Arrive

\* handle_send_event counts and records nothing.
LEMMA SendCounts ==
  ASSUME NEW port, NEW time, Send(port, time)
  PROVE  UNCHANGED stats
  BY DEF Send, SendLast, SendOneOfMany, SendPostponed

\* An arriving packet that is recorded at once.
LEMMA ArrivalIsRecorded ==
  ASSUME StatsOK(stats), NEW pid \in Nat, NEW delay \in Int,
         \/ stats' = UpdateStats(stats, pid, delay, FALSE)
         \/ stats' = UpdateStats([stats EXCEPT !.received = @ + 1], pid, delay, TRUE)
  PROVE  /\ StatsOK(stats') /\ (HasRoom(stats) => HasRoom(stats'))
         /\ RecordedIn(stats') = RecordedIn(stats) \cup {pid}
         /\ Len(stats'.records) = Len(stats.records) + 1
         /\ stats'.received - stats'.num_packets_dropped
              = stats.received - stats.num_packets_dropped
  <1>1. stats.received \in Int /\ stats.num_packets_dropped \in Int
    BY DEF StatsOK
  <1>2. CASE stats' = UpdateStats(stats, pid, delay, FALSE)
    <2>1. PICK st2 : st2 = UpdateStats(stats, pid, delay, FALSE)
      OBVIOUS
    <2>2. /\ StatsOK(st2) /\ (HasRoom(stats) => HasRoom(st2))
          /\ RecordedIn(st2) = RecordedIn(stats) \cup {pid}
          /\ Len(st2.records) = Len(stats.records) + 1
          /\ st2.received = stats.received
          /\ st2.num_packets_dropped = stats.num_packets_dropped + 0
      BY <2>1, UpdateStatsFacts
    <2>3. stats' = st2
      BY ONLY <1>2, <2>1
    <2> QED
      BY ONLY <1>1, <2>2, <2>3
  <1>3. CASE stats' = UpdateStats([stats EXCEPT !.received = @ + 1], pid, delay, TRUE)
    <2>1. PICK r \in Int : r = stats.received + 1
      BY <1>1
    <2>2. PICK st : st = [stats EXCEPT !.received = r]
      OBVIOUS
    <2>3. /\ StatsOK(st) /\ st.received = r /\ st.records = stats.records
          /\ st.num_packets_dropped = stats.num_packets_dropped
          /\ RecordedIn(st) = RecordedIn(stats)
          /\ (HasRoom(stats) => HasRoom(st))
      BY <2>2, ReceivedFacts DEF HasRoom
    <2>4. PICK st2 : st2 = UpdateStats(st, pid, delay, TRUE)
      OBVIOUS
    <2>5. /\ StatsOK(st2) /\ (HasRoom(st) => HasRoom(st2))
          /\ RecordedIn(st2) = RecordedIn(st) \cup {pid}
          /\ Len(st2.records) = Len(st.records) + 1
          /\ st2.received = st.received
          /\ st2.num_packets_dropped = st.num_packets_dropped + 1
      BY <2>3, <2>4, UpdateStatsFacts
    <2>6. stats' = st2
      BY <1>3, <2>1, <2>2, <2>4
    <2>7. st2.received \in Int /\ st2.num_packets_dropped \in Int
      BY <2>5 DEF StatsOK
    <2> QED
      BY ONLY <1>1, <2>1, <2>3, <2>5, <2>6, <2>7
  <1> QED
    BY <1>2, <1>3
==============================================================================
