--------------------------- MODULE SwitchSeqProofs ---------------------------
(***************************************************************************)
(* Proofs about a switch under the sequential event loop, for every number *)
(* of ports, every routing table and every stream of packets.              *)
(***************************************************************************)
EXTENDS SwitchSeq, SwitchProofs

\* How many SEND events for a port there are among the events sent.
LEMMA WakeupsFacts ==
  /\ \A port : Wakeups({}, port) = <<>>
  /\ \A port, p1, qs, hop, t1 : Wakeups({Departure(qs, p1, hop, t1)}, port) = <<>>
  /\ \A port, p1, qs, b :
       /\ port # p1 => Wakeups({Wakeup(b, qs, p1)}, port) = <<>>
       /\ \E at : Wakeups({Wakeup(b, qs, p1)}, p1) = <<at>>
  /\ \A port, p1, p2, qs, hop, qs2, t1, b :
       /\ port # p1 => Wakeups({Departure(qs, p2, hop, t1), Wakeup(b, qs2, p1)}, port) = <<>>
       /\ \E at : Wakeups({Departure(qs, p2, hop, t1), Wakeup(b, qs2, p1)}, p1) = <<at>>
  <1> DEFINE Its(sent, port) == {e \in sent : e.type = "SEND" /\ e.port = port}
  <1>1. \A sent, port : Wakeups(sent, port) =
          IF Its(sent, port) = {} THEN <<>>
          ELSE <<(CHOOSE e \in Its(sent, port) : TRUE).at>>
    BY DEF Wakeups
  <1>2. \A qs, p1, hop, t1 : Departure(qs, p1, hop, t1).type = "ARRIVE"
    BY DEF Departure
  <1>3. \A b, qs, p1 : Wakeup(b, qs, p1).type = "SEND" /\ Wakeup(b, qs, p1).port = p1
    BY DEF Wakeup
  <1>4. \A port : Its({}, port) = {}
    OBVIOUS
  <1>5. \A port, p1, qs, hop, t1 : Its({Departure(qs, p1, hop, t1)}, port) = {}
    BY <1>2
  <1>6. \A port, p1, qs, b :
          Its({Wakeup(b, qs, p1)}, port) = IF port = p1 THEN {Wakeup(b, qs, p1)} ELSE {}
    BY <1>3
  <1> HIDE DEF Its
  <1>7. \A sent, port : Its(sent, port) = {} => Wakeups(sent, port) = <<>>
    BY <1>1
  <1>8. \A sent, port, e : Its(sent, port) = {e} => Wakeups(sent, port) = <<e.at>>
    BY <1>1
  <1>9. \A port : Wakeups({}, port) = <<>>
    BY <1>4, <1>7
  <1>10. \A port, p1, qs, hop, t1 : Wakeups({Departure(qs, p1, hop, t1)}, port) = <<>>
    BY <1>5, <1>7
  <1>11. ASSUME NEW port, NEW p1, NEW qs, NEW b
         PROVE  /\ port # p1 => Wakeups({Wakeup(b, qs, p1)}, port) = <<>>
                /\ \E at : Wakeups({Wakeup(b, qs, p1)}, p1) = <<at>>
    BY <1>6, <1>7, <1>8
  <1>12. ASSUME NEW port, NEW p1, NEW p2, NEW qs, NEW hop, NEW qs2, NEW t1, NEW b
         PROVE  /\ port # p1 => Wakeups({Departure(qs, p2, hop, t1), Wakeup(b, qs2, p1)}, port) = <<>>
                /\ \E at : Wakeups({Departure(qs, p2, hop, t1), Wakeup(b, qs2, p1)}, p1) = <<at>>
    <2> DEFINE sent == {Departure(qs, p2, hop, t1), Wakeup(b, qs2, p1)}
               wake == Wakeup(b, qs2, p1)
    <2>1. /\ port # p1 => Its(sent, port) = {}
          /\ Its(sent, p1) = {wake}
      <3>1. /\ sent = {Departure(qs, p2, hop, t1), wake}
            /\ Departure(qs, p2, hop, t1).type = "ARRIVE"
            /\ wake.type = "SEND" /\ wake.port = p1
        BY <1>2, <1>3
      <3> HIDE DEF sent, wake
      <3>2. QED
        BY <3>1 DEF Its
    <2> HIDE DEF sent, wake
    <2>2. /\ port # p1 => Wakeups(sent, port) = <<>>
          /\ Wakeups(sent, p1) = <<wake.at>>
      BY <1>7, <1>8, <2>1
    <2>3. QED
      BY <2>2 DEF sent, wake
  <1>13. QED
    BY <1>9, <1>10, <1>11, <1>12
-----------------------------------------------------------------------------
(***************************************************************************)
(* The inductive invariant of the protocol between the two handlers: the   *)
(* flag of a port counts its pending SEND events, and is set exactly when  *)
(* the port has a backlog.  (Len says that less directly than the          *)
(* sequence itself, which is what the steps change.)                       *)
(***************************************************************************)
OneWakeup(port) ==
  IF Backlogged(queues, port)
  THEN port_flags[port] = 1 /\ \E at : pending[port] = <<at>>
  ELSE port_flags[port] = 0 /\ pending[port] = <<>>

ProtocolInv ==
  /\ queues \in [Queues -> Seq(QueuedPackets)]
  /\ port_flags \in [Ports -> {0, 1}]
  /\ pending = [port \in Ports |-> pending[port]]
  /\ \A port \in Ports : OneWakeup(port)
  /\ arrived \in Nat

\* The invariant is the protocol and more.
LEMMA ProtocolInvImpliesProtocol == ProtocolInv => PortProtocol
  <1> SUFFICES ASSUME ProtocolInv, NEW port \in Ports
               PROVE  /\ Len(pending[port]) = port_flags[port]
                      /\ port_flags[port] = 1 <=> Backlogged(queues, port)
    BY DEF PortProtocol
  <1>1. CASE Backlogged(queues, port)
    <2>1. PICK at : pending[port] = <<at>>
      BY <1>1 DEF ProtocolInv, OneWakeup
    <2>2. Len(pending[port]) = 1
      BY <2>1
    <2>3. QED
      BY <1>1, <2>2 DEF ProtocolInv, OneWakeup
  <1>2. CASE ~ Backlogged(queues, port)
    BY <1>2 DEF ProtocolInv, OneWakeup
  <1>3. QED
    BY <1>1, <1>2

\* Sequences of at most one event.
LEMMA ShortSeqs ==
  /\ <<>> \o <<>> = <<>>
  /\ \A x : /\ <<x>> \o <<>> = <<x>>
            /\ <<>> \o <<x>> = <<x>>
            /\ DOMAIN <<x>> = {1}
            /\ Delete(<<x>>, 1) = <<>>
  <1>1. <<>> \o <<>> = <<>>
    OBVIOUS
  <1>2. ASSUME NEW x
        PROVE  /\ <<x>> \o <<>> = <<x>> /\ <<>> \o <<x>> = <<x>>
               /\ DOMAIN <<x>> = {1} /\ Delete(<<x>>, 1) = <<>>
    <2>1. <<x>> \in Seq({x}) /\ <<>> \in Seq({x}) /\ Len(<<x>>) = 1
      OBVIOUS
    <2>2. <<x>> \o <<>> = <<x>> /\ <<>> \o <<x>> = <<x>> /\ DOMAIN <<x>> = {1}
      BY <2>1
    <2>3. SubSeq(<<x>>, 1, 0) = <<>> /\ SubSeq(<<x>>, 2, 1) = <<>>
      BY <2>1
    <2>4. QED
      BY <1>1, <2>1, <2>2, <2>3 DEF Delete
  <1>3. QED
    BY <1>1, <1>2

\* A handler that only re-schedules its own port sends the others nothing.
LEMMA WakeupOnly ==
  ASSUME NEW b, NEW qs, NEW p1, NEW port, port # p1
  PROVE  Wakeups({Wakeup(b, qs, p1)}, port) = <<>>
  <1>1. PICK wake : wake = Wakeup(b, qs, p1)
    OBVIOUS
  <1>2. wake.port = p1
    BY <1>1 DEF Wakeup
  <1>3. {e \in {wake} : e.type = "SEND" /\ e.port = port} = {}
    BY <1>2
  <1>4. Wakeups({wake}, port) = <<>>
    BY <1>3 DEF Wakeups
  <1>5. QED
    BY <1>1, <1>4

\* A handler that sends no SEND event for a port leaves its pending events alone.
LEMMA NothingPending ==
  ASSUME ProtocolInv, NEW port \in Ports
  PROVE  pending[port] \o <<>> = pending[port]
  <1>1. OneWakeup(port)
    BY DEF ProtocolInv
  <1>2. CASE Backlogged(queues, port)
    <2>1. PICK at : pending[port] = <<at>>
      BY <1>1, <1>2 DEF OneWakeup
    <2>2. QED
      BY <2>1, ShortSeqs
  <1>3. CASE ~ Backlogged(queues, port)
    BY <1>1, <1>3, ShortSeqs DEF OneWakeup
  <1>4. QED
    BY <1>2, <1>3

\* An arriving packet that has to be queued.
LEMMA PacketFacts ==
  ASSUME NEW o \in Offers, NEW pid \in Nat, Packet(o, pid).dest # Self
  PROVE  /\ Packet(o, pid) \in QueuedPackets
         /\ OutPort(Packet(o, pid)) \in Ports
         /\ Packet(o, pid).type \in Levels
  <1>1. o.dest \in DOMAIN Routing \cup {Self} /\ o.type \in Levels /\ o.size \in Nat \ {0}
    BY SequentialAssumption
  <1>2. o.dest \in DOMAIN Routing
    BY <1>1 DEF Packet
  <1>3. Routing[o.dest].port_id \in Ports
    BY <1>2, SwitchAssumption
  <1>4. QED
    BY <1>1, <1>2, <1>3 DEF Packet, QueuedPackets, OutPort

\* An arriving packet schedules a SEND event exactly when its port has none.
LEMMA ArriveKeepsProtocol ==
  ASSUME ProtocolInv, NEW o \in Offers, NEW time, RunArrive(o, time)
  PROVE  ProtocolInv'
  <1>0. PICK p, port : p = Packet(o, arrived + 1) /\ port = OutPort(p)
    OBVIOUS
  <1>1. /\ Arrive(p, time)
        /\ pending' = [q \in Ports |-> pending[q] \o Wakeups(done'.sent, q)]
        /\ arrived' = arrived + 1
    BY <1>0 DEF RunArrive, Post
  <1>2. /\ queues \in [Queues -> Seq(QueuedPackets)]
        /\ port_flags \in [Ports -> {0, 1}]
        /\ \A q \in Ports : OneWakeup(q)
        /\ arrived \in Nat
    BY DEF ProtocolInv
  <1>3. pending' = [q \in Ports |-> pending'[q]] /\ arrived' \in Nat
    <2>1. pending' = [q \in Ports |-> pending'[q]]
      BY <1>1
    <2>2. arrived' \in Nat
      BY <1>1, <1>2
    <2>3. QED
      BY <2>1, <2>2
  <1>4. ASSUME NEW q \in Ports, Wakeups(done'.sent, q) = <<>>
         PROVE  pending'[q] = pending[q]
    BY <1>1, <1>4, NothingPending
  <1>5. ASSUME UNCHANGED <<queues, port_flags>>, done'.sent = {}
        PROVE  ProtocolInv'
    <2>1. \A q \in Ports : pending'[q] = pending[q]
      BY <1>5, <1>4, WakeupsFacts
    <2>2. \A q \in Ports : OneWakeup(q)'
      BY <1>2, <1>5, <2>1 DEF OneWakeup, Backlogged
    <2>3. QED
      BY <1>2, <1>3, <1>5, <2>2 DEF ProtocolInv
  <1>6. ASSUME p.dest # Self
        PROVE  /\ p \in QueuedPackets /\ port \in Ports
               /\ Enqueued(p) \in [Queues -> Seq(QueuedPackets)]
               /\ Backlogged(Enqueued(p), port)
               /\ Backlogged(Serve(Enqueued(p), port), port) <=> Backlogged(queues, port)
               /\ Serve(Enqueued(p), port) \in [Queues -> Seq(QueuedPackets)]
               /\ \A q \in Ports : q # port =>
                    /\ Backlogged(Enqueued(p), q) <=> Backlogged(queues, q)
                    /\ Backlogged(Serve(Enqueued(p), port), q) <=> Backlogged(queues, q)
    <2>1. p \in QueuedPackets /\ port \in Ports /\ p.type \in Levels
      BY <1>0, <1>2, <1>6, PacketFacts
    <2>2. Enqueued(p) = [queues EXCEPT ![MeterIndex(port, p.type)] = Append(@, p)]
      BY <1>0 DEF Enqueued, PacketMeter
    <2>3. /\ Enqueued(p) \in [Queues -> Seq(QueuedPackets)]
          /\ Enqueued(p)[MeterIndex(port, p.type)] = Append(queues[MeterIndex(port, p.type)], p)
          /\ \A j \in Queues : j # MeterIndex(port, p.type) => Enqueued(p)[j] = queues[j]
      <3> DEFINE k == MeterIndex(port, p.type)
      <3>1. k \in Queues
        BY <2>1, IndexFacts
      <3> HIDE DEF k
      <3>2. Append(queues[k], p) \in Seq(QueuedPackets)
        BY <1>2, <2>1, <3>1
      <3>3. Enqueued(p) = [queues EXCEPT ![k] = Append(@, p)]
        BY <2>2 DEF k
      <3>4. /\ Enqueued(p) \in [Queues -> Seq(QueuedPackets)]
            /\ Enqueued(p)[k] = Append(queues[k], p)
            /\ \A j \in Queues : j # k => Enqueued(p)[j] = queues[j]
        BY <1>2, <3>1, <3>2, <3>3
      <3>5. QED
        BY <3>4 DEF k
    <2>4. /\ Backlogged(Enqueued(p), port)
          /\ Backlogged(Serve(Enqueued(p), port), port) <=> Backlogged(queues, port)
          /\ \A q \in Ports : q # port =>
               /\ Backlogged(Enqueued(p), q) <=> Backlogged(queues, q)
               /\ Backlogged(Serve(Enqueued(p), port), q) <=> Backlogged(queues, q)
      <3>1. PICK qs, qs2, level : qs = queues /\ qs2 = Enqueued(p) /\ level = p.type
        OBVIOUS
      <3>2. /\ qs \in [Queues -> Seq(QueuedPackets)] /\ qs2 \in [Queues -> Seq(QueuedPackets)]
            /\ qs2[MeterIndex(port, level)] = Append(qs[MeterIndex(port, level)], p)
            /\ \A j \in Queues : j # MeterIndex(port, level) => qs2[j] = qs[j]
            /\ port \in Ports /\ level \in Levels /\ p \in QueuedPackets
        BY <1>2, <2>1, <2>3, <3>1
      <3>3. /\ Backlogged(qs2, port)
            /\ Backlogged(Serve(qs2, port), port) <=> Backlogged(qs, port)
            /\ \A q \in Ports : q # port =>
                 /\ Backlogged(qs2, q) <=> Backlogged(qs, q)
                 /\ Backlogged(Serve(qs2, port), q) <=> Backlogged(qs, q)
        BY <3>2, EnqueueFacts
      <3>4. QED
        BY <3>1, <3>3
    <2>5. Serve(Enqueued(p), port) \in [Queues -> Seq(QueuedPackets)]
      BY <2>1, <2>4, <2>3, ServeFacts
    <2>6. QED
      BY <2>1, <2>4, <2>5, <2>3
  <1>7. ASSUME p.dest # Self,
               queues' = Serve(Enqueued(p), port),
               port_flags' = port_flags,
               \E hop : done'.sent = {Departure(Enqueued(p), port, hop, time)}
        PROVE  ProtocolInv'
    <2>1. \A q \in Ports : pending'[q] = pending[q]
      <3>1. \A q \in Ports : Wakeups(done'.sent, q) = <<>>
        BY <1>7, WakeupsFacts
      <3>2. QED
        BY <1>4, <3>1
    <2>2. \A q \in Ports : Backlogged(queues', q) <=> Backlogged(queues, q)
      BY <1>6, <1>7
    <2>3. \A q \in Ports : OneWakeup(q)'
      BY <1>2, <1>7, <2>1, <2>2 DEF OneWakeup
    <2>4. QED
      BY <1>2, <1>3, <1>6, <1>7, <2>3 DEF ProtocolInv
  <1>8. ASSUME p.dest # Self,
               queues' = Enqueued(p),
               port_flags[port] = 0,
               port_flags' = [port_flags EXCEPT ![port] = 1],
               done'.sent = {Wakeup(Refilled(port, time), Enqueued(p), port)}
        PROVE  ProtocolInv'
    <2>1. pending[port] = <<>>
      BY <1>2, <1>6, <1>8 DEF OneWakeup
    <2>2. \E at : pending'[port] = <<at>>
      <3>1. PICK at : Wakeups(done'.sent, port) = <<at>>
        BY <1>8, WakeupsFacts
      <3>2. pending'[port] = <<>> \o <<at>>
        BY <1>1, <1>6, <1>8, <2>1, <3>1
      <3>3. QED
        BY <3>2, ShortSeqs
    <2>3. \A q \in Ports : q # port => pending'[q] = pending[q]
      <3>1. \A q \in Ports : q # port => Wakeups(done'.sent, q) = <<>>
        <4>1. PICK b, qs : done'.sent = {Wakeup(b, qs, port)}
          BY <1>8
        <4>2. \A q \in Ports : q # port => Wakeups({Wakeup(b, qs, port)}, q) = <<>>
          BY WakeupOnly
        <4>3. QED
          BY <4>1, <4>2
      <3>2. QED
        BY <1>4, <3>1
    <2>4. /\ port_flags' \in [Ports -> {0, 1}]
          /\ port_flags'[port] = 1
          /\ \A q \in Ports : q # port => port_flags'[q] = port_flags[q]
      BY <1>2, <1>6, <1>8
    <2>5. OneWakeup(port)'
      BY <1>6, <1>8, <2>2, <2>4 DEF OneWakeup
    <2>6. \A q \in Ports : q # port => OneWakeup(q)'
      BY <1>2, <1>6, <1>8, <2>3, <2>4 DEF OneWakeup
    <2>7. QED
      BY <1>3, <1>6, <1>8, <2>4, <2>5, <2>6 DEF ProtocolInv
  <1>9. ASSUME p.dest # Self,
               queues' = Enqueued(p),
               port_flags[port] # 0,
               port_flags' = port_flags,
               done'.sent = {}
        PROVE  ProtocolInv'
    <2>1. \A q \in Ports : pending'[q] = pending[q]
      BY <1>9, <1>4, WakeupsFacts
    <2>2. \A q \in Ports : Backlogged(queues', q) <=> Backlogged(queues, q)
      BY <1>2, <1>6, <1>9 DEF OneWakeup
    <2>3. \A q \in Ports : OneWakeup(q)'
      BY <1>2, <1>9, <2>1, <2>2 DEF OneWakeup
    <2>4. QED
      BY <1>2, <1>3, <1>6, <1>9, <2>3 DEF ProtocolInv
  <1>10. QED
    BY <1>0, <1>1, <1>5, <1>7, <1>8, <1>9, ArriveEffect

\* A SEND event schedules its successor exactly when a packet is left.
LEMMA SendKeepsProtocol ==
  ASSUME ProtocolInv, NEW port \in Ports, NEW i \in DOMAIN pending[port], RunSend(port, i)
  PROVE  ProtocolInv'
  <1> DEFINE time == pending[port][i]
             rest == [pending EXCEPT ![port] = Delete(@, i)]
  <1>1. /\ Send(port, time)
        /\ pending' = [q \in Ports |-> rest[q] \o Wakeups(done'.sent, q)]
        /\ arrived' = arrived
    BY DEF RunSend, Post
  <1>2. /\ queues \in [Queues -> Seq(QueuedPackets)]
        /\ port_flags \in [Ports -> {0, 1}]
        /\ \A q \in Ports : OneWakeup(q)
        /\ pending = [q \in Ports |-> pending[q]]
        /\ arrived' \in Nat
    BY <1>1 DEF ProtocolInv
  <1>3. Backlogged(queues, port) /\ port_flags[port] = 1
    BY <1>1, <1>2, SendEffect DEF OneWakeup
  <1>4. rest[port] = <<>>
    <2>1. PICK at : pending[port] = <<at>>
      BY <1>2, <1>3 DEF OneWakeup
    <2>2. i = 1
      BY <2>1, ShortSeqs
    <2>3. Delete(pending[port], i) = <<>>
      BY <2>1, <2>2, ShortSeqs
    <2>4. QED
      BY <1>2, <2>3
  <1>5. \A q \in Ports : q # port => rest[q] = pending[q]
    BY <1>2
  <1>7. /\ Serve(queues, port) \in [Queues -> Seq(QueuedPackets)]
        /\ \A q \in Ports : q # port =>
             (Backlogged(Serve(queues, port), q) <=> Backlogged(queues, q))
    BY <1>2, <1>3, ServeFacts
  <1> HIDE DEF rest, time
  <1>6. /\ pending' = [q \in Ports |-> pending'[q]]
        /\ \A q \in Ports : pending'[q] = rest[q] \o Wakeups(done'.sent, q)
    BY <1>1
  <1>8. \A q \in Ports : q # port /\ Wakeups(done'.sent, q) = <<>> => pending'[q] = pending[q]
    BY <1>5, <1>6, NothingPending
  <1>9. ASSUME queues' = Serve(queues, port),
               ~ Backlogged(Serve(queues, port), port),
               port_flags' = [port_flags EXCEPT ![port] = 0],
               \E hop : done'.sent = {Departure(queues, port, hop, time)}
        PROVE  ProtocolInv'
    <2>1. \A q \in Ports : Wakeups(done'.sent, q) = <<>>
      BY <1>9, WakeupsFacts
    <2>2. /\ pending'[port] = <<>>
          /\ \A q \in Ports : q # port => pending'[q] = pending[q]
      BY <1>4, <1>6, <1>8, <2>1, ShortSeqs
    <2>3. /\ port_flags' \in [Ports -> {0, 1}]
          /\ port_flags'[port] = 0
          /\ \A q \in Ports : q # port => port_flags'[q] = port_flags[q]
      BY <1>2, <1>9
    <2>4. OneWakeup(port)'
      BY <1>9, <2>2, <2>3 DEF OneWakeup
    <2>5. \A q \in Ports : q # port => OneWakeup(q)'
      BY <1>2, <1>7, <1>9, <2>2, <2>3 DEF OneWakeup
    <2>6. QED
      BY <1>2, <1>6, <1>7, <1>9, <2>3, <2>4, <2>5 DEF ProtocolInv
  <1>10. ASSUME port_flags' = port_flags,
               queues' \in [Queues -> Seq(QueuedPackets)],
               \A q \in Ports : Backlogged(queues', q) <=> Backlogged(queues, q),
               \E at : Wakeups(done'.sent, port) = <<at>>,
               \A q \in Ports : q # port => Wakeups(done'.sent, q) = <<>>
        PROVE  ProtocolInv'
    <2>1. \E at : pending'[port] = <<at>>
      <3>1. PICK at : Wakeups(done'.sent, port) = <<at>>
        BY <1>10
      <3>2. pending'[port] = <<>> \o <<at>>
        BY <1>4, <1>6, <3>1
      <3>3. QED
        BY <3>2, ShortSeqs
    <2>2. \A q \in Ports : q # port => pending'[q] = pending[q]
      BY <1>10, <1>8
    <2>3. OneWakeup(port)'
      BY <1>3, <1>10, <2>1 DEF OneWakeup
    <2>4. \A q \in Ports : q # port => OneWakeup(q)'
      BY <1>2, <1>10, <2>2 DEF OneWakeup
    <2>5. QED
      BY <1>2, <1>6, <1>10, <2>3, <2>4 DEF ProtocolInv
  <1>11. ASSUME queues' = Serve(queues, port),
                Backlogged(Serve(queues, port), port),
                port_flags' = port_flags,
                \E hop : done'.sent = {Departure(queues, port, hop, time),
                                       Wakeup(shapers'[port], Serve(queues, port), port)}
         PROVE  ProtocolInv'
    <2>1. /\ \E at : Wakeups(done'.sent, port) = <<at>>
          /\ \A q \in Ports : q # port => Wakeups(done'.sent, q) = <<>>
      BY <1>11, WakeupsFacts
    <2>2. \A q \in Ports : Backlogged(queues', q) <=> Backlogged(queues, q)
      BY <1>3, <1>7, <1>11
    <2>3. QED
      BY <1>7, <1>10, <1>11, <2>1, <2>2
  <1>12. ASSUME queues' = queues,
                port_flags' = port_flags,
                done'.sent = {Wakeup(Refilled(port, time), queues, port)}
         PROVE  ProtocolInv'
    <2>2. \E at : Wakeups(done'.sent, port) = <<at>>
      BY <1>12, WakeupsFacts
    <2>3. \A q \in Ports : q # port => Wakeups(done'.sent, q) = <<>>
      <3>1. PICK b, qs : done'.sent = {Wakeup(b, qs, port)}
        BY <1>12
      <3>2. QED
        BY <3>1, WakeupOnly
    <2>4. QED
      BY <1>2, <1>10, <1>12, <2>2, <2>3
  <1>13. QED
    BY <1>1, <1>9, <1>11, <1>12, SendEffect

\* The switch starts idle.
LEMMA ProtocolInvHolds == Init => ProtocolInv
  <1> SUFFICES ASSUME Init PROVE ProtocolInv
    OBVIOUS
  <1>1. /\ queues = [j \in Queues |-> <<>>]
        /\ port_flags = [q \in Ports |-> 0]
        /\ pending = [q \in Ports |-> <<>>]
        /\ arrived = 0
    BY DEF Init, SwitchInit
  <1>2. \A q \in Ports : ~ Backlogged(queues, q)
    BY <1>1, IndexFacts DEF Backlogged
  <1>3. QED
    BY <1>1, <1>2 DEF ProtocolInv, OneWakeup

(* The two handlers and the event loop together keep exactly one SEND event *)
(* pending for every port with a backlog, and none for the others.          *)
THEOREM SwitchKeepsPortProtocol == Spec => []PortProtocol
  <1>1. Init => ProtocolInv
    BY ProtocolInvHolds
  <1>2. ProtocolInv /\ [Next]_vars => ProtocolInv'
    <2> SUFFICES ASSUME ProtocolInv, [Next]_vars
                 PROVE  ProtocolInv'
      OBVIOUS
    <2>1. CASE \E o \in Offers, time \in ArrivalTimes : RunArrive(o, time)
      BY <2>1, ArriveKeepsProtocol
    <2>2. CASE RunSomeSend
      BY <2>2, SendKeepsProtocol DEF RunSomeSend
    <2>3. CASE UNCHANGED vars
      BY <2>3 DEF vars, swvars, ProtocolInv, OneWakeup, Backlogged
    <2>4. QED
      BY <2>1, <2>2, <2>3 DEF Next
  <1>3. QED
    BY <1>1, <1>2, ProtocolInvImpliesProtocol, PTL DEF Spec
-----------------------------------------------------------------------------
\* A handler sends at most one packet, whatever it schedules for itself.
LEMMA DepartedFacts ==
  ASSUME NEW rest, Post(rest)
  PROVE  /\ done'.sent = {} => departed' = departed
         /\ \A b, qs, port : done'.sent = {Wakeup(b, qs, port)} => departed' = departed
         /\ \A qs, port, hop, time :
              done'.sent = {Departure(qs, port, hop, time)} =>
                departed' = Append(departed, Departure(qs, port, hop, time))
         /\ \A qs, port, hop, time, b, qs2 :
              done'.sent = {Departure(qs, port, hop, time), Wakeup(b, qs2, port)} =>
                departed' = Append(departed, Departure(qs, port, hop, time))
  <1> DEFINE Out(sent) == {e \in sent : e.type = "ARRIVE"}
  <1>1. PICK sent : sent = done'.sent
    OBVIOUS
  <1>2. departed' = IF Out(sent) = {} THEN departed ELSE Append(departed, CHOOSE e \in Out(sent) : TRUE)
    BY <1>1 DEF Post
  <1>3. \A e : Out(sent) = {e} => departed' = Append(departed, e)
    <2> HIDE DEF Out
    <2> QED
      BY <1>2
  <1>4. Out(sent) = {} => departed' = departed
    BY <1>2
  <1>5. \A e : e.type = "ARRIVE" /\ sent = {e} => Out(sent) = {e}
    OBVIOUS
  <1>6. \A e, f : e.type = "ARRIVE" /\ f.type = "SEND" /\ sent = {e, f} => Out(sent) = {e}
    OBVIOUS
  <1>7. \A f : f.type = "SEND" /\ sent = {f} => Out(sent) = {}
    OBVIOUS
  <1>8. sent = {} => Out(sent) = {}
    OBVIOUS
  <1>9. \A qs, port, hop, time : Departure(qs, port, hop, time).type = "ARRIVE"
    BY DEF Departure
  <1>10. \A b, qs, port : Wakeup(b, qs, port).type = "SEND"
    BY DEF Wakeup
  <1> HIDE DEF Out
  <1>11. ASSUME NEW b, NEW qs, NEW port, done'.sent = {Wakeup(b, qs, port)}
         PROVE  departed' = departed
    <2>1. PICK f : f = Wakeup(b, qs, port)
      OBVIOUS
    <2> QED
      BY ONLY <1>1, <1>4, <1>7, <1>10, <1>11, <2>1
  <1>12. ASSUME NEW qs, NEW port, NEW hop, NEW time, done'.sent = {Departure(qs, port, hop, time)}
         PROVE  departed' = Append(departed, Departure(qs, port, hop, time))
    <2>1. PICK e : e = Departure(qs, port, hop, time)
      OBVIOUS
    <2>2. e.type = "ARRIVE" /\ sent = {e}
      BY ONLY <1>1, <1>9, <1>12, <2>1
    <2>3. Out(sent) = {e}
      BY ONLY <1>5, <2>2
    <2>4. departed' = Append(departed, e)
      BY ONLY <1>3, <2>3
    <2> QED
      BY ONLY <2>1, <2>4
  <1>13. ASSUME NEW qs, NEW port, NEW hop, NEW time, NEW b, NEW qs2,
                done'.sent = {Departure(qs, port, hop, time), Wakeup(b, qs2, port)}
         PROVE  departed' = Append(departed, Departure(qs, port, hop, time))
    <2>1. PICK e, f : e = Departure(qs, port, hop, time) /\ f = Wakeup(b, qs2, port)
      OBVIOUS
    <2>2. e.type = "ARRIVE" /\ f.type = "SEND"
      BY ONLY <1>9, <1>10, <2>1
    <2>3. sent = {e, f}
      BY ONLY <1>1, <1>13, <2>1
    <2>4. Out(sent) = {e}
      BY ONLY <1>6, <2>2, <2>3
    <2>5. departed' = Append(departed, e)
      BY ONLY <1>3, <2>4
    <2> QED
      BY ONLY <2>1, <2>5
  <1> QED
    BY <1>1, <1>4, <1>8, <1>11, <1>12, <1>13
-----------------------------------------------------------------------------
(* The clocks of a port: its shaper, its wire and its pending SEND event.  *)

ClockInv ==
  /\ shapers \in [Ports -> Bucket]
  /\ ports_available_time \in [Ports -> Nat]
  /\ pending \in [Ports -> Seq(Nat)]

\* The SEND events that are posted have time stamps.
LEMMA PostClocks ==
  ASSUME NEW rest, \A q \in Ports : rest[q] \in Seq(Nat), Post(rest),
         \A e \in done'.sent : e.at \in Nat
  PROVE  pending' \in [Ports -> Seq(Nat)]
  <1>1. ASSUME NEW q \in Ports PROVE Wakeups(done'.sent, q) \in Seq(Nat)
    <2>1. PICK wake : wake = {e \in done'.sent : e.type = "SEND" /\ e.port = q}
      OBVIOUS
    <2>2. Wakeups(done'.sent, q) = IF wake = {} THEN <<>> ELSE <<(CHOOSE e \in wake : TRUE).at>>
      BY <2>1 DEF Wakeups
    <2>3. wake # {} => (CHOOSE e \in wake : TRUE).at \in Nat
      BY <2>1
    <2> QED
      BY <2>2, <2>3
  <1>2. \A q \in Ports : rest[q] \o Wakeups(done'.sent, q) \in Seq(Nat)
    BY <1>1, ConcatProperties
  <1> QED
    BY <1>2 DEF Post
-----------------------------------------------------------------------------
(***************************************************************************)
(* What a port has put on its wire: ports_available_time is never behind   *)
(* the last packet, less the time that packet travels.                     *)
(***************************************************************************)
Wire ==
  /\ departed \in Seq(Events)
  /\ \A i \in DOMAIN departed :
       departed[i].at <= ports_available_time[departed[i].port] + PropagationDelay
  /\ OneAtATime

\* A packet that is sent is put behind all others.
LEMMA ServedDeparts ==
  ASSUME NEW qs, NEW port, NEW time, NEW rest, Served(qs, port, time), Post(rest)
  PROVE  \E hop \in Hops : departed' = Append(departed, Departure(qs, port, hop, time))
  BY DepartedFacts DEF Served

\* A delayed port puts nothing on its wire.
LEMMA DelayedDeparts ==
  ASSUME NEW qs, NEW port, NEW time, NEW rest, Delayed(qs, port, time), Post(rest)
  PROVE  departed' = departed /\ ports_available_time' = ports_available_time
  BY DepartedFacts DEF Delayed

\* A served port starts its packet when the wire is free.
LEMMA ServedKeepsWire ==
  ASSUME ClockInv, Wire, NEW qs \in [Queues -> Seq(QueuedPackets)], NEW port \in Ports,
         NEW time \in Nat, NEW rest, Served(qs, port, time), Post(rest)
  PROVE  Wire'
  <1>1. PICK hop, e :
          hop \in Hops /\ e = Departure(qs, port, hop, time) /\ departed' = Append(departed, e)
    BY ServedDeparts
  <1>2. PICK free, new, d :
          /\ free \in Nat /\ free = ports_available_time[port]
          /\ new = InjectedAt(qs, port, time)
          /\ d = InjectionDelay(e.packet.size, port)
    BY DEF ClockInv
  <1>3. /\ e \in Events /\ e.port = port
        /\ new \in Nat /\ new >= free + d /\ e.at = new + PropagationDelay
    <2>1. ports_available_time \in [Ports -> Nat] /\ Backlogged(qs, port)
      BY DEF ClockInv, Served
    <2>2. /\ Departure(qs, port, hop, time) \in Events
          /\ Departure(qs, port, hop, time).port = port
          /\ InjectedAt(qs, port, time) \in Nat
          /\ InjectedAt(qs, port, time)
               >= ports_available_time[port]
                    + InjectionDelay(Departure(qs, port, hop, time).packet.size, port)
          /\ Departure(qs, port, hop, time).at = InjectedAt(qs, port, time) + PropagationDelay
      BY <1>1, <2>1, DepartureFacts
    <2>3. e = Departure(qs, port, hop, time)
      BY <1>1
    <2> QED
      BY <1>2, <2>2, <2>3
  <1>4. d \in Nat /\ PropagationDelay \in Nat
    BY <1>2, <1>3, InjectionFacts, SwitchAssumption DEF Events, QueuedPackets
  <1>5. /\ ports_available_time'[port] = new
        /\ \A q \in Ports : q # port => ports_available_time'[q] = ports_available_time[q]
    BY <1>2 DEF Served, ClockInv
  <1>6. PICK n \in Nat : n = Len(departed)
    BY DEF Wire
  <1>7. /\ departed' \in Seq(Events)
        /\ DOMAIN departed' = DOMAIN departed \cup {n + 1}
        /\ departed'[n + 1] = e
        /\ \A i \in DOMAIN departed : /\ i \in Nat /\ i <= n
                                      /\ departed'[i] = departed[i]
                                      /\ departed[i] \in Events
    <2>1. PICK ds, ds2 : ds = departed /\ ds2 = departed'
      OBVIOUS
    <2>2. ds \in Seq(Events) /\ ds2 = Append(ds, e) /\ n = Len(ds)
      BY <1>1, <1>6, <2>1 DEF Wire
    <2>3. /\ ds2 \in Seq(Events)
          /\ DOMAIN ds2 = DOMAIN ds \cup {n + 1}
          /\ ds2[n + 1] = e
          /\ \A i \in DOMAIN ds : i \in Nat /\ i <= n /\ ds2[i] = ds[i] /\ ds[i] \in Events
      BY ONLY <1>3, <2>2, AppendFacts
    <2> QED
      BY ONLY <2>1, <2>3
  <1>8. \A i \in DOMAIN departed : /\ departed[i].at \in Nat /\ departed[i].port \in Ports
                                   /\ departed[i].port = port =>
                                        departed[i].at <= free + PropagationDelay
    BY <1>2, <1>7 DEF Wire, Events
  <1>9. ASSUME NEW i \in DOMAIN departed'
        PROVE  departed'[i].at <= ports_available_time'[departed'[i].port] + PropagationDelay
    <2>1. CASE i = n + 1
      BY <1>3, <1>4, <1>5, <1>7, <2>1
    <2>2. CASE i \in DOMAIN departed /\ departed[i].port = port
      <3>1. PICK at \in Nat : at = departed[i].at
        BY <1>8, <2>2
      <3>2. at <= free + PropagationDelay
        BY <1>8, <2>2, <3>1
      <3>3. at <= new + PropagationDelay
        BY <1>2, <1>3, <1>4, <3>1, <3>2
      <3>4. departed'[i].at = at /\ departed'[i].port = port
        BY <1>7, <2>2, <3>1
      <3> QED
        BY <1>5, <3>3, <3>4
    <2>3. CASE i \in DOMAIN departed /\ departed[i].port # port
      BY <1>5, <1>7, <1>8, <2>3 DEF Wire
    <2> QED
      BY <1>7, <2>1, <2>2, <2>3
  <1>10. ASSUME NEW i \in DOMAIN departed', NEW j \in DOMAIN departed',
                i < j, departed'[i].port = departed'[j].port
         PROVE  departed'[i].at + InjectionDelay(departed'[j].packet.size, departed'[j].port)
                  <= departed'[j].at
    <2>1. i \in DOMAIN departed
      BY <1>6, <1>7, <1>10
    <2>2. CASE j \in DOMAIN departed
      BY <1>7, <1>10, <2>1, <2>2 DEF Wire, OneAtATime
    <2>3. CASE j = n + 1
      <3>1. departed[i].port = port /\ departed[i].at \in Nat
        BY <1>3, <1>7, <1>8, <1>10, <2>1, <2>3
      <3>2. departed[i].at <= free + PropagationDelay
        BY <1>8, <2>1, <3>1
      <3>3. departed[i].at + d <= e.at
        BY <1>2, <1>3, <1>4, <3>1, <3>2
      <3> QED
        BY <1>2, <1>3, <1>7, <2>1, <2>3, <3>3
    <2> QED
      BY <1>7, <2>2, <2>3
  <1> QED
    BY <1>7, <1>9, <1>10 DEF Wire, OneAtATime, InjectionDelay
-----------------------------------------------------------------------------
(***************************************************************************)
(* The order of the packets.  Packets are numbered as they arrive, so the  *)
(* packets of a queue have increasing numbers, and all of them are greater *)
(* than those of the packets that its port has sent for its class.  n is   *)
(* the last number given.                                                  *)
(***************************************************************************)
InLine(queue, ds, port, level, n) ==
  \A k \in DOMAIN queue :
    /\ queue[k].type = level
    /\ queue[k].pid <= n
    /\ \A l \in DOMAIN queue : k < l => queue[k].pid < queue[l].pid
    /\ \A i \in DOMAIN ds :
         ds[i].port = port /\ ds[i].packet.type = level => ds[i].packet.pid < queue[k].pid

SentInOrder(ds, n) ==
  \A i \in DOMAIN ds :
    /\ ds[i].packet.pid <= n
    /\ \A j \in DOMAIN ds :
         /\ i < j
         /\ ds[i].port = ds[j].port
         /\ ds[i].packet.type = ds[j].packet.type
         => ds[i].packet.pid < ds[j].packet.pid

Ordered(qs, ds, n) ==
  /\ SentInOrder(ds, n)
  /\ \A port \in Ports, level \in Levels : InLine(qs[MeterIndex(port, level)], ds, port, level, n)

\* What is known of a departure.
LEMMA PidFacts ==
  ASSUME NEW ds \in Seq(Events), NEW i \in DOMAIN ds
  PROVE  /\ i \in Nat /\ i <= Len(ds)
         /\ ds[i] \in Events
         /\ ds[i].packet \in QueuedPackets /\ ds[i].packet.pid \in Nat
  <1>1. DOMAIN ds = 1 .. Len(ds) /\ Len(ds) \in Nat
    OBVIOUS
  <1>2. ds[i] \in Events
    BY <1>1, ElementOfSeq
  <1> QED
    BY <1>1, <1>2 DEF Events, QueuedPackets

\* What is known of a packet in a queue.
LEMMA QueueFacts ==
  ASSUME NEW queue \in Seq(QueuedPackets), NEW k \in DOMAIN queue
  PROVE  k \in Nat /\ k <= Len(queue) /\ queue[k] \in QueuedPackets /\ queue[k].pid \in Nat
  <1>1. DOMAIN queue = 1 .. Len(queue) /\ Len(queue) \in Nat
    OBVIOUS
  <1>2. queue[k] \in QueuedPackets
    BY <1>1, ElementOfSeq
  <1> QED
    BY <1>1, <1>2 DEF QueuedPackets

\* A packet that arrives goes behind those of its queue.
LEMMA LastInLine ==
  ASSUME NEW queue \in Seq(QueuedPackets), NEW ds \in Seq(Events), NEW port, NEW level,
         NEW n \in Nat, InLine(queue, ds, port, level, n), SentInOrder(ds, n),
         NEW p \in QueuedPackets, p.type = level, p.pid = n + 1
  PROVE  InLine(Append(queue, p), ds, port, level, n + 1)
  <1>1. PICK q2, m : q2 = Append(queue, p) /\ m = Len(queue)
    OBVIOUS
  <1>2. /\ m \in Nat
        /\ DOMAIN q2 = DOMAIN queue \cup {m + 1}
        /\ q2[m + 1] = p
        /\ \A k \in DOMAIN queue : k \in Nat /\ k <= m /\ q2[k] = queue[k]
    BY <1>1, AppendFacts
  <1>3. \A k \in DOMAIN queue : queue[k].pid \in Nat
    BY QueueFacts
  <1>4. \A i \in DOMAIN ds : ds[i].packet.pid \in Nat /\ ds[i].packet.pid <= n
    BY PidFacts DEF SentInOrder
  <1>5. ASSUME NEW k \in DOMAIN q2
        PROVE  /\ q2[k].type = level
               /\ q2[k].pid <= n + 1
               /\ \A l \in DOMAIN q2 : k < l => q2[k].pid < q2[l].pid
               /\ \A i \in DOMAIN ds :
                    ds[i].port = port /\ ds[i].packet.type = level => ds[i].packet.pid < q2[k].pid
    <2>1. CASE k = m + 1
      BY <1>2, <1>4, <2>1
    <2>2. CASE k \in DOMAIN queue
      <3>1. queue[k].type = level /\ queue[k].pid <= n /\ queue[k].pid \in Nat
        BY <1>3, <2>2 DEF InLine
      <3>2. \A l \in DOMAIN q2 : k < l => q2[k].pid < q2[l].pid
        <4>1. ASSUME NEW l \in DOMAIN queue, k < l PROVE q2[k].pid < q2[l].pid
          BY <1>2, <2>2, <4>1 DEF InLine
        <4>2. q2[k].pid < q2[m + 1].pid
          BY <1>2, <2>2, <3>1
        <4> QED
          BY <1>2, <4>1, <4>2
      <3>3. \A i \in DOMAIN ds :
              ds[i].port = port /\ ds[i].packet.type = level => ds[i].packet.pid < q2[k].pid
        BY <1>2, <2>2 DEF InLine
      <3> QED
        BY <1>2, <2>2, <3>1, <3>2, <3>3
    <2> QED
      BY <1>2, <2>1, <2>2
  <1> QED
    BY <1>1, <1>5 DEF InLine

\* The first of a queue leaves, and the others come after it.
LEMMA FirstInLine ==
  ASSUME NEW queue \in Seq(QueuedPackets), queue # <<>>, NEW ds \in Seq(Events),
         NEW port, NEW level, NEW n \in Nat, InLine(queue, ds, port, level, n),
         NEW e \in Events, e.packet = queue[1]
  PROVE  InLine(Tail(queue), Append(ds, e), port, level, n)
  <1>1. PICK q2, ds2, m : q2 = Tail(queue) /\ ds2 = Append(ds, e) /\ m = Len(ds)
    OBVIOUS
  <1>2. /\ 1 \in DOMAIN queue
        /\ \A k \in DOMAIN q2 : /\ k \in Nat \ {0} /\ k + 1 \in DOMAIN queue
                                /\ q2[k] = queue[k + 1]
    BY <1>1
  <1>3. /\ DOMAIN ds2 = DOMAIN ds \cup {m + 1}
        /\ ds2[m + 1] = e
        /\ \A i \in DOMAIN ds : ds2[i] = ds[i]
    BY <1>1, AppendFacts
  <1>4. ASSUME NEW k \in DOMAIN q2
        PROVE  /\ q2[k].type = level
               /\ q2[k].pid <= n
               /\ \A l \in DOMAIN q2 : k < l => q2[k].pid < q2[l].pid
               /\ \A i \in DOMAIN ds2 :
                    ds2[i].port = port /\ ds2[i].packet.type = level =>
                      ds2[i].packet.pid < q2[k].pid
    <2>1. q2[k].type = level /\ q2[k].pid <= n
      BY <1>2 DEF InLine
    <2>2. ASSUME NEW l \in DOMAIN q2, k < l PROVE q2[k].pid < q2[l].pid
      <3>1. k + 1 < l + 1
        BY <1>2, <2>2
      <3> QED
        BY <1>2, <3>1 DEF InLine
    <2>3. ds2[m + 1].packet.pid < q2[k].pid
      <3>1. 1 < k + 1
        BY <1>2
      <3> QED
        BY <1>2, <1>3, <3>1 DEF InLine
    <2>4. ASSUME NEW i \in DOMAIN ds, ds[i].port = port, ds[i].packet.type = level
          PROVE  ds[i].packet.pid < q2[k].pid
      BY <1>2, <2>4 DEF InLine
    <2> QED
      BY <1>3, <2>1, <2>2, <2>3, <2>4
  <1> QED
    BY <1>1, <1>4 DEF InLine

\* A packet of another port or class does not matter, nor do later numbers.
LEMMA OtherLine ==
  ASSUME NEW queue \in Seq(QueuedPackets), NEW ds \in Seq(Events),
         NEW port, NEW level, NEW n \in Nat, InLine(queue, ds, port, level, n)
  PROVE  /\ InLine(queue, ds, port, level, n + 1)
         /\ \A e \in Events : e.port # port \/ e.packet.type # level =>
              InLine(queue, Append(ds, e), port, level, n)
  <1>1. InLine(queue, ds, port, level, n + 1)
    <2>1. \A k \in DOMAIN queue : queue[k].pid <= n + 1
      BY QueueFacts DEF InLine
    <2> QED
      BY <2>1 DEF InLine
  <1>2. ASSUME NEW e \in Events, e.port # port \/ e.packet.type # level
        PROVE  InLine(queue, Append(ds, e), port, level, n)
    <2>1. PICK ds2, m : ds2 = Append(ds, e) /\ m = Len(ds)
      OBVIOUS
    <2>2. /\ DOMAIN ds2 = DOMAIN ds \cup {m + 1}
          /\ ds2[m + 1] = e
          /\ \A i \in DOMAIN ds : ds2[i] = ds[i]
      BY <2>1, AppendFacts
    <2> QED
      BY <1>2, <2>1, <2>2 DEF InLine
  <1> QED
    BY <1>1, <1>2

\* A packet later than all departures of its class extends the order.
LEMMA LastSent ==
  ASSUME NEW ds \in Seq(Events), NEW n \in Nat, SentInOrder(ds, n), NEW e \in Events,
         e.packet.pid <= n,
         \A i \in DOMAIN ds : ds[i].port = e.port /\ ds[i].packet.type = e.packet.type =>
           ds[i].packet.pid < e.packet.pid
  PROVE  SentInOrder(Append(ds, e), n)
  <1>1. PICK ds2, m : ds2 = Append(ds, e) /\ m = Len(ds)
    OBVIOUS
  <1>2. /\ m \in Nat
        /\ DOMAIN ds2 = DOMAIN ds \cup {m + 1}
        /\ ds2[m + 1] = e
        /\ \A i \in DOMAIN ds : i \in Nat /\ i <= m /\ ds2[i] = ds[i]
    BY <1>1, AppendFacts
  <1>3. ASSUME NEW i \in DOMAIN ds2
        PROVE  /\ ds2[i].packet.pid <= n
               /\ \A j \in DOMAIN ds2 :
                    /\ i < j
                    /\ ds2[i].port = ds2[j].port
                    /\ ds2[i].packet.type = ds2[j].packet.type
                    => ds2[i].packet.pid < ds2[j].packet.pid
    <2>1. CASE i = m + 1
      BY <1>2, <2>1
    <2>2. CASE i \in DOMAIN ds
      BY <1>2, <2>2 DEF SentInOrder
    <2> QED
      BY <1>2, <2>1, <2>2
  <1> QED
    BY <1>1, <1>3 DEF SentInOrder

\* The newest packet joins the tail of its queue.
LEMMA EnqueueKeepsOrder ==
  ASSUME NEW qs \in [Queues -> Seq(QueuedPackets)], NEW qs2, NEW ds \in Seq(Events),
         NEW n \in Nat, Ordered(qs, ds, n),
         NEW p \in QueuedPackets, p.pid = n + 1, NEW port \in Ports,
         qs2[MeterIndex(port, p.type)] = Append(qs[MeterIndex(port, p.type)], p),
         \A i \in Queues : i # MeterIndex(port, p.type) => qs2[i] = qs[i]
  PROVE  Ordered(qs2, ds, n + 1)
  <1>1. SentInOrder(ds, n + 1)
    <2>1. \A i \in DOMAIN ds : ds[i].packet.pid <= n + 1
      BY PidFacts DEF Ordered, SentInOrder
    <2> QED
      BY <2>1 DEF Ordered, SentInOrder
  <1>2. ASSUME NEW other \in Ports, NEW level \in Levels
        PROVE  InLine(qs2[MeterIndex(other, level)], ds, other, level, n + 1)
    <2>1. p.type \in Levels
      BY DEF QueuedPackets
    <2>2. PICK k, i : k = MeterIndex(port, p.type) /\ i = MeterIndex(other, level)
      OBVIOUS
    <2>3. k \in Queues /\ i \in Queues
      BY <2>1, <2>2, IndexFacts
    <2>4. PICK queue \in Seq(QueuedPackets) : queue = qs[i]
      BY <2>3
    <2>5. InLine(queue, ds, other, level, n) /\ SentInOrder(ds, n)
      BY <2>2, <2>4 DEF Ordered
    <2>6. CASE i = k
      <3>1. other = port /\ level = p.type
        <4>1. MeterIndex(other, level) = MeterIndex(port, p.type)
          BY ONLY <2>2, <2>6
        <4>2. PICK own \in Levels : own = p.type
          BY <2>1
        <4> QED
          BY ONLY <4>1, <4>2, OwnQueue, other \in Ports, port \in Ports, level \in Levels
      <3>2. InLine(Append(queue, p), ds, other, level, n + 1)
        BY <2>5, <3>1, LastInLine
      <3> QED
        BY <2>2, <2>4, <2>6, <3>2
    <2>7. CASE i # k
      <3>1. InLine(queue, ds, other, level, n + 1)
        BY <2>5, OtherLine
      <3> QED
        BY <2>2, <2>3, <2>4, <2>7, <3>1
    <2> QED
      BY <2>6, <2>7
  <1> QED
    BY <1>1, <1>2 DEF Ordered

\* The head of a queue is the next of its class to leave.
LEMMA ServeKeepsOrder ==
  ASSUME NEW qs \in [Queues -> Seq(QueuedPackets)], NEW ds \in Seq(Events),
         NEW n \in Nat, Ordered(qs, ds, n),
         NEW port \in Ports, Backlogged(qs, port),
         NEW e \in Events, e.port = port, e.packet = NextPacket(qs, port)
  PROVE  Ordered(Serve(qs, port), Append(ds, e), n)
  <1>1. PICK level, k, qs2 :
          level = NextLevel(qs, port) /\ k = MeterIndex(port, level) /\ qs2 = Serve(qs, port)
    OBVIOUS
  <1>2. /\ k \in Queues /\ level \in Levels
        /\ qs2[k] = Tail(qs[k])
        /\ \A i \in Queues : i # k => qs2[i] = qs[i]
        /\ qs[k] # <<>> /\ e.packet = qs[k][1]
    BY <1>1, ServeFacts, NextPacketFacts, NextLevelFacts
  <1>3. PICK queue \in Seq(QueuedPackets) : queue = qs[k]
    BY <1>2
  <1>4. InLine(queue, ds, port, level, n) /\ SentInOrder(ds, n)
    BY <1>1, <1>2, <1>3 DEF Ordered
  <1>5. 1 \in DOMAIN queue
    BY <1>2, <1>3
  <1>6. /\ e.packet.pid <= n /\ e.packet.type = level
        /\ \A i \in DOMAIN ds : ds[i].port = port /\ ds[i].packet.type = level =>
             ds[i].packet.pid < e.packet.pid
    BY <1>2, <1>3, <1>4, <1>5 DEF InLine
  <1>7. SentInOrder(Append(ds, e), n)
    BY <1>4, <1>6, LastSent
  <1>8. ASSUME NEW other \in Ports, NEW class \in Levels
        PROVE  InLine(qs2[MeterIndex(other, class)], Append(ds, e), other, class, n)
    <2>1. PICK i : i = MeterIndex(other, class)
      OBVIOUS
    <2>2. i \in Queues /\ qs[i] \in Seq(QueuedPackets) /\ InLine(qs[i], ds, other, class, n)
      BY <2>1, IndexFacts DEF Ordered
    <2>3. CASE i = k
      <3>1. other = port /\ class = level
        <4>1. MeterIndex(other, class) = MeterIndex(port, level)
          BY ONLY <1>1, <2>1, <2>3
        <4> QED
          BY ONLY <1>2, <4>1, OwnQueue, other \in Ports, port \in Ports, class \in Levels
      <3>2. InLine(Tail(queue), Append(ds, e), port, level, n)
        BY <1>2, <1>3, <1>4, FirstInLine
      <3> QED
        BY <1>2, <1>3, <2>1, <2>3, <3>1, <3>2
    <2>4. CASE i # k
      <3>1. other # port \/ class # level
        BY <1>1, <2>1, <2>4
      <3>2. InLine(qs[i], Append(ds, e), other, class, n)
        BY <1>6, <2>2, <3>1, OtherLine
      <3> QED
        BY <1>2, <2>1, <2>2, <2>4, <3>2
    <2> QED
      BY <2>3, <2>4
  <1> QED
    BY <1>1, <1>7, <1>8 DEF Ordered
-----------------------------------------------------------------------------
(***************************************************************************)
(* The inductive invariant: the protocol between the handlers, the clocks  *)
(* of the ports, their wires, and the order of the packets in their queues *)
(* and on their wires.                                                     *)
(***************************************************************************)
OrderInv ==
  /\ ProtocolInv
  /\ ClockInv
  /\ Wire
  /\ Ordered(queues, departed, arrived)

\* What the two properties say, from the invariant.  A later packet is on the
\* wire later because no packet is injected in no time.
LEMMA OrderInvImpliesOrder == OrderInv => OneAtATime /\ InOrder
  <1> SUFFICES ASSUME OrderInv, NEW i \in DOMAIN departed, NEW j \in DOMAIN departed,
                      i < j, departed[i].port = departed[j].port,
                      departed[i].packet.type = departed[j].packet.type
               PROVE  /\ departed[i].packet.pid < departed[j].packet.pid
                      /\ departed[i].at < departed[j].at
    BY DEF OrderInv, Wire, InOrder
  <1>1. departed[i].packet.pid < departed[j].packet.pid
    BY DEF OrderInv, Ordered, SentInOrder
  <1>2. PICK e, f : e = departed[i] /\ f = departed[j]
    OBVIOUS
  <1>3. e \in Events /\ f \in Events
    BY <1>2, PidFacts DEF OrderInv, Wire
  <1>4. /\ e.at \in Nat /\ f.at \in Nat /\ f.port \in Ports
        /\ f.packet \in QueuedPackets
    BY <1>3 DEF Events
  <1>5. InjectionDelay(f.packet.size, f.port) \in Nat \ {0}
    BY <1>4, InjectionFacts DEF QueuedPackets
  <1>6. e.at + InjectionDelay(f.packet.size, f.port) <= f.at
    BY <1>2 DEF OrderInv, Wire, OneAtATime
  <1>7. e.at < f.at
    BY <1>4, <1>5, <1>6
  <1> QED
    BY <1>1, <1>2, <1>7

\* A step that sends no packet on, or one of the queues qs.
LEMMA ServedStep ==
  ASSUME ClockInv, Wire, NEW qs \in [Queues -> Seq(QueuedPackets)], NEW n \in Nat,
         Ordered(qs, departed, n), NEW port \in Ports, NEW time \in Nat,
         NEW rest, \A q \in Ports : rest[q] \in Seq(Nat),
         Served(qs, port, time), Post(rest), arrived' = n
  PROVE  ClockInv' /\ Wire' /\ Ordered(queues', departed', arrived')
  <1>1. ClockInv'
    BY ServedClocks, PostClocks DEF ClockInv
  <1>2. Wire'
    BY ServedKeepsWire
  <1>3. PICK hop, e :
          hop \in Hops /\ e = Departure(qs, port, hop, time) /\ departed' = Append(departed, e)
    BY ServedDeparts
  <1>4. e \in Events /\ e.port = port /\ e.packet = NextPacket(qs, port)
    <2>1. ports_available_time \in [Ports -> Nat] /\ Backlogged(qs, port)
      BY DEF ClockInv, Served, Wire
    <2> QED
      BY <1>3, <2>1, DepartureFacts
  <1>5. Ordered(Serve(qs, port), Append(departed, e), n)
    BY <1>4, ServeKeepsOrder DEF Wire, Served
  <1>6. Ordered(queues', departed', arrived')
    BY <1>3, <1>5 DEF Served
  <1> QED
    BY <1>1, <1>2, <1>6

\* A delayed port keeps the invariant.
LEMMA DelayedStep ==
  ASSUME ClockInv, Wire, NEW qs \in [Queues -> Seq(QueuedPackets)], NEW n \in Nat,
         Ordered(qs, departed, n), NEW port \in Ports, NEW time \in Nat,
         NEW rest, \A q \in Ports : rest[q] \in Seq(Nat),
         Delayed(qs, port, time), Post(rest), arrived' = n
  PROVE  ClockInv' /\ Wire' /\ Ordered(queues', departed', arrived')
  <1>1. ClockInv'
    BY DelayedClocks, PostClocks DEF ClockInv
  <1>2. departed' = departed /\ ports_available_time' = ports_available_time
    BY DelayedDeparts
  <1>3. Wire'
    BY <1>2 DEF Wire, OneAtATime, InjectionDelay
  <1>4. Ordered(queues', departed', arrived')
    BY <1>2 DEF Delayed
  <1> QED
    BY <1>1, <1>3, <1>4

\* handle_arrive_event keeps the order.
LEMMA ArriveKeepsOrder ==
  ASSUME OrderInv, NEW o \in Offers, NEW time \in ArrivalTimes, RunArrive(o, time)
  PROVE  OrderInv'
  <1>1. PICK p : p = Packet(o, arrived + 1)
    OBVIOUS
  <1>2. /\ Arrive(p, time) /\ Post(pending) /\ arrived' = arrived + 1
        /\ time \in Nat
    BY <1>1, SequentialAssumption DEF RunArrive
  <1>3. /\ ProtocolInv /\ ClockInv /\ Wire /\ Ordered(queues, departed, arrived)
        /\ queues \in [Queues -> Seq(QueuedPackets)] /\ arrived \in Nat
        /\ departed \in Seq(Events)
        /\ \A q \in Ports : pending[q] \in Seq(Nat)
    BY DEF OrderInv, ProtocolInv, ClockInv, Wire
  <1>4. ProtocolInv'
    BY <1>3, ArriveKeepsProtocol
  <1>5. ASSUME p.dest # Self
        PROVE  /\ Enqueued(p) \in [Queues -> Seq(QueuedPackets)]
               /\ Backlogged(Enqueued(p), OutPort(p))
               /\ OutPort(p) \in Ports /\ p.dest \in DOMAIN Routing
               /\ Ordered(Enqueued(p), departed, arrived + 1)
    <2>1. p \in QueuedPackets /\ OutPort(p) \in Ports
      BY <1>1, <1>3, <1>5, PacketFacts
    <2>2. p.pid = arrived + 1
      BY <1>1 DEF Packet
    <2>3. PICK qs, port : qs = Enqueued(p) /\ port = OutPort(p)
      OBVIOUS
    <2>4. /\ qs \in [Queues -> Seq(QueuedPackets)]
          /\ qs[MeterIndex(port, p.type)] = Append(queues[MeterIndex(port, p.type)], p)
          /\ \A i \in Queues : i # MeterIndex(port, p.type) => qs[i] = queues[i]
          /\ Backlogged(qs, port)
      BY <1>3, <2>1, <2>3, EnqueuedFacts
    <2>5. Ordered(qs, departed, arrived + 1)
      <3>1. port \in Ports
        BY <2>1, <2>3
      <3> QED
        BY <1>3, <2>1, <2>2, <2>4, <3>1, EnqueueKeepsOrder
    <2> QED
      BY <2>1, <2>3, <2>4, <2>5 DEF QueuedPackets
  <1>6. CASE UNCHANGED <<queues, shapers, ports_available_time>> /\ done'.sent = {}
    <2>1. departed' = departed
      BY <1>2, <1>6, DepartedFacts
    <2>2. ClockInv'
      BY <1>2, <1>3, <1>6, PostClocks DEF ClockInv
    <2>3. Wire'
      BY <1>3, <1>6, <2>1 DEF Wire, OneAtATime, InjectionDelay
    <2>4. Ordered(queues, departed, arrived + 1)
      <3>1. SentInOrder(departed, arrived + 1)
        <4>1. \A i \in DOMAIN departed : departed[i].packet.pid <= arrived + 1
          BY <1>3, PidFacts DEF Ordered, SentInOrder
        <4> QED
          BY <1>3, <4>1 DEF Ordered, SentInOrder
      <3>2. ASSUME NEW port \in Ports, NEW level \in Levels
            PROVE  InLine(queues[MeterIndex(port, level)], departed, port, level, arrived + 1)
        <4>1. PICK queue : queue = queues[MeterIndex(port, level)]
          OBVIOUS
        <4>2. queue \in Seq(QueuedPackets) /\ InLine(queue, departed, port, level, arrived)
          BY <1>3, <4>1, IndexFacts DEF Ordered
        <4>3. InLine(queue, departed, port, level, arrived + 1)
          BY <1>3, <4>2, OtherLine
        <4> QED
          BY <4>1, <4>3
      <3> QED
        BY <3>1, <3>2 DEF Ordered
    <2> QED
      BY <1>2, <1>4, <1>6, <2>1, <2>2, <2>3, <2>4 DEF OrderInv
  <1>7. ASSUME p.dest # Self, Served(Enqueued(p), OutPort(p), time)
        PROVE  OrderInv'
    <2>1. PICK qs, port, n : qs = Enqueued(p) /\ port = OutPort(p) /\ n = arrived + 1
      OBVIOUS
    <2>2. /\ qs \in [Queues -> Seq(QueuedPackets)] /\ port \in Ports /\ n \in Nat
          /\ Ordered(qs, departed, n) /\ Served(qs, port, time) /\ arrived' = n
      BY <1>2, <1>3, <1>5, <1>7, <2>1
    <2> QED
      BY <1>2, <1>3, <1>4, <2>2, ServedStep DEF OrderInv
  <1>8. ASSUME p.dest # Self, Delayed(Enqueued(p), OutPort(p), time)
        PROVE  OrderInv'
    <2>1. PICK qs, port, n : qs = Enqueued(p) /\ port = OutPort(p) /\ n = arrived + 1
      OBVIOUS
    <2>2. /\ qs \in [Queues -> Seq(QueuedPackets)] /\ port \in Ports /\ n \in Nat
          /\ Ordered(qs, departed, n) /\ Delayed(qs, port, time) /\ arrived' = n
      BY <1>2, <1>3, <1>5, <1>8, <2>1
    <2> QED
      BY <1>2, <1>3, <1>4, <2>2, DelayedStep DEF OrderInv
  <1> QED
    BY <1>2, <1>5, <1>6, <1>7, <1>8, ArriveMoves

\* handle_send_event keeps the order.
LEMMA SendKeepsOrder ==
  ASSUME OrderInv, NEW port \in Ports, NEW i \in DOMAIN pending[port], RunSend(port, i)
  PROVE  OrderInv'
  <1>1. PICK time, rest :
          time = pending[port][i] /\ rest = [pending EXCEPT ![port] = Delete(@, i)]
    OBVIOUS
  <1>2. Send(port, time) /\ Post(rest) /\ arrived' = arrived
    BY <1>1 DEF RunSend
  <1>3. /\ ProtocolInv /\ ClockInv /\ Wire /\ Ordered(queues, departed, arrived)
        /\ queues \in [Queues -> Seq(QueuedPackets)] /\ arrived \in Nat
        /\ pending \in [Ports -> Seq(Nat)]
        /\ OneWakeup(port)
    BY DEF OrderInv, ProtocolInv, ClockInv
  <1>4. ProtocolInv'
    BY <1>3, SendKeepsProtocol
  <1>5. time \in Nat
    BY <1>1, <1>3, ElementOfSeq
  <1>6. \A q \in Ports : rest[q] \in Seq(Nat)
    <2>1. PICK at : pending[port] = <<at>>
      <3>1. Backlogged(queues, port)
        BY <1>2, SendEffect
      <3> QED
        BY <1>3, <3>1 DEF OneWakeup
    <2>2. Delete(pending[port], i) = <<>>
      BY <2>1, ShortSeqs
    <2> QED
      BY <1>1, <1>3, <2>2
  <1> QED
    BY <1>2, <1>3, <1>4, <1>5, <1>6, SendMoves, ServedStep, DelayedStep DEF OrderInv

(* The invariant above is inductive: from it and from what it implies follow *)
(* the order of the packets and the theorems below.                         *)
THEOREM OrderInvHolds == Spec => []OrderInv
  <1>1. Init => OrderInv
    <2> SUFFICES ASSUME Init PROVE OrderInv
      OBVIOUS
    <2>1. /\ queues = [j \in Queues |-> <<>>]
          /\ shapers = [q \in Ports |-> FullBucket]
          /\ ports_available_time = [q \in Ports |-> 0]
          /\ pending = [q \in Ports |-> <<>>]
          /\ departed = <<>> /\ arrived = 0
      BY DEF Init, SwitchInit
    <2>2. ProtocolInv
      BY ProtocolInvHolds
    <2>3. FullBucket \in Bucket
      BY CapacityAssumption DEF FullBucket, Bucket
    <2>4. ClockInv
      BY <2>1, <2>3 DEF ClockInv
    <2>5. Wire
      BY <2>1 DEF Wire, OneAtATime
    <2>6. \A port \in Ports, level \in Levels :
            InLine(queues[MeterIndex(port, level)], departed, port, level, arrived)
      BY <2>1, IndexFacts DEF InLine
    <2>7. Ordered(queues, departed, arrived)
      BY <2>1, <2>6 DEF Ordered, SentInOrder
    <2> QED
      BY <2>2, <2>4, <2>5, <2>7 DEF OrderInv
  <1>2. OrderInv /\ [Next]_vars => OrderInv'
    <2> SUFFICES ASSUME OrderInv, [Next]_vars PROVE OrderInv'
      OBVIOUS
    <2>1. CASE \E o \in Offers, time \in ArrivalTimes : RunArrive(o, time)
      BY <2>1, ArriveKeepsOrder
    <2>2. CASE RunSomeSend
      BY <2>2, SendKeepsOrder DEF RunSomeSend
    <2>3. CASE UNCHANGED vars
      <3>1. UNCHANGED <<queues, port_flags, shapers, ports_available_time, pending, departed, arrived>>
        BY <2>3 DEF vars, swvars
      <3>2. ProtocolInv'
        BY <3>1 DEF OrderInv, ProtocolInv, OneWakeup, Backlogged
      <3>3. ClockInv' /\ Wire'
        BY <3>1 DEF OrderInv, ClockInv, Wire, OneAtATime, InjectionDelay
      <3>4. Ordered(queues', departed', arrived')
        BY <3>1 DEF OrderInv
      <3> QED
        BY <3>2, <3>3, <3>4 DEF OrderInv
    <2> QED
      BY <2>1, <2>2, <2>3 DEF Next
  <1> QED
    BY <1>1, <1>2, PTL DEF Spec

(* A port puts one packet at a time on its wire, although its shaper lets   *)
(* bursts of packets through at once, and the packets of one class leave it *)
(* in the order in which they arrived.                                      *)
THEOREM SwitchSendsInOrder == Spec => [](OneAtATime /\ InOrder)
  BY OrderInvHolds, OrderInvImpliesOrder, PTL
-----------------------------------------------------------------------------
(***************************************************************************)
(* How long a port waits.  All packets that leave by a port have one size. *)
(***************************************************************************)
OneSizePerPort ==
  \A a, b \in Offers :
    /\ a.dest # Self /\ b.dest # Self
    /\ Routing[a.dest].port_id = Routing[b.dest].port_id
    => a.size = b.size

SizeOf(port) ==
  CHOOSE size \in Nat \ {0} :
    \A o \in Offers : o.dest # Self /\ Routing[o.dest].port_id = port => o.size = size

Bits(port) == SizeOf(port) * BitsPerByte

\* A packet that leaves by the port.
Sized(p, port) == p.size = SizeOf(port) /\ \E o \in Offers : p.size = o.size

OneSize(qs) ==
  \A port \in Ports, level \in Levels :
    LET queue == qs[MeterIndex(port, level)]
    IN  \A k \in DOMAIN queue : Sized(queue[k], port)

\* At the time at, and not before, the bucket b may hold the bits of a packet.
Earning(at, b, port) ==
  /\ b.tokens < Bits(port)
  /\ at <= b.last_update_time + (Bits(port) - b.tokens) * Ticks[port]

WaitInv ==
  /\ clock \in Nat
  /\ \A port \in Ports : shapers[port].last_update_time <= clock
  /\ OneSize(queues)
  /\ \A port \in Ports : \A i \in DOMAIN pending[port] :
       Earning(pending[port][i], shapers[port], port)

\* The size of the packets of a port, as a number of bytes and of bits.
LEMMA SizeFacts ==
  ASSUME OneSizePerPort
  PROVE  /\ \A port : SizeOf(port) \in Nat \ {0} /\ Bits(port) \in Nat \ {0}
         /\ \A o \in Offers : o.dest # Self => o.size = SizeOf(Routing[o.dest].port_id)
  <1> DEFINE Its(o, port) == o.dest # Self /\ Routing[o.dest].port_id = port
             Fits(size, port) == \A o \in Offers : Its(o, port) => o.size = size
  <1>1. ASSUME NEW port PROVE \E size \in Nat \ {0} : Fits(size, port)
    <2>1. CASE \E o \in Offers : Its(o, port)
      <3>1. PICK o \in Offers : Its(o, port)
        BY <2>1
      <3>2. o.size \in Nat \ {0}
        BY SequentialAssumption
      <3>3. Fits(o.size, port)
        BY <3>1 DEF OneSizePerPort
      <3> QED
        BY <3>2, <3>3
    <2>2. CASE ~ \E o \in Offers : Its(o, port)
      <3>1. Fits(1, port)
        BY <2>2
      <3> QED
        BY <3>1
    <2> QED
      BY <2>1, <2>2
  <1>2. \A port : SizeOf(port) = CHOOSE size \in Nat \ {0} : Fits(size, port)
    BY DEF SizeOf
  <1> HIDE DEF Fits
  <1>3. \A port : SizeOf(port) \in Nat \ {0} /\ Fits(SizeOf(port), port)
    BY <1>1, <1>2
  <1>4. \A port : Bits(port) \in Nat \ {0}
    BY <1>3 DEF Bits, BitsPerByte
  <1> QED
    BY <1>3, <1>4 DEF Fits

\* Queues of one size per port stay so when a packet joins or leaves.
LEMMA OneSizeFacts ==
  ASSUME OneSizePerPort, NEW qs \in [Queues -> Seq(QueuedPackets)], OneSize(qs),
         NEW port \in Ports
  PROVE  /\ Backlogged(qs, port) =>
              Sized(NextPacket(qs, port), port) /\ OneSize(Serve(qs, port))
         /\ \A p \in QueuedPackets : \A qs2 :
              /\ Sized(p, port)
              /\ qs2[MeterIndex(port, p.type)] = Append(qs[MeterIndex(port, p.type)], p)
              /\ \A j \in Queues : j # MeterIndex(port, p.type) => qs2[j] = qs[j]
              => OneSize(qs2)
  <1>1. ASSUME Backlogged(qs, port)
        PROVE  Sized(NextPacket(qs, port), port) /\ OneSize(Serve(qs, port))
    <2>1. PICK level, i, qs2 :
            level = NextLevel(qs, port) /\ i = MeterIndex(port, level) /\ qs2 = Serve(qs, port)
      OBVIOUS
    <2>2. /\ i \in Queues /\ level \in Levels
          /\ qs[i] # <<>> /\ NextPacket(qs, port) = qs[i][1]
          /\ qs2[i] = Tail(qs[i])
          /\ \A j \in Queues : j # i => qs2[j] = qs[j]
      BY <1>1, <2>1, NextPacketFacts, NextLevelFacts, ServeFacts
    <2>3. PICK queue \in Seq(QueuedPackets) : queue = qs[i]
      BY <2>2
    <2>4. /\ 1 \in DOMAIN queue
          /\ \A k \in DOMAIN Tail(queue) : k + 1 \in DOMAIN queue /\ Tail(queue)[k] = queue[k + 1]
      BY <2>2, <2>3
    <2>5. \A k \in DOMAIN queue : Sized(queue[k], port)
      BY <2>1, <2>2, <2>3 DEF OneSize
    <2>6. ASSUME NEW p2 \in Ports, NEW l2 \in Levels,
                 NEW k \in DOMAIN qs2[MeterIndex(p2, l2)]
          PROVE  Sized(qs2[MeterIndex(p2, l2)][k], p2)
      <3>1. CASE MeterIndex(p2, l2) = i
        <4>1. p2 = port
          BY <2>1, <2>2, <3>1, OwnQueue
        <4>2. qs2[i] = Tail(queue)
          BY <2>2, <2>3
        <4>3. \A n \in DOMAIN Tail(queue) : Sized(Tail(queue)[n], port)
          BY <2>4, <2>5
        <4> QED
          BY ONLY <2>6, <3>1, <4>1, <4>2, <4>3
      <3>2. CASE MeterIndex(p2, l2) # i
        <4>1. PICK j : j = MeterIndex(p2, l2)
          OBVIOUS
        <4>2. \A n \in DOMAIN qs[j] : Sized(qs[j][n], p2)
          BY <4>1 DEF OneSize
        <4>3. qs2[j] = qs[j]
          BY <2>2, <3>2, <4>1, IndexFacts
        <4> QED
          BY ONLY <2>6, <4>1, <4>2, <4>3
      <3> QED
        BY <3>1, <3>2
    <2> QED
      BY <2>1, <2>2, <2>3, <2>4, <2>5, <2>6 DEF OneSize
  <1>2. ASSUME NEW p \in QueuedPackets, NEW qs2, Sized(p, port),
               qs2[MeterIndex(port, p.type)] = Append(qs[MeterIndex(port, p.type)], p),
               \A j \in Queues : j # MeterIndex(port, p.type) => qs2[j] = qs[j]
        PROVE  OneSize(qs2)
    <2>1. PICK level, i : level = p.type /\ i = MeterIndex(port, level)
      OBVIOUS
    <2>2. level \in Levels /\ i \in Queues
      BY <2>1, IndexFacts DEF QueuedPackets
    <2>3. PICK queue \in Seq(QueuedPackets) : queue = qs[i]
      BY <2>2
    <2>4. \A k \in DOMAIN queue : Sized(queue[k], port)
      BY <2>1, <2>2, <2>3 DEF OneSize
    <2>5. qs2[i] = Append(queue, p)
      BY <1>2, <2>1, <2>3
    <2>6. \A k \in DOMAIN Append(queue, p) : Sized(Append(queue, p)[k], port)
      BY <1>2, <2>4, AppendFacts
    <2>7. ASSUME NEW p2 \in Ports, NEW l2 \in Levels,
                 NEW k \in DOMAIN qs2[MeterIndex(p2, l2)]
          PROVE  Sized(qs2[MeterIndex(p2, l2)][k], p2)
      <3>1. CASE MeterIndex(p2, l2) = i
        <4>1. p2 = port
          BY <2>1, <2>2, <3>1, OwnQueue
        <4> QED
          BY <2>5, <2>6, <2>7, <3>1, <4>1
      <3>2. CASE MeterIndex(p2, l2) # i
        <4>1. PICK j : j = MeterIndex(p2, l2)
          OBVIOUS
        <4>2. \A n \in DOMAIN qs[j] : Sized(qs[j][n], p2)
          BY <4>1 DEF OneSize
        <4>3. j \in Queues
          BY <4>1, IndexFacts
        <4>4. qs2[j] = qs[j]
          BY <1>2, <2>1, <3>2, <4>1, <4>3
        <4> QED
          BY ONLY <2>7, <4>1, <4>2, <4>4
      <3> QED
        BY <3>1, <3>2
    <2> QED
      BY <2>7 DEF OneSize
  <1> QED
    BY <1>1, <1>2

\* A pending SEND event was pending before, or has been posted by this step.
LEMMA Posted ==
  ASSUME NEW rest, Post(rest), NEW q \in Ports, rest[q] \in Seq(Nat),
         \A e \in done'.sent : e.at \in Nat,
         NEW i \in DOMAIN pending'[q]
  PROVE  \/ \E j \in DOMAIN rest[q] : pending'[q][i] = rest[q][j]
         \/ \E e \in done'.sent : e.type = "SEND" /\ e.port = q /\ pending'[q][i] = e.at
  <1>1. PICK old, new : old = rest[q] /\ new = Wakeups(done'.sent, q)
    OBVIOUS
  <1>2. PICK wake : wake = {e \in done'.sent : e.type = "SEND" /\ e.port = q}
    OBVIOUS
  <1>3. new = IF wake = {} THEN <<>> ELSE <<(CHOOSE e \in wake : TRUE).at>>
    BY <1>1, <1>2 DEF Wakeups
  <1>4. pending'[q] = old \o new
    BY <1>1 DEF Post
  <1>5. CASE wake = {}
    <2>1. pending'[q] = old
      BY <1>1, <1>3, <1>4, <1>5
    <2> QED
      BY <1>1, <2>1
  <1>6. CASE wake # {}
    <2>1. PICK e \in wake : e = CHOOSE f \in wake : TRUE
      BY <1>6
    <2>2. e.at \in Nat
      BY <1>2, <2>1
    <2>3. new = <<e.at>>
      BY <1>3, <1>6, <2>1
    <2>4. /\ DOMAIN (old \o <<e.at>>) = DOMAIN old \cup {Len(old) + 1}
          /\ \A j \in DOMAIN old : (old \o <<e.at>>)[j] = old[j]
          /\ (old \o <<e.at>>)[Len(old) + 1] = e.at
      <3>1. old \in Seq(Nat)
        BY <1>1
      <3>2. Append(old, e.at) = old \o <<e.at>>
        BY ONLY <2>2, <3>1
      <3>3. PICK at \in Nat : at = e.at
        BY ONLY <2>2
      <3> QED
        BY ONLY <3>1, <3>2, <3>3, AppendFacts
    <2>5. pending'[q] = old \o <<e.at>>
      BY ONLY <1>4, <2>3
    <2>6. (\E j \in DOMAIN old : pending'[q][i] = old[j]) \/ pending'[q][i] = e.at
      <3>1. i \in DOMAIN old \cup {Len(old) + 1}
        BY ONLY <2>4, <2>5, i \in DOMAIN pending'[q]
      <3> QED
        BY ONLY <2>4, <2>5, <3>1
    <2>7. e \in done'.sent /\ e.type = "SEND" /\ e.port = q
      BY <1>2, <2>1
    <2> QED
      BY ONLY <1>1, <2>6, <2>7
  <1> QED
    BY <1>5, <1>6

\* What a step does that looks at a port at a time: the SEND events that were
\* pending are still not late, and the new one is scheduled for the moment at
\* which the shaper has the tokens.
StillWaiting(port, time) ==
  /\ OneSize(queues')
  /\ \A q \in Ports : shapers'[q].last_update_time <= time
  /\ shapers'[port].last_update_time = Refilled(port, time).last_update_time
  /\ \A q \in Ports : \A i \in DOMAIN pending[q] : Earning(pending[q][i], shapers'[q], q)
  /\ \A e \in done'.sent : e.at \in Nat
  /\ \A e \in done'.sent :
       IF e.type = "SEND"
       THEN /\ e.port = port
            /\ Earning(e.at, shapers'[port], port)
            /\ e.at = shapers'[port].last_update_time
                        + (Bits(port) - shapers'[port].tokens) * Ticks[port]
       ELSE e.at > time

\* The wakeup for a port whose bucket b has not the tokens for its next packet.
LEMMA WakeupWaits ==
  ASSUME NEW b, NEW qs, NEW port,
         NextPacket(qs, port).size = SizeOf(port), b.tokens < Bits(port),
         b.last_update_time \in Nat, b.tokens \in Nat, Bits(port) \in Nat, Ticks[port] \in Nat
  PROVE  LET e == Wakeup(b, qs, port)
         IN  /\ e.type = "SEND" /\ e.port = port
             /\ Earning(e.at, b, port)
             /\ e.at = b.last_update_time + (Bits(port) - b.tokens) * Ticks[port]
  <1>1. PICK at : at = b.last_update_time + (Bits(port) - b.tokens) * Ticks[port]
    OBVIOUS
  <1>2. ~ Ready(b, SizeOf(port))
    BY DEF Ready, Bits
  <1>3. NextAvailableTime(b, SizeOf(port), Ticks[port]) = at
    BY <1>1, <1>2 DEF NextAvailableTime, Bits
  <1>4. PICK e : e = Wakeup(b, qs, port)
    OBVIOUS
  <1>5. e.type = "SEND" /\ e.port = port /\ e.at = at
    BY <1>3, <1>4 DEF Wakeup
  <1>6. at \in Int
    <2>1. PICK t \in Nat, k \in Int : t = Ticks[port] /\ k = Bits(port) - b.tokens
      OBVIOUS
    <2>2. k * t \in Int
      BY ONLY <2>1
    <2> QED
      BY <1>1, <2>1, <2>2
  <1>7. Earning(at, b, port)
    BY <1>1, <1>6 DEF Earning
  <1> QED
    BY <1>1, <1>4, <1>5, <1>7

\* A packet that departs does so after the handler has run.
LEMMA DepartureLater ==
  ASSUME ports_available_time \in [Ports -> Nat],
         NEW qs \in [Queues -> Seq(QueuedPackets)], NEW port \in Ports, NEW hop,
         NEW time \in Nat, Backlogged(qs, port)
  PROVE  /\ Departure(qs, port, hop, time).at > time
         /\ Departure(qs, port, hop, time).type = "ARRIVE"
  <1>1. PICK d : d = InjectionDelay(NextPacket(qs, port).size, port)
    OBVIOUS
  <1>2. d \in Nat \ {0}
    BY <1>1, NextPacketFacts, InjectionFacts DEF QueuedPackets
  <1>3. PICK free \in Nat : free = ports_available_time[port]
    OBVIOUS
  <1>4. PICK new : new = InjectedAt(qs, port, time)
    OBVIOUS
  <1>5. new \in Nat /\ new > time
    BY <1>1, <1>2, <1>3, <1>4 DEF InjectedAt, Most
  <1>6. PICK lag \in Nat : lag = PropagationDelay
    BY SwitchAssumption
  <1>7. /\ Departure(qs, port, hop, time).at = new + lag
        /\ Departure(qs, port, hop, time).type = "ARRIVE"
    BY <1>4, <1>6 DEF Departure
  <1> QED
    BY <1>5, <1>6, <1>7

\* The shaper of a port when the port is looked at, before a packet is sent.
LEMMA RefilledWaits ==
  ASSUME OneSizePerPort, ClockInv, WaitInv, NEW port \in Ports, NEW time \in Nat,
         clock <= time
  PROVE  LET r == Refilled(port, time)
         IN  /\ r \in Bucket /\ r.last_update_time <= time
             /\ Refill(r, time, Ticks[port]) = r
             /\ \A i \in DOMAIN pending[port] :
                  /\ pending[port][i] <=
                       r.last_update_time + (Bits(port) - r.tokens) * Ticks[port]
                  /\ time <= pending[port][i] => r.tokens <= Bits(port)
  <1>1. PICK b, ticks, r, bits :
          /\ b = shapers[port] /\ ticks = Ticks[port]
          /\ r = Refilled(port, time) /\ bits = Bits(port)
    OBVIOUS
  <1>2. /\ b \in Bucket /\ ticks \in Nat \ {0} /\ bits \in Nat
        /\ b.last_update_time <= time
        /\ r = Refill(b, time, ticks)
    <2>1. b \in Bucket /\ ticks \in Nat \ {0} /\ bits \in Nat /\ clock \in Nat
      BY <1>1, SizeFacts, SwitchAssumption DEF ClockInv, WaitInv
    <2>2. b.last_update_time <= clock
      BY <1>1 DEF WaitInv
    <2>3. b.last_update_time <= time
      BY <2>1, <2>2 DEF Bucket
    <2> QED
      BY <1>1, <2>1, <2>3 DEF Refilled
  <1>3. r \in Bucket /\ r.last_update_time <= time
    BY <1>2, RefillBound
  <1>4. Refill(r, time, ticks) = r
    BY <1>2, RefillTwice
  <1>5. ASSUME NEW i \in DOMAIN pending[port]
        PROVE  /\ pending[port][i] <= r.last_update_time + (bits - r.tokens) * ticks
               /\ time <= pending[port][i] => r.tokens <= bits
    <2>1. PICK at : at = pending[port][i]
      OBVIOUS
    <2>2. at \in Nat
      BY <1>5, <2>1, ElementOfSeq DEF ClockInv
    <2>3. b.tokens < bits /\ at <= b.last_update_time + (bits - b.tokens) * ticks
      BY <1>1, <2>1 DEF WaitInv, Earning
    <2>4. /\ at <= r.last_update_time + (bits - r.tokens) * ticks
          /\ time <= at => r.tokens <= bits
      BY <1>2, <2>2, <2>3, RefillWhileWaiting
    <2> QED
      BY <2>1, <2>4
  <1> QED
    BY <1>1, <1>3, <1>4, <1>5

\* Nothing about a port changes if another one is looked at.
LEMMA OthersWait ==
  ASSUME ClockInv, WaitInv, NEW port \in Ports, NEW time \in Nat, clock <= time,
         NEW b \in Bucket, b.last_update_time <= time,
         shapers' = [shapers EXCEPT ![port] = b],
         \A i \in DOMAIN pending[port] : Earning(pending[port][i], b, port)
  PROVE  /\ shapers'[port] = b
         /\ \A q \in Ports : shapers'[q].last_update_time <= time
         /\ \A q \in Ports : \A i \in DOMAIN pending[q] : Earning(pending[q][i], shapers'[q], q)
  <1>1. /\ shapers'[port] = b
        /\ \A q \in Ports : q # port => shapers'[q] = shapers[q]
    BY DEF ClockInv
  <1>2. ASSUME NEW q \in Ports PROVE shapers[q].last_update_time <= time
    <2>1. PICK u \in Nat : u = shapers[q].last_update_time
      BY DEF ClockInv, Bucket
    <2>2. u <= clock /\ clock \in Nat
      BY <2>1 DEF WaitInv
    <2> QED
      BY <2>1, <2>2
  <1>3. \A q \in Ports : shapers'[q].last_update_time <= time
    BY <1>1, <1>2
  <1>4. ASSUME NEW q \in Ports, NEW i \in DOMAIN pending[q]
        PROVE  Earning(pending[q][i], shapers'[q], q)
    <2>1. CASE q = port
      BY <1>1, <2>1
    <2>2. CASE q # port
      <3>1. Earning(pending[q][i], shapers[q], q)
        BY DEF WaitInv
      <3> QED
        BY <1>1, <2>2, <3>1
    <2> QED
      BY <2>1, <2>2
  <1> QED
    BY <1>1, <1>3, <1>4

\* A port that is delayed lacks tokens until its new wake-up time.
LEMMA DelayedWaits ==
  ASSUME OneSizePerPort, ClockInv, WaitInv, NEW qs \in [Queues -> Seq(QueuedPackets)],
         OneSize(qs), NEW port \in Ports, NEW time \in Nat, clock <= time,
         Delayed(qs, port, time)
  PROVE  StillWaiting(port, time)
  <1>1. PICK r : r = Refilled(port, time)
    OBVIOUS
  <1>2. /\ r \in Bucket /\ r.last_update_time <= time
        /\ \A i \in DOMAIN pending[port] :
             pending[port][i] <= r.last_update_time + (Bits(port) - r.tokens) * Ticks[port]
    BY <1>1, RefilledWaits
  <1>3. NextPacket(qs, port).size = SizeOf(port) /\ Bits(port) \in Nat
    BY OneSizeFacts, SizeFacts DEF Delayed, Sized
  <1>4. r.tokens \in Nat /\ r.last_update_time \in Nat
    BY <1>2, CapacityAssumption DEF Bucket
  <1>5. r.tokens < Bits(port)
    <2>1. ~ Ready(r, SizeOf(port))
      BY <1>1, <1>3 DEF Delayed, ReadyToSend
    <2> QED
      BY <1>3, <1>4, <2>1 DEF Ready, Bits
  <1>6. /\ shapers'[port] = r
        /\ \A q \in Ports : shapers'[q].last_update_time <= time
        /\ \A q \in Ports : \A i \in DOMAIN pending[q] : Earning(pending[q][i], shapers'[q], q)
    <2>1. \A i \in DOMAIN pending[port] : Earning(pending[port][i], r, port)
      BY <1>2, <1>5 DEF Earning
    <2>2. shapers' = [shapers EXCEPT ![port] = r]
      BY <1>1 DEF Delayed
    <2> QED
      BY <1>2, <2>1, <2>2, OthersWait
  <1>7. PICK wake : wake = Wakeup(r, qs, port)
    OBVIOUS
  <1>8. /\ wake.type = "SEND" /\ wake.port = port
        /\ Earning(wake.at, r, port)
        /\ wake.at = r.last_update_time + (Bits(port) - r.tokens) * Ticks[port]
    <2>1. Ticks[port] \in Nat
      BY SwitchAssumption
    <2> QED
      BY <1>3, <1>4, <1>5, <1>7, <2>1, WakeupWaits
  <1>9. \A e \in done'.sent : e = wake
    BY <1>1, <1>7 DEF Delayed
  <1>10. OneSize(queues')
    BY DEF Delayed
  <1>11. \A e \in done'.sent : e.at \in Nat
    BY DelayedClocks DEF ClockInv
  <1> QED
    BY ONLY <1>1, <1>6, <1>8, <1>9, <1>10, <1>11 DEF StillWaiting

\* A port that is served and has more to send lacks tokens until its wake-up time.
LEMMA ServedWaits ==
  ASSUME OneSizePerPort, ClockInv, WaitInv, NEW qs \in [Queues -> Seq(QueuedPackets)],
         OneSize(qs), NEW port \in Ports, NEW time \in Nat, clock <= time,
         \A i \in DOMAIN pending[port] : time <= pending[port][i],
         Backlogged(Serve(qs, port), port) => \E i : i \in DOMAIN pending[port],
         Served(qs, port, time)
  PROVE  StillWaiting(port, time)
  <1>1. PICK r, c, bits :
          /\ r = Refilled(port, time)
          /\ c = Consume(r, NextPacket(qs, port).size, time, Ticks[port])
          /\ bits = Bits(port)
    OBVIOUS
  <1>2. /\ r \in Bucket /\ r.last_update_time <= time
        /\ Refill(r, time, Ticks[port]) = r
        /\ \A i \in DOMAIN pending[port] :
             /\ pending[port][i] <= r.last_update_time + (bits - r.tokens) * Ticks[port]
             /\ r.tokens <= bits
    BY <1>1, RefilledWaits
  <1>3. NextPacket(qs, port).size = SizeOf(port) /\ bits \in Nat \ {0}
    BY <1>1, OneSizeFacts, SizeFacts DEF Served, Sized
  <1>4. r.tokens \in Nat /\ r.last_update_time \in Nat
    BY <1>2, CapacityAssumption DEF Bucket
  <1>5. bits <= r.tokens
    BY <1>1, <1>3 DEF Served, ReadyToSend, Ready, Bits
  <1>6. /\ c \in Bucket
        /\ c.tokens = r.tokens - bits
        /\ c.last_update_time = r.last_update_time
    <2>1. c = [r EXCEPT !.tokens = @ - bits]
      BY <1>1, <1>2, <1>3 DEF Consume, Bits
    <2> QED
      BY <1>2, <1>3, <1>4, <1>5, <2>1, CapacityAssumption DEF Bucket
  <1>7. PICK ticks \in Nat \ {0} : ticks = Ticks[port]
    BY SwitchAssumption
  <1>8. ASSUME NEW i \in DOMAIN pending[port]
        PROVE  c.tokens = 0 /\ Earning(pending[port][i], c, port)
    <2>1. PICK at : at = pending[port][i]
      OBVIOUS
    <2>2. at \in Nat
      BY <2>1, ElementOfSeq DEF ClockInv
    <2>3. r.tokens = bits
      BY <1>2, <1>3, <1>4, <1>5
    <2>4. c.tokens = 0
      BY <1>3, <1>6, <2>3
    <2>5. at <= r.last_update_time
      <3>1. at <= r.last_update_time + (bits - bits) * Ticks[port]
        BY <1>2, <2>1, <2>3
      <3>2. (bits - bits) * Ticks[port] = 0
        BY <1>3, <1>7
      <3> QED
        BY <1>4, <3>1, <3>2
    <2>6. (bits - 0) * ticks \in Nat
      BY ONLY <1>3, <1>7
    <2>7. at <= c.last_update_time + (bits - 0) * ticks
      BY <1>4, <1>6, <2>2, <2>5, <2>6
    <2> QED
      BY <1>1, <1>3, <1>7, <2>1, <2>4, <2>7 DEF Earning
  <1>9. shapers' = [shapers EXCEPT ![port] = c]
    BY <1>1 DEF Served
  <1>10. /\ shapers'[port] = c
         /\ \A q \in Ports : shapers'[q].last_update_time <= time
         /\ \A q \in Ports : \A i \in DOMAIN pending[q] : Earning(pending[q][i], shapers'[q], q)
    <2>1. c.last_update_time <= time
      BY <1>2, <1>6
    <2> QED
      BY <1>6, <1>8, <1>9, <2>1, OthersWait
  <1>11. PICK qs2 : qs2 = Serve(qs, port)
    OBVIOUS
  <1>12. qs2 \in [Queues -> Seq(QueuedPackets)] /\ OneSize(qs2)
    BY <1>11, ServeFacts, OneSizeFacts DEF Served
  <1>13. ASSUME Backlogged(qs2, port)
         PROVE  LET e == Wakeup(c, qs2, port)
                IN  /\ e.type = "SEND" /\ e.port = port
                    /\ Earning(e.at, c, port)
                    /\ e.at = c.last_update_time + (Bits(port) - c.tokens) * Ticks[port]
    <2>1. c.tokens = 0
      BY <1>8, <1>11, <1>13
    <2>2. NextPacket(qs2, port).size = SizeOf(port)
      BY <1>12, <1>13, OneSizeFacts DEF Sized
    <2>3. /\ c.tokens < Bits(port) /\ c.last_update_time \in Nat /\ c.tokens \in Nat
          /\ Bits(port) \in Nat /\ Ticks[port] \in Nat
      BY <1>1, <1>3, <1>4, <1>6, <1>7, <2>1
    <2> QED
      BY <2>2, <2>3, WakeupWaits
  <1>14. PICK hop, leave :
           /\ hop \in Hops /\ leave = Departure(qs, port, hop, time)
           /\ \/ done'.sent = {leave}
              \/ /\ Backlogged(Serve(qs, port), port)
                 /\ done'.sent = {leave, Wakeup(shapers'[port], Serve(qs, port), port)}
    BY DEF Served
  <1>15. leave.at > time /\ leave.type = "ARRIVE"
    BY <1>14, DepartureLater DEF ClockInv, Served
  <1>16. \/ done'.sent = {leave}
         \/ Backlogged(qs2, port) /\ done'.sent = {leave, Wakeup(c, qs2, port)}
    BY <1>10, <1>11, <1>14
  <1>17. OneSize(queues')
    BY <1>11, <1>12 DEF Served
  <1>18. \A e \in done'.sent :
           IF e.type = "SEND"
           THEN /\ e.port = port
                /\ Earning(e.at, c, port)
                /\ e.at = c.last_update_time + (Bits(port) - c.tokens) * Ticks[port]
           ELSE e.at > time
    <2>1. PICK wake : wake = Wakeup(c, qs2, port)
      OBVIOUS
    <2> QED
      BY ONLY <1>13, <1>15, <1>16, <2>1
  <1>19. \A e \in done'.sent : e.at \in Nat
    BY ServedClocks DEF ClockInv
  <1> QED
    BY ONLY <1>1, <1>6, <1>10, <1>17, <1>18, <1>19 DEF StillWaiting

\* The events that are still pending when one has been taken out.
StillPending(rest) ==
  \A q \in Ports : /\ rest[q] \in Seq(Nat)
                  /\ \A j \in DOMAIN rest[q] : \E i \in DOMAIN pending[q] : rest[q][j] = pending[q][i]

\* The pending SEND events after the step.
LEMMA WaitAfterStep ==
  ASSUME NEW port, NEW time \in Nat, StillWaiting(port, time), clock' = time,
         NEW rest, Post(rest), StillPending(rest)
  PROVE  WaitInv'
  <1>1. ASSUME NEW q \in Ports, NEW i \in DOMAIN pending'[q]
        PROVE  Earning(pending'[q][i], shapers'[q], q)
    <2>1. CASE \E j \in DOMAIN rest[q] : pending'[q][i] = rest[q][j]
      <3>1. PICK j \in DOMAIN pending[q] : pending'[q][i] = pending[q][j]
        BY <2>1 DEF StillPending
      <3>2. Earning(pending[q][j], shapers'[q], q)
        BY DEF StillWaiting
      <3> QED
        BY <3>1, <3>2
    <2>2. CASE \E e \in done'.sent : e.type = "SEND" /\ e.port = q /\ pending'[q][i] = e.at
      <3>1. PICK e \in done'.sent : e.type = "SEND" /\ e.port = q /\ pending'[q][i] = e.at
        BY <2>2
      <3>2. q = port /\ Earning(e.at, shapers'[port], port)
        BY <3>1 DEF StillWaiting
      <3> QED
        BY <3>1, <3>2
    <2>3. \A e \in done'.sent : e.at \in Nat
      BY DEF StillWaiting
    <2> QED
      BY <2>1, <2>2, <2>3, Posted DEF StillPending
  <1>2. clock' \in Nat /\ \A q \in Ports : shapers'[q].last_update_time <= clock'
    BY DEF StillWaiting
  <1>3. OneSize(queues')
    BY DEF StillWaiting
  <1> QED
    BY <1>1, <1>2, <1>3 DEF WaitInv, OneSize, Sized, Earning

\* The clock does not go back, and an event that is handled is the next one.
LEMMA NextEvent ==
  ASSUME ClockInv, WaitInv, NEW time \in Nat, IsNext(time)
  PROVE  /\ clock <= time
         /\ \A q \in Ports : \A i \in DOMAIN pending[q] : time <= pending[q][i]
  BY DEF IsNext, WaitInv

\* handle_arrive_event leaves every other port waiting as it was.
LEMMA ArriveLooks ==
  ASSUME OneSizePerPort, OrderInv, WaitInv,
         NEW o \in Offers, NEW time \in ArrivalTimes, RunArrive(o, time)
  PROVE  /\ time \in Nat /\ clock <= time
         /\ clock' = time /\ Post(pending)
         /\ \/ UNCHANGED <<queues, shapers>> /\ done'.sent = {}
            \/ \E port \in Ports : StillWaiting(port, time)
  <1>1. PICK p : p = Packet(o, arrived + 1)
    OBVIOUS
  <1>2. /\ Arrive(p, time) /\ Post(pending) /\ clock' = time /\ IsNext(time)
        /\ time \in Nat
    BY <1>1, SequentialAssumption DEF RunArrive
  <1>3. /\ ProtocolInv /\ ClockInv /\ OneSize(queues)
        /\ queues \in [Queues -> Seq(QueuedPackets)] /\ arrived \in Nat
    BY DEF OrderInv, ProtocolInv, WaitInv
  <1>4. clock <= time /\ \A q \in Ports : \A i \in DOMAIN pending[q] : time <= pending[q][i]
    BY <1>2, <1>3, NextEvent
  <1>5. ASSUME p.dest # Self
        PROVE  /\ Enqueued(p) \in [Queues -> Seq(QueuedPackets)]
               /\ Backlogged(Enqueued(p), OutPort(p))
               /\ OutPort(p) \in Ports /\ p.dest \in DOMAIN Routing
               /\ OneSize(Enqueued(p))
               /\ Backlogged(Serve(Enqueued(p), OutPort(p)), OutPort(p)) =>
                    \E i : i \in DOMAIN pending[OutPort(p)]
    <2>1. p \in QueuedPackets /\ OutPort(p) \in Ports /\ p.type \in Levels
      BY <1>1, <1>3, <1>5, PacketFacts
    <2>2. Sized(p, OutPort(p))
      BY <1>1, <1>5, SizeFacts DEF Packet, OutPort, Sized
    <2>3. PICK qs, qs2, port, level :
            qs = queues /\ qs2 = Enqueued(p) /\ port = OutPort(p) /\ level = p.type
      OBVIOUS
    <2>4. /\ qs \in [Queues -> Seq(QueuedPackets)] /\ qs2 \in [Queues -> Seq(QueuedPackets)]
          /\ qs2[MeterIndex(port, level)] = Append(qs[MeterIndex(port, level)], p)
          /\ \A j \in Queues : j # MeterIndex(port, level) => qs2[j] = qs[j]
          /\ port \in Ports /\ level \in Levels
          /\ OneSize(qs) /\ Sized(p, port)
      BY <1>3, <2>1, <2>2, <2>3, EnqueuedFacts
    <2>5. OneSize(qs2)
      BY <2>1, <2>3, <2>4, OneSizeFacts
    <2>6. /\ Backlogged(qs2, port)
          /\ Backlogged(Serve(qs2, port), port) <=> Backlogged(qs, port)
      BY <2>1, <2>4, EnqueueFacts
    <2>7. ASSUME Backlogged(qs, port) PROVE \E i : i \in DOMAIN pending[port]
      <3>1. PICK at : pending[port] = <<at>>
        BY <1>3, <2>3, <2>4, <2>7 DEF ProtocolInv, OneWakeup
      <3> QED
        BY <3>1, ShortSeqs
    <2> QED
      BY <2>1, <2>3, <2>4, <2>5, <2>6, <2>7 DEF QueuedPackets
  <1>6. ASSUME p.dest # Self, Served(Enqueued(p), OutPort(p), time)
        PROVE  \E port \in Ports : StillWaiting(port, time)
    <2>1. PICK qs, port : qs = Enqueued(p) /\ port = OutPort(p)
      OBVIOUS
    <2>2. /\ qs \in [Queues -> Seq(QueuedPackets)] /\ port \in Ports /\ OneSize(qs)
          /\ Served(qs, port, time)
          /\ Backlogged(Serve(qs, port), port) => \E i : i \in DOMAIN pending[port]
      BY <1>5, <1>6, <2>1
    <2> QED
      BY <1>2, <1>3, <1>4, <2>2, ServedWaits
  <1>7. ASSUME p.dest # Self, Delayed(Enqueued(p), OutPort(p), time)
        PROVE  \E port \in Ports : StillWaiting(port, time)
    <2>1. PICK qs, port : qs = Enqueued(p) /\ port = OutPort(p)
      OBVIOUS
    <2>2. /\ qs \in [Queues -> Seq(QueuedPackets)] /\ port \in Ports /\ OneSize(qs)
          /\ Delayed(qs, port, time)
      BY <1>5, <1>7, <2>1
    <2> QED
      BY <1>2, <1>3, <1>4, <2>2, DelayedWaits
  <1> QED
    BY <1>2, <1>4, <1>5, <1>6, <1>7, ArriveMoves

\* handle_send_event leaves every other port waiting as it was.
LEMMA SendLooks ==
  ASSUME OneSizePerPort, OrderInv, WaitInv,
         NEW port \in Ports, NEW i \in DOMAIN pending[port], RunSend(port, i)
  PROVE  /\ pending[port][i] \in Nat /\ clock' = pending[port][i]
         /\ StillWaiting(port, pending[port][i])
         /\ \E rest : Post(rest) /\ StillPending(rest)
  <1>1. PICK time, rest :
          time = pending[port][i] /\ rest = [pending EXCEPT ![port] = Delete(@, i)]
    OBVIOUS
  <1>2. Send(port, time) /\ Post(rest) /\ clock' = time /\ IsNext(time)
    BY <1>1 DEF RunSend
  <1>3. /\ ProtocolInv /\ ClockInv /\ OneSize(queues)
        /\ queues \in [Queues -> Seq(QueuedPackets)]
        /\ pending \in [Ports -> Seq(Nat)]
        /\ OneWakeup(port)
    BY DEF OrderInv, ProtocolInv, ClockInv, WaitInv
  <1>4. time \in Nat
    BY <1>1, <1>3, ElementOfSeq
  <1>5. /\ clock <= time
        /\ \A q \in Ports : \A k \in DOMAIN pending[q] : time <= pending[q][k]
    BY <1>2, <1>3, <1>4, NextEvent
  <1>6. PICK at : pending[port] = <<at>>
    <2>1. Backlogged(queues, port)
      BY <1>2, SendEffect
    <2> QED
      BY <1>3, <2>1 DEF OneWakeup
  <1>7. rest[port] = <<>> /\ \A q \in Ports : q # port => rest[q] = pending[q]
    <2>1. Delete(pending[port], i) = <<>>
      BY <1>6, ShortSeqs
    <2> QED
      BY <1>1, <1>3, <2>1
  <1>8. StillPending(rest)
    <2>1. rest[port] \in Seq(Nat) /\ \A j \in DOMAIN rest[port] : FALSE
      BY <1>7
    <2> QED
      BY <1>3, <1>7, <2>1 DEF StillPending
  <1>9. StillWaiting(port, time)
    BY <1>2, <1>3, <1>4, <1>5, SendMoves, ServedWaits, DelayedWaits
  <1>10. \E r : Post(r) /\ StillPending(r)
    BY <1>2, <1>8
  <1>11. time \in Nat /\ clock' = time /\ StillWaiting(port, time)
    BY <1>2, <1>4, <1>9
  <1>12. /\ pending[port][i] \in Nat /\ clock' = pending[port][i]
         /\ StillWaiting(port, pending[port][i])
    BY ONLY <1>1, <1>11
  <1> QED
    BY ONLY <1>10, <1>12

\* Every step keeps the ports waiting for good reason.
LEMMA WaitStep ==
  ASSUME OneSizePerPort, OrderInv, WaitInv, [Next]_vars
  PROVE  WaitInv'
  <1>1. ASSUME NEW o \in Offers, NEW time \in ArrivalTimes, RunArrive(o, time)
        PROVE  WaitInv'
    <2>1. /\ time \in Nat /\ clock <= time /\ clock' = time /\ Post(pending)
          /\ \/ UNCHANGED <<queues, shapers>> /\ done'.sent = {}
             \/ \E port \in Ports : StillWaiting(port, time)
      BY <1>1, ArriveLooks
    <2>2. StillPending(pending)
      BY DEF OrderInv, ClockInv, StillPending
    <2>3. CASE \E port \in Ports : StillWaiting(port, time)
      BY <2>1, <2>2, <2>3, WaitAfterStep
    <2>4. CASE UNCHANGED <<queues, shapers>> /\ done'.sent = {}
      <3>1. \A q \in Ports : pending'[q] = pending[q]
        <4>1. \A q \in Ports : Wakeups(done'.sent, q) = <<>>
          BY <2>4, WakeupsFacts
        <4> QED
          BY <2>1, <4>1, NothingPending DEF OrderInv, Post
      <3>2. ASSUME NEW q \in Ports PROVE shapers'[q].last_update_time <= clock'
        <4>1. PICK u \in Nat : u = shapers[q].last_update_time
          BY DEF OrderInv, ClockInv, Bucket
        <4>2. u <= clock /\ clock \in Nat
          BY <4>1 DEF WaitInv
        <4> QED
          BY <2>1, <2>4, <4>1, <4>2
      <3>3. OneSize(queues')
        BY <2>4 DEF WaitInv
      <3>4. \A q \in Ports : \A i \in DOMAIN pending'[q] : Earning(pending'[q][i], shapers'[q], q)
        BY <2>4, <3>1 DEF WaitInv
      <3> QED
        BY <2>1, <3>2, <3>3, <3>4 DEF WaitInv, OneSize, Sized, Earning
    <2> QED
      BY <2>1, <2>3, <2>4
  <1>2. ASSUME NEW port \in Ports, NEW i \in DOMAIN pending[port], RunSend(port, i)
        PROVE  WaitInv'
    <2>1. PICK time : time = pending[port][i]
      OBVIOUS
    <2>2. PICK rest : Post(rest) /\ StillPending(rest)
      BY <1>2, SendLooks
    <2>3. time \in Nat /\ clock' = time /\ StillWaiting(port, time)
      BY <1>2, <2>1, SendLooks
    <2> QED
      BY <2>2, <2>3, WaitAfterStep
  <1>3. CASE UNCHANGED vars
    BY <1>3 DEF vars, swvars, WaitInv, OneSize, Sized, Earning
  <1> QED
    BY <1>1, <1>2, <1>3 DEF Next, RunSomeSend

\* No port waits at first.
LEMMA WaitInit ==
  ASSUME OneSizePerPort, Init
  PROVE  WaitInv
  <1>1. /\ queues = [j \in Queues |-> <<>>]
        /\ shapers = [q \in Ports |-> FullBucket]
        /\ pending = [q \in Ports |-> <<>>]
        /\ clock = 0
    BY DEF Init, SwitchInit
  <1>2. \A q \in Ports : shapers[q].last_update_time <= clock
    BY <1>1 DEF FullBucket
  <1>3. OneSize(queues)
    BY <1>1, IndexFacts DEF OneSize
  <1> QED
    BY <1>1, <1>2, <1>3 DEF WaitInv

\* Lacking tokens until the wake-up time is never being late.
LEMMA WaitImpliesNeverLate ==
  ASSUME OneSizePerPort, OrderInv, WaitInv
  PROVE  NeverLate
  <1> SUFFICES ASSUME NEW port \in Ports, NEW i \in DOMAIN pending[port],
                      NEW time \in clock .. pending[port][i] - 1
               PROVE  ~ Ready(Refill(shapers[port], time, Ticks[port]),
                              NextPacket(queues, port).size)
    BY DEF NeverLate
  <1>1. PICK at, b, ticks, bits :
          /\ at = pending[port][i] /\ b = shapers[port]
          /\ ticks = Ticks[port] /\ bits = Bits(port)
    OBVIOUS
  <1>2. at \in Nat /\ b \in Bucket /\ ticks \in Nat \ {0} /\ bits \in Nat /\ clock \in Nat
    <2>1. at \in Nat
      BY <1>1, ElementOfSeq DEF OrderInv, ClockInv
    <2> QED
      BY <1>1, <2>1, SizeFacts, SwitchAssumption DEF OrderInv, ClockInv, WaitInv
  <1>3. /\ b.last_update_time <= clock
        /\ b.tokens < bits
        /\ at <= b.last_update_time + (bits - b.tokens) * ticks
    BY <1>1 DEF WaitInv, Earning
  <1>4. /\ time \in Nat /\ time < at
        /\ b.last_update_time <= time
    BY <1>1, <1>2, <1>3 DEF Bucket
  <1>5. PICK r : r = Refill(b, time, ticks)
    OBVIOUS
  <1>6. r.tokens < bits
    BY <1>2, <1>3, <1>4, <1>5, RefillWhileWaiting
  <1>7. r.tokens \in Nat
    BY <1>2, <1>4, <1>5, RefillBound, CapacityAssumption DEF Bucket
  <1>8. NextPacket(queues, port).size = SizeOf(port)
    <2>1. Backlogged(queues, port)
      BY DEF OrderInv, ProtocolInv, OneWakeup
    <2> QED
      BY <2>1, OneSizeFacts DEF OrderInv, ProtocolInv, WaitInv, Sized
  <1>9. ~ Ready(r, SizeOf(port))
    BY <1>1, <1>2, <1>6, <1>7 DEF Ready, Bits
  <1> QED
    BY <1>1, <1>5, <1>8, <1>9

(* A port with a packet to send and the tokens for it never waits: before   *)
(* the time stamp of its pending SEND event the shaper has not earned the   *)
(* tokens.  This is so for every rounding of the products and every width   *)
(* of the word, provided that the packets of a port have one size; when     *)
(* they have not, a small packet that overtakes a large one has to wait.    *)
THEOREM SwitchIsNeverLate ==
  ASSUME OneSizePerPort
  PROVE  Spec => []NeverLate
  <1>1. Init => WaitInv
    BY WaitInit
  <1>2. OrderInv /\ WaitInv /\ [Next]_vars => WaitInv'
    BY WaitStep
  <1>3. OrderInv /\ WaitInv => NeverLate
    BY WaitImpliesNeverLate
  <1> QED
    BY <1>1, <1>2, <1>3, OrderInvHolds, PTL DEF Spec
-----------------------------------------------------------------------------
(* That events are sent into the future.                                   *)

\* No word overflows: a port is not left alone for as long as it takes to earn
\* WordSize tokens, and no packet has that many bits.
NoOverflow ==
  /\ \A time \in ArrivalTimes, port \in Ports : time < WordSize * Ticks[port]
  /\ \A o \in Offers : o.size * BitsPerByte < WordSize

\* The bucket of a port that is looked at is not so old that a word overflows.
Fresh(port, time) == time - shapers[port].last_update_time < WordSize * Ticks[port]

\* What a served or delayed port sends is due after the moment it is sent.
LEMMA SentLater ==
  ASSUME OneSizePerPort, ExactProducts, ClockInv, WaitInv, NEW port \in Ports, NEW time \in Nat,
         clock <= time, Fresh(port, time), StillWaiting(port, time), ClockInv'
  PROVE  \A e \in done'.sent : e.at > time
  <1>1. PICK b, c, ticks, bits :
          /\ b = shapers[port] /\ c = shapers'[port]
          /\ ticks = Ticks[port] /\ bits = Bits(port)
    OBVIOUS
  <1>2. /\ b \in Bucket /\ c \in Bucket /\ ticks \in Nat \ {0} /\ bits \in Nat
        /\ b.last_update_time <= time
    <2>1. b \in Bucket /\ c \in Bucket /\ ticks \in Nat \ {0} /\ bits \in Nat /\ clock \in Nat
      BY <1>1, SizeFacts, SwitchAssumption DEF ClockInv, WaitInv
    <2>2. b.last_update_time <= clock
      BY <1>1 DEF WaitInv
    <2> QED
      BY <2>1, <2>2 DEF Bucket
  <1>3. time - Refill(b, time, ticks).last_update_time < ticks
    BY <1>1, <1>2, RefillCurrent DEF Fresh
  <1>4. c.last_update_time = Refill(b, time, ticks).last_update_time
    BY <1>1 DEF StillWaiting, Refilled
  <1>5. PICK u, x \in Nat : u = c.last_update_time /\ x = c.tokens
    BY <1>2, CapacityAssumption DEF Bucket
  <1>6. time - u < ticks
    BY ONLY <1>3, <1>4, <1>5
  <1>7. ASSUME NEW e \in done'.sent, e.type = "SEND" PROVE e.at > time
    <2>1. x < bits /\ e.at = u + (bits - x) * ticks
      BY <1>1, <1>5, <1>7 DEF StillWaiting, Earning
    <2>2. (bits - x) * ticks >= ticks
      BY ONLY <1>2, <1>5, <2>1, Z3T(30)
    <2>3. PICK w \in Int : w = (bits - x) * ticks
      BY <1>2, <1>5
    <2> QED
      BY ONLY <1>2, <1>5, <1>6, <2>1, <2>2, <2>3, time \in Nat
  <1>8. ASSUME NEW e \in done'.sent, e.type # "SEND" PROVE e.at > time
    BY <1>8 DEF StillWaiting
  <1> QED
    BY <1>7, <1>8

\* Every step sends into the future.
LEMMA SentLaterStep ==
  ASSUME OneSizePerPort, ExactProducts, NoOverflow, OrderInv, OrderInv', WaitInv,
         SendDelayPositive, [Next]_vars
  PROVE  SendDelayPositive'
  <1>0. ClockInv /\ ClockInv'
    BY DEF OrderInv
  <1>1. ASSUME NEW o \in Offers, NEW time \in ArrivalTimes, RunArrive(o, time)
        PROVE  SendDelayPositive'
    <2>1. /\ time \in Nat /\ clock <= time /\ clock' = time
          /\ \/ UNCHANGED <<queues, shapers>> /\ done'.sent = {}
             \/ \E port \in Ports : StillWaiting(port, time)
      BY <1>1, ArriveLooks
    <2>2. \A port \in Ports : Fresh(port, time)
      <3>1. SUFFICES ASSUME NEW port \in Ports PROVE Fresh(port, time)
        OBVIOUS
      <3>2. PICK u \in Nat : u = shapers[port].last_update_time
        BY <1>0 DEF ClockInv, Bucket
      <3>3. PICK w \in Int : w = WordSize * Ticks[port]
        BY SwitchAssumption, WordAssumption
      <3>4. time < w
        BY <3>3 DEF NoOverflow
      <3> QED
        BY <2>1, <3>2, <3>3, <3>4 DEF Fresh
    <2> QED
      BY <1>0, <2>1, <2>2, SentLater DEF SendDelayPositive
  <1>2. ASSUME NEW port \in Ports, NEW i \in DOMAIN pending[port], RunSend(port, i)
        PROVE  SendDelayPositive'
    <2>1. PICK time : time = pending[port][i]
      OBVIOUS
    <2>2. /\ time \in Nat /\ clock' = time /\ StillWaiting(port, time)
      BY <1>2, <2>1, SendLooks
    <2>3. clock <= time
      BY <1>0, <1>2, <2>1, <2>2, NextEvent DEF RunSend
    <2>4. Fresh(port, time)
      <3>1. PICK b, ticks, bits : b = shapers[port] /\ ticks = Ticks[port] /\ bits = Bits(port)
        OBVIOUS
      <3>2. b \in Bucket /\ ticks \in Nat \ {0} /\ bits \in Nat
        BY <1>0, <3>1, SizeFacts, SwitchAssumption DEF ClockInv
      <3>3. PICK u, x \in Nat : u = b.last_update_time /\ x = b.tokens
        BY <3>2, CapacityAssumption DEF Bucket
      <3>4. x < bits /\ time <= u + (bits - x) * ticks
        BY <2>1, <3>1, <3>3 DEF WaitInv, Earning
      <3>5. bits < WordSize
        <4>1. Backlogged(queues, port)
          BY <1>2, SendEffect DEF RunSend
        <4>2. Sized(NextPacket(queues, port), port)
          BY <4>1, OneSizeFacts DEF OrderInv, ProtocolInv, WaitInv
        <4>3. PICK o \in Offers : o.size = SizeOf(port)
          BY <4>2 DEF Sized
        <4> QED
          BY <3>1, <4>3 DEF NoOverflow, Bits
      <3>6. (bits - x) * ticks < WordSize * ticks
        BY ONLY <3>2, <3>3, <3>4, <3>5, WordAssumption, Z3T(30)
      <3>7. PICK v, w \in Int : v = (bits - x) * ticks /\ w = WordSize * ticks
        BY <3>2, <3>3, WordAssumption
      <3>8. time - u < w
        BY ONLY <2>2, <3>3, <3>4, <3>6, <3>7
      <3> QED
        BY ONLY <3>1, <3>3, <3>7, <3>8 DEF Fresh
    <2> QED
      BY <1>0, <2>2, <2>3, <2>4, SentLater DEF SendDelayPositive
  <1>3. CASE UNCHANGED vars
    BY <1>3 DEF vars, swvars, SendDelayPositive
  <1> QED
    BY <1>1, <1>2, <1>3 DEF Next, RunSomeSend

(* Simulated time goes on: an event is always sent into the future (the      *)
(* assertions of network_switch.c:344 and 528), when products are exact, no  *)
(* word overflows and the packets of a port have one size.  The runs show    *)
(* what happens when a product is rounded down or the sizes differ.          *)
THEOREM SwitchSendsIntoTheFuture ==
  ASSUME OneSizePerPort, ExactProducts, NoOverflow
  PROVE  Spec => []SendDelayPositive
  <1>1. Init => WaitInv /\ SendDelayPositive
    BY WaitInit DEF Init, SwitchInit, SendDelayPositive
  <1>2. OrderInv /\ WaitInv /\ [Next]_vars => WaitInv'
    BY WaitStep
  <1>3. /\ OrderInv /\ OrderInv' /\ WaitInv /\ SendDelayPositive /\ [Next]_vars
        => SendDelayPositive'
    BY SentLaterStep
  <1> QED
    BY <1>1, <1>2, <1>3, OrderInvHolds, PTL DEF Spec
-----------------------------------------------------------------------------
(***************************************************************************)
(* Where the packets are.  The account of SwitchProofs is kept for the     *)
(* packets that have arrived.                                              *)
(***************************************************************************)
CountInv ==
  /\ Counted(queues, OnTheWire, Len(departed), stats, 1 .. arrived)
  /\ HasRoom(stats)

\* The numbers of the packets that arrived.
LEMMA ArrivalFacts ==
  ASSUME NEW n \in Nat
  PROVE  /\ n + 1 \notin 1 .. n
         /\ 1 .. n + 1 = (1 .. n) \cup {n + 1}
         /\ IsFiniteSet(1 .. n) /\ Cardinality(1 .. n) = n
  <1>1. IsFiniteSet(1 .. n) /\ Cardinality(1 .. n) = n
    BY FS_Interval
  <1> QED
    BY <1>1

\* One more packet is on the wire.
LEMMA WireFacts ==
  ASSUME NEW ds \in Seq(Events), NEW e \in Events
  PROVE  /\ {Append(ds, e)[i].packet.pid : i \in DOMAIN Append(ds, e)}
              = {ds[i].packet.pid : i \in DOMAIN ds} \cup {e.packet.pid}
         /\ Len(Append(ds, e)) = Len(ds) + 1 /\ Len(ds) \in Nat
  <1>1. PICK ds2, n : ds2 = Append(ds, e) /\ n = Len(ds) + 1
    OBVIOUS
  <1>2. /\ DOMAIN ds2 = DOMAIN ds \cup {n} /\ ds2[n] = e
        /\ \A i \in DOMAIN ds : ds2[i] = ds[i]
        /\ Len(ds) \in Nat
    BY <1>1, AppendFacts
  <1>3. Len(ds2) = n
    BY <1>1
  <1>4. {ds2[i].packet.pid : i \in DOMAIN ds2}
          = {ds[i].packet.pid : i \in DOMAIN ds} \cup {e.packet.pid}
    BY ONLY <1>2
  <1> QED
    BY ONLY <1>1, <1>2, <1>3, <1>4

\* The account after a port has been served, and after it has been looked at in vain.
LEMMA ServedCounts ==
  ASSUME Wire, ClockInv, NEW qs \in [Queues -> Seq(QueuedPackets)], NEW port \in Ports,
         NEW time \in Nat, NEW st, NEW H, IsFiniteSet(H),
         Counted(qs, OnTheWire, Len(departed), st, H),
         NEW rest, Served(qs, port, time), Post(rest)
  PROVE  Counted(queues', OnTheWire', Len(departed'), st, H)
  <1>1. PICK hop, e :
          hop \in Hops /\ e = Departure(qs, port, hop, time) /\ departed' = Append(departed, e)
    BY ServedDeparts
  <1>2. Backlogged(qs, port) /\ queues' = Serve(qs, port)
    BY DEF Served
  <1>3. e \in Events /\ e.packet = NextPacket(qs, port)
    BY <1>1, <1>2, DepartureFacts DEF ClockInv
  <1>4. departed \in Seq(Events) /\ departed' = Append(departed, e)
    BY <1>1 DEF Wire
  <1>5. /\ OnTheWire' = OnTheWire \cup {NextPacket(qs, port).pid}
        /\ Len(departed') = Len(departed) + 1 /\ Len(departed) \in Nat
    <2>1. PICK ds, ds2 : ds = departed /\ ds2 = departed'
      OBVIOUS
    <2>2. ds \in Seq(Events) /\ ds2 = Append(ds, e) /\ e \in Events
      BY ONLY <1>3, <1>4, <2>1
    <2>3. /\ {ds2[i].packet.pid : i \in DOMAIN ds2}
               = {ds[i].packet.pid : i \in DOMAIN ds} \cup {e.packet.pid}
          /\ Len(ds2) = Len(ds) + 1 /\ Len(ds) \in Nat
      BY ONLY <2>2, WireFacts
    <2>4. OnTheWire = {ds[i].packet.pid : i \in DOMAIN ds}
      BY ONLY <2>1 DEF OnTheWire
    <2>5. OnTheWire' = {ds2[i].packet.pid : i \in DOMAIN ds2}
      BY ONLY <2>1 DEF OnTheWire
    <2>6. e.packet.pid = NextPacket(qs, port).pid
      BY ONLY <1>3
    <2> QED
      BY ONLY <2>1, <2>3, <2>4, <2>5, <2>6
  <1>6. PICK out, m : out = OnTheWire /\ m = Len(departed)
    OBVIOUS
  <1>7. m \in Nat /\ Counted(qs, out, m, st, H)
    BY <1>5, <1>6
  <1>8. Counted(Serve(qs, port), out \cup {NextPacket(qs, port).pid}, m + 1, st, H)
    BY <1>2, <1>7, ServedIsCounted
  <1> QED
    BY ONLY <1>2, <1>5, <1>6, <1>8

\* A delayed port moves no packet.
LEMMA DelayedCounts ==
  ASSUME NEW qs, NEW port, NEW time, NEW st, NEW H,
         Counted(qs, OnTheWire, Len(departed), st, H),
         NEW rest, Delayed(qs, port, time), Post(rest)
  PROVE  Counted(queues', OnTheWire', Len(departed'), st, H)
  <1>1. departed' = departed /\ queues' = qs
    BY DelayedDeparts DEF Delayed
  <1> QED
    BY <1>1 DEF OnTheWire

\* handle_arrive_event accounts for the packet that arrived.
LEMMA ArriveKeepsCount ==
  ASSUME OrderInv, CountInv, NEW o \in Offers, NEW time \in ArrivalTimes, RunArrive(o, time)
  PROVE  CountInv'
  <1>1. PICK p, n, H : p = Packet(o, arrived + 1) /\ n = arrived + 1 /\ H = 1 .. arrived
    OBVIOUS
  <1>2. /\ Arrive(p, time) /\ Post(pending) /\ arrived' = n
        /\ time \in Nat
    BY <1>1, SequentialAssumption DEF RunArrive
  <1>3. /\ Wire /\ ClockInv /\ arrived \in Nat
        /\ queues \in [Queues -> Seq(QueuedPackets)]
        /\ departed \in Seq(Events)
    BY DEF OrderInv, ProtocolInv, Wire
  <1>4. /\ n \in Nat /\ n \notin H /\ IsFiniteSet(H) /\ 1 .. n = H \cup {n}
        /\ IsFiniteSet(H \cup {n})
    <2>1. /\ n \notin H /\ IsFiniteSet(H) /\ 1 .. n = H \cup {n}
      BY <1>1, <1>3, ArrivalFacts
    <2>2. n \in Nat
      BY <1>1, <1>3
    <2> QED
      BY <2>1, <2>2, FS_AddElement
  <1>5. /\ Counted(queues, OnTheWire, Len(departed), stats, H)
        /\ Len(departed) \in Nat /\ StatsOK(stats) /\ HasRoom(stats)
    BY <1>1, <1>3, CountedFacts DEF CountInv
  <1>6. p.pid = n /\ p.send_time = 0
    BY <1>1 DEF Packet
  <1>7. ASSUME p.dest # Self
        PROVE  /\ p \in QueuedPackets /\ OutPort(p) \in Ports /\ p.type \in Levels
               /\ p.dest \in DOMAIN Routing
               /\ Enqueued(p) \in [Queues -> Seq(QueuedPackets)]
               /\ Enqueued(p)[MeterIndex(OutPort(p), p.type)]
                    = Append(queues[MeterIndex(OutPort(p), p.type)], p)
               /\ \A i \in Queues : i # MeterIndex(OutPort(p), p.type) => Enqueued(p)[i] = queues[i]
               /\ Backlogged(Enqueued(p), OutPort(p))
    <2>1. p \in QueuedPackets /\ OutPort(p) \in Ports /\ p.type \in Levels
      BY <1>1, <1>3, <1>7, PacketFacts
    <2> QED
      BY <1>3, <2>1, EnqueuedFacts DEF QueuedPackets
  <1>8. CountInv' <=> /\ Counted(queues', OnTheWire', Len(departed'), stats', H \cup {n})
                      /\ HasRoom(stats')
    BY <1>2, <1>4 DEF CountInv
  <1>9. CASE /\ UNCHANGED queues /\ done'.sent = {}
             /\ \/ stats' = UpdateStats(stats, p.pid, time - p.send_time, FALSE)
                \/ stats' = UpdateStats([stats EXCEPT !.received = @ + 1], p.pid, 0, TRUE)
    <2>1. UNCHANGED departed
      BY <1>2, <1>9, DepartedFacts
    <2>2. PICK delay \in Int :
            \/ stats' = UpdateStats(stats, n, delay, FALSE)
            \/ stats' = UpdateStats([stats EXCEPT !.received = @ + 1], n, delay, TRUE)
      <3>1. PICK d \in Int : d = time - p.send_time
        BY <1>2, <1>6
      <3> QED
        BY ONLY <1>6, <1>9, <3>1, 0 \in Int
    <2>3. PICK out, m, st, st2 :
            out = OnTheWire /\ m = Len(departed) /\ st = stats /\ st2 = stats'
      OBVIOUS
    <2>4. /\ StatsOK(st2) /\ HasRoom(st2)
          /\ RecordedIn(st2) = RecordedIn(st) \cup {n}
          /\ Len(st2.records) = Len(st.records) + 1
          /\ st2.received - st2.num_packets_dropped = st.received - st.num_packets_dropped
      BY <1>4, <1>5, <2>2, <2>3, ArrivalIsRecorded
    <2>5. Counted(queues, out, m, st2, H \cup {n})
      BY <1>4, <1>5, <2>3, <2>4, RecordedIsCounted
    <2>6. queues' = queues /\ OnTheWire' = out /\ Len(departed') = m
      BY <1>9, <2>1, <2>3 DEF OnTheWire
    <2> QED
      BY ONLY <1>8, <2>3, <2>4, <2>5, <2>6
  <1>10. ASSUME p.dest # Self,
                Served(Enqueued(p), OutPort(p), time) \/ Delayed(Enqueued(p), OutPort(p), time),
                \/ stats' = [stats EXCEPT !.received = @ + 1]
                \/ stats' = [stats EXCEPT !.received = @ + 1, !.num_packets_sent = @ + 1]
         PROVE  CountInv'
    <2>1. PICK qs, c, port, out, m, st, st2 :
            /\ qs = Enqueued(p) /\ port = OutPort(p) /\ c = MeterIndex(port, p.type)
            /\ out = OnTheWire /\ m = Len(departed) /\ st = stats /\ st2 = stats'
      OBVIOUS
    <2>2. st.received \in Int /\ st.num_packets_sent \in Int
      BY <1>5, <2>1 DEF StatsOK
    <2>3. PICK r \in Int, sent \in Int : r = st.received + 1 /\ sent = st.num_packets_sent + 1
      BY <2>2
    <2>4. /\ StatsOK(st2) /\ st2.records = st.records /\ st2.received = r
          /\ st2.num_packets_dropped = st.num_packets_dropped
          /\ st2.records_capacity = st.records_capacity
      <3>1. CASE st2 = [st EXCEPT !.received = r]
        BY <1>5, <2>1, <3>1, ReceivedFacts
      <3>2. CASE st2 = [st EXCEPT !.received = r, !.num_packets_sent = sent]
        <4>1. PICK s1 : s1 = [st EXCEPT !.received = r]
          OBVIOUS
        <4>2. /\ StatsOK(s1) /\ s1.received = r /\ s1.records = st.records
              /\ s1.num_packets_dropped = st.num_packets_dropped
              /\ s1.records_capacity = st.records_capacity
          BY <1>5, <2>1, <4>1, ReceivedFacts
        <4>3. st2 = [s1 EXCEPT !.num_packets_sent = sent]
          BY <3>2, <4>1
        <4>4. /\ StatsOK(st2) /\ st2.received = s1.received /\ st2.records = s1.records
              /\ st2.num_packets_dropped = s1.num_packets_dropped
              /\ st2.records_capacity = s1.records_capacity
          BY <4>2, <4>3, SentAtOnceFacts
        <4> QED
          BY ONLY <4>2, <4>4
      <3> QED
        BY ONLY <1>10, <2>1, <2>3, <3>1, <3>2
    <2>5. Counted(qs, out, m, st2, H \cup {n})
      <3>1. /\ qs[c] = Append(queues[c], p) /\ c \in Queues /\ p \in QueuedPackets
            /\ \A i \in Queues : i # c => qs[i] = queues[i]
        BY <1>7, <1>10, <2>1, IndexFacts
      <3>2. Counted(queues, out, m, st, H) /\ m \in Nat /\ p.pid \notin H
        BY <1>4, <1>5, <1>6, <2>1
      <3>3. PICK qs0 : qs0 = queues
        OBVIOUS
      <3>4. qs0 \in [Queues -> Seq(QueuedPackets)] /\ IsFiniteSet(H)
        BY <1>3, <1>4, <3>3
      <3>5. /\ qs[c] = Append(qs0[c], p) /\ \A i \in Queues : i # c => qs[i] = qs0[i]
            /\ Counted(qs0, out, m, st, H) /\ c \in Queues /\ p \in QueuedPackets
            /\ m \in Nat /\ p.pid \notin H
        BY ONLY <3>1, <3>2, <3>3
      <3>6. JoinsQueue(qs0, qs, c, p)
        BY <3>4, <3>5 DEF JoinsQueue
      <3>7. Receives(st, st2)
        BY <2>3, <2>4 DEF Receives
      <3>8. Counted(qs, out, m, st2, H \cup {p.pid})
        BY ONLY <3>4, <3>5, <3>6, <3>7, QueuedIsCounted
      <3> QED
        BY ONLY <1>6, <3>8
    <2>6. /\ qs \in [Queues -> Seq(QueuedPackets)] /\ port \in Ports
          /\ Served(qs, port, time) \/ Delayed(qs, port, time)
          /\ Counted(qs, OnTheWire, Len(departed), st2, H \cup {n})
      BY <1>7, <1>10, <2>1, <2>5
    <2>7. Counted(queues', OnTheWire', Len(departed'), st2, H \cup {n})
      <3>1. PICK H2 : H2 = H \cup {n}
        OBVIOUS
      <3>2. IsFiniteSet(H2) /\ Counted(qs, OnTheWire, Len(departed), st2, H2)
        BY ONLY <1>4, <2>6, <3>1
      <3>3. Counted(queues', OnTheWire', Len(departed'), st2, H2)
        BY <1>2, <1>3, <2>6, <3>2, ServedCounts, DelayedCounts
      <3> QED
        BY ONLY <3>1, <3>3
    <2>8. HasRoom(st2)
      BY ONLY <1>5, <2>1, <2>4 DEF HasRoom
    <2> QED
      BY ONLY <1>8, <2>1, <2>7, <2>8
  <1> QED
    BY <1>2, <1>7, <1>9, <1>10, ArriveCounts

\* handle_send_event moves one packet from its queue to the wire, or none.
LEMMA SendKeepsCount ==
  ASSUME OrderInv, CountInv, NEW port \in Ports, NEW i \in DOMAIN pending[port], RunSend(port, i)
  PROVE  CountInv'
  <1>1. PICK time, rest, H :
          /\ time = pending[port][i] /\ rest = [pending EXCEPT ![port] = Delete(@, i)]
          /\ H = 1 .. arrived
    OBVIOUS
  <1>2. Send(port, time) /\ Post(rest) /\ arrived' = arrived
    BY <1>1 DEF RunSend
  <1>3. /\ Wire /\ ClockInv /\ arrived \in Nat
        /\ queues \in [Queues -> Seq(QueuedPackets)]
        /\ pending \in [Ports -> Seq(Nat)]
    BY DEF OrderInv, ProtocolInv, ClockInv
  <1>4. time \in Nat
    BY <1>1, <1>3, ElementOfSeq
  <1>5. IsFiniteSet(H) /\ Counted(queues, OnTheWire, Len(departed), stats, H) /\ HasRoom(stats)
    BY <1>1, <1>3, ArrivalFacts DEF CountInv
  <1>6. stats' = stats /\ (Served(queues, port, time) \/ Delayed(queues, port, time))
    BY <1>2, <1>3, SendCounts, SendMoves
  <1>7. Counted(queues', OnTheWire', Len(departed'), stats, H)
    BY <1>2, <1>3, <1>4, <1>5, <1>6, ServedCounts, DelayedCounts
  <1> QED
    BY ONLY <1>1, <1>2, <1>5, <1>6, <1>7 DEF CountInv

\* Nothing is counted before anything arrived.
LEMMA CountInit == Init => CountInv
  <1> SUFFICES ASSUME Init PROVE CountInv
    OBVIOUS
  <1>1. /\ queues = [j \in Queues |-> <<>>] /\ departed = <<>> /\ arrived = 0 /\ stats = NewStats
    BY DEF Init, SwitchInit
  <1>2. StatsOK(stats) /\ HasRoom(stats) /\ stats.records = <<>> /\ stats.received = 0 /\ stats.num_packets_dropped = 0
    BY <1>1, StatsAssumption DEF NewStats, StatsOK, HasRoom
  <1>3. WaitingIn(queues) = {} /\ Distinct(queues) /\ OnTheWire = {} /\ RecordedIn(stats) = {}
    BY <1>1, <1>2 DEF WaitingIn, Distinct, OnTheWire, RecordedIn
  <1>4. 1 .. arrived = {} /\ Cardinality({}) = 0 /\ Len(departed) = 0 /\ Len(stats.records) = 0
    BY <1>1, <1>2, FS_EmptySet
  <1> QED
    <2>1. PICK H, ds : H = 1 .. arrived /\ ds = departed
      OBVIOUS
    <2>2. H = {} /\ Len(ds) = 0
      BY ONLY <1>4, <2>1
    <2>3. Counted(queues, OnTheWire, Len(ds), stats, H)
      BY ONLY <1>2, <1>3, <1>4, <2>2 DEF Counted
    <2> QED
      BY ONLY <1>2, <2>1, <2>3 DEF CountInv

\* What is counted once is conserved.
LEMMA CountImpliesConservation == OrderInv /\ CountInv => Conservation
  <1> SUFFICES ASSUME OrderInv, CountInv PROVE Conservation
    OBVIOUS
  <1>1. Waiting = WaitingIn(queues) /\ Recorded = RecordedIn(stats)
    BY DEF Waiting, WaitingIn, Pids, Recorded, RecordedIn
  <1>2. Cardinality(1 .. arrived) = arrived
    BY ArrivalFacts DEF OrderInv, ProtocolInv
  <1>3. Len(stats.records) <= stats.records_capacity
    <2>1. stats.records_capacity \in Nat /\ Len(stats.records) \in Nat
      BY DEF CountInv, Counted, StatsOK
    <2> QED
      BY <2>1 DEF CountInv, HasRoom
  <1>4. PICK H : H = 1 .. arrived
    OBVIOUS
  <1>5. /\ WaitingIn(queues) \cup OnTheWire \cup RecordedIn(stats) = H
        /\ Cardinality(WaitingIn(queues)) + Len(departed) + Len(stats.records) = Cardinality(H)
        /\ stats.received
             = Cardinality(WaitingIn(queues)) + Len(departed) + stats.num_packets_dropped
    BY ONLY CountInv, <1>4 DEF CountInv, Counted
  <1> QED
    BY ONLY <1>1, <1>2, <1>3, <1>4, <1>5 DEF Conservation

(* Packets are conserved: each one that arrived is in one queue, was sent   *)
(* on once, or is recorded once, the counters agree, and the array of       *)
(* records never runs over, whatever the rounding of the double product and *)
(* the overflow of the time stamps do to the times.                         *)
THEOREM SwitchConservesPackets == Spec => []Conservation
  <1>1. OrderInv /\ CountInv /\ [Next]_vars => CountInv'
    <2> SUFFICES ASSUME OrderInv, CountInv, [Next]_vars PROVE CountInv'
      OBVIOUS
    <2>1. CASE \E o \in Offers, time \in ArrivalTimes : RunArrive(o, time)
      BY <2>1, ArriveKeepsCount
    <2>2. CASE RunSomeSend
      BY <2>2, SendKeepsCount DEF RunSomeSend
    <2>3. CASE UNCHANGED vars
      BY <2>3 DEF vars, swvars, CountInv, OnTheWire
    <2> QED
      BY <2>1, <2>2, <2>3 DEF Next
  <1> QED
    BY <1>1, CountInit, CountImpliesConservation, OrderInvHolds, PTL DEF Spec
-----------------------------------------------------------------------------
(***************************************************************************)
(* The types of all variables: what the proofs above do not need.          *)
(***************************************************************************)
ADropper == [avg : Nat, q_time : Nat]

\* A power of two is the number of subsets of a set.
LEMMA PowerFacts ==
  ASSUME NEW k \in Nat
  PROVE  2 ^ k \in Nat \ {0}
  <1>1. PICK S : S = 1 .. k
    OBVIOUS
  <1>2. IsFiniteSet(S) /\ Cardinality(S) = k
    BY <1>1, FS_Interval
  <1>3. IsFiniteSet(SUBSET S) /\ Cardinality(SUBSET S) = 2 ^ k
    BY <1>2, FS_SUBSET
  <1>4. SUBSET S # {}
    OBVIOUS
  <1>5. Cardinality(SUBSET S) \in Nat /\ Cardinality(SUBSET S) # 0
    BY <1>3, <1>4, FS_CardinalityType, FS_EmptySet
  <1> QED
    BY ONLY <1>3, <1>5

\* An average that ages remains one.
LEMMA AgedType ==
  ASSUME NEW avg \in Nat, NEW idle \in Int
  PROVE  Aged(avg, idle) \in Nat
  <1>1. CASE idle >= 0
    <2>1. PICK k : k = idle \div HalfLife
      OBVIOUS
    <2>2. k \in Nat
      BY ONLY <1>1, <2>1, DivBound, idle \in Int, DropperAssumption
    <2>3. PICK w \in Nat \ {0} : w = 2 ^ k
      BY <2>2, PowerFacts
    <2>4. avg \div w \in Nat
      BY ONLY <2>3, DivBound, avg \in Nat
    <2> QED
      BY <1>1, <2>1, <2>3, <2>4 DEF Aged
  <1>2. CASE ~ (idle >= 0)
    <2>1. PICK k : k = (-idle) \div HalfLife
      OBVIOUS
    <2>2. -idle \in Nat
      BY <1>2
    <2>3. k \in Nat
      BY ONLY <2>1, <2>2, DivBound, DropperAssumption
    <2>4. PICK w \in Nat \ {0} : w = 2 ^ k
      BY <2>3, PowerFacts
    <2>5. avg * w \in Nat
      BY <2>4
    <2> QED
      BY <1>2, <2>1, <2>4, <2>5 DEF Aged
  <1> QED
    BY <1>1, <1>2

\* So does one that takes in an observation: it loses at most itself.
LEMMA ObservedType ==
  ASSUME NEW avg \in Nat, NEW qlen \in Nat
  PROVE  avg + (qlen * AvgUnit - avg) \div Gain \in Nat
  <1>1. PICK u \in Nat : u = qlen * AvgUnit
    BY DropperAssumption
  <1>2. PICK g \in Nat \ {0} : g = Gain
    BY DropperAssumption
  <1>3. PICK n, k : n = u - avg /\ k = n \div g
    OBVIOUS
  <1>4. n \in Int /\ k \in Int /\ n >= -avg
    BY <1>3
  <1>5. k >= -avg
    <2>1. CASE n >= 0
      BY <1>3, <1>4, <2>1
    <2>2. CASE n < 0
      <3>1. k >= n
        BY ONLY <1>2, <1>3, <1>4, <2>2, Z3T(30)
      <3> QED
        BY <1>4, <3>1
    <2> QED
      BY <1>4, <2>1, <2>2
  <1> QED
    BY ONLY <1>1, <1>2, <1>3, <1>4, <1>5, avg \in Nat

\* A decision leaves a dropper.
LEMMA DropperType ==
  ASSUME NEW d \in ADropper, NEW qlen \in Nat, NEW now \in Nat
  PROVE  DropperUpdate(d, qlen, now) \in ADropper
  <1>1. d.avg \in Nat /\ d.q_time \in Nat /\ d = [avg |-> d.avg, q_time |-> d.q_time]
    BY DEF ADropper
  <1>2. CASE qlen > 0
    <2>1. PICK avg \in Nat : avg = d.avg + (qlen * AvgUnit - d.avg) \div Gain
      BY <1>1, ObservedType
    <2>2. DropperUpdate(d, qlen, now) = [d EXCEPT !.avg = avg]
      BY <1>2, <2>1 DEF DropperUpdate
    <2> QED
      BY <2>2 DEF ADropper
  <1>3. CASE ~ (qlen > 0)
    <2>1. PICK idle \in Int : idle = now - d.q_time
      BY <1>1
    <2>2. PICK avg \in Nat : avg = Aged(d.avg, idle)
      BY <1>1, AgedType
    <2>3. DropperUpdate(d, qlen, now) = [avg |-> avg, q_time |-> now]
      BY <1>3, <2>1, <2>2 DEF DropperUpdate
    <2> QED
      BY <2>3 DEF ADropper
  <1> QED
    BY <1>2, <1>3

\* An update leaves a meter, whatever the sums that wrap round.
LEMMA MeterType ==
  ASSUME NEW m \in Meters, NEW size \in Nat, NEW now \in Nat, NEW ticks \in Nat \ {0}
  PROVE  MeterUpdate(m, size, now, ticks) \in Meters
  <1>1. /\ m.last_update_time \in Nat
        /\ m.T_c \in Nat /\ m.T_c <= CBS
        /\ m.T_e \in Nat /\ m.T_e <= EBS
        /\ CBS \in Nat /\ EBS \in Nat
    BY MeterAssumption DEF Meters
  <1>2. PICK n : n = Earned(m.last_update_time, now, ticks)
    OBVIOUS
  <1>3. n \in Nat
    <2>1. (now - m.last_update_time) \div ticks \in Int
      BY <1>1
    <2> QED
      BY <1>2, <2>1, ModBound, WordAssumption DEF Earned
  <1>4. PICK sum \in Nat : sum = (m.T_c + n) % WordSize
    BY <1>1, <1>3, ModBound, WordAssumption
  <1>5. PICK c : c = Least(sum, CBS)
    OBVIOUS
  <1>6. c \in 0 .. CBS /\ c <= sum
    BY <1>1, <1>5 DEF Least
  <1>7. PICK spilt \in Nat : sum - c > 0 => spilt = (m.T_e + (sum - c)) % WordSize
    <2>1. m.T_e + (sum - c) \in Nat
      BY <1>1, <1>6
    <2> QED
      BY <2>1, ModBound, WordAssumption
  <1>8. PICK e : e = IF sum - c > 0 THEN Least(spilt, EBS) ELSE m.T_e
    OBVIOUS
  <1>9. e \in 0 .. EBS
    BY <1>1, <1>8 DEF Least
  <1>10. PICK t \in Nat : t = UpdateTime(m.last_update_time, now, ticks)
    BY <1>1 DEF UpdateTime
  <1>11. AddTokens(m, now, ticks) = [T_c |-> c, T_e |-> e, last_update_time |-> t]
    BY ONLY <1>2, <1>4, <1>5, <1>7, <1>8, <1>10 DEF AddTokens
  <1>12. PICK bits \in Nat : bits = size * BitsPerByte
    BY DEF BitsPerByte
  <1>13. PICK r : r = [T_c |-> c, T_e |-> e, last_update_time |-> t]
    OBVIOUS
  <1>14. Mark(r, bits) \in Meters
    <2>1. r.T_c = c /\ r.T_e = e /\ r.last_update_time = t
      BY <1>13
    <2>2. Color(r, bits) = IF bits <= c THEN "green" ELSE IF bits <= e THEN "yellow" ELSE "red"
      BY ONLY <2>1 DEF Color
    <2>3. Mark(r, bits) = [T_c |-> IF bits <= c THEN c - bits ELSE c,
                           T_e |-> IF ~ (bits <= c) /\ bits <= e THEN e - bits ELSE e,
                           last_update_time |-> t]
      BY ONLY <2>1, <2>2 DEF Mark
    <2>4. /\ (IF bits <= c THEN c - bits ELSE c) \in 0 .. CBS
          /\ (IF ~ (bits <= c) /\ bits <= e THEN e - bits ELSE e) \in 0 .. EBS
      BY <1>1, <1>6, <1>9
    <2> QED
      BY <2>3, <2>4 DEF Meters
  <1> QED
    BY ONLY <1>11, <1>12, <1>13, <1>14 DEF MeterUpdate

\* The parts of the switch that no other invariant is about.
PartsOK(ms, ds, last) ==
  /\ ms \in [Queues -> Meters]
  /\ ds \in [Droppers -> ADropper]
  /\ last \in [Ports -> Levels \cup {-1}]

\* Every packet waits where its route and its class say.
AtHome(qs) ==
  \A port \in Ports, level \in Levels :
    LET queue == qs[MeterIndex(port, level)]
    IN  \A k \in DOMAIN queue : OutPort(queue[k]) = port

PartsInv ==
  /\ PartsOK(meters, droppers, last_priority)
  /\ AtHome(queues)
  /\ clock \in Nat
  /\ arrived <= MaxArrivals

\* A packet is judged by a meter and a dropper of its queue.
LEMMA JudgedType ==
  ASSUME PartsOK(meters, droppers, last_priority), queues \in [Queues -> Seq(QueuedPackets)],
         NEW p \in QueuedPackets, OutPort(p) \in Ports, NEW now \in Nat
  PROVE  Metered(p, now) \in [Queues -> Meters] /\ Judged(p, now) \in [Droppers -> ADropper]
  <1>1. PICK i : i = PacketMeter(p)
    OBVIOUS
  <1>2. i \in Queues
    BY <1>1, IndexFacts DEF PacketMeter, QueuedPackets
  <1>3. Metered(p, now) \in [Queues -> Meters]
    <2>1. PICK m \in Meters : m = meters[i]
      BY <1>2 DEF PartsOK
    <2>2. p.size \in Nat /\ MeterTicks(p) \in Nat \ {0}
      <3>1. PICK t \in Nat \ {0} : t = Ticks[OutPort(p)]
        BY SwitchAssumption
      <3> QED
        BY <3>1 DEF MeterTicks, NUM_QOS_LEVEL, QueuedPackets
    <2>3. PICK m2 \in Meters : m2 = MeterUpdate(m, p.size, now, MeterTicks(p))
      BY <2>2, MeterType
    <2>4. Metered(p, now) = [meters EXCEPT ![i] = m2]
      BY ONLY <1>1, <2>1, <2>3 DEF Metered
    <2> QED
      BY <1>2, <2>4 DEF PartsOK
  <1>4. Judged(p, now) \in [Droppers -> ADropper]
    <2>1. PICK j : j = DropperOf(p, now)
      OBVIOUS
    <2>2. j \in Droppers
      BY <1>1, <1>2, <2>1, DropperIndexFacts DEF DropperOf
    <2>3. PICK d \in ADropper : d = droppers[j]
      BY <2>2 DEF PartsOK
    <2>4. PICK qlen \in Nat : qlen = QueueLength(p)
      BY <1>1, <1>2 DEF QueueLength
    <2>5. PICK d2 \in ADropper : d2 = DropperUpdate(d, qlen, now)
      BY DropperType
    <2>6. Judged(p, now) = IF Considered(p, now) THEN [droppers EXCEPT ![j] = d2] ELSE droppers
      BY ONLY <2>1, <2>3, <2>4, <2>5 DEF Judged
    <2> QED
      BY <2>2, <2>6 DEF PartsOK
  <1> QED
    BY <1>3, <1>4

\* The stamp of a queue that has run empty falls on droppers of the switch,
\* if not on those of that queue.
LEMMA StampedType ==
  ASSUME NEW qs, NEW ds \in [Droppers -> ADropper], NEW port \in Ports, NEW now \in Nat,
         NextLevel(qs, port) \in Levels
  PROVE  Stamped(qs, ds, port, now) \in [Droppers -> ADropper]
  <1>1. PICK level \in {0, 1, 2} : level = NextLevel(qs, port)
    BY IndexFacts
  <1>2. PICK i : i = StampedDropper(port, level)
    OBVIOUS
  <1>3. i \in Droppers /\ i + 1 \in Droppers
    <2>1. NumPorts \in Nat /\ port \in Nat /\ port <= NumPorts - 1
      BY SwitchAssumption DEF Ports
    <2> QED
      BY ONLY <1>2, <2>1, level \in {0, 1, 2} DEF StampedDropper, Droppers, NUM_QOS_LEVEL
  <1>4. \A j \in Droppers : DropperTimeUpdate(ds[j], now) \in ADropper
    BY DEF DropperTimeUpdate, ADropper
  <1>5. PICK d1 \in ADropper : d1 = DropperTimeUpdate(ds[i], now)
    BY <1>3, <1>4
  <1>6. PICK ds1 : ds1 = [ds EXCEPT ![i] = d1]
    OBVIOUS
  <1>7. ds1 \in [Droppers -> ADropper]
    BY <1>3, <1>6
  <1>8. PICK d2 \in ADropper : d2 = DropperTimeUpdate(ds1[i + 1], now)
    BY <1>3, <1>7 DEF DropperTimeUpdate, ADropper
  <1>9. [ds1 EXCEPT ![i + 1] = d2] \in [Droppers -> ADropper]
    BY <1>3, <1>7
  <1>10. Stamped(qs, ds, port, now) = IF Emptied(qs, port) THEN [ds1 EXCEPT ![i + 1] = d2] ELSE ds
    BY ONLY <1>1, <1>2, <1>5, <1>6, <1>8 DEF Stamped, DropperTimeUpdate
  <1> QED
    BY <1>9, <1>10

\* Serving a port remembers a class.
LEMMA LastType ==
  ASSUME last_priority \in [Ports -> Levels \cup {-1}], NEW qs, NEW port \in Ports,
         Backlogged(qs, port)
  PROVE  /\ NextLevel(qs, port) \in Levels
         /\ [last_priority EXCEPT ![port] = NextLevel(qs, port)] \in [Ports -> Levels \cup {-1}]
  <1>1. NextLevel(qs, port) \in Levels
    BY NextLevelFacts
  <1> QED
    BY <1>1

\* handle_arrive_event leaves the parts what they are.
LEMMA ArriveParts ==
  ASSUME PartsOK(meters, droppers, last_priority), queues \in [Queues -> Seq(QueuedPackets)],
         NEW p, NEW time \in Nat, Arrive(p, time),
         p.dest # Self => p \in QueuedPackets /\ OutPort(p) \in Ports
  PROVE  PartsOK(meters', droppers', last_priority')
  <1>1. ASSUME p.dest # Self
        PROVE  /\ Metered(p, time) \in [Queues -> Meters]
               /\ Judged(p, time) \in [Droppers -> ADropper]
               /\ OutPort(p) \in Ports /\ Backlogged(Enqueued(p), OutPort(p))
    BY <1>1, JudgedType, EnqueuedFacts
  <1>2. last_priority \in [Ports -> Levels \cup {-1}]
    BY DEF PartsOK
  <1>3. CASE ArriveFinal(p, time)
    BY <1>3 DEF ArriveFinal, arrays
  <1>4. CASE ArriveDropped(p, time)
    BY <1>1, <1>2, <1>4 DEF ArriveDropped, PartsOK
  <1>5. CASE ArriveSendsNow(p, time)
    <2>1. PICK port, qs, ds : port = OutPort(p) /\ qs = Enqueued(p) /\ ds = Judged(p, time)
      OBVIOUS
    <2>2. /\ p.dest # Self /\ meters' = Metered(p, time)
          /\ droppers' = Stamped(qs, ds, port, time)
          /\ last_priority' = [last_priority EXCEPT ![port] = NextLevel(qs, port)]
      BY ONLY <1>5, <2>1 DEF ArriveSendsNow, SendNextPacket
    <2>3. port \in Ports /\ Backlogged(qs, port) /\ ds \in [Droppers -> ADropper]
          /\ meters' \in [Queues -> Meters]
      BY <1>1, <2>1, <2>2
    <2>4. NextLevel(qs, port) \in Levels /\ last_priority' \in [Ports -> Levels \cup {-1}]
      BY <1>2, <2>2, <2>3, LastType
    <2>5. droppers' \in [Droppers -> ADropper]
      BY <2>2, <2>3, <2>4, StampedType
    <2> QED
      BY <2>3, <2>4, <2>5 DEF PartsOK
  <1>6. CASE ArriveSchedulesSend(p, time) \/ ArriveJoinsQueue(p, time)
    <2>1. ArriveWaits(p, time)
      BY <1>6 DEF ArriveSchedulesSend, ArriveJoinsQueue
    <2> QED
      BY <1>1, <1>2, <2>1 DEF ArriveWaits, PartsOK
  <1> QED
    BY <1>3, <1>4, <1>5, <1>6 DEF Arrive

\* So does handle_send_event.
LEMMA SendParts ==
  ASSUME PartsOK(meters, droppers, last_priority), NEW port \in Ports, NEW time \in Nat,
         Send(port, time)
  PROVE  PartsOK(meters', droppers', last_priority')
  <1>1. CASE SendLast(port, time) \/ SendOneOfMany(port, time)
    <2>1. /\ Backlogged(queues, port) /\ meters' = meters
          /\ droppers' = Stamped(queues, droppers, port, time)
          /\ last_priority' = [last_priority EXCEPT ![port] = NextLevel(queues, port)]
      BY <1>1 DEF SendLast, SendOneOfMany, SendNextPacket
    <2>2. /\ droppers \in [Droppers -> ADropper] /\ meters' \in [Queues -> Meters]
          /\ last_priority \in [Ports -> Levels \cup {-1}]
      BY <2>1 DEF PartsOK
    <2>3. NextLevel(queues, port) \in Levels /\ last_priority' \in [Ports -> Levels \cup {-1}]
      BY <2>1, <2>2, LastType
    <2>4. droppers' \in [Droppers -> ADropper]
      BY <2>1, <2>2, <2>3, StampedType
    <2> QED
      BY <2>2, <2>3, <2>4 DEF PartsOK
  <1>2. CASE SendPostponed(port, time)
    BY <1>2 DEF SendPostponed
  <1> QED
    BY <1>1, <1>2 DEF Send

\* Serving a port moves no packet to another queue.
LEMMA ServeAtHome ==
  ASSUME NEW qs \in [Queues -> Seq(QueuedPackets)], NEW port \in Ports, Backlogged(qs, port),
         AtHome(qs)
  PROVE  AtHome(Serve(qs, port))
  <1>1. PICK i, qs2 : i = MeterIndex(port, NextLevel(qs, port)) /\ qs2 = Serve(qs, port)
    OBVIOUS
  <1>2. /\ i \in Queues /\ qs2[i] = Tail(qs[i])
        /\ \A j \in Queues : j # i => qs2[j] = qs[j]
    BY <1>1, ServeFacts
  <1>3. qs[i] # <<>>
    BY <1>1, NextLevelFacts
  <1>4. ASSUME NEW other \in Ports, NEW level \in Levels, NEW k \in DOMAIN qs2[MeterIndex(other, level)]
        PROVE  OutPort(qs2[MeterIndex(other, level)][k]) = other
    <2>1. PICK j \in Queues : j = MeterIndex(other, level)
      BY IndexFacts
    <2>2. \A l \in DOMAIN qs[j] : OutPort(qs[j][l]) = other
      BY <2>1 DEF AtHome
    <2>3. CASE j = i
      <3>1. PICK queue \in Seq(QueuedPackets) : queue = qs[j]
        OBVIOUS
      <3>2. k \in DOMAIN Tail(queue) /\ queue # <<>>
        BY <1>2, <1>3, <1>4, <2>1, <2>3, <3>1
      <3>3. k + 1 \in DOMAIN queue /\ Tail(queue)[k] = queue[k + 1]
        BY ONLY <3>2, queue \in Seq(QueuedPackets)
      <3> QED
        BY <1>2, <2>1, <2>2, <2>3, <3>1, <3>3
    <2>4. CASE j # i
      BY <1>2, <1>4, <2>1, <2>2, <2>4
    <2> QED
      BY <2>3, <2>4
  <1> QED
    BY ONLY <1>1, <1>4 DEF AtHome

\* An arriving packet is put into the queue of its port and class.
LEMMA EnqueueAtHome ==
  ASSUME queues \in [Queues -> Seq(QueuedPackets)], NEW p \in QueuedPackets, OutPort(p) \in Ports,
         AtHome(queues)
  PROVE  AtHome(Enqueued(p))
  <1>1. PICK port, i, qs : port = OutPort(p) /\ i = MeterIndex(port, p.type) /\ qs = Enqueued(p)
    OBVIOUS
  <1>2. /\ qs[i] = Append(queues[i], p)
        /\ \A j \in Queues : j # i => qs[j] = queues[j]
    BY <1>1, EnqueuedFacts
  <1>3. p.type \in Levels /\ port \in Ports
    BY <1>1 DEF QueuedPackets
  <1>4. ASSUME NEW other \in Ports, NEW level \in Levels, NEW k \in DOMAIN qs[MeterIndex(other, level)]
        PROVE  OutPort(qs[MeterIndex(other, level)][k]) = other
    <2>1. PICK j \in Queues : j = MeterIndex(other, level)
      BY IndexFacts
    <2>2. \A l \in DOMAIN queues[j] : OutPort(queues[j][l]) = other
      BY <2>1 DEF AtHome
    <2>3. CASE j = i
      <3>1. other = port
        BY ONLY <1>1, <1>3, <2>1, <2>3, OneQueue, other \in Ports, level \in Levels
      <3>2. PICK queue \in Seq(QueuedPackets) : queue = queues[j]
        OBVIOUS
      <3>3. k \in DOMAIN Append(queue, p)
        BY <1>2, <1>4, <2>1, <2>3, <3>2
      <3>4. k \in DOMAIN queue \/ k = Len(queue) + 1
        BY <3>3, AppendFacts
      <3>5. k \in DOMAIN queue => Append(queue, p)[k] = queue[k]
        BY AppendFacts
      <3>6. Append(queue, p)[Len(queue) + 1] = p
        BY AppendFacts
      <3> QED
        BY <1>1, <1>2, <2>1, <2>2, <2>3, <3>1, <3>2, <3>4, <3>5, <3>6
    <2>4. CASE j # i
      BY <1>2, <1>4, <2>1, <2>2, <2>4
    <2> QED
      BY <2>3, <2>4
  <1> QED
    BY ONLY <1>1, <1>4 DEF AtHome

\* An arriving packet keeps all types.
LEMMA ArriveKeepsParts ==
  ASSUME OrderInv, PartsInv, NEW o \in Offers, NEW time \in ArrivalTimes, RunArrive(o, time)
  PROVE  PartsInv'
  <1>1. PICK p : p = Packet(o, arrived + 1)
    OBVIOUS
  <1>2. /\ Arrive(p, time) /\ arrived' = arrived + 1 /\ clock' = time
        /\ time \in Nat /\ arrived < MaxArrivals
    BY <1>1, SequentialAssumption DEF RunArrive
  <1>3. /\ queues \in [Queues -> Seq(QueuedPackets)] /\ arrived \in Nat
        /\ PartsOK(meters, droppers, last_priority) /\ AtHome(queues)
    BY DEF OrderInv, ProtocolInv, PartsInv
  <1>4. p.dest # Self => p \in QueuedPackets /\ OutPort(p) \in Ports
    BY <1>1, <1>3, PacketFacts
  <1>5. PartsOK(meters', droppers', last_priority')
    BY <1>2, <1>3, <1>4, ArriveParts
  <1>6. AtHome(queues')
    <2>1. ASSUME p.dest # Self
          PROVE  /\ AtHome(Enqueued(p)) /\ Backlogged(Enqueued(p), OutPort(p))
                 /\ Enqueued(p) \in [Queues -> Seq(QueuedPackets)] /\ OutPort(p) \in Ports
      BY <1>3, <1>4, <2>1, EnqueueAtHome, EnqueuedFacts
    <2>2. \/ queues' = queues
          \/ p.dest # Self /\ queues' = Serve(Enqueued(p), OutPort(p))
          \/ p.dest # Self /\ queues' = Enqueued(p)
      BY <1>2, ArriveEffect
    <2> QED
      BY <1>3, <2>1, <2>2, ServeAtHome
  <1>7. arrived' <= MaxArrivals /\ clock' \in Nat
    BY <1>2, <1>3, SequentialAssumption
  <1> QED
    BY <1>5, <1>6, <1>7 DEF PartsInv

\* So does a SEND event.
LEMMA SendKeepsParts ==
  ASSUME OrderInv, PartsInv, NEW port \in Ports, NEW i \in DOMAIN pending[port], RunSend(port, i)
  PROVE  PartsInv'
  <1>1. PICK time : time = pending[port][i]
    OBVIOUS
  <1>2. Send(port, time) /\ arrived' = arrived /\ clock' = time
    BY <1>1 DEF RunSend
  <1>3. /\ queues \in [Queues -> Seq(QueuedPackets)] /\ pending \in [Ports -> Seq(Nat)]
        /\ PartsOK(meters, droppers, last_priority) /\ AtHome(queues) /\ arrived <= MaxArrivals
    BY DEF OrderInv, ProtocolInv, ClockInv, PartsInv
  <1>4. time \in Nat
    BY <1>1, <1>3, ElementOfSeq
  <1>5. PartsOK(meters', droppers', last_priority')
    BY <1>2, <1>3, <1>4, SendParts
  <1>6. AtHome(queues')
    BY <1>2, <1>3, SendEffect, ServeAtHome
  <1> QED
    BY <1>2, <1>3, <1>4, <1>5, <1>6 DEF PartsInv

(* All variables of a switch keep their types: no meter and no bucket        *)
(* overflows or is overdrawn, no average goes below zero, and every packet   *)
(* waits in the queue of its port and its class.                             *)
THEOREM SwitchIsTyped == Spec => []TypeOK
  <1>1. Init => PartsInv
    <2> SUFFICES ASSUME Init PROVE PartsInv
      OBVIOUS
    <2>1. /\ meters = [j \in Queues |-> FullMeter] /\ droppers = [j \in Droppers |-> NewDropper]
          /\ last_priority = [q \in Ports |-> -1] /\ queues = [j \in Queues |-> <<>>]
          /\ clock = 0 /\ arrived = 0
      BY DEF Init, SwitchInit
    <2>2. FullMeter \in Meters /\ NewDropper \in ADropper
      BY MeterAssumption DEF FullMeter, Meters, NewDropper, ADropper
    <2>3. AtHome(queues)
      BY <2>1, IndexFacts DEF AtHome
    <2> QED
      BY <2>1, <2>2, <2>3, SequentialAssumption DEF PartsInv, PartsOK
  <1>2. OrderInv /\ PartsInv /\ [Next]_vars => PartsInv'
    <2> SUFFICES ASSUME OrderInv, PartsInv, [Next]_vars PROVE PartsInv'
      OBVIOUS
    <2>1. CASE \E o \in Offers, time \in ArrivalTimes : RunArrive(o, time)
      BY <2>1, ArriveKeepsParts
    <2>2. CASE RunSomeSend
      BY <2>2, SendKeepsParts DEF RunSomeSend
    <2>3. CASE UNCHANGED vars
      BY <2>3 DEF vars, swvars, PartsInv
    <2> QED
      BY <2>1, <2>2, <2>3 DEF Next
  <1>3. OrderInv /\ PartsInv => TypeOK
    <2> SUFFICES ASSUME OrderInv, PartsInv PROVE TypeOK
      OBVIOUS
    <2>1. ASSUME NEW port \in Ports, NEW level \in Levels, NEW i \in DOMAIN queues[MeterIndex(port, level)]
          PROVE  LET p == queues[MeterIndex(port, level)][i]
                 IN  OutPort(p) = port /\ p.type = level /\ p.pid <= arrived
      BY <2>1 DEF OrderInv, Ordered, InLine, PartsInv, AtHome
    <2>2. arrived \in 0 .. MaxArrivals
      BY SequentialAssumption DEF OrderInv, ProtocolInv, PartsInv
    <2> QED
      BY <2>1, <2>2 DEF OrderInv, ProtocolInv, ClockInv, PartsInv, PartsOK, ADropper, TypeOK
  <1> QED
    BY <1>1, <1>2, <1>3, OrderInvHolds, PTL DEF Spec
=============================================================================
