------------------------------- MODULE Switch -------------------------------
(***************************************************************************)
(* One switch of model/network_switch.c: its state, and one action for     *)
(* every way through the handlers of its two events and through their      *)
(* reverse handlers.  When each event is handled, and whether it is undone *)
(* again, is decided by the simulator: SwitchSeq and SwitchTW compose      *)
(* these actions with its sequential and its optimistic loop.              *)
(*                                                                         *)
(* A packet is a record [pid, dest, type, size, send_time].                *)
(***************************************************************************)
EXTENDS TokenBucket, Meter, Dropper, Stats, StrictPriority, FiniteSets

CONSTANTS
  Self,               \* lp->gid
  NumPorts,           \* s->num_ports
  Ticks,              \* Ticks[port]: ticks the port needs for one bit
  PropagationDelay,   \* propagation_delay
  QueueCapacity,      \* QueueCapacity[level]: queue_capacity_0, _1 and _2
  Routing,            \* Routing[dest] = [port_id, nextHop]
  Unset               \* a field that the handler has not written

Ports == 0 .. NumPorts - 1
Queues == 0 .. NUM_QOS_LEVEL * NumPorts - 1    \* and meters
Droppers == 0 .. 2 * NUM_QOS_LEVEL * NumPorts - 1

\* The packets that have a route.
QueuedPackets ==
  [pid : Nat, dest : DOMAIN Routing, type : Levels, size : Nat \ {0}, send_time : Nat]

VARIABLES
  meters, queues, droppers,      \* meter_list, qos_queue_list, dropper_list
  shapers, last_priority,        \* shaper_list, scheduler_list[.].last_priority
  port_flags, ports_available_time,
  stats,
  done   \* what the handler leaves with its event: the bit field, the fields
         \* of qos_state_snapshot, and the events it sends

arrays  == <<meters, queues, droppers, shapers, last_priority>>
ports   == <<port_flags, ports_available_time>>
swvars  == <<meters, queues, droppers, shapers, last_priority,
             port_flags, ports_available_time, stats, done>>

\* switch_init
SwitchInit ==
  /\ meters = [i \in Queues |-> FullMeter]
  /\ queues = [i \in Queues |-> <<>>]
  /\ droppers = [i \in Droppers |-> NewDropper]
  /\ shapers = [port \in Ports |-> FullBucket]
  /\ last_priority = [port \in Ports |-> -1]
  /\ port_flags = [port \in Ports |-> 0]
  /\ ports_available_time = [port \in Ports |-> 0]
  /\ stats = NewStats
  /\ done = [bf |-> {}, sent |-> {}]
-----------------------------------------------------------------------------
(* Policing: what handle_arrive_event does before it queues a packet p.    *)

OutPort(p) == Routing[p.dest].port_id
PacketMeter(p) == MeterIndex(OutPort(p), p.type)

\* The committed information rate is a third of the port's bandwidth.
MeterTicks(p) == NUM_QOS_LEVEL * Ticks[OutPort(p)]

PacketColor(p, now) == MeterColor(meters[PacketMeter(p)], p.size, now, MeterTicks(p))

\* The queue has no room for p.
Overfull(p) ==
  Bytes(queues[PacketMeter(p)]) + p.size > QueueCapacity[p.type]

\* p is put before the yellow or the green dropper of its queue.
Considered(p, now) == PacketColor(p, now) # "red" /\ ~ Overfull(p)

YellowOf(i) == 2 * i
GreenOf(i)  == 2 * i + 1
DropperOf(p, now) ==
  IF PacketColor(p, now) = "yellow" THEN YellowOf(PacketMeter(p)) ELSE GreenOf(PacketMeter(p))
OtherOf(p, now) ==
  IF PacketColor(p, now) = "yellow" THEN GreenOf(PacketMeter(p)) ELSE YellowOf(PacketMeter(p))

Maxth(p, now) ==
  IF PacketColor(p, now) = "yellow" THEN YellowMaxth(QueueCapacity[p.type])
                                    ELSE GreenMaxth(QueueCapacity[p.type])

QueueLength(p) == Len(queues[PacketMeter(p)])

Dropped(p, now) ==
  Considered(p, now) =>
    Drops(droppers[DropperOf(p, now)], QueueLength(p), now, Maxth(p, now))

\* The droppers after the decision, and the meters.
Judged(p, now) ==
  IF Considered(p, now)
  THEN [droppers EXCEPT ![DropperOf(p, now)] = DropperUpdate(@, QueueLength(p), now)]
  ELSE droppers

Metered(p, now) ==
  [meters EXCEPT ![PacketMeter(p)] = MeterUpdate(@, p.size, now, MeterTicks(p))]

\* The fields c5 and c6, and what is saved of the meter and the droppers.
PolicingBits(p, now) ==
  IF ~ Considered(p, now) THEN {}
  ELSE IF PacketColor(p, now) = "yellow" THEN {"c5"} ELSE {"c6"}

SavedDropper(p, now) == IF Considered(p, now) THEN droppers[DropperOf(p, now)] ELSE Unset
SavedTime(p, now) == IF Considered(p, now) THEN droppers[OtherOf(p, now)].q_time ELSE Unset

PolicingSnapshot(p, now) ==
  [meter_index |-> PacketMeter(p), meter_state |-> meters[PacketMeter(p)],
   dropper_state |-> SavedDropper(p, now), dropper_q_time |-> SavedTime(p, now)]

\* Fault: the packet is put before those that wait.
EnqueuedAtHead(p) == [queues EXCEPT ![PacketMeter(p)] = <<p>> \o @]
Enqueued(p) == [queues EXCEPT ![PacketMeter(p)] = Append(@, p)]
-----------------------------------------------------------------------------
(* Sending: what both forward handlers do with the queues qs of a port     *)
(* that has a backlog, ds being the droppers at that point.                *)

Refilled(port, now) == Refill(shapers[port], now, Ticks[port])

ReadyToSend(qs, port, now) == Ready(Refilled(port, now), NextPacket(qs, port).size)

InjectionDelay(size, port) == size * BitsPerByte * Ticks[port]

\* Faults: the packet that is still being injected is not waited for; the
\* injection begins when the port became free, though that is long ago.
InjectedAtOnce(qs, port, now) ==
  now + InjectionDelay(NextPacket(qs, port).size, port)

InjectedWhenFree(qs, port, now) ==
  ports_available_time[port] + InjectionDelay(NextPacket(qs, port).size, port)

\* When the port has put the next packet on the wire.
InjectedAt(qs, port, now) ==
  Most(now, ports_available_time[port]) + InjectionDelay(NextPacket(qs, port).size, port)

\* The next hop that the routing table gives a packet.
NextHop(p) == Routing[p.dest].nextHop

\* Fault: the packet is sent to its destination, not to the next hop.
DepartureToDestination(qs, port, hop, now) ==
  [type |-> "ARRIVE", port |-> port, packet |-> NextPacket(qs, port),
   to |-> NextPacket(qs, port).dest,
   at |-> InjectedAt(qs, port, now) + PropagationDelay]

\* The next packet as it is sent to the switch hop.  handle_send_event takes the
\* next hop of that packet; handle_arrive_event that of the packet that arrived.
Departure(qs, port, hop, now) ==
  [type |-> "ARRIVE", port |-> port, packet |-> NextPacket(qs, port), to |-> hop,
   at |-> InjectedAt(qs, port, now) + PropagationDelay]

\* The droppers that are told when the served queue has run empty.
StampedDropper(port, level) == level + port * NUM_QOS_LEVEL * 2

Emptied(qs, port) ==
  Serve(qs, port)[MeterIndex(port, NextLevel(qs, port))] = <<>>

Stamped(qs, ds, port, now) ==
  LET i == StampedDropper(port, NextLevel(qs, port))
  IN  IF Emptied(qs, port)
      THEN [ds EXCEPT ![i] = DropperTimeUpdate(@, now), ![i + 1] = DropperTimeUpdate(@, now)]
      ELSE ds

SendNextPacket(qs, ds, port, now) ==
  /\ queues' = Serve(qs, port)
  /\ droppers' = Stamped(qs, ds, port, now)
  /\ shapers' = [shapers EXCEPT ![port] =
                   Consume(Refilled(port, now), NextPacket(qs, port).size, now, Ticks[port])]
  /\ last_priority' = [last_priority EXCEPT ![port] = NextLevel(qs, port)]
  /\ ports_available_time' = [ports_available_time EXCEPT ![port] = InjectedAt(qs, port, now)]

\* What sp_update saves.
SavedScheduler(qs, port) ==
  [last_priority |-> NextLevel(qs, port), packet |-> NextPacket(qs, port)]

\* The SEND event that the switch schedules to itself.
Wakeup(bucket, qs, port) ==
  [type |-> "SEND", port |-> port,
   at |-> NextAvailableTime(bucket, NextPacket(qs, port).size, Ticks[port])]
-----------------------------------------------------------------------------
(* handle_arrive_event                                                     *)

WaitingSnapshot(p, now) ==
  [meter_index |-> PacketMeter(p), meter_state |-> meters[PacketMeter(p)],
   dropper_state |-> SavedDropper(p, now), dropper_q_time |-> SavedTime(p, now),
   shaper_state |-> shapers[OutPort(p)]]

SendingSnapshot(p, now) ==
  [meter_index |-> PacketMeter(p), meter_state |-> meters[PacketMeter(p)],
   dropper_state |-> SavedDropper(p, now), dropper_q_time |-> SavedTime(p, now),
   shaper_state |-> shapers[OutPort(p)],
   scheduler_state |-> SavedScheduler(Enqueued(p), OutPort(p)),
   port_available_time_rc |-> ports_available_time[OutPort(p)]]

\* The packet is for a terminal of this switch.
ArriveFinal(p, now) ==
  /\ p.dest = Self
  /\ stats' = UpdateStats(stats, p.pid, now - p.send_time, FALSE)
  /\ done' = [bf |-> {"c0"}, sent |-> {}]
  /\ UNCHANGED <<arrays, ports>>

ArriveDropped(p, now) ==
  /\ p.dest # Self
  /\ Dropped(p, now)
  /\ meters' = Metered(p, now)
  /\ droppers' = Judged(p, now)
  /\ stats' = UpdateStats([stats EXCEPT !.received = @ + 1], p.pid, 0, TRUE)
  /\ done' = [bf |-> PolicingBits(p, now) \cup {"c1"}, sent |-> {},
              saved |-> PolicingSnapshot(p, now)]
  /\ UNCHANGED <<queues, shapers, last_priority, ports>>

\* The packet is queued, and the shaper lets the port send at once: the packet
\* that the scheduler picks, to the next hop of the one that arrived.
ArriveSendsNow(p, now) ==
  LET port == OutPort(p)
      qs   == Enqueued(p)
  IN  /\ p.dest # Self
      /\ ~ Dropped(p, now)
      /\ ReadyToSend(qs, port, now)
      /\ meters' = Metered(p, now)
      /\ SendNextPacket(qs, Judged(p, now), port, now)
      /\ stats' = [stats EXCEPT !.received = @ + 1, !.num_packets_sent = @ + 1]
      /\ done' = [bf |-> PolicingBits(p, now) \cup {"c2"}, port_id |-> port,
                  saved |-> SendingSnapshot(p, now),
                  sent |-> {Departure(qs, port, NextHop(p), now)}]
      /\ UNCHANGED port_flags

\* The packet is queued and has to wait: what both cases below have in common.
ArriveWaits(p, now) ==
  /\ p.dest # Self
  /\ ~ Dropped(p, now)
  /\ ~ ReadyToSend(Enqueued(p), OutPort(p), now)
  /\ meters' = Metered(p, now)
  /\ droppers' = Judged(p, now)
  /\ queues' = Enqueued(p)
  /\ shapers' = [shapers EXCEPT ![OutPort(p)] = Refilled(OutPort(p), now)]
  /\ stats' = [stats EXCEPT !.received = @ + 1]
  /\ UNCHANGED <<last_priority, ports_available_time>>

\* No SEND event is pending for the port, so schedule one.
ArriveSchedulesSend(p, now) ==
  LET port == OutPort(p)
  IN  /\ ArriveWaits(p, now)
      /\ port_flags[port] = 0
      /\ port_flags' = [port_flags EXCEPT ![port] = 1]
      /\ done' = [bf |-> PolicingBits(p, now) \cup {"c3"}, port_id |-> port,
                  saved |-> WaitingSnapshot(p, now),
                  sent |-> {Wakeup(Refilled(port, now), Enqueued(p), port)}]

ArriveJoinsQueue(p, now) ==
  /\ ArriveWaits(p, now)
  /\ port_flags[OutPort(p)] # 0
  /\ done' = [bf |-> PolicingBits(p, now), port_id |-> OutPort(p),
              saved |-> WaitingSnapshot(p, now), sent |-> {}]
  /\ UNCHANGED port_flags

Arrive(p, now) ==
  \/ ArriveFinal(p, now)
  \/ ArriveDropped(p, now)
  \/ ArriveSendsNow(p, now)
  \/ ArriveSchedulesSend(p, now)
  \/ ArriveJoinsQueue(p, now)
-----------------------------------------------------------------------------
(* handle_send_event.  It asserts that the port has a backlog.             *)

\* c2 and dropper_q_time are set when the served queue has run empty.
EmptiedBits(port) == IF Emptied(queues, port) THEN {"c2"} ELSE {}

SavedStamp(port) ==
  IF Emptied(queues, port)
  THEN droppers[StampedDropper(port, NextLevel(queues, port))].q_time
  ELSE Unset

SendSnapshot(port) ==
  [shaper_state |-> shapers[port], scheduler_state |-> SavedScheduler(queues, port),
   port_available_time_rc |-> ports_available_time[port], dropper_q_time |-> SavedStamp(port)]

\* The next packet goes to its own next hop, which it was queued with.
OwnDeparture(port, now) == Departure(queues, port, NextHop(NextPacket(queues, port)), now)

\* The port will not trigger itself any more.  Fault: it still says so.
FlagKept(port)    == port_flags
FlagCleared(port) == [port_flags EXCEPT ![port] = 0]

\* A packet is sent, and nothing is left for the port to send.
SendLast(port, now) ==
  /\ Backlogged(queues, port)
  /\ ReadyToSend(queues, port, now)
  /\ ~ Backlogged(Serve(queues, port), port)
  /\ SendNextPacket(queues, droppers, port, now)
  /\ port_flags' = FlagCleared(port)
  /\ done' = [bf |-> {"c0", "c1"} \cup EmptiedBits(port), port_id |-> port,
              saved |-> SendSnapshot(port), sent |-> {OwnDeparture(port, now)}]
  /\ UNCHANGED <<meters, stats>>

\* A packet is sent, and the next one is put off.
SendOneOfMany(port, now) ==
  /\ Backlogged(queues, port)
  /\ ReadyToSend(queues, port, now)
  /\ Backlogged(Serve(queues, port), port)
  /\ SendNextPacket(queues, droppers, port, now)
  /\ done' = [bf |-> {"c0"} \cup EmptiedBits(port), port_id |-> port,
              saved |-> SendSnapshot(port),
              sent |-> {OwnDeparture(port, now),
                        Wakeup(shapers'[port], Serve(queues, port), port)}]
  /\ UNCHANGED <<meters, port_flags, stats>>

\* The next SEND event.  Faults: none is scheduled; it is scheduled for now.
NotPostponed(port, now) == {}
PostponedToNow(port, now) == {[type |-> "SEND", port |-> port, at |-> now]}
Postponed(port, now)    == {Wakeup(Refilled(port, now), queues, port)}

\* The shaper is not ready for the next packet, which is put off.
SendPostponed(port, now) ==
  /\ Backlogged(queues, port)
  /\ ~ ReadyToSend(queues, port, now)
  /\ shapers' = [shapers EXCEPT ![port] = Refilled(port, now)]
  /\ done' = [bf |-> {}, port_id |-> port, saved |-> [shaper_state |-> shapers[port]],
              sent |-> Postponed(port, now)]
  /\ UNCHANGED <<meters, queues, droppers, last_priority, ports, stats>>

Send(port, now) ==
  \/ SendLast(port, now)
  \/ SendOneOfMany(port, now)
  \/ SendPostponed(port, now)
-----------------------------------------------------------------------------
(* handle_arrive_event_rc and handle_send_event_rc, given what the forward *)
(* handler left with its event.                                            *)

PolicingReverse(m) ==
  LET i == m.saved.meter_index
  IN  /\ meters' = [meters EXCEPT ![i] = m.saved.meter_state]
      /\ droppers' =
           IF "c5" \in m.bf
           THEN [droppers EXCEPT ![YellowOf(i)] = m.saved.dropper_state,
                                 ![GreenOf(i)].q_time = m.saved.dropper_q_time]
           ELSE IF "c6" \in m.bf
           THEN [droppers EXCEPT ![GreenOf(i)] = m.saved.dropper_state,
                                 ![YellowOf(i)].q_time = m.saved.dropper_q_time]
           ELSE droppers

ArriveFinalReverse(m) ==
  /\ "c0" \in m.bf
  /\ stats' = UpdateStatsReverse(stats)
  /\ UNCHANGED <<arrays, ports>>

ArriveDroppedReverse(m) ==
  /\ "c0" \notin m.bf /\ "c1" \in m.bf
  /\ PolicingReverse(m)
  /\ stats' = UpdateStatsReverse([stats EXCEPT !.received = @ - 1])
  /\ UNCHANGED <<queues, shapers, last_priority, ports>>

\* The dequeue is undone before the enqueue.  Fault: after it.
QueuesReversedSwapped(m) ==
  LET qs == [queues EXCEPT ![m.saved.meter_index] = SubSeq(@, 1, Len(@) - 1)]
  IN  IF "c2" \in m.bf THEN ServeReverse(qs, m.port_id, m.saved.scheduler_state) ELSE qs
QueuesReversed(m) ==
  LET qs == IF "c2" \in m.bf
            THEN ServeReverse(queues, m.port_id, m.saved.scheduler_state) ELSE queues
  IN  [qs EXCEPT ![m.saved.meter_index] = SubSeq(@, 1, Len(@) - 1)]

\* Fault: the flag stays set.
FlagsNotReversed(m) == port_flags
FlagsReversed(m) ==
  IF "c3" \in m.bf THEN [port_flags EXCEPT ![m.port_id] = 0] ELSE port_flags

ArriveQueuedReverse(m) ==
  /\ "c0" \notin m.bf /\ "c1" \notin m.bf
  /\ PolicingReverse(m)
  /\ stats' = [stats EXCEPT !.received = @ - 1,
                            !.num_packets_sent = IF "c2" \in m.bf THEN @ - 1 ELSE @]
  /\ ports_available_time' =
       IF "c2" \in m.bf
       THEN [ports_available_time EXCEPT ![m.port_id] = m.saved.port_available_time_rc]
       ELSE ports_available_time
  /\ port_flags' = FlagsReversed(m)
  /\ shapers' = [shapers EXCEPT ![m.port_id] = m.saved.shaper_state]
  /\ queues' = QueuesReversed(m)
  /\ UNCHANGED last_priority

ArriveReverse(m) ==
  ArriveFinalReverse(m) \/ ArriveDroppedReverse(m) \/ ArriveQueuedReverse(m)

\* The droppers are found through the scheduler's last_priority, which no
\* reverse handler restores.
SendReverse(m) ==
  LET port == m.port_id
      i    == StampedDropper(port, last_priority[port])
  IN  /\ shapers' = [shapers EXCEPT ![port] = m.saved.shaper_state]
      /\ droppers' =
           IF {"c0", "c2"} \subseteq m.bf
           THEN [droppers EXCEPT ![i].q_time = m.saved.dropper_q_time,
                                 ![i + 1].q_time = m.saved.dropper_q_time]
           ELSE droppers
      /\ queues' =
           IF "c0" \in m.bf THEN ServeReverse(queues, port, m.saved.scheduler_state) ELSE queues
      /\ ports_available_time' =
           IF "c0" \in m.bf
           THEN [ports_available_time EXCEPT ![port] = m.saved.port_available_time_rc]
           ELSE ports_available_time
      /\ port_flags' = IF "c1" \in m.bf THEN [port_flags EXCEPT ![port] = 1] ELSE port_flags
      /\ UNCHANGED <<meters, last_priority, stats>>
=============================================================================
