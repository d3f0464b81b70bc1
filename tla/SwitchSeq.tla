------------------------------ MODULE SwitchSeq ------------------------------
(***************************************************************************)
(* A switch under the sequential event loop of the simulator (--sync=1):   *)
(* events are handled one at a time, in the order of their time stamps,    *)
(* and those with equal time stamps in any order.  Packets come from other *)
(* switches and terminals; the SEND events are the switch's own.           *)
(***************************************************************************)
EXTENDS SwitchAssumptions

CONSTANTS
  Offers,        \* the packets [dest, type, size] that may arrive
  ArrivalTimes,  \* bound: when they may arrive
  MaxArrivals    \* bound: how many arrive

ASSUME SequentialAssumption ==
  /\ Offers \subseteq [dest : DOMAIN Routing \cup {Self}, type : Levels, size : Nat \ {0}]
  /\ ArrivalTimes \subseteq Nat
  /\ MaxArrivals \in Nat

VARIABLES
  clock,     \* tw_now of the switch
  pending,   \* pending[port]: the time stamps of its pending SEND events
  arrived,   \* history: how many packets have arrived; they are numbered
  departed   \* history: the ARRIVE events sent to other switches

vars == <<swvars, clock, pending, arrived, departed>>

Init ==
  /\ SwitchInit
  /\ clock = 0
  /\ pending = [port \in Ports |-> <<>>]
  /\ arrived = 0
  /\ departed = <<>>

\* The next event to handle may have this time stamp.
IsNext(time) ==
  /\ time >= clock
  /\ \A port \in Ports : \A i \in DOMAIN pending[port] : time <= pending[port][i]

\* The time stamps of the SEND events for a port among the events sent.
Wakeups(sent, port) ==
  LET wake == {e \in sent : e.type = "SEND" /\ e.port = port}
  IN  IF wake = {} THEN <<>> ELSE <<(CHOOSE e \in wake : TRUE).at>>

Post(rest) ==
  /\ pending' = [port \in Ports |-> rest[port] \o Wakeups(done'.sent, port)]
  /\ departed' = LET out == {e \in done'.sent : e.type = "ARRIVE"}
                 IN  IF out = {} THEN departed
                     ELSE Append(departed, CHOOSE e \in out : TRUE)

\* The packets are generated at time 0.
Packet(o, pid) ==
  [pid |-> pid, dest |-> o.dest, type |-> o.type, size |-> o.size, send_time |-> 0]

RunArrive(o, time) ==
  /\ arrived < MaxArrivals
  /\ IsNext(time)
  /\ Arrive(Packet(o, arrived + 1), time)
  /\ clock' = time
  /\ arrived' = arrived + 1
  /\ Post(pending)

Delete(queue, i) == SubSeq(queue, 1, i - 1) \o SubSeq(queue, i + 1, Len(queue))

RunSend(port, i) ==
  /\ IsNext(pending[port][i])
  /\ Send(port, pending[port][i])
  /\ clock' = pending[port][i]
  /\ UNCHANGED arrived
  /\ Post([pending EXCEPT ![port] = Delete(@, i)])

RunSomeSend == \E port \in Ports : \E i \in DOMAIN pending[port] : RunSend(port, i)

Next ==
  \/ \E o \in Offers, time \in ArrivalTimes : RunArrive(o, time)
  \/ RunSomeSend

Spec == Init /\ [][Next]_vars

\* The loop does not stop while an event is pending (before g_tw_ts_end).
FairSpec == Spec /\ WF_vars(RunSomeSend)
-----------------------------------------------------------------------------
\* Types, and every queue holds packets of its own port and class.
TypeOK ==
  /\ meters \in [Queues -> Meters]
  /\ queues \in [Queues -> Seq(QueuedPackets)]
  /\ \A port \in Ports, level \in Levels :
       LET queue == queues[MeterIndex(port, level)]
       IN  \A i \in DOMAIN queue :
             OutPort(queue[i]) = port /\ queue[i].type = level /\ queue[i].pid <= arrived
  /\ droppers \in [Droppers -> [avg : Nat, q_time : Nat]]
  /\ shapers \in [Ports -> Bucket]
  /\ last_priority \in [Ports -> Levels \cup {-1}]
  /\ port_flags \in [Ports -> {0, 1}]
  /\ ports_available_time \in [Ports -> Nat]
  /\ clock \in Nat
  /\ pending \in [Ports -> Seq(Nat)]
  /\ arrived \in 0 .. MaxArrivals

(***************************************************************************)
(* The protocol between the two handlers.  port_flags of a port says that  *)
(* exactly one SEND event is pending for it, and that is the case exactly  *)
(* when one of its queues holds a packet.  So no packet is ever stranded   *)
(* in a queue that nobody will serve, a port never has two self-triggering *)
(* chains of SEND events, and a SEND event never meets an empty port       *)
(* (the assertion of network_switch.c:454).                                *)
(***************************************************************************)
PortProtocol ==
  \A port \in Ports :
    /\ Len(pending[port]) = port_flags[port]
    /\ port_flags[port] = 1 <=> Backlogged(queues, port)

(***************************************************************************)
(* An event is always sent into the future (the assertions of              *)
(* network_switch.c:344 and 528), otherwise simulated time could not go on.*)
(***************************************************************************)
SendDelayPositive == \A e \in done.sent : e.at > clock

\* The pids of the packets of a queue, of the records, and of the events sent.
Pids(queue)   == {queue[i].pid : i \in DOMAIN queue}
Recorded      == {stats.records[i].pid : i \in DOMAIN stats.records}
OnTheWire     == {departed[i].packet.pid : i \in DOMAIN departed}
Waiting       == UNION {Pids(queues[i]) : i \in Queues}

(***************************************************************************)
(* Packets are conserved.  A packet that arrived is in one queue, or has   *)
(* been sent on once, or is recorded once as received or dropped; the      *)
(* counter of forwarded packets agrees, and the array has room for the     *)
(* records.                                                                *)
(***************************************************************************)
Conservation ==
  /\ Waiting \cup OnTheWire \cup Recorded = 1 .. arrived
  /\ Cardinality(Waiting) + Len(departed) + Len(stats.records) = arrived
  /\ stats.received = Cardinality(Waiting) + Len(departed) + stats.num_packets_dropped
  /\ Len(stats.records) <= stats.records_capacity

(***************************************************************************)
(* A port puts one packet at a time on its wire: the injection of a packet *)
(* starts after the injection of the packet before it has ended, although  *)
(* the shaper lets bursts of packets through at once.                      *)
(***************************************************************************)
OneAtATime ==
  \A i, j \in DOMAIN departed :
    i < j /\ departed[i].port = departed[j].port =>
      departed[i].at + InjectionDelay(departed[j].packet.size, departed[j].port)
        <= departed[j].at

(***************************************************************************)
(* Packets of one class leave a port, and reach the next switch, in the    *)
(* order in which they arrived.                                            *)
(***************************************************************************)
InOrder ==
  \A i, j \in DOMAIN departed :
    /\ i < j
    /\ departed[i].port = departed[j].port
    /\ departed[i].packet.type = departed[j].packet.type
    => /\ departed[i].packet.pid < departed[j].packet.pid
       /\ departed[i].at < departed[j].at

(***************************************************************************)
(* A pending SEND event comes no later than the shaper allows: at no       *)
(* moment before it has the port earned the tokens for its next packet.    *)
(* So the port never idles with a packet to send and the tokens to send    *)
(* it.  This is for packets of equal size; a small urgent packet that      *)
(* overtakes a large one has to wait for the SEND event of the large one.  *)
(***************************************************************************)
NeverLate ==
  \A port \in Ports : \A i \in DOMAIN pending[port] :
    \A time \in clock .. pending[port][i] - 1 :
      ~ Ready(Refill(shapers[port], time, Ticks[port]), NextPacket(queues, port).size)

(***************************************************************************)
(* The comments of network_switch.c:138, "to be decided by the routing     *)
(* table", and 263, "enqueue the node and modify the routing info of the   *)
(* enqueued node": a packet leaves for the next hop that the routing table *)
(* gives for its own destination, whichever handler sends it.              *)
(***************************************************************************)
LeavesByTable ==
  \A i \in DOMAIN departed : departed[i].to = NextHop(departed[i].packet)

(***************************************************************************)
(* Every packet that is queued is sent on, once packets stop arriving.     *)
(***************************************************************************)
Drains == <>[](\A i \in Queues : queues[i] = <<>>)
=============================================================================
