------------------------------ MODULE SwitchTW ------------------------------
(***************************************************************************)
(* A switch under the optimistic loop of the simulator (Time Warp,         *)
(* --sync=3), which handles events as they come.  An event that arrives    *)
(* too late, or the cancellation of one that was handled already, rolls    *)
(* the switch back: the last events are undone one by one, latest first,   *)
(* by the reverse handlers, and the events they had sent are cancelled.    *)
(***************************************************************************)
EXTENDS SwitchAssumptions

CONSTANTS
  Offers,        \* the packets [dest, type, size] that may arrive
  ArrivalTimes,  \* bound: the time stamps of their ARRIVE events
  MaxArrivals,   \* bound: how many arrive
  MaxCancels     \* bound: how many of them the senders take back

ASSUME OptimisticAssumption ==
  /\ Offers \subseteq [dest : DOMAIN Routing \cup {Self}, type : Levels, size : Nat \ {0}]
  /\ ArrivalTimes \subseteq Nat
  /\ MaxArrivals \in Nat /\ MaxCancels \in Nat

VARIABLES
  inbox,     \* events received and not handled, or undone
  log,       \* events handled and not undone, each with what it left behind
             \* and (history) the switch and its SEND events before it
  doomed,    \* events in log whose senders have cancelled them
  arrived,   \* history: how many packets have arrived; they are numbered
  cancelled  \* history: how many cancellations have arrived

vars == <<swvars, inbox, log, doomed, arrived, cancelled>>

Init ==
  /\ SwitchInit
  /\ inbox = {} /\ log = <<>> /\ doomed = {}
  /\ arrived = 0 /\ cancelled = 0

LocalTime == IF log = <<>> THEN 0 ELSE log[Len(log)].event.at

RollbackDue == doomed # {} \/ \E e \in inbox : e.at < LocalTime

Packet(o, pid) ==
  [pid |-> pid, dest |-> o.dest, type |-> o.type, size |-> o.size, send_time |-> 0]

\* An ARRIVE event comes in, possibly with a time stamp in the past.
Receive(o, time) ==
  /\ arrived < MaxArrivals
  /\ ~ RollbackDue
  /\ arrived' = arrived + 1
  /\ inbox' = inbox \cup {[type |-> "ARRIVE", packet |-> Packet(o, arrived + 1), at |-> time]}
  /\ UNCHANGED <<swvars, log, doomed, cancelled>>

\* The sender of an ARRIVE event has been rolled back itself.
Cancel(pid) ==
  /\ cancelled < MaxCancels
  /\ ~ RollbackDue
  /\ cancelled' = cancelled + 1
  /\ LET its(e) == e.type = "ARRIVE" /\ e.packet.pid = pid
     IN  \/ /\ \E e \in inbox : its(e)
            /\ inbox' = {e \in inbox : ~ its(e)}
            /\ UNCHANGED doomed
         \/ \E i \in DOMAIN log :
              /\ its(log[i].event)
              /\ doomed' = {log[i].event}
              /\ UNCHANGED inbox
  /\ UNCHANGED <<swvars, log, arrived>>

\* The state of the switch that its results depend on.
View ==
  [meters |-> meters, queues |-> queues, droppers |-> droppers, shapers |-> shapers,
   port_flags |-> port_flags, ports_available_time |-> ports_available_time,
   stats |-> [stats EXCEPT !.records_capacity = MaxRecords]]

OwnEvents(events) == {e \in events : e.type = "SEND"}

Handle(e) ==
  /\ e \in inbox
  /\ ~ RollbackDue
  /\ \A other \in inbox : e.at <= other.at
  /\ \/ e.type = "ARRIVE" /\ Arrive(e.packet, e.at)
     \/ e.type = "SEND" /\ Send(e.port, e.at)
  /\ log' = Append(log, [event |-> e, done |-> done', before |-> View, due |-> OwnEvents(inbox)])
  /\ inbox' = (inbox \ {e}) \cup OwnEvents(done'.sent)
  /\ UNCHANGED <<doomed, arrived, cancelled>>

Undo ==
  /\ RollbackDue
  /\ LET last == log[Len(log)]
     IN  /\ \/ last.event.type = "ARRIVE" /\ ArriveReverse(last.done)
            \/ last.event.type = "SEND" /\ SendReverse(last.done)
         /\ inbox' = (inbox \ OwnEvents(last.done.sent)) \cup ({last.event} \ doomed)
         /\ doomed' = doomed \ {last.event}
  /\ log' = SubSeq(log, 1, Len(log) - 1)
  /\ done' = [bf |-> {}, sent |-> {}]
  /\ UNCHANGED <<arrived, cancelled>>

Next ==
  \/ \E o \in Offers, time \in ArrivalTimes : Receive(o, time)
  \/ \E pid \in 1 .. arrived : Cancel(pid)
  \/ \E e \in inbox : Handle(e)
  \/ Undo

Spec == Init /\ [][Next]_vars
-----------------------------------------------------------------------------
Undoing == Len(log') < Len(log)
UndoneEntry == log[Len(log)]

(***************************************************************************)
(* Rollback is exact: a reverse handler gives the switch back the state    *)
(* that its event found, whatever was handled and undone in between.  The  *)
(* time stamps of the droppers are left out, which the next properties are *)
(* about, and so is the size of the array of records (stats.c:40).         *)
(***************************************************************************)
ButForDropperTimes(view) ==
  [view EXCEPT !.droppers = [i \in Droppers |-> @[i].avg]]

RollbackRestores ==
  [][Undoing => ButForDropperTimes(View') = ButForDropperTimes(UndoneEntry.before)]_vars

(***************************************************************************)
(* The protocol between the two handlers survives rollbacks: a port has    *)
(* exactly one SEND event to come if its flag is set, and none otherwise,  *)
(* and its flag is set exactly when it has a backlog.                      *)
(***************************************************************************)
PortProtocol ==
  \A port \in Ports :
    /\ Cardinality({e \in inbox : e.type = "SEND" /\ e.port = port}) = port_flags[port]
    /\ port_flags[port] = 1 <=> Backlogged(queues, port)

(***************************************************************************)
(* Packets are conserved, at every point of a rollback: what was handled   *)
(* and not undone is in one queue, or in one event sent and not cancelled, *)
(* or in one record.                                                       *)
(***************************************************************************)
Pids(queue) == {queue[i].pid : i \in DOMAIN queue}
Waiting     == UNION {Pids(queues[i]) : i \in Queues}
Recorded    == {stats.records[i].pid : i \in DOMAIN stats.records}
OnTheWire   == {e.packet.pid : e \in UNION {
                  {f \in log[i].done.sent : f.type = "ARRIVE"} : i \in DOMAIN log}}
Handled     == {log[i].event.packet.pid : i \in {j \in DOMAIN log : log[j].event.type = "ARRIVE"}}

Conservation ==
  /\ Waiting \cup OnTheWire \cup Recorded = Handled
  /\ Cardinality(Waiting) + Cardinality(OnTheWire) + Len(stats.records) = Cardinality(Handled)
  /\ Len(stats.records) = stats.num_packets_dropped + stats.num_packets_recvd

(***************************************************************************)
(* The comment of network_switch.c:317 and 319 on the droppers that        *)
(* handle_arrive_event stamps: "STATE CHANGE, but we have taken snapshot   *)
(* before".  Undoing an ARRIVE event gives every dropper its q_time back.  *)
(***************************************************************************)
ArriveReverseRestoresDroppers ==
  [][Undoing /\ UndoneEntry.event.type = "ARRIVE" =>
       droppers' = UndoneEntry.before.droppers]_vars

(***************************************************************************)
(* The comment of network_switch.c:497 on the droppers that                *)
(* handle_send_event stamps: "FOR REVERSE COMPUTATION".  Undoing a SEND    *)
(* event gives every dropper its q_time back.                              *)
(***************************************************************************)
SendReverseRestoresDroppers ==
  [][Undoing /\ UndoneEntry.event.type = "SEND" =>
       droppers' = UndoneEntry.before.droppers]_vars
=============================================================================
