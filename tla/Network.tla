------------------------------- MODULE Network -------------------------------
(***************************************************************************)
(* The program from its files to its results: network_main.c and the       *)
(* handlers that ROSS calls.  Every rank sets up its LPs; every LP reads   *)
(* its file; the terminal schedules the packets; the events are handled in *)
(* the order of their time stamps until the end time, each by the LP that  *)
(* the mapping finds; and every switch writes its records.                 *)
(*                                                                         *)
(* ROSS gives a handler the state of one LP.  The variables of Switch are  *)
(* that state here, those of the other switches are kept in parked.        *)
(***************************************************************************)
EXTENDS Mapping, Terminal, ConfigParser, TokenBucket, Meter, Dropper, Stats,
        StrictPriority, Bags

CONSTANTS
  Plan,               \* Plan[s]: what the configuration file of switch s says
  PropagationDelay, QueueCapacity, Unset,   \* as in Switch
  Seconds,            \* what a rank may read from its clock, 0 being what rank 0 reads
  None                \* the state of a switch that is not parked

\* network_main.c:37.  The LPs begin with a switch.
ASSUME NetworkAssumption == total_terminals = 1 /\ total_switches # 0

Switches == 0 .. total_switches - 1

VARIABLES
  out_dir,    \* out_dir[node]: the second that the name of the directory is made of
  made,       \* the output directories that exist
  conf,       \* s->conf of every switch, once it is read
  meters, queues, droppers, shapers, last_priority,
  port_flags, ports_available_time, stats, done,   \* as in Switch
  current,    \* the switch whose state they are
  parked,     \* the states of the others
  handling,   \* the event being handled, if any, as a set
  pending,    \* the events that are scheduled, as a bag
  discarded,  \* history: the events at or after the end time, which ROSS drops
  clock,      \* time of the last event
  phase,      \* "start", "events", "over", or "failed"
  output      \* output[s]: the records in the file of switch s

state  == <<meters, queues, droppers, shapers, last_priority,
            port_flags, ports_available_time, stats>>
swvars == <<state, done>>
dirs   == <<out_dir, made>>
loop   == <<current, parked, handling, pending, discarded, clock>>
vars   == <<mapvars, termvars, dirs, conf, swvars, loop, phase, output>>
-----------------------------------------------------------------------------
(* The switches, as their files describe them.  A switch without a route   *)
(* to a packet's destination is outside this model.                        *)

Configs == [s \in Switches |-> {parseConfigFile(file, s) : file \in FilesOf(Plan[s])}]
Config  == [s \in Switches |-> CHOOSE c \in Configs[s] : TRUE]

Route == [s \in Switches |->
            [dest \in {d \in DOMAIN Config[s].routing : Config[s].routing[d].port_id # -1} |->
               Config[s].routing[dest]]]

Bandwidths == [s \in Switches |->   \* in ticks per bit
                 [port \in 0 .. Len(Config[s].ports) - 1 |-> Config[s].ports[port + 1].bandwidth]]

\* A route leaves by a port that the switch has.
ASSUME PlanAssumption == \A s \in Switches : IsPlan(Plan[s])

\* Every switch has a port to every other, and packets go between switches.
ASSUME RouteAssumption ==
  /\ \A s \in Switches :
       /\ Len(Config[s].ports) \in Nat
       /\ \A dest \in Switches \ {s} :
            /\ dest \in DOMAIN Route[s]
            /\ Route[s][dest].nextHop \in Switches
            /\ Route[s][dest].port_id \in 0 .. Len(Config[s].ports) - 1
  /\ \A w \in Workloads : \A i \in DOMAIN w :
       {w[i].src, w[i].dest} \subseteq Switches /\ w[i].priority_level \in Levels

\* A port is one end of a link: all routes by it have the same next hop.  A file
\* may say otherwise, and then handle_arrive_event may send a packet that has
\* waited to the next hop of the one that arrives (LeavesByTable in SwitchSeq).
ASSUME PortAssumption ==
  \A s \in Switches : \A d, e \in Switches \ {s} :
    Route[s][d].port_id = Route[s][e].port_id => Route[s][d].nextHop = Route[s][e].nextHop

\* Nothing is sent in no time.
ASSUME TimeAssumption ==
  /\ PropagationDelay \in Nat
  /\ \A s \in Switches : \A port \in DOMAIN Bandwidths[s] : Bandwidths[s][port] \in Nat \ {0}
  /\ \A w \in Workloads : \A i \in DOMAIN w : w[i].size \in Nat \ {0}

S(s) == INSTANCE Switch WITH
          Self <- s, NumPorts <- Len(Config[s].ports), Ticks <- Bandwidths[s],
          Routing <- Route[s]

\* switch_init
FreshSwitch(s) ==
  [meters |-> [i \in S(s)!Queues |-> FullMeter],
   queues |-> [i \in S(s)!Queues |-> <<>>],
   droppers |-> [i \in S(s)!Droppers |-> NewDropper],
   shapers |-> [port \in S(s)!Ports |-> FullBucket],
   last_priority |-> [port \in S(s)!Ports |-> -1],
   port_flags |-> [port \in S(s)!Ports |-> 0],
   ports_available_time |-> [port \in S(s)!Ports |-> 0],
   stats |-> NewStats]

CurrentState ==
  [meters |-> meters, queues |-> queues, droppers |-> droppers, shapers |-> shapers,
   last_priority |-> last_priority, port_flags |-> port_flags,
   ports_available_time |-> ports_available_time, stats |-> stats]

\* The state of any switch.
StateOf(s) == IF s = current THEN CurrentState ELSE parked[s]

Load(st) ==
  /\ meters' = st.meters /\ queues' = st.queues /\ droppers' = st.droppers
  /\ shapers' = st.shapers /\ last_priority' = st.last_priority
  /\ port_flags' = st.port_flags
  /\ ports_available_time' = st.ports_available_time /\ stats' = st.stats
-----------------------------------------------------------------------------
Init ==
  /\ MapInit /\ TermInit /\ out_dir = <<>> /\ made = {}
  /\ conf = [s \in Switches |-> Unread]
  /\ S(0)!SwitchInit
  /\ current = 0 /\ parked = [s \in Switches |-> FreshSwitch(s)]
  /\ handling = {} /\ pending = EmptyBag /\ discarded = EmptyBag /\ clock = 0
  /\ phase = "start" /\ output = <<>>

\* The function f with the value v at x.
Extended(f, x, v) == [y \in DOMAIN f \cup {x} |-> IF y = x THEN v ELSE f[y]]

\* Fault: every rank makes the directory that it names.
EveryRankMakes(node, second) ==
  /\ out_dir' = Extended(out_dir, node, second)
  /\ made' = made \cup {second}
create_out_dir(node, second) ==
  /\ out_dir' = Extended(out_dir, node, second)
  /\ made' = IF node = 0 THEN made \cup {second} ELSE made

\* network_main of a rank, up to tw_run.
SetUpRank(node) ==
  /\ custom_mapping_setup(node)
  /\ \E second \in IF node = 0 THEN {0} ELSE Seconds : create_out_dir(node, second)
  /\ UNCHANGED <<termvars, conf, swvars, loop, phase, output>>

\* tw_run initialises the LPs.  switch_init: what it allocates is in Init.
InitSwitch(s) ==
  /\ Mapped /\ conf[s] = Unread
  /\ \E c \in Configs[s] : conf' = [conf EXCEPT ![s] = c]
  /\ UNCHANGED <<mapvars, termvars, dirs, swvars, loop, phase, output>>

\* The LPs share nothing yet, so their order is free; the terminal is last.
InitTerminal ==
  /\ Mapped /\ \A s \in Switches : conf[s] # Unread
  /\ \E packets \in Workloads : terminal_init(packets)
  /\ UNCHANGED <<mapvars, dirs, conf, swvars, loop, phase, output>>

\* An LP can open a file only in a directory that exists.  If it cannot, it
\* closes the null file, and that is the end of the program.
Opens(gid) == out_dir[custom_mapping_lp_to_pe(gid)] \in made

\* Only the terminal has something to do here: its events and generate.csv.
Prerun ==
  /\ phase = "start" /\ pks # Unread
  /\ terminal_prerun
  /\ pending' = SetToBag(scheduled')
  /\ phase' = IF Opens(total_switches) THEN "events" ELSE "failed"
  /\ UNCHANGED <<mapvars, dirs, conf, swvars, current, parked, handling, discarded, clock, output>>
-----------------------------------------------------------------------------
(* The event loop.                                                         *)

\* The LP that an event is for, as the mapping finds it.
Addressee(e) ==
  lps[custom_mapping_lp_to_pe(e.to)][custom_mapping_lpgid_to_local(e.to)].gid

\* The simulator takes an earliest event and the state of its LP.
Dispatch(e) ==
  /\ phase = "events" /\ handling = {}
  /\ \A other \in BagToSet(pending) : e.at <= other.at
  /\ handling' = {e}
  /\ pending' = pending (-) SetToBag({e})
  /\ clock' = e.at
  /\ current' = Addressee(e)
  /\ IF current' = current
     THEN UNCHANGED <<state, parked>>
     ELSE /\ Load(parked[current'])
          /\ parked' = [parked EXCEPT ![current] = CurrentState, ![current'] = None]
  /\ done' = [bf |-> {}, sent |-> {}]
  /\ UNCHANGED <<mapvars, termvars, dirs, conf, discarded, phase, output>>

\* A SEND event is for the switch itself.
Addressed(e) == IF e.type = "SEND" THEN Extended(e, "to", current) ELSE e

\* switch_event_handler
Handle ==
  /\ \E e \in handling, s \in Switches :
       /\ s = current
       /\ \/ e.type = "ARRIVE" /\ S(s)!Arrive(e.packet, clock)
          \/ e.type = "SEND" /\ S(s)!Send(e.port, clock)
  /\ LET sent == {Addressed(e) : e \in done'.sent}
         late == {e \in sent : e.at >= g_tw_ts_end}
     IN  /\ pending' = pending (+) SetToBag(sent \ late)
         /\ discarded' = discarded (+) SetToBag(late)
  /\ handling' = {}
  /\ UNCHANGED <<mapvars, termvars, dirs, conf, current, parked, clock, phase, output>>

\* The lines of the file.  Fault: the records of dropped packets are not counted.
WrittenReceived(st) == SubSeq(st.records, 1, st.num_packets_recvd)
Written(st) == SubSeq(st.records, 1, st.num_packets_recvd + st.num_packets_dropped)

\* switch_final, of one switch after the other
FinishSwitch(s) ==
  /\ phase = "events" /\ handling = {} /\ pending = EmptyBag
  /\ s \notin DOMAIN output /\ 0 .. s - 1 \subseteq DOMAIN output
  /\ \/ /\ Opens(s)
        /\ output' = Extended(output, s, Written(StateOf(s).stats))
        /\ phase' = IF s = total_switches - 1 THEN "over" ELSE phase
     \/ ~ Opens(s) /\ phase' = "failed" /\ UNCHANGED output
  /\ UNCHANGED <<mapvars, termvars, dirs, conf, swvars, loop>>

StartUp ==
  \/ \E node \in Nodes : SetUpRank(node)
  \/ \E s \in Switches : InitSwitch(s)
  \/ InitTerminal
  \/ Prerun

EventLoop ==
  \/ \E e \in BagToSet(pending) : Dispatch(e)
  \/ Handle
  \/ \E s \in Switches : FinishSwitch(s)

Next == StartUp \/ EventLoop

Spec == Init /\ [][Next]_vars

\* The program does not stop by itself before it is over.
FairSpec == Spec /\ WF_vars(Next)
-----------------------------------------------------------------------------
(* Where the packets are.                                                  *)

Sent == {e.packet : e \in scheduled}

\* All events, the one being handled among them, and the ARRIVE events.
Events == pending (+) discarded (+) SetToBag(handling)
OnTheWay == {e \in BagToSet(Events) : e.type = "ARRIVE"}

Waiting(s)  == UNION {{StateOf(s).queues[i][k] : k \in DOMAIN StateOf(s).queues[i]} :
                        i \in DOMAIN StateOf(s).queues}
Records(s)  == StateOf(s).stats.records
Recorded(s) == {Records(s)[i].pid : i \in DOMAIN Records(s)}

Pids(packets) == {p.pid : p \in packets}

\* The number of places that a packet is at: in queues, in records, in events.
Places(pid) ==
  Cardinality(UNION {UNION {{<<s, i, k>> : k \in {k \in DOMAIN StateOf(s).queues[i] :
                                                    StateOf(s).queues[i][k].pid = pid}} :
                              i \in DOMAIN StateOf(s).queues} : s \in Switches})
    + Cardinality(UNION {{<<s, i>> : i \in {i \in DOMAIN Records(s) : Records(s)[i].pid = pid}} :
                           s \in Switches})
    + Cardinality({e \in OnTheWay : e.packet.pid = pid})

(***************************************************************************)
(* Every switch reads its own file and gets the ports, and for every       *)
(* destination the port and the next hop, that the file says, in whatever  *)
(* order its segments come, although the lines of a route are told apart   *)
(* only by counting to three.                                              *)
(***************************************************************************)
ConfigIsRight ==
  \A s \in Switches : conf[s] # Unread => conf[s] = Config[s] /\ Says(conf[s], Plan[s], s)

(***************************************************************************)
(* From its source to its record a packet is in one place: once in one     *)
(* queue of one switch, in one ARRIVE event that is there once, or in one  *)
(* record.  When the simulation is over, what has no record begins its     *)
(* next hop after the end time, or waits in a port whose next SEND event   *)
(* would be after it.                                                      *)
(***************************************************************************)
NothingLost ==
  /\ num_packets_sent = Cardinality(Pids(Sent))
  /\ Pids(Sent) = (UNION {Pids(Waiting(s)) \cup Recorded(s) : s \in Switches})
                    \cup {e.packet.pid : e \in OnTheWay}
  /\ \A pid \in Pids(Sent) : Places(pid) = 1
  /\ \A e \in OnTheWay : Events[e] = 1
  /\ phase = "over" =>
       \A s \in Switches : \A p \in Waiting(s) :
         \E e \in BagToSet(discarded) :
           e.type = "SEND" /\ e.to = s /\ e.port = Route[s][p.dest].port_id

PacketOf(pid) == CHOOSE p \in Sent : p.pid = pid
SourceOf(pid) == (CHOOSE e \in scheduled : e.packet.pid = pid).to

(***************************************************************************)
(* Packets of one source, destination and class are received in the order  *)
(* in which they were sent, over all hops, if PortAssumption holds: where a *)
(* port has two next hops handle_arrive_event may split a flow.            *)
(***************************************************************************)
FlowOrder ==
  \A s \in Switches : \A i, j \in DOMAIN Records(s) :
    LET a == Records(s)[i]
        b == Records(s)[j]
    IN  /\ i < j /\ ~ a.drop /\ ~ b.drop
        /\ SourceOf(a.pid) = SourceOf(b.pid)
        /\ PacketOf(a.pid).type = PacketOf(b.pid).type
        => PacketOf(a.pid).send_time <= PacketOf(b.pid).send_time

\* The tables lead from s to dest, not in a circle: what contains s, and goes
\* on as they say, contains dest.
Leads(s, dest) ==
  \A way \in SUBSET Switches :
    s \in way /\ (\A w \in way \ {dest} : Route[w][dest].nextHop \in way) => dest \in way

\* The time that a packet needs from s to dest if nothing else is sent.
HopTime(s, dest, size) ==
  size * BitsPerByte * Bandwidths[s][Route[s][dest].port_id] + PropagationDelay
PathTime(source, dest, size) ==
  LET from[s \in {w \in Switches : Leads(w, dest)}] ==
        IF s = dest THEN 0 ELSE HopTime(s, dest, size) + from[Route[s][dest].nextHop]
  IN  from[source]

(***************************************************************************)
(* No packet is faster than its path: the delay in its record is at least  *)
(* the injection and the propagation time of every hop of its own route,   *)
(* which PortAssumption makes it take.                                     *)
(***************************************************************************)
DelayIsPhysical ==
  \A s \in Switches : \A i \in DOMAIN Records(s) :
    LET r == Records(s)[i]
        p == PacketOf(r.pid)
    IN  ~ r.drop => /\ p.dest = s
                    /\ r.delay >= PathTime(SourceOf(r.pid), s, p.size)

FlowOf(pid) == Flow(CHOOSE k \in Range(pks) : k.id = pid)
Left == (UNION {Waiting(s) : s \in Switches}) \cup {e.packet : e \in OnTheWay}

(***************************************************************************)
(* The files add up, which is what the loss rates computed from them rest  *)
(* on: what generate.csv counts for a source, a destination and a class is *)
(* the number of lines about such packets in the files of all switches,    *)
(* plus the packets that were left in the network at the end time.         *)
(***************************************************************************)
ReportAddsUp ==
  phase = "over" =>
    \A flow \in DOMAIN count :
      count[flow] =
        MapThenSumSet(LAMBDA s : Cardinality({i \in DOMAIN output[s] :
                                                FlowOf(output[s][i].pid) = flow}), Switches)
          + Cardinality({p \in Left : FlowOf(p.pid) = flow})

(***************************************************************************)
(* The results of a run are found in one directory or the run fails: a rank *)
(* whose clock shows another second than that of rank 0 never finishes, so *)
(* no records are left out of what is gathered from raw/ unnoticed.        *)
(***************************************************************************)
OneReport ==
  phase = "over" => Cardinality({out_dir[custom_mapping_lp_to_pe(gid)] : gid \in LPs}) = 1

\* Where Delivery sees a packet, once it is sent.
Whereabouts(p) ==
  LET recs == {s \in Switches : p.pid \in Recorded(s)}
      s    == CHOOSE s \in recs : TRUE
      drop == (CHOOSE r \in {Records(s)[i] : i \in DOMAIN Records(s)} : r.pid = p.pid).drop
      ways == {e \in OnTheWay : e.packet.pid = p.pid}
  IN  IF recs # {}
      THEN [dest |-> p.dest, at |-> s, fate |-> IF drop THEN "dropped" ELSE "received"]
      ELSE [dest |-> p.dest, fate |-> "under way",
            at |-> IF ways # {} THEN (CHOOSE e \in ways : TRUE).to
                   ELSE CHOOSE sw \in Switches : p \in Waiting(sw)]

Tables == [s \in Switches |-> [dest \in DOMAIN Route[s] |-> Route[s][dest].nextHop]]

place == IF phase = "start" THEN <<>>
         ELSE [pid \in Pids(Sent) |-> Whereabouts(PacketOf(pid))]

Abstract == INSTANCE Delivery WITH NextHop <- Tables

(***************************************************************************)
(* The network keeps the promise of Delivery, as long as the routes by one *)
(* port have one next hop (PortAssumption).                                *)
(***************************************************************************)
ImplementsDelivery == Abstract!Spec

(***************************************************************************)
(* The program ends: no switch triggers itself for ever, and time goes on. *)
(***************************************************************************)
Terminates == <>(phase \in {"over", "failed"})
=============================================================================
