# A verification of the Quaint network model

The program is a packet-level model of a network of switches with quality of
service, written in C on ROSS, a parallel discrete event simulator. ROSS calls
the event handlers of the model in time stamp order (`--sync=1`), or
optimistically (`--sync=3`, the way the repository's README runs it): it then
handles events as they come, and when one comes too late it undoes the last
events by calling the model's *reverse* handlers. The results are right only
if the reverse handlers restore everything the forward handlers changed.

This directory holds TLA+ modules translated from the C code, TLC
configurations that check them on small instances, and proofs for TLAPS.

## 1. Inventory

| Component | State | Operations | What makes it correct |
|---|---|---|---|
| Port shaper, `qos/shaper.c` | tokens, time of the last update, one per port | refill and consume, ready, next available time | never sends more than a bucket plus its rate; the time it names is the first at which the packet may go |
| Meter, `qos/meter.c` | two buckets and the time of the last update, one per port and class | update (returns a colour), snapshot, undo | green and yellow traffic keep to the contract; behaves like a marker whose buckets fill continuously |
| QoS queue, `qos/queue_fifo.c` | doubly linked list with counters | put, take, and the undo of each | well linked; first in, first out; never over capacity |
| RED dropper, `qos/REDdropper.c` | average queue length, time the queue ran empty; two per queue | update and decide, stamp | its stamp says when its own queue ran empty |
| Scheduler, `qos/scheduler/strict_priority.c` | last priority served | next packet, serve, undo | serves the highest class that waits; order within a class |
| Switch, `network_switch.c` | the arrays of all these, one flag and one "wire busy until" per port, counters | the ARRIVE and SEND handlers and their reverse handlers | one SEND event pending exactly for a port with a backlog; nothing lost or sent twice; one packet at a time on a wire; undo is exact |
| Statistics, `util/stats.c` | counters, growing array of records | update, undo, write at the end | one record per final event; room for it |
| Terminal, `network_terminal.c` with `util/workload_parser.c` | trace, counters | read the trace, schedule its packets up to the end time, write `generate.csv` | counts what it schedules; loses no packet that is due |
| LP mapping, `network_map.c` | the LPs of each rank | set-up; id to rank, id to index | what is set up is what is looked up, once each |
| Configuration parser, `util/config_parser.c` | segment, counters of lines and groups, routes | one line after the other, then the routing table | ports and routes as the file says, in whatever order it says them |
| Start-up, `network_main.c` | output directory, tables of handlers | the same on every rank | all results of a run are in one place, or the run fails |
| The network of switches | events on their way, the end time, the files written | events between switches | packets follow the routing tables (where a port has one next hop), none is lost, flows stay in order, the files add up |

How they interact. A terminal schedules one ARRIVE event per packet before the
simulation starts. The ARRIVE handler of a switch meters the packet, asks the
dropper, queues it, refills the shaper and then either sends the packet that
the scheduler picks (an ARRIVE event for the next switch) or, if no SEND event
is on its way for the port, schedules one to the switch itself. The SEND
handler sends one packet, or none if the shaper is not ready, and schedules its
own successor as long as the port has a backlog. `port_flags` is the only thing
the two handlers agree by. There are no threads inside a switch; what is hard
is the interleaving of the two chains of events, arithmetic at the edge of a
token, and the undoing of any suffix of a history. Between switches it is
what no single LP sees: the order of a flow over several hops, packets that
are cut off by the end time, files that are only right together. Between
ranks it is arithmetic that is done in two places, and a directory name that
every rank computes for itself. `PROJECT.json` lists each hazard at its line.

## 2. Modules

| Module | Models | How its state and actions correspond to the code |
|---|---|---|
| `Tokens` | the three lines shared by meter and shaper that turn time into tokens | `Earned` is the floor, the rounding and the narrowing to 32 bits |
| `TokenBucket`, `Shaper` | `qos/shaper.c` and one port that calls it | `Send` and `Refuse` are the two outcomes of "refill, ask, consume" in both handlers |
| `Meter`, `Policer` | `qos/meter.c` and one meter under its caller | `Update` is `srTCM_update`: tokens, then colour |
| `SrTCM` | what such a meter promises | tokens arrive one by one |
| `LinkedQueue` | `qos/queue_fifo.c` on an explicit heap | one action per function; a node lives from `malloc` to `free` |
| `Fifo` | what such a queue promises | a sequence |
| `Dropper`, `StrictPriority`, `Stats` | the other parts of a switch, as operators on records | one operator per function |
| `Switch` | `network_switch.c`: init, forward and reverse handlers | one action for every way through a handler, `done` holds the bit field, the snapshot and the events sent |
| `SwitchSeq` | a switch under the sequential loop | `pending` are the SEND events that have been scheduled; ties in any order |
| `SwitchTW` | a switch under the optimistic loop | `log` are the handled events; `Undo` runs the reverse handler of the last one and cancels what it had sent |
| `Mapping` | `network_map.c` and the same arithmetic in `network_main.c` | `custom_mapping_setup` fills the array of one rank; ranks run in any order; `num_LPs_per_pe` is the length of that array as `network_main` works it out for itself |
| `ConfigParser` | `util/config_parser.c` | `ReadLine` is the body of the loop over the lines, a fold over the file; `RoutingTable` what follows the loop |
| `Terminal` | `network_terminal.c`, `util/workload_parser.c` | `terminal_init` and `terminal_prerun`, the loop with its early stop as the set of packets it reaches |
| `Network` | the whole program: `network_main.c`, the handlers, what they read and write | `SetUpRank`, `InitSwitch`, `InitTerminal`, `Prerun`; then `Dispatch` and `Handle` for each event; then `FinishSwitch` |
| `Delivery` | what a network of switches promises about its packets | a packet is forwarded, received or dropped |
| `TokenAssumptions`, `SwitchAssumptions` | what is assumed of the constants of `TokenBucket` and `Switch` | `Network` has an instance of `Switch` for every switch, with constants that come from files; the prover reads such an instance only of a module that assumes nothing |
| `SwitchSetup`, `MC*` | instances for TLC | |
| `*Proofs` | theorems | section 5 |

Composition. `Shaper` and `Policer` put one environment each around the
operators of `TokenBucket` and `Meter`. `Switch` puts all operators together,
and `SwitchSeq` and `SwitchTW` give the same `Switch` two different loops.
`Network` composes everything that runs: it extends `Mapping`, `Terminal`,
`ConfigParser` and the parts of a switch, and has one instance `S(s)` of
`Switch` for each switch. ROSS hands a handler the state of one LP; so the
variables of `Switch` are the state of the LP whose event is handled
(`current`), the states of the others are kept in `parked`, and `Dispatch`
exchanges them. `Handle` runs the same `Arrive` and `Send` that `SwitchSeq` and
`SwitchTW` run, and puts the events they send among the `pending` ones.
`Switch` uses plain sequences for queues, which is justified by
`LinkedQueue`'s refinement of `Fifo`.

What is abstracted, and how:

* **Time** is a `double` in the code. A tick is so short that each rate is one
  token per whole number of ticks. A product `rate * elapsed` is then exact,
  and the only thing rounding can do is to take a product that should be a
  whole number to just below it, which `floor` makes one token less. The
  operator `RoundsDown` says where that happens; a run chooses it, and the
  theorems hold for every choice unless they say otherwise.
* **Machine words** keep their width (`WordSize` is 2^32 in the code) in the
  meter and in the number of new tokens. The remaining counters stay far from
  their limits.
* **The droppers' average** is counted in fractions of a packet, and the decay
  of an idle average is by powers of two. `maxp` is 0, the only value
  `switch_init` passes, so no random numbers are drawn in a decision.
* **Assertions** are not guards. Those of the handlers on the time of the next
  event, and the one that a SEND event finds a packet, are properties
  (`SendDelayPositive`, `PortProtocol`) and the model goes on where the
  program would stop. The assertions of the queue are preconditions of its
  functions. The assertion that rank 0 could make the output directory
  (`network_main.c:206`) is left out: making it succeeds in the model.
* **Field order.** A handler's effects are simultaneous in the model; no other
  handler of the same switch runs in between.
* **The next hop** is looked up by the ARRIVE handler for the packet that arrives,
  and that is where it sends the packet that the scheduler picks, which may be another
  one (`network_switch.c:172`, `283`, `301`); the SEND handler uses the next hop
  that was stored with the packet in the queue (`464`). `Departure` has the hop as a
  parameter: `NextHop(p)` of the arriving packet in `ArriveSendsNow`, that of the
  packet sent in `OwnDeparture`. The models of one switch have two next hops behind
  one port; `Network` assumes one next hop for each port (`PortAssumption`,
  explained in section 5).
* **Routing** is a function; the packets that `Offers` holds, and those of the
  traces of `Network`, have a route at every switch they come to. In `Network` the
  function is read from configuration files; a file in which a route is missing
  gives the null route (`ConfigIsRight`), and what the handler does with it is
  outside the models. A route by a port that its file does not have would get port -1
  as well, and is excluded (`PlanAssumption`).
* **Files** are sequences of lines that are cut into words already. A trace is
  lines of seven numbers; a configuration file is the segments of a plan in any
  order, and a bandwidth is given in ticks per bit.
* **The loop of `Network`** takes the events of all LPs in the order of their
  time stamps, ties in any order, whatever the number of ranks. That is the
  sequential loop (an event that is handled is in `handling`, one to come in the bag `pending`, one
  that was dropped in the bag `discarded`), and it is what a run on several ranks commits if its
  rollbacks are exact; `SwitchTW` says how far they are. An event at or after the
  end time is dropped, as ROSS does.
* **Null files.** A rank whose directory does not exist closes a null
  file (`stats.c:96`, `network_terminal.c:152`), which ends the program with
  an error here (`"failed"`), as it does with the C libraries the program is
  used with. Once a rank has failed the others are stopped by MPI.
* **History.** `before` in an entry of `SwitchTW`'s `log` is the state of the
  switch before the event, for `RollbackRestores`; no action reads it. `due` are the SEND events that were to come then, for the proof. `sent`,
  `passed` and `mark` (shaper and policer), `call` (queue), `arrived` and
  `departed` (switch) are history too.

## 3. Runs

| Run | Module | Shows |
|---|---|---|
| `shaper` | MCShaper | bucket bounds, conformance in every window, wake-up time exact to a tick |
| `policer` | MCPolicer | bucket bounds, the contracts for green and for green and yellow, refinement of `SrTCM` |
| `queue` | MCLinkedQueue | well linked after every sequence of calls; refinement of `Fifo`, values returned included |
| `switch_seq` | MCSwitchSeq | port protocol, positive delays, conservation, one packet at a time on a wire, order within a class, no late wake-up, draining |
| `switch_tw` | MCSwitchTW | rollback gives back the earlier state; port protocol and conservation in every state of a rollback |
| `network` | MCNetwork | the look-ups find every LP, the configuration is what the files say, the terminal sends what is due; nothing is lost over several hops, flows stay in order, no delay is shorter than its path, the files add up and are in one directory; refinement of `Delivery`; the program ends |
| `shaper_rounding` | MCShaper | *violated:* one product rounded below a whole number makes a wait of no time |
| `policer_overflow` | MCPolicer | *violated:* a sum of tokens wraps round after a long idle time |
| `overtaking` | MCSwitchSeq | *violated:* with packets of different sizes the next SEND event is not in the future |
| `misrouted` | MCSwitchSeq | *violated:* with two next hops behind a port a packet that waited is sent to the next hop of a later one |
| `rollback_arrive` | MCSwitchTW | *violated:* undoing an ARRIVE event leaves a stamp behind |
| `rollback_send` | MCSwitchTW | *violated:* undoing a SEND event writes a stamp to the wrong dropper |

The six violations are disagreements between the code and its own comments or
assertions, found while modelling; `findings` in `PROJECT.json` quotes the
lines. Two of them are about stamping the droppers of a queue that has run
empty: the ARRIVE handler does not save what it stamps, and the SEND handler saves one
time stamp for two droppers and looks for them through a field that is not restored.
Besides, the index of the stamped droppers (`network_switch.c:314` and `494`) is `level + port * 6`
where the rest of the file uses `2 * (port * 3 + level)`, so that for the classes 1
and 2 they are not those of the emptied queue. The models stamp the ones that the code
stamps (`StampedDropper`).

`overtaking` is worth a scenario. Two small packets empty the bucket, a large
one waits, and its SEND event is set for the moment at which the bucket covers
it. Two more small packets of higher priority arrive and wait for the same
event. At that moment the bucket covers both; the handler sends the first and
asks when the second may go, and the answer is "at the last update", that is,
now. `assert(ts >0)` fails; without assertions the event is scheduled for the
same instant. With packets of one size the run `switch_seq` shows that every
delay is positive: a SEND event finds tokens for one packet and spends them.

`misrouted` needs two destinations behind one port with different next hops, and
no tie of events. Two small packets to the east empty the bucket. A large one to the north
waits, with a SEND event at the moment at which the bucket covers it. A small urgent one to the
east comes too soon after it and waits for the same event. A small, less urgent one to the north
arrives before the event, when the bucket covers a small packet again. The scheduler
picks the urgent one, to the east, and `handle_arrive_event` sends it to `next_hop`, which is the
next hop of the packet that has just arrived: north. What that means for the theorems is in
section 5.

### Bounds, and why they are enough

* `shaper`, `policer`: two packet sizes, a bucket of two large packets and a
  remainder that no packet uses up, a rate of one token every two or three ticks (so
  that time inside a token exists), and an end time that lets a bucket fill
  again from empty. `WordSize` is larger than anything earned, except in
  `policer_overflow`.
* `queue`: four cells and 4 bytes with packets of 1 and 2 bytes, two of them
  alike, reach the empty list, the list of one and longer lists from both ends,
  and a queue that is full with and without bytes to spare. `Put` and the undo
  of `Take` are interleaved at will, which is more than the switch does.
* `switch_seq`: two ports of different speed, all three classes over the two
  ports and one packet that has reached its switch, six arrivals at three
  moments: at once, while a SEND event is pending, and at the very instant of
  one. One port has two next hops behind it. Six arrivals reach every colour, a full queue, drops by the
  average, bursts, a doubled array of records, and a lower class that waits
  while a higher one is served.
* `switch_tw`: one port, because events of different ports touch different
  entries of every array (except the droppers, whose times `RollbackRestores`
  leaves out); two sizes, four arrivals with time stamps
  in any order, one cancellation. Four arrivals give histories with several
  events of both kinds to undo; all three colours, a drop by a full queue, one by
  the average and one by colour, and final packets are among them, so every
  branch of the reverse handlers is taken.

* `network`: a line of three switches, so that packets of two sources meet at the
  slow port of the second switch and go through two more switches, one terminal, two
  and three ranks (with and without an id left over). The traces hold five packets
  of one size: two at the same time or a little apart, two classes, a packet in
  the other direction, a packet that is out of order in the file, and one that begins
  after the smaller end time. Each port has one next hop (`PortAssumption`, which TLC evaluates).
  The plan of the second switch has a route that a later one replaces. Drops, packets that overtake each other, packets on the wire and in queues
  at the end time, traces cut short, and a failure at either kind of file
  are all reached. `Seconds` has two values: that of rank 0 and another one.

`CHECK_DEADLOCK FALSE` is set where the environment is bounded: the run ends
when no more packets arrive and all events are handled (or, in `shaper` and
`policer`, at the end time).

### Fairness

`switch_seq` and `network` check liveness. `FairSpec` of `SwitchSeq` has `WF_vars(RunSomeSend)`: ROSS's
loop takes the next event as long as one is pending before `g_tw_ts_end`, so
a SEND event that stays the earliest is handled. Nothing is assumed about
arrivals; the environment may stop at any time. The bound on arrivals is what
"once packets stop arriving" means, and the run's packets all fit into the
shaper's bucket. `Network` has `WF_vars(Next)`: the program is never idle before it
is over; every action of it is the next thing that some rank does, and which one comes
first is left open. `Terminates` then says that no chain of SEND events runs on
without time going on. A packet larger than the bucket is never sent, and that is listed as a hazard.

## 4. Properties worth a remark

* `PortProtocol` relates the flag, the pending events and the queues. It is
  the reason why no packet is stranded although no handler looks at a port
  again by itself. In `SwitchTW` it is checked in the middle of rollbacks too,
  where the flag has been restored by one reverse handler and the events by
  cancellation.
* `NeverLate` looks at every moment before a pending SEND event and asks
  whether a refill then would let the head packet go. It holds for packets of
  one size, even though packets overtake each other.
* `OneAtATime`: the shaper lets a burst through at one instant; only
  `ports_available_time`, which both handlers read and write, spaces the packets
  out on the wire.
* `RollbackRestores` compares the state after each undo with a copy taken
  before the event. It leaves out the droppers' time stamps (the two
  violation runs), the capacity of the record array (not shrunk, by design),
  and `last_priority`, which no reverse handler restores and which only
  the stamping reads.

* `NothingLost` says of every moment, the start and the middle of a handler's event included,
  where each packet is: one queue of one switch, one event, or one record. At
  the end it also says why a packet has no record: its next hop or the next SEND event of its port
  comes after the end time.
* `DelayIsPhysical` compares the delay in a record, which is a difference of two time
  stamps made by two LPs, with the path in the routing tables of all switches.
* `LeavesByTable` says for one switch what `Network` has to assume: a packet leaves for the
  next hop of its own destination. It is false of `handle_arrive_event` (run `misrouted`).
  `ImplementsDelivery`, `FlowOrder` and `DelayIsPhysical` hold, and are proved, where it
  cannot matter; `NothingLost` and `ReportAddsUp` do not depend on the hop.
* `ReportAddsUp` is about the files, not the state: what the loss rates are
  computed from is the concatenation of the switches' files and the count of
  the terminal, class by class.
* `OneReport`: rank 0 alone creates the directory that all ranks name. The
  null file that a rank with another clock closes is what keeps its records
  from ending up elsewhere unnoticed; if every rank made its directory, they would.
* `ImplementsDelivery` hides queues, shapers, time and ranks and keeps the
  place of each packet. A handler that sends a packet forwards it by one hop;
  queueing it is a stutter.

## 5. Proofs

Eight modules hold theorems; `tlapm` checks them to the last leaf. Constants
carry only the assumptions named in the component modules (`WordAssumption`,
`CapacityAssumption`, `SwitchAssumption`, ...), which TLC evaluates in every run.

| Theorem | Says | Assumes beyond the constants' types |
|---|---|---|
| `ShaperProofs!TypeCorrect` | `Spec => []TypeOK` | |
| `ShaperProofs!ShaperConforms` | `Spec => []Conforms` | `EndTime <= WordSize * Ticks` |
| `ShaperProofs!ShaperWaitIsExact` | `Spec => []WaitIsExact` | exact products, a full bucket fits into a word |
| `PolicerProofs!TypeCorrect` | `Spec => []TypeOK` | |
| `PolicerProofs!PolicerConforms` | `Spec => [](GreenConforms /\ MarkedConforms)` | `EndTime <= WordSize * Ticks` |
| `PolicerProofs!PolicerImplementsSrTCM` | `Spec => ImplementsSrTCM` | exact products, no sum reaches `WordSize` |
| `LinkedQueueProofs!QueueWellLinked` | `Spec => [](TypeOK /\ WellLinked)` | |
| `LinkedQueueProofs!QueueImplementsFifo` | `Spec => ImplementsFifo` | |
| `SwitchSeqProofs!SwitchIsTyped` | `Spec => []TypeOK` | |
| `SwitchSeqProofs!SwitchKeepsPortProtocol` | `Spec => []PortProtocol` | |
| `SwitchSeqProofs!SwitchSendsInOrder` | `Spec => [](OneAtATime /\ InOrder)` | |
| `SwitchSeqProofs!SwitchConservesPackets` | `Spec => []Conservation` | |
| `SwitchSeqProofs!SwitchIsNeverLate` | `Spec => []NeverLate` | all packets of a port have one size |
| `SwitchSeqProofs!SwitchSendsIntoTheFuture` | `Spec => []SendDelayPositive` | the same, exact products, no packet and no waiting time earns a word of tokens (`NoOverflow`) |
| `SwitchTWProofs!SwitchRollsBack` | `Spec => RollbackRestores` | |
| `SwitchTWProofs!RollbackKeepsPortProtocol` | `Spec => []PortProtocol` | |
| `SwitchTWProofs!RollbackConservesPackets` | `Spec => []Conservation` | |
| `NetworkProofs!MappingFindsLPs` | `MapSpec => []LPsAreFound` | |
| `NetworkProofs!TerminalSendsWhatIsDue` | `TermSpec => []SendsWhatIsDue` | ids in a trace are unique (`TerminalAssumption`) |
| `NetworkProofs!NetworkStartsUp` | `Spec => [](LPsAreFound /\ SendsWhatIsDue)` | the same, and one terminal (`NetworkAssumption`, `network_main.c:37`) |
| `NetworkProofs!NetworkHasOneReport` | `Spec => []OneReport` | the same |
| `NetworkProofs!NetworkLosesNothing` | `Spec => []NothingLost` | the same, and every switch has a route to every other by a port it has, packets have a class and go between switches (`RouteAssumption`) |
| `NetworkProofs!NetworkImplementsDelivery` | `Spec => ImplementsDelivery` | the same, and the routes by one port have one next hop (`PortAssumption`) |
| `NetworkProofs!NetworkKeepsFlowOrder` | `Spec => []FlowOrder` | the same, `PortAssumption` included, and nothing is sent in no time: packets have a size, ports need time for a bit, and the propagation delay is not negative (`TimeAssumption`) |
| `NetworkProofs!PathTimeAddsHops` | what the recursive `PathTime` is | the same, without `PortAssumption` |
| `NetworkProofs!NetworkDelaysArePhysical` | `Spec => []DelayIsPhysical` | the same as for `FlowOrder`, `PortAssumption` included, and no port can stay idle until it earns a whole word of tokens (`NoWholeWord`) |
| `NetworkProofs!NetworkReportAddsUp` | `Spec => []ReportAddsUp` | the same as for `NothingLost`, without `PortAssumption` |
| `PartsProofs!ParserReadsPlan` | what `parseConfigFile` makes of the file of a plan | the routes of the plan go to ids and leave by ports that it has (`IsPlan`) |
| `NetworkProofs!NetworkReadsItsConfig` | `Spec => []ConfigIsRight` | the same of every switch (`PlanAssumption`) |

`PartsProofs` and `SwitchProofs` hold the lemmas about the operators that the
others share: tokens, buckets, the queues of a port and the parser, and records, droppers and handlers of a switch.

**Why the assumptions.** Without them the theorems are false, and the
runs `shaper_rounding`, `policer_overflow`, `overtaking` and `misrouted` show how. Conformance
survives any rounding, because rounding only ever loses tokens; so does
`NeverLate`, because a port whose tokens come late is woken late.

**One next hop by a port.** `PortAssumption` is an assumption about the configuration
files, and it is not checked by the program: a route names its next hop and its port on two lines of
their own. Where two routes by a port have different next hops the three theorems that
speak of ways are false: a packet that waited is sent where the arriving one should go
(`Delivery` has no such step), so two packets of a flow may take different ways (`FlowOrder`), and the
way taken need not be the one that `PathTime` adds up (`DelayIsPhysical`). The assumption says
that a port is one end of a link between two switches, and the networks of the
repository satisfy it: in `model/data/second_subgraph.zip` there are 1703 files of switches
with 4086 ports, and all routes by a port have the same next hop. In the proofs it is
used in one place, `SharedHop`: by `NextWaits` the packet that a port serves has its route by that port, so
the hop of the arriving packet is its own.

**Conformance.** `Conforms` is not inductive: it says nothing of what is left in
the bucket. The invariant `Paid` does. Whatever has been sent since the mark,
plus the tokens still in the bucket, is paid for by one bucket and the time
*until the last update*; time after the last update is not spent yet. A refill
moves tokens from the clock into the bucket (`EarnedBound` in `PartsProofs`:
tokens earned times ticks never exceed the time that passed, and an update that
earns nothing leaves the clock standing), a packet moves them from the bucket
to the wire. `GreenPaid` and `MarkedPaid` say the same for bucket C alone and for
both buckets together; for the second one it matters that `AddTokens` puts only
what spills from C into E.

**Refinement of the marker.** The marker of `SrTCM` receives tokens one at a time;
the meter catches up when a packet comes. The mapping shows the meter as if it were
asked now. A step of the clock is either inside a token (nothing changes) or
completes one (`DivNext`: the quotient grows by one), and then C, else E, else
nothing takes it. A packet first settles the meter, which the mapping cannot
see, and then marks.

**The linked list.** `WellLinked` and the mapping to `Fifo` look at walks along
pointers, which nothing can be proved of by itself. `LinkInv` says
instead that there is a sequence of distinct addresses, at positions from `lo`
to `hi`: the nodes at them are linked to their neighbours in both directions, the
first and the last have a null pointer on their outer side, no other node is
on the heap, and running byte counts along the sequence end in the counter of
the queue. Positions may be negative, so that all four functions only change an
end: the undo of `Take` adds a position on the left, the undo of `Put` removes one on
the right, and no index has to be shifted. A walk that starts at an end and follows
the pointers then has to be that sequence, and there is only one such walk: two
that differed would differ at a least position. That gives `WellLinked`,
the bounds of the counters, and, call by call, the steps of `Fifo`.

**Port protocol.** `ProtocolInv` adds to `PortProtocol` the types of the
queues and says of every port: either it has a backlog, its flag is 1 and
`pending` is a sequence of exactly one event, or none of the three. Lemmas first say
what a handler does to queues, flags and events (`ArriveEffect`, `SendEffect`),
what serving and queueing do to the backlog of this port and of the others
(`ServeFacts`, `EnqueueFacts`: no two ports share a queue, since
`port * 3 + level` is one to one), and how many SEND events a handler sends
(`WakeupsFacts`). Then there is one case per way through the handlers. The one
that needs thought: an ARRIVE handler that queues and sends at once leaves
the backlog of the port as it was, even when the packet it sends is another one.

**Order on the wire.** `OrderInv` adds three things to `ProtocolInv`. `ClockInv`: the
shapers are buckets and the SEND events have time stamps that are natural numbers (a
shaper that lets a packet pass has the tokens for it, so `Consume` does not go below zero). `Wire`: no
packet of a port arrives later than `ports_available_time` plus the propagation
delay, so the next one, injected after that time, comes at least its own
injection after all of them. `Ordered`: packets are numbered as they arrive; the
numbers in a queue increase, and all are greater than the numbers its port has sent for
its class. Appending keeps that because the new number is the greatest
(`LastInLine`), serving because the head is the smallest (`FirstInLine`), and the other
queues do not notice (`OtherLine`). In time the order is strict because
`InjectionDelay` is never 0. Both ways to move a packet are named once, `Served` and `Delayed`, and
`ArriveMoves` and `SendMoves` say that the two handlers do nothing else.

**Conservation.** Counting packets needs the places to be apart. `Counted` says that the
packets that wait, those on the wire and those recorded are together the packets that have
arrived, that their numbers add up, and that no packet waits twice (`Distinct`) or waits
and is on the wire. A packet moves between the places in `EnqueueWaiting` and `ServeWaiting`, and
`UpdateStatsFacts` says that a record goes behind the others, where there is room. The
same lemmas carry the proof under rollbacks.

**Types.** `PartsInv` adds to `OrderInv` the parts that decide nothing about queues: meters
and droppers. Two facts need more than arithmetic. An average is divided by a power of two
after an idle time; that `2^k` is a natural number and not 0 is proved by counting: it is
the number of subsets of a set of `k` members, which the library's theorems give.
And a dropper's index lies in the array, the wrong one of the stamping included.

**Never late.** `WaitInv` says of a port with a SEND event pending, *for the shaper as it is
now*, that its tokens do not cover a packet and that the event comes no later than the moment at
which those that are missing would be earned (`Earning`). Refills in between do
not matter: what they add to the bucket they take from the time still to wait, and rounding only
adds to it; and with one size per port it does not matter which packet
is the next. So the tokens are too few at any moment before the event. With
exact products the SEND event finds tokens for one packet and not for two, so that what is left
does not cover the next one and the next SEND event is later: `SendDelayPositive`.

**Rollback.** An undo is exact only if everything since has been undone exactly, so what
`RollbackRestores` needs must be known of the whole log. `TWInv` says of each entry that
its reverse handler, run on the state in which the entry left the switch, leads back to
the state before it, but for the times of the droppers (`Undone`). The state an entry left is the one before
the next entry, or the present one; so undoing the last entry makes the state that was recorded
before it the present one, of which the same is known of the entry before. `Undone` is established once
per way through a handler (`ArriveIsUndone`, `SendIsUndone`): what a forward handler
saves in its message is what its reverse handler needs. The SEND events that were
due before an entry are kept in the same way (`Follows`), and `Account` says of every stage of the log
that the port protocol and the books of conservation are right there, so that they are right again after
any number of undos. The times of the droppers do not come back, and need not: a reverse handler
does not read them, and the invariant says of them only that they are there.

**Mapping.** With `q` and `r` the quotient and the remainder of the number of LPs by
the number of ranks, rank `n` has `q + 1` LPs if `n < r` and `q` otherwise.
`Division` and `Monotone` state what is needed of `\div` and `%` for products
that are not constant; `Share` and `HasRoom` say that the quotient of an id is an index
of the rank of its remainder, and `MappingInv` that each array is the one
`custom_mapping_setup` computes.

**Terminal.** The set of events has as many members as packets were counted
because unique ids make `ArriveEvent` one to one (`AsManyEvents`, a bijection). That
the early stop loses nothing is where sortedness comes in.

**The whole program.** `NetworkStartsUp` carries mapping and terminal over to
`Network`, every step of which is a step of theirs or leaves them alone. For `OneReport`, `DirsInv` says
that only rank 0 adds to the directories that exist (`made`) and that every file
written was opened by an LP whose rank names one of them; so when the last file is written all
ranks with a switch name the directory of rank 0, and the terminal's rank did when it wrote its own.
The faulty `EveryRankMakes` breaks the first half.

**Packets of the whole program.** `NothingLost` counts places, over queues, records and
events of all switches. `NetworkInv` has no counts but these parts. `Apart`: the ids that wait and the ids
that are recorded, switch by switch, and the ids of ARRIVE events are pairwise disjoint
and together the ids sent. A packet moves in three ways, from an event to a
record, from an event to a queue and from a queue to an event (`ApartRecord`, `ApartIn`,
`ApartOut`), and whatever a handler does is one of them or both of the last two. `QueuesOK`:
no id waits twice at a switch, and a packet waits in the queue of its class at
the port its route names; so the port it must leave by is known without looking at the past. `EventsInv`:
events are a bag, since two SEND events of two switches may be equal but for their
address; every ARRIVE event is in it once, and no two are about one packet (`EventsKept`). `Watched`: a
port whose flag is set or that has a backlog has a SEND event, which is
what the last conjunct of `NothingLost` asks for at the end, when only
discarded events are left. `MappingInv` is needed too: that the look-up finds the addressee
(`LPsAreFound`) makes `Dispatch` load the state of the switch that the event is for, and exchanging
`parked` and present state keeps `StateOf` as it is for every switch (`LoadedState`). Here the three
components meet: the mapping brings the event to the switch, the terminal's unique ids make the
events distinct (`AllSent`), and the handlers do the rest. `UNION` over
places becomes `Places = 1` in `OnePlace`.

**Refinement of `Delivery`.** The mapping `place` finds a packet by looking at records first, then at
events, then at queues. `NetworkInv` says that only one of them has it; `At`, `Ended` and `Located`
say which, so that a `CHOOSE` of the mapping has one candidate only (`RecordedThere`, `MovingThere`,
`WaitingThere`). One clause is needed beyond those of `NothingLost`: a record says "dropped" exactly
if it is not at the destination of its packet (`PacketRecorded`), which makes `Receive` the abstract
step of one kind of record and `Drop` of the other. `Prerun` is `Generate`. A handler has at
most one packet that moves (`Move`: it ends here, or goes on to the next hop), and of each other one all three
places stay what they were (`OthersStay`). The packet that moves is not always the one that came: an
ARRIVE handler that queues one packet may send another one (to its own next hop, by
`SharedHop`), and then the first one's step is a stutter. `Dispatch` takes an event from one bag and puts it in `handling`, and exchanges two
states, which the mapping cannot see (`LoopKeepsStates`).

**Order of the flows.** Several switches, and no queue between them: two packets of a flow on one
link are two events, and only their times keep them apart. `FlowInv` says of the
packets that were not dropped where they lie (`Lies`) along their way. A way is not a
sequence of hops, which would need an induction over its length, but what every set
that is closed under the next hop contains (`Passes`); such a set is all that a
proof needs: `WayIsLine` (of two switches on one way, one comes after the other) and
`WayDoesNotReturn` (a way that comes to its end never comes back) each name one. A
table may lead in a circle; the packets in it never get a record as received, so that the
clauses speak of ways that come to their end (`Before`), and the theorem needs no assumption
against circles. The clauses: a packet is on its way (`OnItsWay`); none is ahead of one
of its flow that was sent before it (`NotAhead`); where both are at one switch, the earlier is
before the later in its queue, and has its record first (`InLine`); of two on one
link the earlier arrives first (`InTime`); a packet on a link arrives no later
than its port is free again, plus the propagation delay (`HasLeft`), so that the next one, whose injection
begins then and takes time, comes later. On a way that comes to its end one switch only leads
to a switch (`WayComesFromOne`), so that both packets came by the same port and the
same queue. `InTurn` says what the loop adds: the event that is handled is the earliest of
all, those beyond the end time included, so that a packet that is queued finds everything that
arrives before it already there. Nothing is asked of the times of SEND events: they may wake a port early
or late, and order survives.

These assumptions too are of the input files, not of the program: a route that is missing
gives port -1 there, and the hazard list has what happens then; a packet of no bytes would be
injected in no time, and two of them at one moment have no order.

**Delays.** `PathTime` is a recursive function, and whether there is one that satisfies its
equation is a question of its own. It is defined on the switches whose tables lead to the
destination (`Leads`; packets that a table leads in a circle are never received, and have no such
time). `PathTimeAddsHops` needs no induction over the length of a path: a function that measures the
switches of one way (`Measures`) is unique (`PartsAgree`) and can be made one hop longer at its beginning, and the
switches from which there is one are a set closed against the next hop, so that `WayInduction`,
which is the definition of a way again, finds it for all (`WholeExists`). The invariant
is `DelayInv`. `Soonest` is when a packet can be at a switch: its send time plus the path so
far. Its ARRIVE event is not before that. Where it waits, nothing happens to its port before
that either, which is said of the events of the port by their `Turn`: the time of
an ARRIVE event, but for a SEND event the later of its time and `ports_available_time`, since a SEND
event may be due while the port still injects and the handler then waits for the port. The record's delay is the
difference of two such times. Last, a SEND event must not be scheduled for the past: `BucketDue` says that a bucket
that lacks tokens after an update is due now or later, unless `num_new_tokens` has wrapped to 0
and the update left the bucket as it was. `NoWholeWord` excludes that. It is
the assumption of conformance once more (`EndTime <= WordSize * Ticks`), for each port: with
words of 32 bits a port of 1 Gb/s earns a word in four seconds, one of 100 Gb/s in 43 ms; in a longer
simulation the theorem would be in doubt only for a port that is idle for such a time.

**The report.** `ReportInv` adds to `NetworkInv` what the files say: once the first one is written no event
is left to change a switch, so that a file is what `Written` cuts from the records
of its switch, and the counters by which it cuts are the length of the array (`RecordsOK`). That every packet
is in one place makes packets, lines and what is left a partition of what was sent
(`LeftIs`, `LinesCounted`, `SentCounted`). The sum over switches is a fold over a set, a recursive function on its subsets
(`AddsUp`). A function that adds up is unique (`SumIsOne`, by a smallest subset
where two of them differ), and for disjoint parts the cardinality of their union is one
(`PartsAddUp`), which settles that there is one and what it is.

**The parser.** `parseConfigFile` is a fold over the lines of a file, and the routing table one over
the routes, for which the library has no theorem the provers can use. Both are the same recursive function on the subsets of
the indices (`Folding`, with the two steps as data in `Step`), and an
induction over numbers is the choice of a least element (`Inductive`, from `HasLeast`): there is such
a function (`FoldExists`), and it takes one step after the other (`FoldSteps`). The lines of the
file are found in the same way: `FlattenSeq` of three segments, one of them made of groups of three
lines (`FlattenGroups`). The invariant of the reading is `HasRead`. When the segments of a set
have been read, the parser has just their part of the plan, whatever came between, and the counters `lineInGroup`
and `currentGroup` are where the next segment needs them; so `WordIsRead` adds one segment to any others,
and the order is free. `TableHas` is the invariant of the table: after k routes each entry is the
last of them to its destination. `IsPlan` is needed: a route by a port that the file does not
have gets port -1, and a negative destination is an index before the table.

**Left to TLC.** Liveness (`Drains`, `Terminates`), which the prover does not reach. Every
other property of a passing run has a theorem.

## 6. Not modelled, and why

* `message.c`, `printConfig`, `displayModelSettings` and the other printing; the cutting
  of lines into words; the Python scripts and the CMake files: text in and out,
  without a decision that the simulation depends on.
* The options of `network_main.c`: they are constants of the models. Two things the
  program only prints, the ten first packets of the trace and the warning about
  `MAX_RECORDS`, are listed as hazards.
* `getPortBandwidth`, `getNextHopPort`, `freeConfig`, `network_map`, `queue_destroy`: called
  nowhere.
* Conservative synchronisation (`--sync=2`): the repository runs the program with
  `--sync=3`.
* ROSS itself: its loops, its drop of events after the end time and its look-up of LPs
  are the external parts of the models, as far as the handlers can observe
  them.

## 7. Plan

Done in this order, the most important behaviour first: arithmetic of tokens,
shaper, meter, queue, switch with the sequential loop, switch with the
optimistic loop, proofs of shaper, meter and port protocol; the mapping, the
parsers, the terminal and the network of switches with its refinement; then the proofs of
all other safety properties of a switch under either loop, of the linked list, and of the start-up and the
files of the whole program, that it loses no packet, that every step of it keeps the promise of
`Delivery`, that a flow stays in order over all hops, that no packet is faster than its path,
that the files add up, and that the parser reads what a file says. Next:

1. The optimistic loop implements the sequential one: at quiescence a `SwitchTW`
   run has the state of a `SwitchSeq` run on the surviving events, dropper
   stamps excepted.
