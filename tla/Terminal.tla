------------------------------ MODULE Terminal ------------------------------
(***************************************************************************)
(* The source of all packets, model/network_terminal.c, with the parser of *)
(* its trace, model/util/workload_parser.c.  Before the simulation starts  *)
(* the terminal schedules one ARRIVE event for each packet of the trace,   *)
(* at the switch where the packet begins, and stops at the first packet    *)
(* that begins when the simulation is over.                                *)
(***************************************************************************)
EXTENDS Integers, Sequences, FiniteSets

CONSTANTS
  Traces,     \* the traces to consider: sequences of lines of seven words
  EndTimes,   \* the values of g_tw_ts_end to consider
  Unread      \* what has not been read or written yet

\* The first word of a line is the unique id of the packet.
ASSUME TerminalAssumption ==
  /\ EndTimes \subseteq Nat
  /\ \A lines \in Traces :
       /\ lines \in Seq(Seq(Nat))
       /\ \A i, j \in DOMAIN lines : Len(lines[i]) = 7 /\ (lines[i][1] = lines[j][1] => i = j)

VARIABLES
  g_tw_ts_end,
  pks,                \* s->pks
  num_packets_sent,
  scheduled,          \* the events that the terminal has sent
  count               \* generate.csv: [src, dest, priority] and how many were sent

termvars == <<g_tw_ts_end, pks, num_packets_sent, scheduled, count>>

packetFromLine(line) ==
  [id |-> line[1], message_id |-> line[2], src |-> line[3], dest |-> line[4],
   size |-> line[5], timestamp |-> line[6], priority_level |-> line[7]]

parseWorkload(lines) == [i \in DOMAIN lines |-> packetFromLine(lines[i])]
Workloads == {parseWorkload(lines) : lines \in Traces}

TermInit ==
  /\ g_tw_ts_end \in EndTimes
  /\ pks = Unread /\ num_packets_sent = 0 /\ scheduled = {} /\ count = Unread

terminal_init(packets) ==
  /\ pks = Unread
  /\ pks' = packets
  /\ UNCHANGED <<g_tw_ts_end, num_packets_sent, scheduled, count>>

\* The loop reaches a packet only if it has not stopped at one before it.
\* Fault: it stops after the end time only.
ReachedAtEnd(i)  == \A j \in 1 .. i : pks[j].timestamp <= g_tw_ts_end
Reached(i)       == \A j \in 1 .. i : pks[j].timestamp < g_tw_ts_end

ArriveEvent(k) ==
  [type |-> "ARRIVE", to |-> k.src, at |-> k.timestamp, port |-> -1,
   packet |-> [pid |-> k.id, dest |-> k.dest, type |-> k.priority_level,
               size |-> k.size, send_time |-> k.timestamp]]

Flow(k) == [src |-> k.src, dest |-> k.dest, priority |-> k.priority_level]

terminal_prerun ==
  LET sent == {i \in DOMAIN pks : Reached(i)}
  IN  /\ count = Unread
      /\ scheduled' = {ArriveEvent(pks[i]) : i \in sent}
      /\ num_packets_sent' = Cardinality(sent)
      /\ count' = [flow \in {Flow(pks[i]) : i \in sent} |->
                     Cardinality({i \in sent : Flow(pks[i]) = flow})]
      /\ UNCHANGED <<g_tw_ts_end, pks>>

TermNext ==
  \/ \E packets \in Workloads : terminal_init(packets)
  \/ pks # Unread /\ terminal_prerun
TermSpec == TermInit /\ [][TermNext]_termvars
-----------------------------------------------------------------------------
Sorted == \A i, j \in DOMAIN pks : i < j => pks[i].timestamp <= pks[j].timestamp

(***************************************************************************)
(* What the terminal counts as sent is what the simulation will see: every *)
(* event it schedules is before the end, where the simulator keeps it, and *)
(* the counter is their number.  If the trace is sorted, the early end of  *)
(* the loop loses nothing: every packet that begins before the end is sent.*)
(***************************************************************************)
SendsWhatIsDue ==
  count # Unread =>
    /\ num_packets_sent = Cardinality(scheduled)
    /\ \A e \in scheduled : e.at < g_tw_ts_end
    /\ Sorted => \A i \in DOMAIN pks :
                   pks[i].timestamp < g_tw_ts_end => ArriveEvent(pks[i]) \in scheduled
=============================================================================
