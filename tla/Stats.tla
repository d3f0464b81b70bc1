-------------------------------- MODULE Stats --------------------------------
(***************************************************************************)
(* The statistics of a switch, model/util/stats.c, as operators on a       *)
(* record.  records holds the entries in use; the array behind it has room *)
(* for records_capacity of them.                                           *)
(***************************************************************************)
EXTENDS Integers, Sequences

CONSTANT MaxRecords   \* MAX_RECORDS

\* switch_init_stats
NewStats ==
  [received |-> 0, num_packets_recvd |-> 0, num_packets_dropped |-> 0,
   num_packets_sent |-> 0, records |-> <<>>, records_capacity |-> MaxRecords]

\* Fault: the entry goes to the index of the next packet received.
UpdateStatsByReceived(st, pid, delay, drop) ==
  LET index == st.num_packets_recvd
  IN  [st EXCEPT
        !.records = SubSeq(@, 1, index) \o <<[pid |-> pid, delay |-> delay, drop |-> drop]>>,
        !.num_packets_dropped = IF drop THEN @ + 1 ELSE @,
        !.num_packets_recvd   = IF drop THEN @ ELSE @ + 1]

\* switch_update_stats.  The entry goes to the index that the two counters
\* add up to; the array is doubled one entry before it is full.
UpdateStats(st, pid, delay, drop) ==
  LET index == st.num_packets_recvd + st.num_packets_dropped
  IN  [st EXCEPT
        !.records_capacity = IF index + 1 >= @ THEN 2 * @ ELSE @,
        !.records = SubSeq(@, 1, index) \o <<[pid |-> pid, delay |-> delay, drop |-> drop]>>,
        !.num_packets_dropped = IF drop THEN @ + 1 ELSE @,
        !.num_packets_recvd   = IF drop THEN @ ELSE @ + 1]

\* Fault: the record is left where it is.
UpdateStatsReverseKeepsRecord(st) ==
  LET drop == st.records[st.num_packets_recvd + st.num_packets_dropped].drop
  IN  [st EXCEPT
        !.num_packets_dropped = IF drop THEN @ - 1 ELSE @,
        !.num_packets_recvd   = IF drop THEN @ ELSE @ - 1]

\* switch_update_stats_reverse.  The array is not shrunk again.
UpdateStatsReverse(st) ==
  LET last == st.num_packets_recvd + st.num_packets_dropped
      drop == st.records[last].drop
  IN  [st EXCEPT
        !.records = SubSeq(@, 1, last - 1),
        !.num_packets_dropped = IF drop THEN @ - 1 ELSE @,
        !.num_packets_recvd   = IF drop THEN @ ELSE @ - 1]
=============================================================================
