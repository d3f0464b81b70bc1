-------------------------------- MODULE Fifo --------------------------------
(***************************************************************************)
(* What a QoS queue of the switch promises: a bounded first-in-first-out   *)
(* queue in which both ends can be undone.  This is the queue that the     *)
(* modules of the switch use; LinkedQueue shows that queue_fifo.c          *)
(* implements it.                                                          *)
(***************************************************************************)
EXTENDS Integers, Sequences

CONSTANTS
  Packets,   \* what may be queued
  SizeOf,    \* SizeOf[p]: the size in bytes of packet p
  MaxBytes   \* max_size_in_bytes

VARIABLES
  waiting,   \* the packets in the queue, in order of arrival
  load,      \* their bytes
  call       \* the last call, with the packet it was given or returned

qvars == <<waiting, load, call>>

QInit == waiting = <<>> /\ load = 0 /\ call = <<"init">>

Fits(p) == load + SizeOf[p] <= MaxBytes

QPut(p) ==
  /\ Fits(p)
  /\ waiting' = Append(waiting, p)
  /\ load' = load + SizeOf[p]
  /\ call' = <<"put", p>>

QPutReverse ==
  /\ waiting # <<>>
  /\ waiting' = SubSeq(waiting, 1, Len(waiting) - 1)
  /\ load' = load - SizeOf[waiting[Len(waiting)]]
  /\ call' = <<"put_reverse">>

QTake ==
  /\ waiting # <<>>
  /\ waiting' = Tail(waiting)
  /\ load' = load - SizeOf[Head(waiting)]
  /\ call' = <<"take", Head(waiting)>>

QTakeReverse(p) ==
  /\ Fits(p)
  /\ waiting' = <<p>> \o waiting
  /\ load' = load + SizeOf[p]
  /\ call' = <<"take_reverse", p>>

QNext ==
  \/ \E p \in Packets : QPut(p) \/ QTakeReverse(p)
  \/ QPutReverse
  \/ QTake

QSpec == QInit /\ [][QNext]_qvars
=============================================================================
