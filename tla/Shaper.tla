------------------------------- MODULE Shaper -------------------------------
(***************************************************************************)
(* One port's token bucket under the only calls the switch makes of it:    *)
(* both event handlers of network_switch.c first refill it, then ask       *)
(* whether it is ready for the packet at the head of the port's queues,    *)
(* and consume that packet's bits only if it is.                           *)
(***************************************************************************)
EXTENDS TokenAssumptions

CONSTANTS
  Sizes,   \* sizes in bytes of the packets that may be offered
  Ticks,   \* ticks per token of this port (its bandwidth)
  EndTime  \* g_tw_ts_end: no event is processed at or after this time

ASSUME ShaperAssumption ==
  /\ Sizes \subseteq Nat \ {0}
  /\ Ticks \in Nat \ {0}
  /\ EndTime \in Nat

VARIABLES
  bucket,    \* the token_bucket
  clock,     \* tw_now of the switch
  sent,      \* history: bits sent so far
  mark       \* history: the moment [time, sent] from which bits are counted

vars == <<bucket, clock, sent, mark>>

Init ==
  /\ bucket = FullBucket
  /\ clock = 0
  /\ sent = 0
  /\ mark = [time |-> 0, sent |-> 0]

\* Simulation time passes between two events of the port.
Advance ==
  /\ clock + 1 < EndTime
  /\ clock' = clock + 1
  /\ UNCHANGED <<bucket, sent, mark>>

\* A handler runs, and the bucket is ready for the head packet.
Send(size) ==
  /\ Ready(Refill(bucket, clock, Ticks), size)
  /\ bucket' = Consume(Refill(bucket, clock, Ticks), size, clock, Ticks)
  /\ sent' = sent + size * BitsPerByte
  /\ UNCHANGED <<clock, mark>>

\* A handler runs, and the head packet has to wait.
Refuse(size) ==
  /\ ~ Ready(Refill(bucket, clock, Ticks), size)
  /\ bucket' = Refill(bucket, clock, Ticks)
  /\ UNCHANGED <<clock, sent, mark>>

\* History only: start counting from this moment (once).
StartWindow ==
  /\ mark.time = 0
  /\ mark' = [time |-> clock, sent |-> sent]
  /\ UNCHANGED <<bucket, clock, sent>>

Next ==
  \/ Advance
  \/ \E size \in Sizes : Send(size)
  \/ \E size \in Sizes : Refuse(size)
  \/ StartWindow

Spec == Init /\ [][Next]_vars
-----------------------------------------------------------------------------
(***************************************************************************)
(* The bucket stays between empty and full (the assertion of shaper.c:56   *)
(* never fails) and is never updated in the future of the port.            *)
(***************************************************************************)
TypeOK ==
  /\ bucket \in Bucket
  /\ clock \in Nat
  /\ sent \in Nat
  /\ mark \in [time : Nat, sent : Nat]
  /\ bucket.last_update_time <= clock
  /\ mark.time <= clock
  /\ mark.sent <= sent

(***************************************************************************)
(* What the shaper promises to the link: in every window of time the port  *)
(* sends at most one bucket of bits plus what the rate allows in the       *)
(* window, give or take the token that was being earned when the window    *)
(* opened.                                                                 *)
(***************************************************************************)
Conforms ==
  (sent - mark.sent) * Ticks <= (Capacity + 1) * Ticks + (clock - mark.time)

(***************************************************************************)
(* The comment on token_bucket_next_available_time ("the next available    *)
(* time when token is enough"), for the packets a bucket can hold at all:  *)
(* a refill at the returned time makes the bucket ready, and a refill one  *)
(* tick earlier does not.  The handlers schedule the port's only SEND      *)
(* event at this time.                                                     *)
(***************************************************************************)
WaitIsExact ==
  LET b == Refill(bucket, clock, Ticks)
  IN  \A size \in Sizes :
        LET due == NextAvailableTime(b, size, Ticks)
        IN  size * BitsPerByte <= Capacity /\ ~ Ready(b, size) =>
              /\ due > clock
              /\ Ready(Refill(b, due, Ticks), size)
              /\ ~ Ready(Refill(b, due - 1, Ticks), size)

(***************************************************************************)
(* The assertion of both handlers (network_switch.c:344 and 528): a port   *)
(* whose bucket is not ready for the head packet always has a positive     *)
(* time to wait.                                                           *)
(***************************************************************************)
WaitIsPositive ==
  LET b == Refill(bucket, clock, Ticks)
  IN  \A size \in Sizes :
        ~ Ready(b, size) => NextAvailableTime(b, size, Ticks) - clock > 0
=============================================================================
