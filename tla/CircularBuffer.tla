--------------------------- MODULE CircularBuffer ---------------------------
(***************************************************************************)
(* circular_buffer.v together with the two parties of every ring: a        *)
(* producer that fills the head slot and pulses data_pushed_i only while   *)
(* the ring is not full, a consumer that takes the tail slot and pulses    *)
(* data_popped_i only while it is not empty.  That is how the unit test    *)
(* drives it and how the tx ring is driven; the rx rings are not driven    *)
(* that way (RxPath).                                                      *)
(***************************************************************************)
EXTENDS CircularBufferOps, Sequences

CONSTANT Values

VARIABLES
  ring,       \* head_index_o, tail_index_o, full_o, empty_o
  slots,      \* what DDR holds, slot by slot
  used        \* pushes minus pops since the last reset (history)

vars == << ring, slots, used >>

Init ==
  /\ ring = ResetRing
  /\ slots \in [Index -> Values]
  /\ used = 0

(* rst_i is high for this clock. *)
Reset ==
  /\ ring' = ResetRing
  /\ used' = 0
  /\ UNCHANGED slots

(* The producer has written v to the head slot; its push is clocked in. *)
Push(v) ==
  /\ ~ring.full
  /\ slots' = [slots EXCEPT ![ring.head] = v]
  /\ ring' = ClockRing(ring, TRUE, FALSE)
  /\ used' = used + 1

(* The consumer has read the tail slot; its pop is clocked in. *)
Pop ==
  /\ ~ring.empty
  /\ ring' = ClockRing(ring, FALSE, TRUE)
  /\ used' = used - 1
  /\ UNCHANGED slots

(* Both pulses in the same clock. *)
PushPop(v) ==
  /\ ~ring.full
  /\ ~ring.empty
  /\ slots' = [slots EXCEPT ![ring.head] = v]
  /\ ring' = ClockRing(ring, TRUE, TRUE)
  /\ UNCHANGED used

Next ==
  \/ Reset
  \/ Pop
  \/ \E v \in Values : Push(v) \/ PushPop(v)

Spec == Init /\ [][Next]_vars

-----------------------------------------------------------------------------

(* Every register and every slot holds a value of its width. *)
TypeOK ==
  /\ ring \in Ring
  /\ slots \in [Index -> Values]
  /\ used \in Int

(* circular_buffer.v never stores how many slots are in use: the indexes   *)
(* and the two flags together always tell exactly how many pushes are      *)
(* still unanswered by a pop, also when pushes and pops coincide.          *)
Accounting ==
  /\ RingConsistent(ring)
  /\ Count(ring) = used

(* The slots from tail to head, oldest first. *)
Contents == [k \in 1 .. Count(ring) |-> slots[SlotAt(ring, k - 1)]]

Fifo == INSTANCE BoundedFifo
          WITH queue <- Contents, Capacity <- BUFFER_LENGTH

(* The ring control and its slots implement a bounded first-in first-out   *)
(* queue: nothing is lost, duplicated or reordered while both parties      *)
(* respect full_o and empty_o.                                             *)
FifoSpec == Fifo!Spec
=============================================================================
