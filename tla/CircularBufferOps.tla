------------------------- MODULE CircularBufferOps -------------------------
(***************************************************************************)
(* The control of one ring of slots in DDR, as circular_buffer.v computes  *)
(* it: head and tail index, full and empty flag.  The slots themselves are *)
(* not part of it.  The operators are pure: a component that holds a ring  *)
(* applies ClockRing once per clock with that clock's push and pop inputs. *)
(***************************************************************************)
EXTENDS Integers

CONSTANT BUFFER_LENGTH      \* number of slots, 32 in the shipped bitstreams

ASSUME BufferLengthAssumption == BUFFER_LENGTH \in Nat \ {0}

Index == 0 .. BUFFER_LENGTH - 1

(* What the four output registers of the ring can hold. *)
Ring == [head : Index, tail : Index, full : BOOLEAN, empty : BOOLEAN]

(* Mutant: the wrap-around comparison is off by one. *)
NextIndexWrapsLate(i) == IF i < BUFFER_LENGTH THEN i + 1 ELSE 0

(* head_index_next and tail_index_next. *)
NextIndex(i) == IF i < BUFFER_LENGTH - 1 THEN i + 1 ELSE 0

(* The registers while rst_i is high. *)
ResetRing == [head |-> 0, tail |-> 0, full |-> FALSE, empty |-> TRUE]

(* Mutant: a push that coincides with a pop recomputes full as if alone. *)
NextFullIgnoresPop(r, push, pop) ==
  IF push THEN NextIndex(r.head) = r.tail ELSE r.full /\ ~pop

(* full_o: a lone pop clears it, a lone push recomputes it. *)
NextFull(r, push, pop) ==
  IF push = pop THEN r.full ELSE push /\ NextIndex(r.head) = r.tail

(* empty_o: a lone push clears it, a lone pop recomputes it. *)
NextEmpty(r, push, pop) ==
  IF push = pop THEN r.empty ELSE pop /\ NextIndex(r.tail) = r.head

(* Mutant: the tail does not move when a push arrives in the same clock. *)
ClockRingPushWins(r, push, pop) ==
  [head  |-> IF push THEN NextIndex(r.head) ELSE r.head,
   tail  |-> IF pop /\ ~push THEN NextIndex(r.tail) ELSE r.tail,
   full  |-> NextFull(r, push, pop),
   empty |-> NextEmpty(r, push, pop)]

(* One clock edge outside reset.  There is no guard: a push into a full    *)
(* ring and a pop of an empty one move the indexes all the same.           *)
ClockRing(r, push, pop) ==
  [head  |-> IF push THEN NextIndex(r.head) ELSE r.head,
   tail  |-> IF pop THEN NextIndex(r.tail) ELSE r.tail,
   full  |-> NextFull(r, push, pop),
   empty |-> NextEmpty(r, push, pop)]

(***************************************************************************)
(* What the four registers mean while they are consistent.                 *)
(***************************************************************************)

(* Number of slots between tail and head. *)
Count(r) ==
  IF r.full THEN BUFFER_LENGTH
  ELSE IF r.head >= r.tail THEN r.head - r.tail
       ELSE r.head - r.tail + BUFFER_LENGTH

(* The slot k places behind the tail, for k in 0..BUFFER_LENGTH-1. *)
SlotAt(r, k) ==
  IF r.tail + k < BUFFER_LENGTH THEN r.tail + k
  ELSE r.tail + k - BUFFER_LENGTH

(* The flags tell apart the two rings whose indexes coincide. *)
RingConsistent(r) ==
  /\ ~(r.full /\ r.empty)
  /\ (r.head = r.tail) <=> (r.full \/ r.empty)
=============================================================================
