----------------------------- MODULE RingLemmas -----------------------------
(***************************************************************************)
(* Facts about the control of a ring, for every length: what one clock     *)
(* does to occupancy, indexes and places.  They are used by the proofs of  *)
(* every component that holds a ring.                                      *)
(***************************************************************************)
EXTENDS CircularBufferOps, TLAPS

(* The successor of a slot index is a slot index. *)
LEMMA NextIndexType ==
  ASSUME NEW i \in Index
  PROVE  NextIndex(i) \in Index
BY BufferLengthAssumption DEF Index, NextIndex

(* A ring out of reset is consistent and holds nothing. *)
LEMMA ResetRingFacts ==
  /\ ResetRing \in Ring
  /\ RingConsistent(ResetRing)
  /\ Count(ResetRing) = 0
BY BufferLengthAssumption
   DEF ResetRing, Ring, Index, RingConsistent, Count

(* The occupancy a consistent ring encodes is between 0 and its length,    *)
(* and the flags are its two extremes.                                     *)
LEMMA CountRange ==
  ASSUME NEW r \in Ring, RingConsistent(r)
  PROVE  /\ Count(r) \in 0 .. BUFFER_LENGTH
         /\ r.full <=> Count(r) = BUFFER_LENGTH
         /\ r.empty <=> Count(r) = 0
<1>1. r.head \in Index /\ r.tail \in Index
  BY DEF Ring
<1> QED
  BY <1>1, BufferLengthAssumption DEF Index, RingConsistent, Count

(* A clock keeps the registers in range whatever its inputs. *)
LEMMA ClockRingType ==
  ASSUME NEW r \in Ring, NEW push, NEW pop
  PROVE  ClockRing(r, push, pop) \in Ring
<1>1. NextIndex(r.head) \in Index /\ NextIndex(r.tail) \in Index
  BY NextIndexType DEF Ring
<1>2. NextFull(r, push, pop) \in BOOLEAN /\ NextEmpty(r, push, pop) \in BOOLEAN
  BY DEF NextFull, NextEmpty, Ring
<1> QED
  BY <1>1, <1>2 DEF ClockRing, Ring

(* A push that respects full_o adds one slot. *)
LEMMA ClockRingPush ==
  ASSUME NEW r \in Ring, RingConsistent(r), ~r.full
  PROVE  /\ RingConsistent(ClockRing(r, TRUE, FALSE))
         /\ Count(ClockRing(r, TRUE, FALSE)) = Count(r) + 1
<1> DEFINE n == ClockRing(r, TRUE, FALSE)
<1>1. r.head \in Index /\ r.tail \in Index
  BY DEF Ring
<1>2. /\ n.head = NextIndex(r.head)
      /\ n.tail = r.tail
      /\ n.full <=> NextIndex(r.head) = r.tail
      /\ n.empty <=> FALSE
  BY DEF ClockRing, NextFull, NextEmpty
<1> HIDE DEF n
<1>3. RingConsistent(n)
  BY <1>1, <1>2, BufferLengthAssumption DEF Index, RingConsistent, NextIndex
<1>4. Count(n) = Count(r) + 1
  BY <1>1, <1>2, BufferLengthAssumption DEF Index, RingConsistent, Count, NextIndex
<1> QED
  BY <1>3, <1>4 DEF n

(* A pop that respects empty_o frees one slot. *)
LEMMA ClockRingPop ==
  ASSUME NEW r \in Ring, RingConsistent(r), ~r.empty
  PROVE  /\ RingConsistent(ClockRing(r, FALSE, TRUE))
         /\ Count(ClockRing(r, FALSE, TRUE)) = Count(r) - 1
<1> DEFINE n == ClockRing(r, FALSE, TRUE)
<1>1. r.head \in Index /\ r.tail \in Index
  BY DEF Ring
<1>2. /\ n.head = r.head
      /\ n.tail = NextIndex(r.tail)
      /\ n.full <=> FALSE
      /\ n.empty <=> NextIndex(r.tail) = r.head
  BY DEF ClockRing, NextFull, NextEmpty
<1> HIDE DEF n
<1>3. RingConsistent(n)
  BY <1>1, <1>2, BufferLengthAssumption DEF Index, RingConsistent, NextIndex
<1>4. Count(n) = Count(r) - 1
  BY <1>1, <1>2, BufferLengthAssumption DEF Index, RingConsistent, Count, NextIndex
<1> QED
  BY <1>3, <1>4 DEF n

(* A push and a pop in the same clock move both indexes and nothing else. *)
LEMMA ClockRingPushPop ==
  ASSUME NEW r \in Ring, RingConsistent(r), ~r.full, ~r.empty
  PROVE  /\ RingConsistent(ClockRing(r, TRUE, TRUE))
         /\ Count(ClockRing(r, TRUE, TRUE)) = Count(r)
<1> DEFINE n == ClockRing(r, TRUE, TRUE)
<1>1. r.head \in Index /\ r.tail \in Index
  BY DEF Ring
<1>2. /\ n.head = NextIndex(r.head)
      /\ n.tail = NextIndex(r.tail)
      /\ n.full <=> r.full
      /\ n.empty <=> r.empty
  BY DEF ClockRing, NextFull, NextEmpty
<1> HIDE DEF n
<1>3. RingConsistent(n)
  BY <1>1, <1>2, BufferLengthAssumption DEF Index, RingConsistent, NextIndex
<1>4. Count(n) = Count(r)
  BY <1>1, <1>2, BufferLengthAssumption DEF Index, RingConsistent, Count, NextIndex
<1> QED
  BY <1>3, <1>4 DEF n

(* Places behind the tail are slots; the free place behind the last one in *)
(* use is the head slot, and none in use is.                               *)
LEMMA SlotAtFacts ==
  ASSUME NEW r \in Ring, RingConsistent(r)
  PROVE  /\ \A k \in Index : SlotAt(r, k) \in Index
         /\ ~r.full => SlotAt(r, Count(r)) = r.head
         /\ ~r.full => \A k \in 0 .. Count(r) - 1 : SlotAt(r, k) # r.head
<1>1. r.head \in Index /\ r.tail \in Index
  BY DEF Ring
<1>2. \A k \in Index : SlotAt(r, k) \in Index
  BY <1>1, BufferLengthAssumption DEF Index, SlotAt
<1>3. ASSUME ~r.full
      PROVE  SlotAt(r, Count(r)) = r.head
  BY <1>1, <1>3, BufferLengthAssumption DEF Index, SlotAt, Count
<1>4. ASSUME ~r.full, NEW k \in 0 .. Count(r) - 1
      PROVE  SlotAt(r, k) # r.head
  BY <1>1, <1>4, BufferLengthAssumption DEF Index, SlotAt, Count
<1> QED
  BY <1>2, <1>3, <1>4

-----------------------------------------------------------------------------
(* The clocks that respect the flags, together: occupancy and indexes.     *)
LEMMA ClockRingCounts ==
  ASSUME NEW r \in Ring, RingConsistent(r),
         NEW push \in BOOLEAN, NEW pop \in BOOLEAN,
         push => ~r.full, pop => ~r.empty
  PROVE  LET n == ClockRing(r, push, pop)
         IN  /\ n \in Ring /\ RingConsistent(n)
             /\ Count(n) = Count(r) + (IF push THEN 1 ELSE 0)
                                    - (IF pop THEN 1 ELSE 0)
             /\ n.head = IF push THEN NextIndex(r.head) ELSE r.head
             /\ n.tail = IF pop THEN NextIndex(r.tail) ELSE r.tail
<1> DEFINE n == ClockRing(r, push, pop)
<1>1. n \in Ring
  BY ClockRingType
<1>2. Count(r) \in 0 .. BUFFER_LENGTH
  BY CountRange
<1>3. /\ n.head = IF push THEN NextIndex(r.head) ELSE r.head
      /\ n.tail = IF pop THEN NextIndex(r.tail) ELSE r.tail
  BY DEF ClockRing
<1>4. /\ RingConsistent(n)
      /\ Count(n) = Count(r) + (IF push THEN 1 ELSE 0)
                             - (IF pop THEN 1 ELSE 0)
  <2>1. CASE push /\ pop
    <3>1. push = TRUE /\ pop = TRUE
      BY <2>1
    <3>2. RingConsistent(n) /\ Count(n) = Count(r)
      BY <3>1, ClockRingPushPop
    <3> QED
      BY <3>1, <3>2, <1>2, BufferLengthAssumption
  <2>2. CASE push /\ ~pop
    <3>1. push = TRUE /\ pop = FALSE
      BY <2>2
    <3>2. RingConsistent(n) /\ Count(n) = Count(r) + 1
      BY <3>1, ClockRingPush
    <3> QED
      BY <3>1, <3>2, <1>2, BufferLengthAssumption
  <2>3. CASE ~push /\ pop
    <3>1. push = FALSE /\ pop = TRUE
      BY <2>3
    <3>2. RingConsistent(n) /\ Count(n) = Count(r) - 1
      BY <3>1, ClockRingPop
    <3> QED
      BY <3>1, <3>2, <1>2, BufferLengthAssumption
  <2>4. CASE ~push /\ ~pop
    <3>1. push = FALSE /\ pop = FALSE
      BY <2>4
    <3>2. n = r
      BY <3>1 DEF ClockRing, NextFull, NextEmpty, Ring
    <3> QED
      BY <3>1, <3>2, <1>2, BufferLengthAssumption
  <2> QED
    BY <2>1, <2>2, <2>3, <2>4
<1> QED
  BY <1>1, <1>3, <1>4

(* Places after such a clock: a pop shifts them by one. *)
LEMMA ClockRingPlaces ==
  ASSUME NEW r \in Ring, RingConsistent(r),
         NEW push \in BOOLEAN, NEW pop \in BOOLEAN,
         push => ~r.full, pop => ~r.empty
  PROVE  LET n == ClockRing(r, push, pop)
         IN  \A k \in 0 .. Count(n) - 1 :
               /\ SlotAt(n, k) = SlotAt(r, IF pop THEN k + 1 ELSE k)
               /\ (IF pop THEN k + 1 ELSE k) \in 0 .. Count(r)
<1> DEFINE n == ClockRing(r, push, pop)
<1>1. /\ n.tail = IF pop THEN NextIndex(r.tail) ELSE r.tail
      /\ Count(n) = Count(r) + (IF push THEN 1 ELSE 0)
                             - (IF pop THEN 1 ELSE 0)
  BY ClockRingCounts
<1>2. /\ Count(r) \in 0 .. BUFFER_LENGTH
      /\ r.full <=> Count(r) = BUFFER_LENGTH
  BY CountRange
<1>3. r.tail \in Index
  BY DEF Ring
<1> HIDE DEF n
<1>4. ASSUME NEW k \in 0 .. Count(n) - 1
      PROVE  /\ SlotAt(n, k) = SlotAt(r, IF pop THEN k + 1 ELSE k)
             /\ (IF pop THEN k + 1 ELSE k) \in 0 .. Count(r)
  <2>1. (IF pop THEN k + 1 ELSE k) \in 0 .. Count(r)
    BY <1>1, <1>2, <1>4
  <2>2. pop => k + 1 < BUFFER_LENGTH
    BY <1>1, <1>2, <1>4, BufferLengthAssumption
  <2>3. SlotAt(n, k) = SlotAt(r, IF pop THEN k + 1 ELSE k)
    BY <1>1, <1>3, <1>4, <2>2, BufferLengthAssumption
       DEF SlotAt, NextIndex, Index
  <2> QED
    BY <2>1, <2>3
<1> QED
  BY <1>4 DEF n

(* The oldest place is the tail. *)
LEMMA FirstPlace ==
  ASSUME NEW r \in Ring
  PROVE  SlotAt(r, 0) = r.tail
BY BufferLengthAssumption DEF SlotAt, Ring, Index
=============================================================================
