------------------------ MODULE CircularBufferProofs ------------------------
(***************************************************************************)
(* The proof that the ring's registers always account for its contents and *)
(* that ring and slots implement a bounded FIFO, for every length.         *)
(***************************************************************************)
EXTENDS CircularBuffer, RingLemmas, SequenceTheorems, TLAPS

-----------------------------------------------------------------------------

(* Every register and slot keeps its type. *)
THEOREM TypeCorrect == Spec => []TypeOK
<1>1. Init => TypeOK
  BY ResetRingFacts DEF Init, TypeOK
<1>2. TypeOK /\ [Next]_vars => TypeOK'
  <2> SUFFICES ASSUME TypeOK, [Next]_vars
               PROVE  TypeOK'
    OBVIOUS
  <2>1. CASE Reset
    BY <2>1, ResetRingFacts DEF Reset, TypeOK
  <2>2. CASE Pop
    <3>1. ring' \in Ring
      BY <2>2, ClockRingType, Zenon DEF Pop, TypeOK
    <3>2. used' = used - 1 /\ slots' = slots
      BY <2>2, Zenon DEF Pop
    <3> QED
      BY <3>1, <3>2 DEF TypeOK
  <2>3. ASSUME NEW v \in Values, Push(v)
        PROVE  TypeOK'
    <3>1. ring' \in Ring
      BY <2>3, ClockRingType, Zenon DEF Push, TypeOK
    <3>2. used' = used + 1 /\ slots' = [slots EXCEPT ![ring.head] = v]
      BY <2>3, Zenon DEF Push
    <3>3. slots' \in [Index -> Values]
      BY <3>2, Zenon DEF TypeOK
    <3> QED
      BY <3>1, <3>2, <3>3 DEF TypeOK
  <2>4. ASSUME NEW v \in Values, PushPop(v)
        PROVE  TypeOK'
    <3>1. ring' \in Ring
      BY <2>4, ClockRingType, Zenon DEF PushPop, TypeOK
    <3>2. used' = used /\ slots' = [slots EXCEPT ![ring.head] = v]
      BY <2>4, Zenon DEF PushPop
    <3> QED
      BY <3>1, <3>2 DEF TypeOK
  <2>5. CASE UNCHANGED vars
    BY <2>5 DEF vars, TypeOK
  <2> QED
    BY <2>1, <2>2, <2>3, <2>4, <2>5 DEF Next
<1> QED
  BY <1>1, <1>2, PTL DEF Spec

(* The indexes and flags of circular_buffer.v always encode the number of  *)
(* slots in use, for every buffer length.                                  *)
THEOREM AccountingCorrect == Spec => []Accounting
<1>1. Init => Accounting
  BY ResetRingFacts DEF Init, Accounting
<1>2. TypeOK /\ Accounting /\ [Next]_vars => Accounting'
  <2> SUFFICES ASSUME TypeOK, Accounting, [Next]_vars
               PROVE  Accounting'
    OBVIOUS
  <2> USE DEF TypeOK, Accounting
  <2>1. CASE Reset
    BY <2>1, ResetRingFacts DEF Reset
  <2>2. CASE Pop
    BY <2>2, ClockRingPop DEF Pop
  <2>3. ASSUME NEW v \in Values, Push(v)
        PROVE  Accounting'
    BY <2>3, ClockRingPush DEF Push
  <2>4. ASSUME NEW v \in Values, PushPop(v)
        PROVE  Accounting'
    BY <2>4, ClockRingPushPop DEF PushPop
  <2>5. CASE UNCHANGED vars
    BY <2>5 DEF vars
  <2> QED
    BY <2>1, <2>2, <2>3, <2>4, <2>5 DEF Next
<1> QED
  BY <1>1, <1>2, TypeCorrect, PTL DEF Spec

-----------------------------------------------------------------------------

(* Contents, of any ring and any slots. *)
Queue(r, s) == [k \in 1 .. Count(r) |-> s[SlotAt(r, k - 1)]]

(* The contents of a ring are a sequence as long as the ring counts. *)
LEMMA QueueFacts ==
  ASSUME NEW r \in Ring, RingConsistent(r), NEW s \in [Index -> Values]
  PROVE  /\ Queue(r, s) \in Seq(Values)
         /\ Len(Queue(r, s)) = Count(r)
         /\ \A k \in 1 .. Count(r) : Queue(r, s)[k] = s[SlotAt(r, k - 1)]
<1>1. Count(r) \in 0 .. BUFFER_LENGTH
  BY CountRange
<1>2. \A k \in 1 .. Count(r) : k - 1 \in Index
  BY <1>1, BufferLengthAssumption DEF Index
<1>3. \A k \in 1 .. Count(r) : s[SlotAt(r, k - 1)] \in Values
  BY <1>2, SlotAtFacts
<1> QED
  BY <1>1, <1>3, BufferLengthAssumption DEF Queue

(* Writing the head slot and pushing appends. *)
LEMMA QueuePush ==
  ASSUME NEW r \in Ring, RingConsistent(r), ~r.full,
         NEW s \in [Index -> Values], NEW v \in Values
  PROVE  Queue(ClockRing(r, TRUE, FALSE), [s EXCEPT ![r.head] = v])
           = Append(Queue(r, s), v)
<1> DEFINE n == ClockRing(r, TRUE, FALSE)
           t == [s EXCEPT ![r.head] = v]
           q == Queue(r, s)
<1>1. n \in Ring /\ RingConsistent(n) /\ Count(n) = Count(r) + 1
  BY ClockRingType, ClockRingPush
<1>2. t \in [Index -> Values] /\ r.head \in Index
  BY DEF Ring
<1>3. n.tail = r.tail
  BY DEF ClockRing
<1>4. Count(r) \in 0 .. BUFFER_LENGTH /\ Count(r) # BUFFER_LENGTH
  BY CountRange
<1>5. /\ q \in Seq(Values) /\ Len(q) = Count(r)
      /\ \A k \in 1 .. Count(r) : q[k] = s[SlotAt(r, k - 1)]
  BY QueueFacts
<1>6. /\ Queue(n, t) \in Seq(Values) /\ Len(Queue(n, t)) = Count(r) + 1
      /\ \A k \in 1 .. Count(r) + 1 : Queue(n, t)[k] = t[SlotAt(r, k - 1)]
  <2>1. \A k \in Int : SlotAt(n, k) = SlotAt(r, k)
    BY <1>3 DEF SlotAt
  <2>2. \A k \in 1 .. Count(n) : Queue(n, t)[k] = t[SlotAt(n, k - 1)]
    BY <1>1, <1>2, QueueFacts
  <2>3. Queue(n, t) \in Seq(Values) /\ Len(Queue(n, t)) = Count(n)
    BY <1>1, <1>2, QueueFacts
  <2> HIDE DEF n, t
  <2>4. \A k \in 1 .. Count(r) + 1 : k - 1 \in Int
    BY <1>4
  <2> QED
    BY <1>1, <2>1, <2>2, <2>3, <2>4
<1> HIDE DEF n, t, q
<1>7. /\ Append(q, v) \in Seq(Values) /\ Len(Append(q, v)) = Count(r) + 1
      /\ \A k \in 1 .. Count(r) : Append(q, v)[k] = q[k]
      /\ Append(q, v)[Count(r) + 1] = v
  BY <1>5, AppendProperties
<1>8. \A k \in 1 .. Count(r) + 1 : Queue(n, t)[k] = Append(q, v)[k]
  <2> SUFFICES ASSUME NEW k \in 1 .. Count(r) + 1
               PROVE  t[SlotAt(r, k - 1)] = Append(q, v)[k]
    BY <1>6
  <2>1. CASE k = Count(r) + 1
    <3>1. k - 1 = Count(r)
      BY <2>1, <1>4
    <3>2. SlotAt(r, k - 1) = r.head
      BY <3>1, SlotAtFacts
    <3> QED
      BY <2>1, <3>2, <1>2, <1>7 DEF t
  <2>2. CASE k # Count(r) + 1
    <3>1. k \in 1 .. Count(r) /\ k - 1 \in 0 .. Count(r) - 1 /\ k - 1 \in Index
      BY <2>2, <1>4, BufferLengthAssumption DEF Index
    <3>2. SlotAt(r, k - 1) \in Index /\ SlotAt(r, k - 1) # r.head
      BY <3>1, SlotAtFacts
    <3>3. t[SlotAt(r, k - 1)] = s[SlotAt(r, k - 1)]
      BY <3>2 DEF t
    <3> QED
      BY <3>1, <3>3, <1>5, <1>7
  <2> QED
    BY <2>1, <2>2
<1>9. Queue(n, t) = Append(q, v)
  BY <1>6, <1>7, <1>8, SeqEqual
<1> QED
  BY <1>9 DEF n, t, q

(* A pop removes the oldest element. *)
LEMMA QueuePop ==
  ASSUME NEW r \in Ring, RingConsistent(r), ~r.empty, NEW s \in [Index -> Values]
  PROVE  Queue(ClockRing(r, FALSE, TRUE), s) = Tail(Queue(r, s))
<1> DEFINE n == ClockRing(r, FALSE, TRUE)
           q == Queue(r, s)
<1>1. n \in Ring /\ RingConsistent(n) /\ Count(n) = Count(r) - 1
  BY ClockRingType, ClockRingPop
<1>2. n.tail = NextIndex(r.tail) /\ r.tail \in Index
  BY DEF ClockRing, Ring
<1>3. Count(r) \in 1 .. BUFFER_LENGTH
  BY CountRange, BufferLengthAssumption
<1>4. /\ q \in Seq(Values) /\ Len(q) = Count(r)
      /\ \A k \in 1 .. Count(r) : q[k] = s[SlotAt(r, k - 1)]
  BY QueueFacts
<1>5. /\ Queue(n, s) \in Seq(Values) /\ Len(Queue(n, s)) = Count(r) - 1
      /\ \A k \in 1 .. Count(r) - 1 : Queue(n, s)[k] = s[SlotAt(n, k - 1)]
  <2>1. \A k \in 1 .. Count(n) : Queue(n, s)[k] = s[SlotAt(n, k - 1)]
    BY <1>1, QueueFacts
  <2> QED
    BY <1>1, <2>1, QueueFacts
<1> HIDE DEF n, q
<1>6. /\ Tail(q) \in Seq(Values) /\ Len(Tail(q)) = Count(r) - 1
      /\ \A k \in 1 .. Count(r) - 1 : Tail(q)[k] = q[k + 1]
  <2>1. q # << >>
    BY <1>3, <1>4
  <2> QED
    BY <1>4, <2>1, HeadTailProperties
<1>7. \A k \in 1 .. Count(r) - 1 : SlotAt(n, k - 1) = SlotAt(r, k)
  BY <1>2, <1>3, BufferLengthAssumption DEF SlotAt, NextIndex, Index
<1>8. \A k \in 1 .. Count(r) - 1 : Queue(n, s)[k] = Tail(q)[k]
  <2> SUFFICES ASSUME NEW k \in 1 .. Count(r) - 1
               PROVE  Queue(n, s)[k] = Tail(q)[k]
    OBVIOUS
  <2>1. k + 1 \in 1 .. Count(r) /\ (k + 1) - 1 = k
    BY <1>3
  <2>2. q[k + 1] = s[SlotAt(r, k)]
    BY <2>1, <1>4
  <2> QED
    BY <2>2, <1>5, <1>6, <1>7
<1>9. Queue(n, s) = Tail(q)
  BY <1>5, <1>6, <1>8, SeqEqual
<1> QED
  BY <1>9 DEF n, q

(* A push and a pop in the same clock are a pop and then a push. *)
LEMMA ClockRingBoth ==
  ASSUME NEW r \in Ring, RingConsistent(r), ~r.full, ~r.empty
  PROVE  /\ ClockRing(r, TRUE, TRUE)
              = ClockRing(ClockRing(r, FALSE, TRUE), TRUE, FALSE)
         /\ ~ClockRing(r, FALSE, TRUE).full
         /\ ClockRing(r, FALSE, TRUE).head = r.head
<1> DEFINE m == ClockRing(r, FALSE, TRUE)
<1>1. r.head \in Index /\ r.tail \in Index /\ r.head # r.tail
  BY DEF Ring, RingConsistent
<1>2. m.head = r.head /\ m.tail = NextIndex(r.tail) /\ m.full = FALSE
  BY DEF ClockRing, NextFull
<1>3. NextIndex(r.head) # NextIndex(r.tail)
  BY <1>1, BufferLengthAssumption DEF Index, NextIndex
<1>4. NextFull(r, TRUE, TRUE) = FALSE /\ NextEmpty(r, TRUE, TRUE) = FALSE
  BY DEF NextFull, NextEmpty, Ring
<1>5. NextFull(m, TRUE, FALSE) = FALSE /\ NextEmpty(m, TRUE, FALSE) = FALSE
  BY <1>2, <1>3 DEF NextFull, NextEmpty
<1>6. ClockRing(r, TRUE, TRUE) = ClockRing(m, TRUE, FALSE)
  <2> HIDE DEF m
  <2> QED
    BY <1>2, <1>4, <1>5 DEF ClockRing
<1> QED
  BY <1>2, <1>6

(* The ring control and its slots implement a bounded FIFO, for every      *)
(* length and every set of values: each clock of circular_buffer.v is one  *)
(* step of the queue.                                                      *)
THEOREM FifoCorrect == Spec => FifoSpec
<1>1. Init => Fifo!Init
  <2> SUFFICES ASSUME Init
               PROVE  Contents = << >>
    BY DEF Fifo!Init
  <2>1. Count(ring) = 0
    BY ResetRingFacts DEF Init
  <2> QED
    BY <2>1 DEF Contents
<1>2. TypeOK /\ Accounting /\ [Next]_vars => [Fifo!Next]_Contents
  <2> SUFFICES ASSUME TypeOK, Accounting, [Next]_vars
               PROVE  Fifo!Next \/ Contents' = Contents
    OBVIOUS
  <2>1. /\ ring \in Ring /\ RingConsistent(ring)
        /\ slots \in [Index -> Values]
    BY DEF TypeOK, Accounting
  <2>2. Contents = Queue(ring, slots) /\ Contents' = Queue(ring', slots')
    BY DEF Contents, Queue
  <2>3. /\ Contents \in Seq(Values)
        /\ Len(Contents) = Count(ring)
        /\ Count(ring) \in 0 .. BUFFER_LENGTH
        /\ ring.full <=> Count(ring) = BUFFER_LENGTH
        /\ ring.empty <=> Count(ring) = 0
    BY <2>1, <2>2, QueueFacts, CountRange
  <2>4. ~ring.full => Len(Contents) < BUFFER_LENGTH
    BY <2>3, BufferLengthAssumption
  <2>5. ~ring.empty => Contents # << >>
    BY <2>3
  <2>6. CASE Reset
    <3>1. Count(ring') = 0
      BY <2>6, ResetRingFacts DEF Reset
    <3>2. Contents' = << >>
      BY <3>1, <2>2 DEF Queue
    <3> QED
      BY <3>2 DEF Fifo!Next, Fifo!Clear
  <2>7. CASE Pop
    <3>1. /\ ~ring.empty /\ slots' = slots
          /\ ring' = ClockRing(ring, FALSE, TRUE)
      BY <2>7 DEF Pop
    <3>2. Contents' = Tail(Contents)
      BY <3>1, <2>1, <2>2, QueuePop
    <3> QED
      BY <3>1, <3>2, <2>5 DEF Fifo!Next, Fifo!Get
  <2>8. ASSUME NEW v \in Values, Push(v)
        PROVE  Fifo!Next
    <3>1. /\ ~ring.full /\ slots' = [slots EXCEPT ![ring.head] = v]
          /\ ring' = ClockRing(ring, TRUE, FALSE)
      BY <2>8 DEF Push
    <3>2. Contents' = Append(Contents, v)
      BY <3>1, <2>1, <2>2, QueuePush
    <3> QED
      BY <3>1, <3>2, <2>4 DEF Fifo!Next, Fifo!Put
  <2>9. ASSUME NEW v \in Values, PushPop(v)
        PROVE  Fifo!Next
    <3> DEFINE m == ClockRing(ring, FALSE, TRUE)
    <3>1. /\ ~ring.full /\ ~ring.empty
          /\ slots' = [slots EXCEPT ![ring.head] = v]
          /\ ring' = ClockRing(ring, TRUE, TRUE)
      BY <2>9 DEF PushPop
    <3>2. m \in Ring /\ RingConsistent(m) /\ ~m.full /\ m.head = ring.head
      BY <3>1, <2>1, ClockRingType, ClockRingPop, ClockRingBoth
    <3>3. ring' = ClockRing(m, TRUE, FALSE)
      BY <3>1, <2>1, ClockRingBoth
    <3>4. Queue(m, slots) = Tail(Contents)
      BY <3>1, <2>1, <2>2, QueuePop
    <3> HIDE DEF m
    <3>5. Contents' = Append(Tail(Contents), v)
      BY <3>1, <3>2, <3>3, <3>4, <2>1, <2>2, QueuePush
    <3> QED
      BY <3>1, <3>5, <2>4, <2>5 DEF Fifo!Next, Fifo!PutGet
  <2>10. CASE UNCHANGED vars
    BY <2>10, <2>2 DEF vars
  <2> QED
    BY <2>6, <2>7, <2>8, <2>9, <2>10 DEF Next
<1> QED
  BY <1>1, <1>2, TypeCorrect, AccountingCorrect, PTL DEF Spec, FifoSpec, Fifo!Spec
=============================================================================
