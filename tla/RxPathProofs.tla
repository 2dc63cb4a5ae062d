---------------------------- MODULE RxPathProofs ----------------------------
(***************************************************************************)
(* Proofs about the receive path for any ports, any ring length, any       *)
(* number of packets and of switches of sockets, under the assumptions on  *)
(* the environment that RxPath names: what is delivered is whole, in order *)
(* and at the right port, and no push meets a full ring.                   *)
(***************************************************************************)
EXTENDS RxPath, RingLemmas, SequenceTheorems, TLAPS

(* The three assumptions on memory, senders and sockets.                   *)
AllAssumed == Assumed = {"memory", "peers", "sockets"}

-----------------------------------------------------------------------------
(***************************************************************************)
(* The packet in the pipeline.                                             *)
(***************************************************************************)

(* The packet whose header is at the outputs of the stack, the ring it     *)
(* selects, and the slot at the head of that ring.                         *)
Now == stack.packet
Port == dest[Now]
Place == << Port, rings[Port].head >>

(* The words of its frame and the beats of its burst.                      *)
Frame == [w \in Words |-> [packet |-> Now, word |-> w]]
Burst == [w \in 1 .. LastWord + 1 |->
           [slot   |-> Place, at |-> w,
            packet |-> IF w \in Words THEN Now ELSE NoPacket,
            last   |-> w \notin Words]]

(* A queue holds what f gives for consecutive numbers from a on.           *)
Run(q, f, a) == \A i \in 1 .. Len(q) : q[i] = f[a + i - 1]

(* The next word that the filter, the register behind it and the register  *)
(* behind the header adder give away, and the next beat the write engine   *)
(* makes and the memory takes.                                             *)
AtFilter == stack.next - Len(adapter)
AtAdder == AtFilter - Len(skid1)
AtEngine == IF adder = "HEADER" THEN 1 ELSE AtAdder - Len(skid2)
AtBus == IF dma.state = "IDLE" /\ AtEngine > LastWord
         THEN LastWord + 2 ELSE AtEngine
AtMemory == AtBus - Len(wchan)

(* Nothing is behind the filter's input. *)
Clear ==
  /\ skid1 = << >> /\ adder = "IDLE" /\ skid2 = << >>
  /\ ~ctl.valid /\ dma.state = "IDLE" /\ wchan = << >>

(* The stages of a packet. *)
Rest ==
  /\ ~stack.hdr_valid /\ stack.next > LastWord /\ adapter = << >>
  /\ filter.state = "IDLE" /\ ~filter.valid /\ Clear

Arrived ==
  /\ stack.hdr_valid /\ stack.next = 2 /\ adapter = << >>
  /\ filter.state = "IDLE" /\ ~filter.valid /\ Clear

Judging ==
  /\ ~stack.hdr_valid /\ AtFilter = 2
  /\ filter.state = "CHECK" /\ (filter.valid <=> Port \in open) /\ Clear

Discarding ==
  /\ ~stack.hdr_valid /\ AtFilter <= LastWord
  /\ filter.state = "DISCARD" /\ ~filter.valid /\ Clear

(* The registers of the filter and of the adder while a packet is written. *)
Passing ==
  /\ filter.state = IF AtFilter <= LastWord THEN "FORWARD" ELSE "IDLE"
  /\ adder = "HEADER" => AtFilter = 2 /\ skid1 = << >> /\ skid2 = << >>
  /\ adder = "PAYLOAD" => AtAdder <= LastWord
  /\ adder = "IDLE" => AtAdder > LastWord

(* The write engine: before the descriptor it has the slot from the ring,  *)
(* after it the slot is in the engine.                                     *)
Engine ==
  \/ /\ AtEngine = 1 /\ dma.state = "IDLE"
     /\ ctl.valid => skid2 # << >> /\ ctl.slot = Place
  \/ AtEngine = 1 /\ dma.state = "START" /\ dma.slot = Place /\ dma.word = 1 /\ ~dma.ready
  \/ /\ AtEngine <= LastWord /\ dma.state = "WRITE" /\ dma.slot = Place
     /\ dma.word = AtEngine /\ ~ctl.valid /\ ~dma.ready
  \/ /\ AtEngine > LastWord /\ dma.state = "FINISH_BURST" /\ dma.slot = Place
     /\ dma.word = AtEngine /\ ~ctl.valid /\ ~dma.ready
  \/ AtEngine > LastWord /\ dma.state = "IDLE" /\ ~ctl.valid /\ wchan # << >>

Writing ==
  /\ ~stack.hdr_valid /\ ~filter.valid
  /\ filter.sel = Port /\ Port \in Ports
  /\ Passing /\ Engine
  /\ \A w \in Words : w < AtMemory =>
       slots[Port][rings[Port].head][w] = Now

PipeInv ==
  /\ Now = Len(dest)
  /\ ~Rest => Now # NoPacket
  /\ Rest \/ Arrived \/ Judging \/ Discarding \/ Writing
  /\ AtAdder >= 2 /\ AtEngine >= 1 /\ AtMemory >= 1
  /\ Run(adapter, Frame, AtFilter)
  /\ Run(skid1, Frame, AtAdder)
  /\ Run(skid2, Frame, AtEngine)
  /\ Run(wchan, Burst, AtMemory)

-----------------------------------------------------------------------------
(***************************************************************************)
(* Rings, reader and histories.                                            *)
(***************************************************************************)

(* The packet in the pipeline will be written to the ring of p, or is.     *)
Coming(p) ==
  \/ Arrived /\ Port = p /\ p \in open
  \/ Judging /\ Port = p /\ p \in open
  \/ Writing /\ Port = p

(* Packets whose slots were given back. *)
Popped(p) ==
  Len(delivered[p]) - (IF reader.pc = "pop" /\ reader.port = p THEN 1 ELSE 0)

HistTypes ==
  /\ delivered \in [Ports -> Seq(Seq(Packet \cup {NoPacket}))]
  /\ reader \in [pc : {"idle", "header", "payload", "pop"},
                 port : Ports \cup {Outside}, tail : Index,
                 frame : Seq(Packet \cup {NoPacket})]

(* Every packet that met an open socket was addressed to it, and has been  *)
(* taken, is in the ring, or is on its way there, in this order.           *)
RingInv(p) ==
  /\ RingConsistent(rings[p])
  /\ Popped(p) \in Nat
  /\ Len(accepted[p])
       = Popped(p) + Count(rings[p]) + (IF Coming(p) THEN 1 ELSE 0)
  /\ Len(accepted[p]) - Popped(p) <= BUFFER_LENGTH
  /\ Coming(p) => accepted[p][Len(accepted[p])] = Now
  /\ \A k \in 1 .. Len(accepted[p]) :
       accepted[p][k] \in DOMAIN dest /\ dest[accepted[p][k]] = p
  /\ \A k \in 0 .. Count(rings[p]) - 1 : \A w \in Words :
       slots[p][SlotAt(rings[p], k)][w] = accepted[p][Popped(p) + k + 1]
  /\ Len(delivered[p]) <= Len(accepted[p])
  /\ \A k \in 1 .. Len(delivered[p]) : \A w \in Words :
       delivered[p][k][w] = accepted[p][k]

ReaderInv ==
  reader.pc # "idle" =>
    /\ reader.port \in Ports
    /\ ~rings[reader.port].empty
    /\ reader.tail = rings[reader.port].tail
    /\ reader.pc = "payload" =>
         reader.frame = << slots[reader.port][reader.tail][1] >>

RxInv ==
  /\ TypeOK /\ HistTypes
  /\ PipeInv
  /\ \A p \in Ports : RingInv(p)
  /\ ReaderInv

-----------------------------------------------------------------------------
(***************************************************************************)
(* Queues that hold consecutive values.                                    *)
(***************************************************************************)

(* The empty queue is the one of length 0. *)
LEMMA LenZero ==
  ASSUME NEW S, NEW q \in Seq(S)
  PROVE  /\ Len(q) \in Nat /\ << >> \in Seq(S)
         /\ Len(q) = 0 <=> q = << >>
         /\ Len(q) < 1 => q = << >>
<1>1. Len(<< >>) = 0 /\ << >> \in Seq(S) /\ Len(q) \in Nat
  BY EmptySeq
<1>2. CASE q = << >>
  BY <1>1, <1>2
<1>3. CASE q # << >>
  BY <1>3, EmptySeq
<1> QED
  BY <1>1, <1>2, <1>3

(* The first element may leave such a queue.                               *)
LEMMA RunLeaves ==
  ASSUME NEW S, NEW q \in Seq(S), NEW f, NEW a \in Int, Run(q, f, a),
         NEW out \in BOOLEAN, out => q # << >>
  PROVE  LET rest == IF out THEN Tail(q) ELSE q
         IN  /\ rest \in Seq(S)
             /\ Len(rest) = Len(q) - (IF out THEN 1 ELSE 0)
             /\ Run(rest, f, a + (IF out THEN 1 ELSE 0))
             /\ out => Head(q) = f[a] /\ Head(q) \in S
<1>1. CASE out
  <2>1. /\ Head(q) \in S /\ Tail(q) \in Seq(S)
        /\ Len(Tail(q)) = Len(q) - 1 /\ Len(q) \in Nat
        /\ Head(q) = q[1]
        /\ \A i \in 1 .. Len(Tail(q)) : Tail(q)[i] = q[i + 1]
    BY <1>1, HeadTailProperties
  <2>2. Head(q) = f[a]
    <3>1. q[1] = f[a + 1 - 1]
      BY <1>1, EmptySeq DEF Run
    <3> QED
      BY <2>1, <3>1
  <2>3. Run(Tail(q), f, a + 1)
    <3>1. ASSUME NEW i \in 1 .. Len(Tail(q))
          PROVE  Tail(q)[i] = f[a + 1 + i - 1]
      <4>1. i + 1 \in 1 .. Len(q) /\ a + (i + 1) - 1 = a + 1 + i - 1
        BY <2>1
      <4> QED
        BY <2>1, <4>1 DEF Run
    <3> QED
      BY <3>1 DEF Run
  <2> QED
    BY <1>1, <2>1, <2>2, <2>3
<1>2. CASE ~out
  BY <1>2
<1> QED
  BY <1>1, <1>2

(* What leaves it first. *)
LEMMA RunHead ==
  ASSUME NEW S, NEW q \in Seq(S), NEW f, NEW a \in Int, Run(q, f, a),
         q # << >>
  PROVE  Head(q) = f[a] /\ Head(q) \in S
<1>1. Len(q) \in Nat \ {0} /\ Head(q) = q[1] /\ Head(q) \in S
  BY EmptySeq, HeadTailProperties
<1>2. q[1] = f[a + 1 - 1]
  BY <1>1 DEF Run
<1> QED
  BY <1>1, <1>2

(* The next value may join it. *)
LEMMA RunJoins ==
  ASSUME NEW S, NEW q \in Seq(S), NEW f, NEW a \in Int, Run(q, f, a),
         NEW e \in S, e = f[a + Len(q)]
  PROVE  /\ Append(q, e) \in Seq(S) /\ Len(Append(q, e)) = Len(q) + 1
         /\ Run(Append(q, e), f, a)
<1>1. /\ Append(q, e) \in Seq(S) /\ Len(Append(q, e)) = Len(q) + 1
      /\ \A i \in 1 .. Len(q) : Append(q, e)[i] = q[i]
      /\ Append(q, e)[Len(q) + 1] = e /\ Len(q) \in Nat
  BY AppendProperties
<1>2. ASSUME NEW i \in 1 .. Len(Append(q, e))
      PROVE  Append(q, e)[i] = f[a + i - 1]
  <2>1. CASE i = Len(q) + 1
    BY <1>1, <2>1
  <2>2. CASE i \in 1 .. Len(q)
    BY <1>1, <2>2 DEF Run
  <2> QED
    BY <1>1, <2>1, <2>2
<1> QED
  BY <1>1, <1>2 DEF Run

(* An empty queue holds them from anywhere on. *)
LEMMA RunEmpty ==
  ASSUME NEW f, NEW a
  PROVE  Run(<< >>, f, a)
BY DEF Run

-----------------------------------------------------------------------------
(***************************************************************************)
(* The stages before a packet reaches the adder.                           *)
(***************************************************************************)

(* A clock with nothing behind the filter that the filter adds nothing to. *)
LEMMA ClearClock ==
  ASSUME TypeOK, Clear, filter.state # "FORWARD",
         NEW feed, NEW room, NEW wready, NEW pop,
         Stream(feed, room, wready, pop)
  PROVE  /\ skid1' = << >> /\ skid2' = << >> /\ wchan' = << >>
         /\ ~ctl'.valid /\ dma'.state = "IDLE" /\ slots' = slots
         /\ ~Pushed(wready) /\ HdrReady
         /\ adder' = IF filter.valid THEN "HEADER" ELSE "IDLE"
<1>1. Len(<< >>) = 0 /\ SkidReady(skid2)
  BY DEF Clear, SkidReady
<1>2. ~PayloadBeat /\ ~FrameBeat(room) /\ ~WriteBeat(wready)
  BY DEF Clear, PayloadBeat, FrameBeat, WriteBeat
<1>3. skid1' = << >> /\ skid2' = << >> /\ wchan' = << >> /\ slots' = slots
  BY <1>2 DEF Clear, Stream, NextSkid1, NextSkid2, NextWchan, NextSlots
<1>4. ~ctl'.valid /\ dma'.state = "IDLE"
  BY <1>2 DEF Clear, Stream, NextCtl, NextDma, TypeOK
<1>5. HdrReady /\ adder' = IF filter.valid THEN "HEADER" ELSE "IDLE"
  BY <1>1 DEF Clear, Stream, HdrReady, NextAdder
<1> QED
  BY <1>2, <1>3, <1>4, <1>5 DEF Pushed

(* A packet, once it is at the outputs of the stack, goes nowhere else.    *)
LEMMA FilterClock ==
  ASSUME TypeOK, PipeInv,
         NEW feed \in BOOLEAN, NEW room, NEW wready, NEW pop,
         Tick(feed, room, wready, pop)
  PROVE  /\ Now' = Now /\ dest' = dest /\ Frame' = Frame
         /\ stack'.next \in 2 .. LastWord + 1
         /\ adapter' \in Seq(Word) /\ Len(adapter') <= 1
         /\ AtFilter' = AtFilter + (IF Consumed THEN 1 ELSE 0)
         /\ Run(adapter', Frame, AtFilter')
         /\ Consumed => Head(adapter) = Frame[AtFilter] /\ adapter' = << >>
         /\ AtFilter \in Int /\ AtFilter <= LastWord + 1
         /\ Consumed => AtFilter <= LastWord
<1>1. /\ adapter \in Seq(Word) /\ Len(adapter) \in 0 .. 1
      /\ stack.next \in 2 .. LastWord + 1
      /\ Len(adapter) = 0 <=> adapter = << >>
      /\ << >> \in Seq(Word) /\ Len(<< >>) = 0
  <2>1. adapter \in Seq(Word) /\ Len(adapter) <= 1
    BY DEF TypeOK
  <2>2. /\ Len(adapter) \in Nat /\ << >> \in Seq(Word) /\ Len(<< >>) = 0
        /\ Len(adapter) = 0 <=> adapter = << >>
    BY <2>1, LenZero
  <2>3. stack.next \in 2 .. LastWord + 1
    BY DEF TypeOK
  <2>5. Len(adapter) \in 0 .. 1
    <3>1. \A n \in Nat : n <= 1 => n \in 0 .. 1
      OBVIOUS
    <3> QED
      BY <2>1, <2>2, <3>1
  <2> QED
    BY <2>1, <2>2, <2>3, <2>5
<1>2. /\ Now' = Now /\ dest' = dest
      /\ stack'.next = IF Feeds(feed) THEN stack.next + 1 ELSE stack.next
      /\ adapter' = NextAdapter(feed)
  BY DEF Tick, Stream, NextStack, TypeOK, Now
<1>3. Frame' = Frame
  BY <1>2 DEF Frame
<1>4. /\ stack'.next \in 2 .. LastWord + 1 /\ AtFilter \in Int
      /\ AtFilter <= LastWord + 1
  BY <1>1, <1>2 DEF Feeds, LastWord, AtFilter
<1>5. Consumed => /\ Head(adapter) = Frame[AtFilter] /\ ~Feeds(feed)
                  /\ AtFilter <= LastWord /\ adapter' = << >>
  <2>1. ASSUME adapter # << >> PROVE Head(adapter) = Frame[AtFilter]
    <3> QED
      BY <1>1, <1>4, <2>1, RunHead DEF PipeInv
  <2> QED
    BY <1>1, <1>2, <2>1 DEF Consumed, Feeds, NextAdapter, AtFilter, LastWord
<1>6. CASE Consumed
  <2>1. adapter # << >> /\ adapter' = << >> /\ stack'.next = stack.next
    BY <1>2, <1>5, <1>6 DEF Consumed
  <2>2. Len(adapter) = 1 /\ Len(adapter') = 0
    BY <1>1, <2>1
  <2>3. AtFilter' = AtFilter + 1
    BY <1>1, <2>1, <2>2 DEF AtFilter, LastWord
  <2>4. Run(adapter', Frame, AtFilter')
    BY <2>1, RunEmpty
  <2> QED
    BY <1>1, <1>2, <1>3, <1>4, <1>5, <1>6, <2>1, <2>2, <2>3, <2>4
<1>7. CASE ~Consumed /\ Feeds(feed)
  <2> DEFINE w == [packet |-> stack.packet, word |-> stack.next]
  <2>1. stack.next \in Words /\ adapter = << >>
    BY <1>1, <1>7 DEF Feeds, Words, LastWord
  <2>2. Now # NoPacket
    BY <2>1 DEF PipeInv, Rest, Words, LastWord
  <2>3. w \in Word /\ w = Frame[stack.next]
    BY <2>1, <2>2 DEF Word, TypeOK, Now, Frame
  <2>4. adapter' = << w >>
    BY <1>2, <1>7 DEF NextAdapter
  <2> HIDE DEF w
  <2>5. << w >> \in Seq(Word) /\ Len(<< w >>) = 1 /\ << w >>[1] = w
    BY <2>3
  <2>6. AtFilter' = AtFilter /\ AtFilter = stack.next
    BY <1>1, <1>2, <1>7, <2>1, <2>4, <2>5 DEF AtFilter
  <2>7. Run(adapter', Frame, AtFilter')
    BY <1>1, <2>3, <2>4, <2>5, <2>6 DEF Run
  <2> QED
    BY <1>2, <1>3, <1>4, <1>7, <2>4, <2>5, <2>6, <2>7
<1>8. CASE ~Consumed /\ ~Feeds(feed)
  <2>1. adapter' = adapter /\ AtFilter' = AtFilter
    BY <1>2, <1>8 DEF NextAdapter, AtFilter
  <2>2. Run(adapter', Frame, AtFilter')
    BY <2>1 DEF PipeInv
  <2>3. Len(adapter') <= 1
    BY <2>1 DEF TypeOK
  <2> QED
    BY <1>1, <1>2, <1>3, <1>4, <1>8, <2>1, <2>2, <2>3
<1> QED
  BY <1>6, <1>7, <1>8, <1>2, <1>3, <1>4, <1>5

(* With nothing behind the filter, the rest of the invariant follows.      *)
LEMMA ClearPipe ==
  ASSUME Clear', Now' = Len(dest'), ~Rest' => Now' # NoPacket,
         Rest' \/ Arrived' \/ Judging' \/ Discarding',
         NEW f \in Int, AtFilter' = f, f >= 2, Run(adapter', Frame', f)
  PROVE  PipeInv'
<1>1. skid1' = << >> /\ skid2' = << >> /\ wchan' = << >> /\ adder' = "IDLE"
  BY DEF Clear
<1>2. Len(<< >>) = 0
  BY EmptySeq
<1>3. Len(skid1') = 0 /\ Len(skid2') = 0 /\ Len(wchan') = 0
  BY <1>1, <1>2
<1>4. AtAdder' = f /\ AtEngine' = f
  BY <1>1, <1>3 DEF AtAdder, AtEngine
<1>5. AtMemory' >= 1
  <2>1. PICK b \in Int : AtBus' = b /\ b >= 1
    BY <1>4 DEF AtBus, LastWord
  <2> QED
    BY <1>3, <2>1 DEF AtMemory
<1>6. /\ Run(skid1', Frame', AtAdder') /\ Run(skid2', Frame', AtEngine')
      /\ Run(wchan', Burst', AtMemory')
  BY <1>1, RunEmpty
<1> QED
  BY <1>4, <1>5, <1>6 DEF PipeInv

(* The new packet of an idle path. *)
LEMMA ArrivalStep ==
  ASSUME TypeOK, PipeInv, Rest, NEW p \in Ports \cup {Outside},
         NEW room, NEW wready, NEW pop, TickArrival(p, room, wready, pop)
  PROVE  /\ PipeInv' /\ Arrived' /\ Port' = p /\ Now' = Len(dest) + 1
         /\ slots' = slots /\ ~Pushed(wready)
<1>1. Stream(FALSE, room, wready, pop) /\ Clear /\ ~stack.hdr_valid
  BY DEF TickArrival, Rest
<1>2. /\ stack'.hdr_valid /\ stack'.next = 2 /\ Now' = Len(dest) + 1
      /\ dest' = Append(dest, p)
  BY DEF TickArrival, Now
<1>3. /\ skid1' = << >> /\ skid2' = << >> /\ wchan' = << >>
      /\ ~ctl'.valid /\ dma'.state = "IDLE" /\ slots' = slots
      /\ ~Pushed(wready) /\ adder' = "IDLE"
  BY <1>1, ClearClock DEF Rest
<1>4. adapter' = << >>
  BY <1>1 DEF Rest, Stream, NextAdapter, Feeds, Consumed
<1>5. filter'.state = "IDLE" /\ ~filter'.valid
  BY <1>1 DEF Rest, Stream, NextFilter, NextFilterState
<1>6. Arrived' /\ Clear'
  BY <1>2, <1>3, <1>4, <1>5 DEF Arrived, Clear
<1>7. Len(dest) \in Nat /\ Len(dest') = Len(dest) + 1 /\ dest'[Len(dest) + 1] = p
  BY <1>2, AppendProperties DEF TypeOK
<1>8. Len(<< >>) = 0
  BY EmptySeq
<1>9. AtFilter' = 2 /\ Run(adapter', Frame', AtFilter')
  BY <1>2, <1>4, <1>8, RunEmpty DEF AtFilter
<1>10. PipeInv'
  BY <1>2, <1>6, <1>7, <1>9, ClearPipe DEF NoPacket
<1> QED
  BY <1>2, <1>3, <1>6, <1>7, <1>10 DEF Port

(* The clocks of a packet that has not been accepted yet, or is dropped.   *)
LEMMA ClearStep ==
  ASSUME TypeOK, PipeInv, Rest \/ Arrived \/ Discarding,
         NEW feed \in BOOLEAN, NEW room, NEW wready, NEW pop,
         Tick(feed, room, wready, pop)
  PROVE  /\ PipeInv' /\ slots' = slots /\ ~Pushed(wready)
         /\ Rest => Rest'
         /\ Arrived => Judging'
         /\ Discarding => Rest' \/ Discarding'
<1>1. /\ Stream(feed, room, wready, pop) /\ Clear /\ ~filter.valid
      /\ filter.state \in {"IDLE", "DISCARD"}
  BY DEF Tick, Rest, Arrived, Discarding
<1>2. /\ skid1' = << >> /\ skid2' = << >> /\ wchan' = << >>
      /\ ~ctl'.valid /\ dma'.state = "IDLE" /\ slots' = slots
      /\ ~Pushed(wready) /\ adder' = "IDLE" /\ HdrReady
  BY <1>1, ClearClock
<1>3. Clear' /\ ~stack'.hdr_valid
  BY <1>2 DEF Clear, Tick, NextStack, TypeOK
<1>4. /\ Now' = Now /\ dest' = dest /\ Frame' = Frame
      /\ stack'.next \in 2 .. LastWord + 1
      /\ adapter' \in Seq(Word) /\ Len(adapter') <= 1
      /\ AtFilter' = AtFilter + (IF Consumed THEN 1 ELSE 0)
      /\ Run(adapter', Frame, AtFilter')
      /\ Consumed => Head(adapter) = Frame[AtFilter] /\ adapter' = << >>
      /\ AtFilter \in Int /\ AtFilter <= LastWord + 1
      /\ Consumed => AtFilter <= LastWord
  BY FilterClock
<1>5. Len(adapter') \in Nat /\ (Len(adapter') = 0 <=> adapter' = << >>)
  BY <1>4, LenZero
<1>6. Len(<< >>) = 0
  BY EmptySeq
<1>7. CASE Rest
  <2>1. adapter' = << >> /\ stack'.next = stack.next
    <3>1. ~Consumed /\ ~Feeds(feed)
      BY <1>4, <1>7 DEF Rest, Feeds, Consumed, TypeOK, LastWord
    <3>2. adapter' = NextAdapter(feed) /\ stack' = NextStack(feed)
      BY DEF Tick, Stream
    <3>3. adapter' = adapter /\ stack'.next = stack.next
      BY <3>1, <3>2 DEF NextAdapter, NextStack, TypeOK
    <3> QED
      BY <1>7, <3>3 DEF Rest
  <2>2. filter'.state = "IDLE" /\ ~filter'.valid
    BY <1>7 DEF Rest, Stream, Tick, NextFilter, NextFilterState
  <2>3. Rest'
    BY <1>3, <1>7, <2>1, <2>2 DEF Rest
  <2>4. AtFilter' = stack'.next
    BY <1>4, <1>6, <2>1 DEF AtFilter
  <2> QED
    BY <1>2, <1>3, <1>4, <1>7, <2>3, <2>4, ClearPipe
       DEF PipeInv, Rest, Arrived, Discarding
<1>8. CASE Arrived
  <2>1. ~Consumed /\ AtFilter = 2
    BY <1>6, <1>8 DEF Arrived, Consumed, AtFilter
  <2>2. filter'.state = "CHECK" /\ (filter'.valid <=> ValidPort)
    BY <1>8 DEF Arrived, Stream, Tick, NextFilter, NextFilterState
  <2>3. ValidPort' <=> ValidPort
    BY <1>1, <1>4 DEF ValidPort, Stream, Now
  <2>4. Now # NoPacket
    BY <1>8 DEF PipeInv, Rest, Arrived
  <2>5. filter'.valid <=> Port' \in open'
    BY <1>1, <1>4, <2>2, <2>4 DEF ValidPort, Stream, Port, Now
  <2>6. Judging'
    BY <1>3, <1>4, <2>1, <2>2, <2>5 DEF Judging
  <2> QED
    BY <1>2, <1>3, <1>4, <1>8, <2>1, <2>4, <2>6, ClearPipe
       DEF PipeInv, Rest, Arrived, Discarding
<1>9. CASE Discarding
  <2>1. ~filter'.valid
    BY <1>9 DEF Discarding, Stream, Tick, NextFilter
  <2>2. AtFilter >= 2 /\ Now # NoPacket
    <3>1. AtAdder = AtFilter
      BY <1>1, <1>4, <1>6 DEF Clear, AtAdder
    <3> QED
      BY <1>9, <3>1 DEF PipeInv, Rest, Discarding
  <2>3. PayloadLast <=> Consumed /\ AtFilter = LastWord
    BY <1>4, <1>9, <2>2 DEF PayloadLast, Frame, Discarding, Words, LastWord
  <2>4. CASE PayloadLast
    <3>1. filter'.state = "IDLE"
      BY <1>9, <2>4 DEF Discarding, Stream, Tick, NextFilter, NextFilterState
    <3>2. AtFilter' = LastWord + 1 /\ adapter' = << >>
      BY <1>4, <2>3, <2>4 DEF LastWord
    <3>3. stack'.next > LastWord
      BY <1>4, <1>6, <3>2 DEF AtFilter, LastWord
    <3>4. Rest'
      BY <1>3, <2>1, <3>1, <3>2, <3>3 DEF Rest
    <3> QED
      BY <1>2, <1>3, <1>4, <1>9, <2>2, <3>2, <3>4, ClearPipe
         DEF PipeInv, Rest, Arrived, Discarding, LastWord
  <2>5. CASE ~PayloadLast
    <3>1. filter'.state = "DISCARD"
      BY <1>9, <2>5 DEF Discarding, Stream, Tick, NextFilter, NextFilterState
    <3>2. AtFilter' <= LastWord /\ AtFilter' >= 2 /\ AtFilter' \in Int
      BY <1>4, <1>9, <2>2, <2>3, <2>5 DEF LastWord, Discarding
    <3>3. Discarding'
      BY <1>3, <2>1, <3>1, <3>2 DEF Discarding
    <3> QED
      BY <1>2, <1>3, <1>4, <1>9, <2>2, <3>2, <3>3, ClearPipe
         DEF PipeInv, Rest, Arrived, Discarding
  <2> QED
    BY <2>4, <2>5
<1> QED
  BY <1>7, <1>8, <1>9

(* The decision of the filter. *)
LEMMA JudgingStep ==
  ASSUME TypeOK, PipeInv, Judging,
         NEW feed \in BOOLEAN, NEW room, NEW wready, NEW pop,
         Tick(feed, room, wready, pop)
  PROVE  /\ PipeInv' /\ slots' = slots /\ ~Pushed(wready)
         /\ IF Port \in open THEN Writing' ELSE Discarding'
<1>1. /\ Stream(feed, room, wready, pop) /\ Clear /\ filter.state = "CHECK"
      /\ AtFilter = 2 /\ Now # NoPacket
  BY DEF Tick, Judging, PipeInv, Rest
<1>2. /\ skid1' = << >> /\ skid2' = << >> /\ wchan' = << >>
      /\ ~ctl'.valid /\ dma'.state = "IDLE" /\ slots' = slots
      /\ ~Pushed(wready) /\ HdrReady
      /\ adder' = IF filter.valid THEN "HEADER" ELSE "IDLE"
  BY <1>1, ClearClock
<1>3. ~stack'.hdr_valid
  BY <1>2 DEF Tick, NextStack, TypeOK
<1>4. ~Consumed
  BY <1>1 DEF Consumed, FilterReady
<1>5. /\ Now' = Now /\ dest' = dest /\ Frame' = Frame
      /\ AtFilter' = 2 /\ Run(adapter', Frame, AtFilter')
  BY <1>1, <1>4, FilterClock
<1>6. Port' = Port /\ (ValidPort <=> Port \in open) /\ (filter.valid <=> Port \in open)
  BY <1>1, <1>5 DEF Port, ValidPort, Judging, Now
<1>7. ~filter'.valid
  BY DEF Tick, Stream, NextFilter, Judging
<1>8. filter'.state = IF Port \in open THEN "FORWARD" ELSE "DISCARD"
  BY <1>1, <1>6 DEF Stream, NextFilter, NextFilterState
<1>9. CASE Port \notin open
  <2>1. Clear' /\ Discarding'
    BY <1>2, <1>3, <1>5, <1>6, <1>7, <1>8, <1>9 DEF Clear, Discarding, LastWord
  <2> QED
    BY <1>1, <1>2, <1>5, <1>9, <2>1, ClearPipe DEF PipeInv
<1>10. CASE Port \in open
  <2>1. Len(<< >>) = 0
    BY EmptySeq
  <2>2. /\ adder' = "HEADER" /\ Len(skid1') = 0 /\ Len(skid2') = 0
        /\ Len(wchan') = 0
    BY <1>2, <1>6, <1>10, <2>1
  <2>3. AtAdder' = 2 /\ AtEngine' = 1
    BY <1>5, <2>2 DEF AtAdder, AtEngine
  <2>4. AtMemory' = 1
    BY <2>2, <2>3 DEF AtMemory, AtBus, LastWord
  <2>5. Port' \in Ports /\ filter'.sel = Port'
    BY <1>1, <1>6, <1>10 DEF TypeOK, Stream, NextFilter, NextSel, RingOf, Port, Now
  <2>6. Passing'
    BY <1>2, <1>5, <1>8, <1>10, <2>2, <2>3 DEF Passing, LastWord
  <2>7. Engine'
    BY <1>2, <2>3 DEF Engine
  <2>8. \A w \in Words : ~(w < AtMemory')
    BY <2>4 DEF Words
  <2>9. Writing'
    BY <1>3, <1>7, <2>5, <2>6, <2>7, <2>8 DEF Writing
  <2>10. /\ Run(skid1', Frame', AtAdder') /\ Run(skid2', Frame', AtEngine')
         /\ Run(wchan', Burst', AtMemory')
    BY <1>2, RunEmpty
  <2>11. Now' = Len(dest') /\ Now' # NoPacket
    BY <1>1, <1>5 DEF PipeInv
  <2>12. AtAdder' >= 2 /\ AtEngine' >= 1 /\ AtMemory' >= 1
    BY <2>3, <2>4
  <2> QED
    BY <1>2, <1>5, <1>10, <2>9, <2>10, <2>11, <2>12 DEF PipeInv
<1> QED
  BY <1>9, <1>10

-----------------------------------------------------------------------------
(***************************************************************************)
(* The clocks in which a packet is written.                                *)
(***************************************************************************)

(* What moves in a clock, counted. *)
One(b) == IF b THEN 1 ELSE 0

(* The write engine puts a beat into its output FIFO. *)
BurstBeat(room) ==
  FrameBeat(room) \/ (dma.state = "FINISH_BURST" /\ room)

(* How far the packet has come. *)
LEMMA WritingRange ==
  ASSUME TypeOK, PipeInv, Writing
  PROVE  /\ Len(skid1) \in Nat /\ Len(skid2) \in Nat /\ Len(wchan) \in Nat
         /\ Len(skid1) <= 2 /\ Len(skid2) <= 2
         /\ AtFilter \in Int /\ AtAdder \in Int /\ AtEngine \in Int
         /\ AtBus \in Int /\ AtMemory \in Int
         /\ 2 <= AtAdder /\ AtAdder <= AtFilter /\ AtFilter <= LastWord + 1
         /\ 1 <= AtEngine /\ AtEngine <= AtAdder
         /\ 1 <= AtMemory /\ AtMemory <= AtBus /\ AtBus <= LastWord + 2
         /\ AtAdder = AtFilter - Len(skid1)
         /\ adder # "HEADER" => AtEngine = AtAdder - Len(skid2)
         /\ AtMemory = AtBus - Len(wchan)
         /\ AtEngine <= AtBus
<1>1. /\ Len(skid1) \in Nat /\ Len(skid2) \in Nat /\ Len(wchan) \in Nat
      /\ Len(adapter) \in Nat
      /\ Len(skid1) <= 2 /\ Len(skid2) <= 2 /\ stack.next \in 2 .. LastWord + 1
  BY LenZero DEF TypeOK
<1>2. AtFilter \in Int /\ AtFilter <= LastWord + 1
  BY <1>1 DEF AtFilter, LastWord
<1>3. AtAdder \in Int /\ AtAdder = AtFilter - Len(skid1) /\ AtAdder <= AtFilter
  BY <1>1, <1>2 DEF AtAdder
<1>4. 2 <= AtAdder /\ 1 <= AtEngine /\ 1 <= AtMemory
  BY DEF PipeInv
<1>5. /\ AtEngine \in Int /\ AtEngine <= AtAdder
      /\ adder # "HEADER" => AtEngine = AtAdder - Len(skid2)
  BY <1>1, <1>3, <1>4 DEF AtEngine
<1>6. AtBus \in Int /\ AtBus <= LastWord + 2 /\ AtEngine <= AtBus
  BY <1>2, <1>3, <1>5 DEF AtBus, LastWord
<1>7. AtMemory \in Int /\ AtMemory = AtBus - Len(wchan) /\ AtMemory <= AtBus
  BY <1>1, <1>6 DEF AtMemory
<1> QED
  BY <1>1, <1>2, <1>3, <1>4, <1>5, <1>6, <1>7

(* There is a packet. *)
LEMMA WritingPacket ==
  ASSUME TypeOK, PipeInv, Writing
  PROVE  ~Rest /\ Now \in Packet /\ Now # NoPacket
<1>1. ASSUME Rest PROVE FALSE
  <2>1. /\ skid2 = << >> /\ wchan = << >> /\ adder = "IDLE"
        /\ dma.state = "IDLE" /\ AtAdder > LastWord
    BY <1>1 DEF Rest, Clear, Writing, Passing
  <2>2. Len(skid2) = 0
    BY <2>1, EmptySeq
  <2>3. AtEngine = AtAdder /\ AtAdder \in Int
    BY <2>1, <2>2, WritingRange
  <2> QED
    BY <2>1, <2>3 DEF Writing, Engine, LastWord
<1> QED
  BY <1>1 DEF TypeOK, Now, PipeInv

(* The register behind the filter. *)
LEMMA Skid1Clock ==
  ASSUME TypeOK, PipeInv, Writing,
         NEW feed \in BOOLEAN, NEW room, NEW wready, NEW pop,
         Tick(feed, room, wready, pop)
  PROVE  /\ skid1' \in Seq(Word) /\ Len(skid1') <= 2
         /\ Len(skid1') = Len(skid1) + One(Consumed) - One(PayloadBeat)
         /\ Run(skid1', Frame, AtAdder + One(PayloadBeat))
         /\ PayloadBeat => /\ Head(skid1) = Frame[AtAdder] /\ Head(skid1) \in Word
                           /\ AtAdder <= LastWord
<1> DEFINE rest == IF PayloadBeat THEN Tail(skid1) ELSE skid1
<1>1. /\ Len(skid1) \in Nat /\ Len(skid1) <= 2 /\ AtAdder \in Int
      /\ AtFilter \in Int /\ AtAdder = AtFilter - Len(skid1)
      /\ AtFilter <= LastWord + 1
  BY WritingRange
<1>2. skid1 \in Seq(Word) /\ Run(skid1, Frame, AtAdder) /\ PayloadBeat \in BOOLEAN
  BY DEF TypeOK, PipeInv, PayloadBeat
<1>3. PayloadBeat => skid1 # << >>
  BY DEF PayloadBeat
<1>4. /\ rest \in Seq(Word) /\ Len(rest) = Len(skid1) - One(PayloadBeat)
      /\ Run(rest, Frame, AtAdder + One(PayloadBeat))
      /\ PayloadBeat => Head(skid1) = Frame[AtAdder] /\ Head(skid1) \in Word
  <2> HIDE DEF Frame
  <2> QED
    BY <1>1, <1>2, <1>3, RunLeaves DEF One
<1>5. PayloadBeat => AtAdder <= LastWord
  <2>1. PayloadBeat => Len(skid1) # 0
    BY <1>2, LenZero DEF PayloadBeat
  <2> QED
    BY <1>1, <2>1 DEF LastWord
<1>6. Consumed => filter.state = "FORWARD" /\ SkidReady(skid1)
  <2>1. Consumed => AtFilter <= LastWord
    BY FilterClock
  <2> QED
    BY <2>1 DEF Writing, Passing, Consumed, FilterReady
<1> HIDE DEF rest
<1>7. skid1' = IF Consumed THEN rest \o adapter ELSE rest
  BY <1>6 DEF Tick, Stream, NextSkid1, rest
<1>8. One(PayloadBeat) \in {0, 1}
  BY DEF One
<1>9. CASE ~Consumed
  BY <1>1, <1>4, <1>5, <1>7, <1>8, <1>9 DEF One
<1>10. CASE Consumed
  <2>1. adapter \in Seq(Word) /\ Len(adapter) = 1
    <3>1. adapter \in Seq(Word) /\ Len(adapter) <= 1 /\ adapter # << >>
      BY <1>10 DEF TypeOK, Consumed
    <3>2. Len(adapter) \in Nat /\ Len(adapter) # 0
      BY <3>1, LenZero
    <3>3. \A n \in Nat : n <= 1 /\ n # 0 => n = 1
      OBVIOUS
    <3> QED
      BY <3>1, <3>2, <3>3
  <2>2. adapter[1] = Frame[AtFilter]
    <3>1. Run(adapter, Frame, AtFilter)
      BY DEF PipeInv
    <3> QED
      BY <1>1, <2>1, <3>1 DEF Run
  <2>3. /\ rest \o adapter \in Seq(Word)
        /\ Len(rest \o adapter) = Len(rest) + 1
        /\ \A i \in 1 .. Len(rest) + 1 : (rest \o adapter)[i] =
             IF i <= Len(rest) THEN rest[i] ELSE adapter[i - Len(rest)]
    <3>1. /\ rest \o adapter \in Seq(Word)
          /\ Len(rest \o adapter) = Len(rest) + Len(adapter)
          /\ \A i \in 1 .. Len(rest) + Len(adapter) : (rest \o adapter)[i] =
               IF i <= Len(rest) THEN rest[i] ELSE adapter[i - Len(rest)]
      BY <1>4, <2>1, ConcatProperties
    <3> QED
      BY <2>1, <3>1
  <2>4. Len(rest) \in Nat /\ AtAdder + One(PayloadBeat) + Len(rest) = AtFilter
    BY <1>1, <1>4, <1>8, LenZero
  <2>5. ASSUME NEW i \in 1 .. Len(rest \o adapter)
        PROVE  (rest \o adapter)[i] = Frame[AtAdder + One(PayloadBeat) + i - 1]
    <3>1. CASE i <= Len(rest)
      BY <1>4, <2>3, <2>4, <2>5, <3>1 DEF Run
    <3>2. CASE i = Len(rest) + 1
      <4>1. i - Len(rest) = 1 /\ ~(i <= Len(rest))
        BY <2>4, <3>2
      <4>2. AtAdder + One(PayloadBeat) + i - 1 = AtFilter
        BY <1>1, <1>8, <2>4, <3>2
      <4> QED
        BY <2>2, <2>3, <2>5, <4>1, <4>2
    <3> QED
      BY <2>3, <2>4, <3>1, <3>2
  <2>6. Run(rest \o adapter, Frame, AtAdder + One(PayloadBeat))
    BY <2>5 DEF Run
  <2>7. Len(skid1') <= 2
    BY <1>1, <1>4, <1>6, <1>7, <1>8, <1>10, <2>3 DEF SkidReady
  <2> QED
    BY <1>1, <1>4, <1>5, <1>7, <1>8, <1>10, <2>3, <2>6, <2>7 DEF One
<1> QED
  BY <1>9, <1>10

(* The header adder and the register behind it. *)
LEMMA Skid2Clock ==
  ASSUME TypeOK, PipeInv, Writing,
         NEW feed \in BOOLEAN, NEW room \in BOOLEAN, NEW wready, NEW pop,
         Tick(feed, room, wready, pop)
  PROVE  /\ skid2' \in Seq(Word) /\ Len(skid2') <= 2
         /\ Len(skid2') = Len(skid2) + One(adder = "HEADER")
                            + One(PayloadBeat) - One(FrameBeat(room))
         /\ Run(skid2', Frame, AtEngine + One(FrameBeat(room)))
         /\ FrameBeat(room) => /\ Head(skid2) = Frame[AtEngine]
                               /\ Head(skid2) \in Word /\ AtEngine <= LastWord
                               /\ adder # "HEADER"
         /\ adder' = IF adder = "HEADER" THEN "PAYLOAD"
                     ELSE IF PayloadBeat /\ AtAdder = LastWord THEN "IDLE"
                     ELSE adder
<1> DEFINE rest == IF FrameBeat(room) THEN Tail(skid2) ELSE skid2
           header == [packet |-> stack.packet, word |-> 1]
<1>1. /\ Len(skid2) \in Nat /\ Len(skid2) <= 2 /\ AtAdder \in Int
      /\ AtEngine \in Int /\ AtAdder <= LastWord + 1
      /\ adder # "HEADER" => AtEngine = AtAdder - Len(skid2)
  BY WritingRange DEF LastWord
<1>2. /\ skid2 \in Seq(Word) /\ Run(skid2, Frame, AtEngine)
      /\ FrameBeat(room) \in BOOLEAN /\ (FrameBeat(room) => skid2 # << >>)
  BY DEF TypeOK, PipeInv, FrameBeat
<1>3. /\ rest \in Seq(Word) /\ Len(rest) = Len(skid2) - One(FrameBeat(room))
      /\ Run(rest, Frame, AtEngine + One(FrameBeat(room)))
      /\ FrameBeat(room) => Head(skid2) = Frame[AtEngine] /\ Head(skid2) \in Word
  <2> HIDE DEF Frame
  <2> QED
    BY <1>1, <1>2, RunLeaves DEF One
<1>4. One(FrameBeat(room)) \in {0, 1} /\ One(PayloadBeat) \in {0, 1}
  BY DEF One
<1>5. /\ adder = "HEADER" => skid2 = << >> /\ AtEngine = 1 /\ ~PayloadBeat
      /\ skid2 # << >> => Len(skid2) # 0
      /\ skid2 = << >> => Len(skid2) = 0 /\ ~FrameBeat(room)
  BY <1>2, LenZero DEF Writing, Passing, AtEngine, PayloadBeat, FrameBeat
<1>6. FrameBeat(room) => AtEngine <= LastWord /\ adder # "HEADER"
  BY <1>1, <1>2, <1>5 DEF LastWord
<1>7. /\ PayloadBeat => /\ Head(skid1) = Frame[AtAdder] /\ Head(skid1) \in Word
                        /\ AtAdder <= LastWord /\ adder = "PAYLOAD"
                        /\ SkidReady(skid2)
      /\ AtAdder >= 2
  BY Skid1Clock, WritingRange DEF PayloadBeat
<1>8. Now \in Packet
  BY WritingPacket
<1> HIDE DEF rest, header
<1>9. skid2' = IF adder = "HEADER" /\ SkidReady(skid2) THEN Append(rest, header)
               ELSE IF PayloadBeat THEN Append(rest, Head(skid1)) ELSE rest
  BY <1>5 DEF Tick, Stream, NextSkid2, rest, header
<1>10. adder' = IF adder = "HEADER" THEN "PAYLOAD"
                ELSE IF PayloadBeat /\ AtAdder = LastWord THEN "IDLE"
                ELSE adder
  <2>1. adder = "HEADER" => SkidReady(skid2)
    BY <1>5 DEF SkidReady
  <2>2. PayloadBeat => Head(skid1).word = AtAdder
    BY <1>1, <1>7 DEF Frame, Words, LastWord
  <2>3. adder = "IDLE" => ~filter.valid
    BY DEF Writing
  <2>4. adder \in {"IDLE", "HEADER", "PAYLOAD"} /\ (PayloadBeat => adder = "PAYLOAD")
    BY <1>7 DEF TypeOK
  <2> QED
    BY <2>1, <2>2, <2>3, <2>4 DEF Tick, Stream, NextAdder
<1>11. CASE adder = "HEADER"
  <2>1. SkidReady(skid2) /\ rest = << >> /\ Len(skid2) = 0
    BY <1>5, <1>11 DEF SkidReady, rest
  <2>2. header \in Word /\ header = Frame[AtEngine + One(FrameBeat(room)) + Len(rest)]
    <3>1. AtEngine + One(FrameBeat(room)) + Len(rest) = 1
      BY <1>1, <1>3, <1>5, <1>11, <2>1 DEF One
    <3> QED
      BY <1>8, <3>1 DEF header, Word, Frame, Now, Words, LastWord
  <2>3. skid2' = Append(rest, header)
    BY <1>9, <1>11, <2>1
  <2>4. /\ skid2' \in Seq(Word) /\ Len(skid2') = Len(rest) + 1
        /\ Run(skid2', Frame, AtEngine + One(FrameBeat(room)))
    <3>1. PICK e \in Int : e = AtEngine + One(FrameBeat(room))
      BY <1>1, <1>4
    <3>2. rest \in Seq(Word) /\ Run(rest, Frame, e)
      BY <1>3, <3>1
    <3>3. header \in Word /\ header = Frame[e + Len(rest)]
      BY <2>2, <3>1
    <3> QED
      BY <2>3, <3>1, <3>2, <3>3, RunJoins
  <2>5. One(adder = "HEADER") = 1 /\ One(PayloadBeat) = 0
    BY <1>5, <1>11 DEF One
  <2>6. Len(skid2') = Len(skid2) + One(adder = "HEADER")
                            + One(PayloadBeat) - One(FrameBeat(room))
    BY <1>1, <1>3, <1>4, <2>4, <2>5
  <2>7. Len(skid2') <= 2
    BY <1>3, <1>4, <2>1, <2>4
  <2> QED
    BY <1>3, <1>6, <1>10, <2>4, <2>6, <2>7
<1>12. CASE PayloadBeat
  <2>1. adder # "HEADER" /\ SkidReady(skid2)
    BY <1>7, <1>12
  <2>2. Head(skid1) \in Word
        /\ Head(skid1) = Frame[AtEngine + One(FrameBeat(room)) + Len(rest)]
    <3>1. AtEngine + One(FrameBeat(room)) + Len(rest) = AtAdder
      BY <1>1, <1>3, <1>4, <2>1
    <3> QED
      BY <1>7, <1>12, <3>1
  <2>3. skid2' = Append(rest, Head(skid1))
    BY <1>9, <1>12, <2>1
  <2>4. /\ skid2' \in Seq(Word) /\ Len(skid2') = Len(rest) + 1
        /\ Run(skid2', Frame, AtEngine + One(FrameBeat(room)))
    BY <1>1, <1>3, <1>4, <2>2, <2>3, RunJoins
  <2>5. One(adder = "HEADER") = 0 /\ One(PayloadBeat) = 1
    BY <1>12, <2>1 DEF One
  <2>6. Len(skid2') = Len(skid2) + One(adder = "HEADER")
                            + One(PayloadBeat) - One(FrameBeat(room))
    BY <1>1, <1>3, <1>4, <2>4, <2>5
  <2>7. Len(skid2') <= 2
    BY <1>1, <1>3, <1>4, <2>1, <2>4 DEF SkidReady
  <2> QED
    BY <1>3, <1>6, <1>10, <2>4, <2>6, <2>7
<1>13. CASE adder # "HEADER" /\ ~PayloadBeat
  <2>1. skid2' = rest
    BY <1>9, <1>13
  <2>2. One(adder = "HEADER") = 0 /\ One(PayloadBeat) = 0
    BY <1>13 DEF One
  <2>3. Len(skid2') = Len(skid2) + One(adder = "HEADER")
                            + One(PayloadBeat) - One(FrameBeat(room))
    BY <1>1, <1>3, <1>4, <2>1, <2>2
  <2>4. Len(skid2') <= 2
    BY <1>1, <1>3, <1>4, <2>1
  <2> QED
    BY <1>3, <1>6, <1>10, <2>1, <2>3, <2>4
<1> QED
  BY <1>11, <1>12, <1>13

(* How far the packet gets with a clock. *)
LEMMA ProgressClock ==
  ASSUME TypeOK, PipeInv, Writing,
         NEW feed \in BOOLEAN, NEW room \in BOOLEAN, NEW wready, NEW pop,
         Tick(feed, room, wready, pop)
  PROVE  /\ AtFilter' = AtFilter + One(Consumed)
         /\ AtAdder' = AtAdder + One(PayloadBeat)
         /\ AtEngine' = AtEngine + One(FrameBeat(room))
         /\ adder' # "HEADER"
<1>1. /\ Len(skid1) \in Nat /\ Len(skid2) \in Nat
      /\ AtFilter \in Int /\ AtAdder \in Int /\ AtEngine \in Int
      /\ AtAdder = AtFilter - Len(skid1)
      /\ adder # "HEADER" => AtEngine = AtAdder - Len(skid2)
  BY WritingRange
<1>2. /\ One(Consumed) \in {0, 1} /\ One(PayloadBeat) \in {0, 1}
      /\ One(FrameBeat(room)) \in {0, 1}
  BY DEF One
<1>3. PICK f \in Int : AtFilter' = f /\ f = AtFilter + One(Consumed)
  BY <1>1, <1>2, FilterClock DEF One
<1>4. Len(skid1') = Len(skid1) + One(Consumed) - One(PayloadBeat)
  BY Skid1Clock
<1>5. /\ Len(skid2') = Len(skid2) + One(adder = "HEADER")
                         + One(PayloadBeat) - One(FrameBeat(room))
      /\ adder' # "HEADER"
      /\ FrameBeat(room) => adder # "HEADER"
  BY Skid2Clock
<1>6. PICK a \in Int : AtAdder' = a /\ a = AtAdder + One(PayloadBeat)
  <2>1. AtAdder' = f - Len(skid1')
    BY <1>3 DEF AtAdder
  <2> QED
    BY <1>1, <1>2, <1>3, <1>4, <2>1
<1>7. AtEngine' = a - Len(skid2')
  BY <1>5, <1>6 DEF AtEngine
<1>8. CASE adder = "HEADER"
  <2>1. /\ AtEngine = 1 /\ AtAdder = 2 /\ Len(skid2) = 0
        /\ One(adder = "HEADER") = 1 /\ One(FrameBeat(room)) = 0
    <3>1. skid1 = << >> /\ skid2 = << >> /\ AtFilter = 2
      BY <1>8 DEF Writing, Passing
    <3>2. Len(skid1) = 0 /\ Len(skid2) = 0
      BY <3>1, EmptySeq
    <3> QED
      BY <1>1, <1>5, <1>8, <3>1, <3>2 DEF AtEngine, One
  <2> QED
    BY <1>2, <1>3, <1>5, <1>6, <1>7, <2>1
<1>9. CASE adder # "HEADER"
  <2>1. One(adder = "HEADER") = 0
    BY <1>9 DEF One
  <2>2. Len(skid2') = AtAdder - AtEngine + One(PayloadBeat) - One(FrameBeat(room))
    BY <1>1, <1>2, <1>5, <1>9, <2>1
  <2>3. AtEngine' = AtEngine + One(FrameBeat(room))
    <3>1. PICK x \in {0, 1}, y \in {0, 1} :
            /\ One(PayloadBeat) = x /\ One(FrameBeat(room)) = y
            /\ a = AtAdder + x /\ Len(skid2') = AtAdder - AtEngine + x - y
      BY <1>2, <1>6, <2>2
    <3>2. a - Len(skid2') = AtEngine + y
      BY <1>1, <3>1
    <3> QED
      BY <1>7, <3>1, <3>2
  <2> QED
    BY <1>3, <1>5, <1>6, <2>3
<1> QED
  BY <1>8, <1>9

(* A beat on the write channel. *)
WriteBeats == [slot : Ports \X Index, at : 1 .. LastWord + 1,
               packet : Packet \cup {NoPacket}, last : BOOLEAN]

(* The slot that is written. *)
LEMMA PlaceTyped ==
  ASSUME TypeOK, Port \in Ports
  PROVE  Place \in Ports \X Index /\ Place[1] = Port /\ Place[2] = rings[Port].head
BY DEF TypeOK, Place, Ring

(* The beats of the burst. *)
LEMMA BurstTyped ==
  ASSUME TypeOK, PipeInv, Writing, NEW w \in 1 .. LastWord + 1
  PROVE  Burst[w] \in WriteBeats
<1>1. Now \in Packet /\ Place \in Ports \X Index
  BY WritingPacket, PlaceTyped DEF Writing
<1> QED
  BY <1>1 DEF Burst, WriteBeats, LastWord, Words, Packet

(* The write engine's output FIFO and the memory. *)
LEMMA BurstClock ==
  ASSUME TypeOK, PipeInv, Writing,
         NEW feed \in BOOLEAN, NEW room \in BOOLEAN, NEW wready \in BOOLEAN,
         NEW pop, Tick(feed, room, wready, pop)
  PROVE  /\ wchan' \in Seq(WriteBeats)
         /\ Len(wchan') = Len(wchan) + One(BurstBeat(room)) - One(WriteBeat(wready))
         /\ Run(wchan', Burst, AtMemory + One(WriteBeat(wready)))
         /\ BurstBeat(room) => AtBus = AtEngine
         /\ WriteBeat(wready) => AtMemory <= LastWord + 1 /\ wchan # << >>
                                 /\ Head(wchan) = Burst[AtMemory]
         /\ Pushed(wready) <=> WriteBeat(wready) /\ AtMemory = LastWord + 1
<1> DEFINE rest == IF WriteBeat(wready) THEN Tail(wchan) ELSE wchan
           Beat(n, l) == [slot |-> dma.slot, at |-> dma.word, packet |-> n, last |-> l]
<1>1. /\ Len(wchan) \in Nat /\ AtMemory \in Int /\ AtBus \in Int /\ AtEngine \in Int
      /\ AtMemory = AtBus - Len(wchan) /\ AtBus <= LastWord + 2
      /\ 1 <= AtEngine /\ AtEngine <= LastWord + 1 /\ 1 <= AtMemory
  BY WritingRange DEF LastWord
<1>2. /\ wchan \in Seq(WriteBeats) /\ Run(wchan, Burst, AtMemory)
      /\ WriteBeat(wready) \in BOOLEAN /\ (WriteBeat(wready) => wchan # << >>)
  BY DEF TypeOK, PipeInv, WriteBeat, WriteBeats
<1>3. /\ rest \in Seq(WriteBeats)
      /\ Len(rest) = Len(wchan) - One(WriteBeat(wready))
      /\ Run(rest, Burst, AtMemory + One(WriteBeat(wready)))
      /\ WriteBeat(wready) => Head(wchan) = Burst[AtMemory]
  <2> HIDE DEF Burst, WriteBeats
  <2> QED
    BY <1>1, <1>2, RunLeaves DEF One
<1>4. WriteBeat(wready) => AtMemory <= LastWord + 1
  <2>1. WriteBeat(wready) => Len(wchan) # 0
    BY <1>2, LenZero
  <2> QED
    BY <1>1, <2>1 DEF LastWord
<1>5. Pushed(wready) <=> WriteBeat(wready) /\ AtMemory = LastWord + 1
  <2>1. ASSUME NEW w \in 1 .. LastWord + 1
        PROVE  Burst[w].last <=> w = LastWord + 1
    <3>1. w \notin Words <=> w = LastWord + 1
      BY DEF Words, LastWord
    <3>2. Burst[w].last = (w \notin Words)
      BY DEF Burst
    <3> QED
      BY <3>1, <3>2
  <2>2. WriteBeat(wready) => AtMemory \in 1 .. LastWord + 1
    BY <1>1, <1>4 DEF LastWord
  <2> QED
    BY <1>3, <2>1, <2>2 DEF Pushed
<1>6. FrameBeat(room) => /\ AtBus = AtEngine /\ AtEngine <= LastWord
                         /\ dma.slot = Place /\ dma.word = AtEngine
                         /\ Head(skid2).packet = Now
  <2>1. FrameBeat(room) => Head(skid2) = Frame[AtEngine] /\ AtEngine <= LastWord
    BY Skid2Clock
  <2>2. FrameBeat(room) => AtEngine \in Words
    BY <1>1, <2>1 DEF Words, LastWord
  <2>3. FrameBeat(room) => dma.state = "WRITE"
    BY DEF FrameBeat
  <2> QED
    BY <1>1, <2>1, <2>2, <2>3 DEF Writing, Engine, AtBus, Frame, LastWord
<1>7. dma.state = "FINISH_BURST" => /\ AtBus = AtEngine /\ AtEngine = LastWord + 1
                                    /\ dma.slot = Place /\ dma.word = AtEngine
  BY <1>1 DEF Writing, Engine, AtBus, LastWord
<1>8. One(WriteBeat(wready)) \in {0, 1}
  BY DEF One
<1> HIDE DEF rest
<1>9. wchan' = IF FrameBeat(room) THEN Append(rest, Beat(Head(skid2).packet, FALSE))
               ELSE IF dma.state = "FINISH_BURST" /\ room
                    THEN Append(rest, Beat(NoPacket, TRUE)) ELSE rest
  BY DEF Tick, Stream, NextWchan, FrameBeat, rest
<1>10. CASE BurstBeat(room)
  <2>1. AtBus = AtEngine /\ AtEngine \in 1 .. LastWord + 1
    BY <1>1, <1>6, <1>7, <1>10 DEF BurstBeat
  <2>2. wchan' = Append(rest, Burst[AtEngine])
    <3>1. CASE FrameBeat(room)
      <4>1. AtEngine \in Words /\ LastWord + 1 \notin Words /\ NoPacket = NoPacket
        BY <1>1, <1>6, <3>1 DEF Words, LastWord
      <4>2. Burst[AtEngine] = Beat(Head(skid2).packet, FALSE)
        BY <1>6, <2>1, <3>1, <4>1 DEF Burst
      <4> QED
        BY <1>9, <3>1, <4>2
    <3>2. CASE ~FrameBeat(room)
      <4>1. AtEngine \notin Words /\ dma.state = "FINISH_BURST" /\ room
        BY <1>7, <1>10, <3>2 DEF Words, LastWord, BurstBeat
      <4>2. Burst[AtEngine] = Beat(NoPacket, TRUE)
        BY <1>7, <2>1, <4>1 DEF Burst
      <4> QED
        BY <1>9, <3>2, <4>1, <4>2
    <3> QED
      BY <3>1, <3>2
  <2>3. Burst[AtEngine] \in WriteBeats
    BY <2>1, BurstTyped
  <2>4. AtEngine = AtMemory + One(WriteBeat(wready)) + Len(rest)
    BY <1>1, <1>3, <1>8, <2>1
  <2>5. /\ wchan' \in Seq(WriteBeats) /\ Len(wchan') = Len(rest) + 1
        /\ Run(wchan', Burst, AtMemory + One(WriteBeat(wready)))
    <3> HIDE DEF Burst, WriteBeats
    <3>1. AtMemory + One(WriteBeat(wready)) \in Int
      BY <1>1, <1>8
    <3> QED
      BY <1>3, <2>2, <2>3, <2>4, <3>1, RunJoins
  <2> QED
    BY <1>1, <1>3, <1>4, <1>5, <1>2, <1>8, <1>10, <2>1, <2>5 DEF One
<1>11. CASE ~BurstBeat(room)
  <2>1. wchan' = rest
    BY <1>9, <1>11 DEF BurstBeat
  <2> QED
    BY <1>1, <1>3, <1>4, <1>5, <1>2, <1>8, <1>11, <2>1 DEF One
<1> QED
  BY <1>10, <1>11

(* The slots: a beat that is taken writes its word to the slot at the head.*)
LEMMA SlotsClock ==
  ASSUME TypeOK, PipeInv, Writing,
         NEW feed \in BOOLEAN, NEW room \in BOOLEAN, NEW wready \in BOOLEAN,
         NEW pop, Tick(feed, room, wready, pop)
  PROVE  slots' = IF WriteBeat(wready) /\ AtMemory <= LastWord
                  THEN [slots EXCEPT ![Port][rings[Port].head][AtMemory] = Now]
                  ELSE slots
<1>1. WriteBeat(wready) => AtMemory \in 1 .. LastWord + 1 /\ Head(wchan) = Burst[AtMemory]
  <2>1. WriteBeat(wready) => AtMemory <= LastWord + 1 /\ Head(wchan) = Burst[AtMemory]
    BY BurstClock
  <2>2. AtMemory \in Int /\ 1 <= AtMemory /\ LastWord + 1 \in Int
    BY WritingRange DEF LastWord
  <2> QED
    BY <2>1, <2>2
<1>2. CASE WriteBeat(wready)
  <2> DEFINE b == Head(wchan)
  <2>1. /\ b.slot = Place /\ b.at = AtMemory
        /\ b.packet = (IF AtMemory \in Words THEN Now ELSE NoPacket)
        /\ b.last = (AtMemory \notin Words)
    BY <1>1, <1>2 DEF Burst
  <2>2. AtMemory \in Words <=> AtMemory <= LastWord
    BY <1>1, <1>2 DEF Words, LastWord
  <2>3. b.slot[1] = Port /\ b.slot[2] = rings[Port].head
    BY <2>1 DEF Place
  <2>4. slots' = IF ~b.last
                 THEN [slots EXCEPT ![b.slot[1]][b.slot[2]][b.at] = b.packet]
                 ELSE slots
    BY <1>2 DEF Tick, Stream, NextSlots
  <2> HIDE DEF b
  <2>5. CASE AtMemory <= LastWord
    <3>1. ~b.last /\ b.packet = Now
      BY <2>1, <2>2, <2>5
    <3> QED
      BY <1>2, <2>1, <2>3, <2>4, <2>5, <3>1
  <2>6. CASE ~(AtMemory <= LastWord)
    BY <1>2, <2>1, <2>2, <2>4, <2>6
  <2> QED
    BY <2>5, <2>6
<1>3. CASE ~WriteBeat(wready)
  BY <1>3 DEF Tick, Stream, NextSlots
<1> QED
  BY <1>2, <1>3

(* The head of the ring stays until the push. *)
LEMMA PlaceClock ==
  ASSUME TypeOK, PipeInv, Writing, NEW feed \in BOOLEAN, NEW room, NEW wready,
         NEW pop, Tick(feed, room, wready, pop), ~Pushed(wready)
  PROVE  /\ Port' = Port /\ rings'[Port].head = rings[Port].head
         /\ Place' = Place /\ Burst' = Burst
<1>1. Now' = Now /\ dest' = dest
  BY FilterClock
<1>2. Port' = Port /\ Port \in Ports
  BY <1>1 DEF Port, Writing
<1>3. rings'[Port] = ClockRing(rings[Port], Pushed(wready) /\ filter.sel = Port,
                               pop /\ reader.port = Port)
  BY <1>2 DEF Tick, Stream, NextRings
<1>4. rings'[Port].head = rings[Port].head
  BY <1>3 DEF ClockRing
<1>5. Place' = Place
  BY <1>2, <1>4 DEF Place
<1> QED
  BY <1>1, <1>2, <1>4, <1>5 DEF Burst

(* The write engine, short of the push. *)
LEMMA EngineClock ==
  ASSUME TypeOK, PipeInv, Writing,
         NEW feed \in BOOLEAN, NEW room \in BOOLEAN, NEW wready \in BOOLEAN,
         NEW pop, Tick(feed, room, wready, pop), ~Pushed(wready)
  PROVE  Engine' /\ AtBus' = AtBus + One(BurstBeat(room))
<1>1. /\ Len(skid2) \in Nat /\ Len(wchan) \in Nat
      /\ AtEngine \in Int /\ AtMemory \in Int /\ AtBus \in Int
      /\ 1 <= AtEngine /\ AtEngine <= LastWord + 1
      /\ AtMemory = AtBus - Len(wchan)
  BY WritingRange DEF LastWord
<1>2. /\ FrameBeat(room) => Head(skid2) = Frame[AtEngine] /\ AtEngine <= LastWord
      /\ Len(skid2') = Len(skid2) + One(adder = "HEADER")
                         + One(PayloadBeat) - One(FrameBeat(room))
      /\ skid2' \in Seq(Word)
  BY Skid2Clock
<1>3. PICK e \in Int : AtEngine' = e /\ e = AtEngine + One(FrameBeat(room))
  BY <1>1, ProgressClock DEF One
<1>4. /\ wchan' \in Seq(WriteBeats)
      /\ Len(wchan') = Len(wchan) + One(BurstBeat(room)) - One(WriteBeat(wready))
      /\ WriteBeat(wready) => wchan # << >> /\ AtMemory <= LastWord + 1
      /\ Pushed(wready) <=> WriteBeat(wready) /\ AtMemory = LastWord + 1
  BY BurstClock
<1>5. Place' = Place /\ filter.sel = Port
  BY PlaceClock DEF Writing
<1>6. /\ dma' = NextDma(room) /\ ctl' = NextCtl
      /\ ctl'.valid = (dma.ready /\ (ctl.valid \/ skid2 # << >>))
      /\ ctl'.slot = Place
  BY <1>5 DEF Tick, Stream, NextCtl, Place
<1>0. /\ dma.ready \in BOOLEAN /\ ctl.valid \in BOOLEAN
       /\ dma \in [state : {"IDLE", "START", "WRITE", "FINISH_BURST"},
                   ready : BOOLEAN, slot : Ports \X Index,
                   word : 1 .. LastWord + 1]
  BY DEF TypeOK
<1>7. CASE AtEngine = 1 /\ dma.state = "IDLE"
  <2>1. /\ ~FrameBeat(room) /\ ~BurstBeat(room)
        /\ ctl.valid => skid2 # << >> /\ ctl.slot = Place
    BY <1>7 DEF FrameBeat, BurstBeat, Writing, Engine, LastWord
  <2>2. e = 1
    BY <1>3, <1>7, <2>1 DEF One
  <2>3. skid2 # << >> => skid2' # << >>
    <3>1. skid2 # << >> => Len(skid2) # 0
      BY LenZero DEF TypeOK
    <3>2. /\ One(adder = "HEADER") \in {0, 1} /\ One(PayloadBeat) \in {0, 1}
          /\ One(FrameBeat(room)) = 0
      BY <2>1 DEF One
    <3>3. skid2 # << >> => Len(skid2') # 0
      BY <1>1, <1>2, <3>1, <3>2
    <3> QED
      BY <1>2, <3>3, LenZero
  <2>4. CASE dma.ready /\ ctl.valid
    <3>1. dma' = [state |-> "START", ready |-> FALSE, slot |-> ctl.slot, word |-> 1]
      <4>1. dma' = NextDma(room)
        BY <1>6
      <4> QED
        BY <1>7, <1>0, <2>1, <2>4, <4>1 DEF NextDma
    <3>2. Engine'
      BY <1>3, <1>5, <2>1, <2>2, <2>4, <3>1 DEF Engine
    <3> QED
      BY <1>3, <1>7, <2>1, <2>2, <3>1, <3>2 DEF AtBus, One, LastWord
  <2>5. CASE ~(dma.ready /\ ctl.valid)
    <3>1. dma'.state = "IDLE"
      <4>1. dma' = NextDma(room)
        BY <1>6
      <4> QED
        BY <1>7, <1>0, <2>1, <2>5, <4>1 DEF NextDma
    <3>2. ctl'.valid => skid2' # << >> /\ ctl'.slot = Place'
      BY <1>5, <1>6, <2>3, <2>5
    <3>3. Engine'
      BY <1>3, <2>2, <3>1, <3>2 DEF Engine
    <3> QED
      BY <1>3, <1>7, <2>1, <2>2, <3>1, <3>3 DEF AtBus, One, LastWord
  <2> QED
    BY <2>4, <2>5
<1>8. CASE dma.state = "START"
  <2>1. /\ ~FrameBeat(room) /\ ~BurstBeat(room) /\ AtEngine = 1
        /\ dma.slot = Place /\ dma.word = 1 /\ ~dma.ready
    BY <1>8 DEF FrameBeat, BurstBeat, Writing, Engine
  <2>2. e = 1
    BY <1>3, <2>1 DEF One
  <2>3. /\ dma'.state \in {"START", "WRITE"} /\ dma'.slot = dma.slot
        /\ dma'.word = dma.word /\ dma'.ready = dma.ready
    BY <1>6, <1>8, <2>1 DEF NextDma, TypeOK
  <2>4. Engine'
    <3>1. ~ctl'.valid /\ ~dma'.ready /\ dma'.slot = Place' /\ dma'.word = 1
      BY <1>5, <1>6, <2>1, <2>3
    <3>2. CASE dma'.state = "START"
      BY <1>3, <2>2, <3>1, <3>2 DEF Engine
    <3>3. CASE dma'.state = "WRITE"
      BY <1>3, <2>2, <3>1, <3>3 DEF Engine, LastWord
    <3> QED
      BY <2>3, <3>2, <3>3
  <2> QED
    BY <1>3, <1>8, <2>1, <2>2, <2>3, <2>4 DEF AtBus, One, LastWord
<1>9. CASE dma.state = "WRITE"
  <2>1. /\ AtEngine <= LastWord /\ dma.slot = Place /\ dma.word = AtEngine
        /\ ~dma.ready /\ (BurstBeat(room) <=> FrameBeat(room))
    BY <1>9 DEF BurstBeat, Writing, Engine
  <2>2. CASE FrameBeat(room)
    <3>1. Head(skid2).word = AtEngine
      BY <1>1, <1>2, <2>2 DEF Frame, Words, LastWord
    <3>2. dma' = [dma EXCEPT !.state = IF AtEngine = LastWord
                                       THEN "FINISH_BURST" ELSE "WRITE",
                             !.word = @ + 1]
      BY <1>6, <1>9, <2>2, <3>1 DEF NextDma
    <3>3. /\ dma'.state = IF AtEngine = LastWord THEN "FINISH_BURST" ELSE "WRITE"
          /\ dma'.slot = Place /\ dma'.word = e /\ ~dma'.ready /\ e = AtEngine + 1
      BY <1>3, <2>1, <2>2, <3>2 DEF TypeOK, One
    <3>4. ~ctl'.valid
      BY <1>6, <2>1
    <3>5. Engine'
      BY <1>1, <1>3, <1>5, <2>1, <3>3, <3>4 DEF Engine, LastWord
    <3>6. AtBus' = e
      BY <1>3, <3>3 DEF AtBus
    <3> QED
      BY <1>1, <1>9, <2>1, <2>2, <3>3, <3>5, <3>6 DEF AtBus, One
  <2>3. CASE ~FrameBeat(room)
    <3>1. dma' = dma
      BY <1>6, <1>9, <2>3 DEF NextDma
    <3>2. e = AtEngine
      BY <1>1, <1>3, <2>3 DEF One
    <3>3. Engine'
      BY <1>3, <1>5, <1>6, <1>9, <2>1, <3>1, <3>2 DEF Engine
    <3> QED
      BY <1>1, <1>3, <1>9, <2>1, <2>3, <3>1, <3>2, <3>3 DEF AtBus, One
  <2> QED
    BY <2>2, <2>3
<1>10. CASE dma.state = "FINISH_BURST"
  <2>1. /\ AtEngine > LastWord /\ dma.slot = Place /\ dma.word = AtEngine
        /\ ~dma.ready /\ ~FrameBeat(room) /\ (BurstBeat(room) <=> room)
    BY <1>10 DEF BurstBeat, Writing, Engine, FrameBeat
  <2>2. e = AtEngine /\ AtEngine = LastWord + 1 /\ AtBus = AtEngine
    BY <1>1, <1>3, <1>10, <2>1 DEF One, AtBus, LastWord
  <2>3. CASE room
    <3>1. dma'.state = "IDLE"
      BY <1>6, <1>10, <2>1, <2>3 DEF NextDma, TypeOK
    <3>2. wchan' # << >>
      <4>1. WriteBeat(wready) => Len(wchan) # 0
        BY <1>4, LenZero DEF TypeOK
      <4>2. Len(wchan') # 0
        BY <1>1, <1>4, <2>1, <2>3, <4>1 DEF One
      <4> QED
        BY <4>2, EmptySeq
    <3>3. Engine'
      BY <1>3, <1>6, <2>1, <2>2, <3>1, <3>2 DEF Engine
    <3>4. AtBus' = LastWord + 2
      BY <1>3, <2>2, <3>1 DEF AtBus, LastWord
    <3> QED
      BY <2>1, <2>2, <2>3, <3>3, <3>4 DEF One, LastWord
  <2>4. CASE ~room
    <3>1. dma' = dma
      BY <1>6, <1>10, <2>1, <2>4 DEF NextDma
    <3>2. Engine'
      BY <1>3, <1>5, <1>6, <1>10, <2>1, <2>2, <3>1 DEF Engine
    <3> QED
      BY <1>3, <1>10, <2>1, <2>2, <2>4, <3>1, <3>2 DEF AtBus, One, LastWord
  <2> QED
    BY <2>3, <2>4
<1>11. CASE AtEngine > LastWord /\ dma.state = "IDLE"
  <2>1. /\ ~FrameBeat(room) /\ ~BurstBeat(room) /\ ~ctl.valid /\ wchan # << >>
    BY <1>1, <1>11 DEF FrameBeat, BurstBeat, Writing, Engine, LastWord
  <2>2. /\ e = AtEngine /\ AtBus = LastWord + 2 /\ skid2 = << >>
        /\ AtEngine = LastWord + 1
    <3>1. e = AtEngine /\ AtBus = LastWord + 2 /\ AtEngine = LastWord + 1
      BY <1>1, <1>3, <1>11, <2>1 DEF One, AtBus, LastWord
    <3>2. Len(skid2) = 0
      BY <1>1, <1>11, WritingRange DEF LastWord, AtEngine
    <3>3. skid2 = << >>
      BY <3>2, LenZero DEF TypeOK
    <3> QED
      BY <3>1, <3>3
  <2>3. dma'.state = "IDLE" /\ ~ctl'.valid
    BY <1>6, <1>11, <2>1, <2>2 DEF NextDma, TypeOK
  <2>4. wchan' # << >>
    <3>1. Len(wchan) # 0
      BY <2>1, LenZero DEF TypeOK
    <3>2. WriteBeat(wready) => Len(wchan) >= 2
      BY <1>1, <1>4, <2>2 DEF LastWord
    <3>3. /\ One(BurstBeat(room)) = 0 /\ One(WriteBeat(wready)) \in {0, 1}
          /\ One(WriteBeat(wready)) = 1 => WriteBeat(wready)
      BY <2>1 DEF One
    <3>4. Len(wchan') # 0
      BY <1>1, <1>4, <3>1, <3>2, <3>3
    <3> QED
      BY <3>4, EmptySeq
  <2>5. Engine'
    BY <1>3, <1>11, <2>2, <2>3, <2>4 DEF Engine
  <2>6. AtBus' = LastWord + 2
    BY <1>3, <1>11, <2>2, <2>3 DEF AtBus
  <2> QED
    BY <2>1, <2>2, <2>5, <2>6 DEF One, LastWord
<1> QED
  BY <1>7, <1>8, <1>9, <1>10, <1>11 DEF Writing, Engine

(* The last beat: the packet is in its slot and leaves the path at rest.   *)
LEMMA PushStep ==
  ASSUME TypeOK, PipeInv, Writing,
         NEW feed \in BOOLEAN, NEW room \in BOOLEAN, NEW wready \in BOOLEAN,
         NEW pop, Tick(feed, room, wready, pop), Pushed(wready)
  PROVE  /\ PipeInv' /\ Rest' /\ slots' = slots
         /\ \A w \in Words : slots[Port][rings[Port].head][w] = Now
<1>1. /\ WriteBeat(wready) /\ AtMemory = LastWord + 1 /\ wchan # << >>
      /\ wchan' \in Seq(WriteBeats)
      /\ Len(wchan') = Len(wchan) + One(BurstBeat(room)) - One(WriteBeat(wready))
  BY BurstClock
<1>2. /\ Len(skid1) \in Nat /\ Len(skid2) \in Nat /\ Len(wchan) \in Nat
      /\ AtFilter \in Int /\ AtAdder \in Int /\ AtEngine \in Int /\ AtBus \in Int
      /\ AtAdder <= AtFilter /\ AtFilter <= LastWord + 1 /\ AtEngine <= AtAdder
      /\ AtAdder = AtFilter - Len(skid1)
      /\ adder # "HEADER" => AtEngine = AtAdder - Len(skid2)
      /\ AtMemory = AtBus - Len(wchan)
  BY WritingRange
<1>3. Len(wchan) # 0
  BY <1>1, LenZero DEF TypeOK
<1>4. AtBus > LastWord + 1
  BY <1>1, <1>2, <1>3 DEF LastWord
<1>5. dma.state = "IDLE" /\ AtEngine = LastWord + 1
  BY <1>2, <1>4 DEF AtBus, LastWord
<1>6. AtFilter = LastWord + 1 /\ AtAdder = LastWord + 1 /\ Len(skid1) = 0
  BY <1>2, <1>5 DEF LastWord
<1>7. adder = "IDLE" /\ filter.state = "IDLE" /\ Len(skid2) = 0
  <2>1. adder = "IDLE" /\ filter.state = "IDLE"
    BY <1>6 DEF Writing, Passing, LastWord, TypeOK
  <2> QED
    BY <1>2, <1>5, <1>6, <2>1
<1>8. skid1 = << >> /\ skid2 = << >>
  BY <1>6, <1>7, LenZero DEF TypeOK
<1>9. ~Consumed /\ ~PayloadBeat /\ ~FrameBeat(room) /\ ~BurstBeat(room)
  <2>1. Consumed => AtFilter <= LastWord
    BY FilterClock
  <2> QED
    BY <1>5, <1>6, <1>7, <2>1 DEF PayloadBeat, FrameBeat, BurstBeat, LastWord
<1>10. ~ctl.valid
  BY <1>5 DEF Writing, Engine, LastWord
<1>11. /\ Now' = Now /\ dest' = dest /\ Frame' = Frame
       /\ stack'.next \in 2 .. LastWord + 1
       /\ adapter' \in Seq(Word) /\ AtFilter' = LastWord + 1
       /\ Run(adapter', Frame, AtFilter')
  BY <1>6, <1>9, FilterClock
<1>12. adapter' = << >> /\ stack'.next > LastWord
  <2>1. Len(adapter') \in Nat /\ (Len(adapter') = 0 => adapter' = << >>)
    BY <1>11, LenZero
  <2>2. stack'.next - Len(adapter') = LastWord + 1
    BY <1>11 DEF AtFilter
  <2> QED
    BY <1>11, <2>1, <2>2 DEF LastWord
<1>13. filter'.state = "IDLE" /\ ~filter'.valid /\ ~stack'.hdr_valid
  BY <1>7 DEF Writing, Tick, Stream, NextFilter, NextFilterState, NextStack, TypeOK
<1>14. skid1' = << >> /\ skid2' = << >> /\ adder' = "IDLE"
  <2>1. skid1' = << >>
    BY <1>8, <1>9 DEF Tick, Stream, NextSkid1
  <2>2. skid2' = << >>
    BY <1>7, <1>8, <1>9 DEF Tick, Stream, NextSkid2
  <2>3. adder' = "IDLE"
    BY <1>7, <1>9, Skid2Clock
  <2> QED
    BY <2>1, <2>2, <2>3
<1>15. ~ctl'.valid /\ dma'.state = "IDLE"
  <2>1. ~ctl'.valid
    BY <1>8, <1>10 DEF Tick, Stream, NextCtl
  <2>2. dma' = NextDma(room)
    BY DEF Tick, Stream
  <2>3. dma' = [dma EXCEPT !.ready = TRUE]
    <3>1. ctl.valid \in BOOLEAN /\ dma.ready \in BOOLEAN
      BY DEF TypeOK
    <3> QED
      BY <1>5, <1>9, <1>10, <2>2, <3>1 DEF NextDma
  <2> QED
    BY <1>5, <2>1, <2>3 DEF TypeOK
<1>16. wchan' = << >>
  <2>1. One(BurstBeat(room)) = 0 /\ One(WriteBeat(wready)) = 1
    BY <1>1, <1>9 DEF One
  <2>2. AtBus = LastWord + 2
    BY <1>5 DEF AtBus, LastWord
  <2>3. Len(wchan) < 2
    BY <1>1, <1>2, <2>2 DEF LastWord
  <2>4. Len(wchan') < 1
    <3>1. Len(wchan') = Len(wchan) + 0 - 1
      BY <1>1, <2>1
    <3> QED
      BY <1>2, <2>3, <3>1
  <2> QED
    BY <1>1, <2>4, LenZero
<1>17. Clear' /\ Rest'
  BY <1>12, <1>13, <1>14, <1>15, <1>16 DEF Clear, Rest
<1>18. PipeInv'
  BY <1>11, <1>17, ClearPipe DEF PipeInv, LastWord
<1>19. slots' = slots
  BY <1>1, SlotsClock DEF LastWord
<1>20. \A w \in Words : slots[Port][rings[Port].head][w] = Now
  BY <1>1 DEF Writing, Words, LastWord
<1> QED
  BY <1>17, <1>18, <1>19, <1>20

(* Every other clock of the write. *)
LEMMA WritingStep ==
  ASSUME TypeOK, PipeInv, Writing,
         NEW feed \in BOOLEAN, NEW room \in BOOLEAN, NEW wready \in BOOLEAN,
         NEW pop, Tick(feed, room, wready, pop), ~Pushed(wready)
  PROVE  /\ PipeInv' /\ Writing'
         /\ \A p \in Ports : \A i \in Index :
              p # Port \/ i # rings[Port].head => slots'[p][i] = slots[p][i]
<1>1. /\ Len(skid1) \in Nat /\ Len(skid2) \in Nat /\ Len(wchan) \in Nat
      /\ AtFilter \in Int /\ AtAdder \in Int /\ AtEngine \in Int
      /\ AtBus \in Int /\ AtMemory \in Int
      /\ 2 <= AtAdder /\ AtAdder <= AtFilter /\ AtFilter <= LastWord + 1
      /\ 1 <= AtEngine /\ AtEngine <= AtAdder /\ 1 <= AtMemory
      /\ AtMemory = AtBus - Len(wchan)
  BY WritingRange
<1>2. /\ One(Consumed) \in {0, 1} /\ One(PayloadBeat) \in {0, 1}
      /\ One(FrameBeat(room)) \in {0, 1} /\ One(BurstBeat(room)) \in {0, 1}
      /\ One(WriteBeat(wready)) \in {0, 1}
  BY DEF One
<1>3. /\ Now' = Now /\ dest' = dest /\ Frame' = Frame
      /\ Run(adapter', Frame, AtFilter')
      /\ Consumed => Head(adapter) = Frame[AtFilter] /\ AtFilter <= LastWord
  BY FilterClock
<1>4. PICK f \in Int : AtFilter' = f /\ f = AtFilter + One(Consumed)
  BY <1>1, <1>2, ProgressClock
<1>5. PICK a \in Int : AtAdder' = a /\ a = AtAdder + One(PayloadBeat)
  BY <1>1, <1>2, ProgressClock
<1>6. PICK e \in Int : AtEngine' = e /\ e = AtEngine + One(FrameBeat(room))
  BY <1>1, <1>2, ProgressClock
<1>7. PICK b \in Int : AtBus' = b /\ b = AtBus + One(BurstBeat(room))
  BY <1>1, <1>2, EngineClock
<1>8. /\ Len(wchan') = Len(wchan) + One(BurstBeat(room)) - One(WriteBeat(wready))
      /\ Run(wchan', Burst, AtMemory + One(WriteBeat(wready)))
      /\ WriteBeat(wready) => AtMemory <= LastWord + 1
      /\ ~(WriteBeat(wready) /\ AtMemory = LastWord + 1)
  BY BurstClock
<1>9. PICK m \in Int : AtMemory' = m /\ m = AtMemory + One(WriteBeat(wready))
  <2>1. AtMemory' = b - Len(wchan')
    BY <1>7 DEF AtMemory
  <2>2. PICK x \in {0, 1}, y \in {0, 1} :
          /\ One(BurstBeat(room)) = x /\ One(WriteBeat(wready)) = y
          /\ b = AtBus + x /\ Len(wchan') = Len(wchan) + x - y
    BY <1>2, <1>7, <1>8
  <2>3. b - Len(wchan') = AtMemory + y /\ AtMemory + y \in Int
    BY <1>1, <2>2
  <2> QED
    BY <2>1, <2>2, <2>3
<1>10. /\ Run(skid1', Frame, AtAdder + One(PayloadBeat))
       /\ Run(skid2', Frame, AtEngine + One(FrameBeat(room)))
       /\ PayloadBeat => AtAdder <= LastWord
       /\ adder' = IF adder = "HEADER" THEN "PAYLOAD"
                   ELSE IF PayloadBeat /\ AtAdder = LastWord THEN "IDLE"
                   ELSE adder
  BY Skid1Clock, Skid2Clock
<1>11. /\ Port' = Port /\ rings'[Port].head = rings[Port].head /\ Burst' = Burst
       /\ Port \in Ports
  BY PlaceClock DEF Writing
<1>12. ~stack'.hdr_valid /\ ~filter'.valid /\ filter'.sel = Port'
  <2>1. filter.state # "CHECK" /\ filter.sel = Port /\ ~stack.hdr_valid
    BY DEF Writing, Passing
  <2> QED
    BY <1>11, <2>1 DEF Tick, Stream, NextStack, NextFilter, NextSel, TypeOK
<1>13. filter'.state = IF f <= LastWord THEN "FORWARD" ELSE "IDLE"
  <2>1. PayloadLast <=> Consumed /\ AtFilter = LastWord
    <3>1. Consumed => AtFilter \in Words
      BY <1>1, <1>3 DEF Words, LastWord
    <3> QED
      BY <1>3, <3>1 DEF PayloadLast, Frame
  <2>2. /\ filter.state = IF AtFilter <= LastWord THEN "FORWARD" ELSE "IDLE"
        /\ ~stack.hdr_valid
    BY DEF Writing, Passing
  <2>3. filter'.state = NextFilterState
    BY DEF Tick, Stream, NextFilter
  <2>4. CASE AtFilter <= LastWord
    <3>1. filter'.state = IF PayloadLast THEN "IDLE" ELSE "FORWARD"
      BY <2>2, <2>3, <2>4 DEF NextFilterState
    <3>2. f <= LastWord <=> ~PayloadLast
      BY <1>1, <1>4, <2>1, <2>4 DEF One, LastWord
    <3> QED
      BY <3>1, <3>2
  <2>5. CASE ~(AtFilter <= LastWord)
    <3>1. filter'.state = "IDLE"
      BY <2>2, <2>3, <2>5 DEF NextFilterState
    <3>2. f = AtFilter
      BY <1>1, <1>3, <1>4, <2>5 DEF One
    <3> QED
      BY <2>5, <3>1, <3>2
  <2> QED
    BY <2>4, <2>5
<1>14. Passing'
  <2>1. adder = "HEADER" => AtAdder = 2 /\ One(PayloadBeat) = 0
    <3>1. adder = "HEADER" => skid1 = << >> /\ AtFilter = 2 /\ ~PayloadBeat
      BY DEF Writing, Passing, PayloadBeat
    <3> QED
      BY <1>1, <3>1 DEF One
  <2>2. /\ adder = "PAYLOAD" => AtAdder <= LastWord
        /\ adder = "IDLE" => AtAdder > LastWord
        /\ adder \in {"IDLE", "HEADER", "PAYLOAD"}
    BY DEF Writing, Passing, TypeOK
  <2>3. PayloadBeat => adder = "PAYLOAD"
    BY DEF PayloadBeat
  <2>4. adder' # "HEADER"
    BY <1>10
  <2>5. adder' = "PAYLOAD" => a <= LastWord
    BY <1>1, <1>5, <1>10, <2>1, <2>2, <2>3 DEF One, LastWord
  <2>6. adder' = "IDLE" => a > LastWord
    BY <1>1, <1>5, <1>10, <2>1, <2>2, <2>3 DEF One, LastWord
  <2> QED
    BY <1>4, <1>5, <1>13, <2>4, <2>5, <2>6 DEF Passing
<1>15. /\ slots' = IF WriteBeat(wready) /\ AtMemory <= LastWord
                   THEN [slots EXCEPT ![Port][rings[Port].head][AtMemory] = Now]
                   ELSE slots
       /\ slots \in [Ports -> [Index -> [Words -> Packet \cup {NoPacket}]]]
       /\ rings[Port].head \in Index
  <2>1. slots' = IF WriteBeat(wready) /\ AtMemory <= LastWord
                 THEN [slots EXCEPT ![Port][rings[Port].head][AtMemory] = Now]
                 ELSE slots
    BY SlotsClock
  <2>2. slots \in [Ports -> [Index -> [Words -> Packet \cup {NoPacket}]]]
    BY DEF TypeOK
  <2>3. rings[Port].head \in Index
    BY <1>11 DEF TypeOK, Ring
  <2> QED
    BY <2>1, <2>2, <2>3
<1>16. ASSUME NEW w \in Words, w < m
       PROVE  slots'[Port][rings[Port].head][w] = Now
  <2>1. w < AtMemory \/ (w = AtMemory /\ WriteBeat(wready))
    BY <1>1, <1>9, <1>16 DEF One, Words
  <2>2. w < AtMemory => slots[Port][rings[Port].head][w] = Now
    BY DEF Writing
  <2>3. w <= LastWord
    BY DEF Words, LastWord
  <2> QED
    BY <1>11, <1>15, <2>1, <2>2, <2>3
<1>17. ASSUME NEW p \in Ports, NEW i \in Index,
              p # Port \/ i # rings[Port].head
       PROVE  slots'[p][i] = slots[p][i]
  <2>1. CASE p # Port
    BY <1>11, <1>15, <2>1
  <2>2. CASE p = Port /\ i # rings[Port].head
    BY <1>11, <1>15, <2>2
  <2> QED
    BY <1>17, <2>1, <2>2
<1>18. Writing'
  <2>1. Engine'
    BY EngineClock
  <2>2. \A w \in Words : w < AtMemory' => slots'[Port'][rings'[Port'].head][w] = Now'
    BY <1>3, <1>9, <1>11, <1>16
  <2> QED
    BY <1>11, <1>12, <1>14, <2>1, <2>2 DEF Writing
<1>19. PipeInv'
  <2>1. Now' = Len(dest') /\ Now' # NoPacket
    <3>1. Now = Len(dest) /\ Now # NoPacket
      BY WritingPacket DEF PipeInv
    <3> QED
      BY <1>3, <3>1
  <2>2. a >= 2 /\ e >= 1 /\ m >= 1
    <3>1. a >= 2
      BY <1>1, <1>2, <1>5
    <3>2. e >= 1
      BY <1>1, <1>2, <1>6
    <3>3. m >= 1
      BY <1>1, <1>2, <1>9
    <3> QED
      BY <3>1, <3>2, <3>3
  <2>3. /\ Run(adapter', Frame', AtFilter') /\ Run(skid1', Frame', AtAdder')
        /\ Run(skid2', Frame', AtEngine') /\ Run(wchan', Burst', AtMemory')
    BY <1>3, <1>5, <1>6, <1>8, <1>9, <1>10, <1>11
  <2> QED
    BY <1>5, <1>6, <1>9, <1>18, <2>1, <2>2, <2>3 DEF PipeInv
<1> QED
  BY <1>17, <1>18, <1>19

-----------------------------------------------------------------------------
(***************************************************************************)
(* A clock, seen from the rings.                                           *)
(***************************************************************************)

(* When the memory is done with a packet, the path is at rest: this is the *)
(* state in which a header arrives.                                        *)
LEMMA ArrivesAtRest ==
  ASSUME AllAssumed, TypeOK, PipeInv, NEW p, MayArrive(p)
  PROVE  Rest
<1>1. /\ adapter = << >> /\ skid2 = << >> /\ wchan = << >>
      /\ adder # "HEADER" /\ ~PayloadBeat /\ dma.state # "FINISH_BURST"
      /\ ~stack.hdr_valid /\ stack.next > LastWord
  BY DEF AllAssumed, MayArrive, MemoryDone
<1>2. Len(<< >>) = 0
  BY EmptySeq
<1>3. AtFilter = LastWord + 1
  BY <1>1, <1>2 DEF AtFilter, TypeOK, LastWord
<1>4. ~Arrived /\ ~Judging /\ ~Discarding
  BY <1>1, <1>3 DEF Arrived, Judging, Discarding, LastWord
<1>5. ASSUME Writing PROVE FALSE
  <2>1. /\ Len(skid1) \in Nat /\ Len(skid2) = 0
        /\ AtAdder = AtFilter - Len(skid1) /\ AtEngine = AtAdder - Len(skid2)
    BY <1>1, <1>2, <1>5, WritingRange
  <2>2. skid1 = << >>
    <3>1. ASSUME skid1 # << >> PROVE FALSE
      <4>1. Len(skid1) # 0
        BY <3>1, LenZero DEF TypeOK
      <4>2. AtAdder <= LastWord
        BY <1>3, <2>1, <4>1 DEF LastWord
      <4>3. adder = "PAYLOAD"
        <5>1. adder \in {"IDLE", "HEADER", "PAYLOAD"}
          BY DEF TypeOK
        <5>2. adder = "IDLE" => AtAdder > LastWord
          BY <1>5 DEF Writing, Passing
        <5>3. AtAdder \in Int
          BY <1>5, WritingRange
        <5> QED
          BY <1>1, <4>2, <5>1, <5>2, <5>3 DEF LastWord
      <4>4. SkidReady(skid2)
        BY <2>1 DEF SkidReady
      <4> QED
        BY <1>1, <3>1, <4>3, <4>4 DEF PayloadBeat
    <3> QED
      BY <3>1
  <2>3. AtEngine = LastWord + 1
    BY <1>2, <1>3, <2>1, <2>2 DEF LastWord
  <2> QED
    BY <1>1, <1>5, <2>3 DEF Writing, Engine, LastWord
<1> QED
  BY <1>4, <1>5 DEF PipeInv

(* The stages exclude each other. *)
LEMMA Stages ==
  ASSUME TypeOK, PipeInv
  PROVE  /\ Rest => ~Arrived /\ ~Judging /\ ~Discarding /\ ~Writing
         /\ Arrived => ~Rest /\ ~Judging /\ ~Discarding /\ ~Writing
         /\ Judging => ~Rest /\ ~Arrived /\ ~Discarding /\ ~Writing
         /\ Discarding => ~Rest /\ ~Arrived /\ ~Judging /\ ~Writing
BY WritingPacket DEF Rest, Arrived, Judging, Discarding, Writing, Passing

(* The same of the next state. *)
LEMMA StagesNext ==
  ASSUME TypeOK', PipeInv'
  PROVE  /\ Rest' => ~Arrived' /\ ~Judging' /\ ~Discarding' /\ ~Writing'
         /\ Arrived' => ~Rest' /\ ~Judging' /\ ~Discarding' /\ ~Writing'
         /\ Judging' => ~Rest' /\ ~Arrived' /\ ~Discarding' /\ ~Writing'
         /\ Discarding' => ~Rest' /\ ~Arrived' /\ ~Judging' /\ ~Writing'
BY Stages, PTL

(* What a clock without a new header does to rings and slots. *)
LEMMA PipeClock ==
  ASSUME TypeOK, TypeOK', PipeInv,
         NEW feed \in BOOLEAN, NEW room \in BOOLEAN, NEW wready \in BOOLEAN,
         NEW pop, Tick(feed, room, wready, pop)
  PROVE  /\ PipeInv' /\ Now' = Now
         /\ Pushed(wready) => Coming(filter.sel) /\ slots' = slots
         /\ \A p \in Ports :
              /\ Coming(p)' <=> Coming(p) /\ ~(Pushed(wready) /\ filter.sel = p)
              /\ Pushed(wready) /\ filter.sel = p =>
                   \A w \in Words : slots[p][rings[p].head][w] = Now
              /\ \A i \in Index : slots'[p][i] = slots[p][i]
                                  \/ (Coming(p) /\ i = rings[p].head)
<1>1. /\ Now' = Now /\ dest' = dest /\ Port' = Port /\ open' = open
  BY FilterClock DEF Port, Tick, Stream
<1>2. CASE Rest \/ Arrived \/ Discarding
  <2>1. /\ PipeInv' /\ slots' = slots /\ ~Pushed(wready)
        /\ Rest => Rest'
        /\ Arrived => Judging'
        /\ Discarding => Rest' \/ Discarding'
    BY <1>2, ClearStep
  <2>2. \A p \in Ports : Coming(p)' <=> Coming(p)
    BY <1>1, <1>2, <2>1, Stages, StagesNext DEF Coming
  <2> QED
    BY <1>1, <2>1, <2>2
<1>3. CASE Judging
  <2>1. /\ PipeInv' /\ slots' = slots /\ ~Pushed(wready)
        /\ IF Port \in open THEN Writing' ELSE Discarding'
    BY <1>3, JudgingStep
  <2>2. \A p \in Ports : Coming(p)' <=> Coming(p)
    BY <1>1, <1>3, <2>1, Stages, StagesNext DEF Coming
  <2> QED
    BY <1>1, <2>1, <2>2
<1>4. CASE Writing
  <2>1. filter.sel = Port /\ ~Rest /\ ~Arrived /\ ~Judging /\ ~Discarding
    BY <1>4, Stages DEF Writing
  <2>2. CASE Pushed(wready)
    <3>1. /\ PipeInv' /\ Rest' /\ slots' = slots
          /\ \A w \in Words : slots[Port][rings[Port].head][w] = Now
      BY <1>4, <2>2, PushStep
    <3>2. \A p \in Ports : ~Coming(p)' /\ (Coming(p) <=> Port = p)
      BY <1>4, <2>1, <3>1, StagesNext DEF Coming
    <3> QED
      BY <1>1, <1>4, <2>1, <2>2, <3>1, <3>2 DEF Coming
  <2>3. CASE ~Pushed(wready)
    <3>1. /\ PipeInv' /\ Writing'
          /\ \A p \in Ports : \A i \in Index :
               p # Port \/ i # rings[Port].head => slots'[p][i] = slots[p][i]
      BY <1>4, <2>3, WritingStep
    <3>2. \A p \in Ports : (Coming(p)' <=> Port = p) /\ (Coming(p) <=> Port = p)
      BY <1>1, <1>4, <2>1, <3>1, StagesNext DEF Coming
    <3> QED
      BY <1>1, <2>3, <3>1, <3>2
  <2> QED
    BY <2>2, <2>3
<1> QED
  BY <1>2, <1>3, <1>4 DEF PipeInv

-----------------------------------------------------------------------------
(***************************************************************************)
(* Types.                                                                  *)
(***************************************************************************)

(* What every clock does to filter, adder, request logic and rings.        *)
LEMMA StreamTypes ==
  ASSUME TypeOK, NEW feed, NEW room, NEW wready, NEW pop \in BOOLEAN,
         Stream(feed, room, wready, pop)
  PROVE  /\ filter' \in [state : {"IDLE", "CHECK", "FORWARD", "DISCARD"},
                         sel : Ports, valid : BOOLEAN]
         /\ adder' \in {"IDLE", "HEADER", "PAYLOAD"}
         /\ ctl' \in [valid : BOOLEAN, slot : Ports \X Index]
         /\ rings' \in [Ports -> Ring] /\ open' \subseteq Ports
         /\ reader'.pc \in {"idle", "header", "payload", "pop"}
<1>1. FirstRing \in Ports
  BY RxAssumption DEF FirstRing
<1>2. filter' \in [state : {"IDLE", "CHECK", "FORWARD", "DISCARD"},
                   sel : Ports, valid : BOOLEAN]
  <2>1. NextFilterState \in {"IDLE", "CHECK", "FORWARD", "DISCARD"}
    BY DEF TypeOK, NextFilterState
  <2>2. NextSel \in Ports
    BY <1>1 DEF TypeOK, NextSel, RingOf
  <2>3. (ValidPort /\ stack.hdr_valid) \in BOOLEAN
    OBVIOUS
  <2> QED
    BY <2>1, <2>2, <2>3 DEF Stream, NextFilter
<1>3. adder' \in {"IDLE", "HEADER", "PAYLOAD"}
  <2>1. adder \in {"IDLE", "HEADER", "PAYLOAD"} /\ adder' = NextAdder
    BY DEF TypeOK, Stream
  <2> QED
    BY <2>1 DEF NextAdder
<1>4. ctl' \in [valid : BOOLEAN, slot : Ports \X Index]
  <2>1. filter.sel \in Ports /\ rings[filter.sel].head \in Index
    BY DEF TypeOK, Ring
  <2>2. (dma.ready /\ (ctl.valid \/ skid2 # << >>)) \in BOOLEAN
    OBVIOUS
  <2> QED
    BY <2>1, <2>2 DEF Stream, NextCtl
<1>5. rings' \in [Ports -> Ring]
  <2>1. ASSUME NEW p \in Ports
        PROVE  ClockRing(rings[p], Pushed(wready) /\ filter.sel = p,
                         pop /\ reader.port = p) \in Ring
    BY ClockRingType DEF TypeOK
  <2> QED
    BY <2>1 DEF Stream, NextRings
<1>6. open' \subseteq Ports /\ reader'.pc \in {"idle", "header", "payload", "pop"}
  BY DEF TypeOK, Stream, Idle
<1> QED
  BY <1>2, <1>3, <1>4, <1>5, <1>6

(* The write engine. *)
LEMMA DmaType ==
  ASSUME TypeOK, NEW feed, NEW room, NEW wready, NEW pop,
         Stream(feed, room, wready, pop), FrameBeat(room) => dma.word <= LastWord
  PROVE  dma' \in [state : {"IDLE", "START", "WRITE", "FINISH_BURST"},
                   ready : BOOLEAN, slot : Ports \X Index, word : 1 .. LastWord + 1]
<1>1. /\ dma \in [state : {"IDLE", "START", "WRITE", "FINISH_BURST"},
                  ready : BOOLEAN, slot : Ports \X Index, word : 1 .. LastWord + 1]
      /\ ctl.slot \in Ports \X Index /\ dma' = NextDma(room)
  BY DEF TypeOK, Stream
<1>2. FrameBeat(room) => dma.word + 1 \in 1 .. LastWord + 1 /\ dma.state = "WRITE"
  BY <1>1 DEF LastWord, FrameBeat
<1>3. 1 \in 1 .. LastWord + 1
  BY DEF LastWord
<1>4. CASE FrameBeat(room)
  BY <1>1, <1>2, <1>4 DEF NextDma
<1>5. CASE ~FrameBeat(room)
  BY <1>1, <1>3, <1>5 DEF NextDma
<1> QED
  BY <1>4, <1>5

(* A clock without a new header. *)
LEMMA TickType ==
  ASSUME TypeOK, PipeInv,
         NEW feed \in BOOLEAN, NEW room \in BOOLEAN, NEW wready \in BOOLEAN,
         NEW pop \in BOOLEAN, Tick(feed, room, wready, pop)
  PROVE  TypeOK'
<1>1. Stream(feed, room, wready, pop)
  BY DEF Tick
<1>2. /\ filter' \in [state : {"IDLE", "CHECK", "FORWARD", "DISCARD"},
                      sel : Ports, valid : BOOLEAN]
      /\ adder' \in {"IDLE", "HEADER", "PAYLOAD"}
      /\ ctl' \in [valid : BOOLEAN, slot : Ports \X Index]
      /\ rings' \in [Ports -> Ring] /\ open' \subseteq Ports
      /\ reader'.pc \in {"idle", "header", "payload", "pop"}
  BY <1>1, StreamTypes
<1>3. /\ stack'.next \in 2 .. LastWord + 1
      /\ adapter' \in Seq(Word) /\ Len(adapter') <= 1
  BY FilterClock
<1>4. stack' \in [packet : Packet \cup {NoPacket}, hdr_valid : BOOLEAN,
                  next : 2 .. LastWord + 1]
  <2>1. stack' = NextStack(feed)
    BY DEF Tick
  <2> QED
    BY <1>3, <2>1 DEF NextStack, TypeOK
<1>5. dest' \in Seq(Ports \cup {Outside}) /\ accepted' \in [Ports -> Seq(Packet)]
  BY DEF Tick, TypeOK
<1>6. /\ skid1' \in Seq(Word) /\ Len(skid1') <= 2
      /\ skid2' \in Seq(Word) /\ Len(skid2') <= 2
      /\ wchan' \in Seq(WriteBeats)
      /\ slots' \in [Ports -> [Index -> [Words -> Packet \cup {NoPacket}]]]
      /\ FrameBeat(room) => dma.word <= LastWord
  <2>1. slots \in [Ports -> [Index -> [Words -> Packet \cup {NoPacket}]]]
    BY DEF TypeOK
  <2>2. CASE Writing
    <3>1. /\ skid1' \in Seq(Word) /\ Len(skid1') <= 2
          /\ skid2' \in Seq(Word) /\ Len(skid2') <= 2
      BY <2>2, Skid1Clock, Skid2Clock
    <3>2. wchan' \in Seq(WriteBeats)
      BY <2>2, BurstClock
    <3>3. FrameBeat(room) => dma.word <= LastWord
      BY <2>2, Skid2Clock DEF Writing, Engine, FrameBeat
    <3>4. slots' = IF WriteBeat(wready) /\ AtMemory <= LastWord
                   THEN [slots EXCEPT ![Port][rings[Port].head][AtMemory] = Now]
                   ELSE slots
      BY <2>2, SlotsClock
    <3>5. Now \in Packet
      BY <2>2, WritingPacket
    <3>6. slots' \in [Ports -> [Index -> [Words -> Packet \cup {NoPacket}]]]
      BY <2>1, <3>4, <3>5
    <3> QED
      BY <3>1, <3>2, <3>3, <3>6
  <2>3. CASE ~Writing
    <3>1. Clear /\ filter.state # "FORWARD"
      BY <2>3 DEF PipeInv, Rest, Arrived, Judging, Discarding
    <3>2. skid1' = << >> /\ skid2' = << >> /\ wchan' = << >> /\ slots' = slots
      BY <1>1, <3>1, ClearClock
    <3>3. Len(<< >>) = 0 /\ << >> \in Seq(Word) /\ << >> \in Seq(WriteBeats)
      BY EmptySeq
    <3>4. ~FrameBeat(room)
      BY <3>1 DEF Clear, FrameBeat
    <3> QED
      BY <2>1, <3>2, <3>3, <3>4
  <2> QED
    BY <2>2, <2>3
<1>7. dma' \in [state : {"IDLE", "START", "WRITE", "FINISH_BURST"},
                ready : BOOLEAN, slot : Ports \X Index, word : 1 .. LastWord + 1]
  BY <1>1, <1>6, DmaType
<1> QED
  BY <1>2, <1>3, <1>4, <1>5, <1>6, <1>7 DEF TypeOK, WriteBeats

(* A clock with one. *)
LEMMA ArrivalType ==
  ASSUME TypeOK, PipeInv, Rest, NEW p \in Ports \cup {Outside},
         NEW room \in BOOLEAN, NEW wready \in BOOLEAN, NEW pop \in BOOLEAN,
         TickArrival(p, room, wready, pop)
  PROVE  /\ TypeOK' /\ Len(dest) + 1 \in Packet
<1>1. Stream(FALSE, room, wready, pop)
  BY DEF TickArrival
<1>2. /\ filter' \in [state : {"IDLE", "CHECK", "FORWARD", "DISCARD"},
                      sel : Ports, valid : BOOLEAN]
      /\ adder' \in {"IDLE", "HEADER", "PAYLOAD"}
      /\ ctl' \in [valid : BOOLEAN, slot : Ports \X Index]
      /\ rings' \in [Ports -> Ring] /\ open' \subseteq Ports
      /\ reader'.pc \in {"idle", "header", "payload", "pop"}
  BY <1>1, StreamTypes
<1>3. Clear /\ filter.state # "FORWARD" /\ adapter = << >>
  BY DEF Rest
<1>4. skid1' = << >> /\ skid2' = << >> /\ wchan' = << >> /\ slots' = slots
  BY <1>1, <1>3, ClearClock
<1>5. adapter' = << >>
  BY <1>1, <1>3 DEF Stream, NextAdapter, Feeds, Consumed
<1>6. /\ Len(<< >>) = 0 /\ << >> \in Seq(Word)
      /\ << >> \in Seq([slot : Ports \X Index, at : 1 .. LastWord + 1,
                        packet : Packet \cup {NoPacket}, last : BOOLEAN])
  BY EmptySeq
<1>7. dma' \in [state : {"IDLE", "START", "WRITE", "FINISH_BURST"},
                ready : BOOLEAN, slot : Ports \X Index, word : 1 .. LastWord + 1]
  <2>1. ~FrameBeat(room)
    BY <1>3 DEF Clear, FrameBeat
  <2> QED
    BY <1>1, <2>1, DmaType
<1>8. Len(dest) + 1 \in Packet
  <2>1. Len(dest) \in Nat /\ Len(dest) < MaxPackets
    BY LenZero DEF TypeOK, TickArrival, MayArrive
  <2> QED
    BY <2>1, RxAssumption DEF Packet
<1>9. /\ stack' \in [packet : Packet \cup {NoPacket}, hdr_valid : BOOLEAN,
                     next : 2 .. LastWord + 1]
  <2>1. 2 \in 2 .. LastWord + 1
    BY DEF LastWord
  <2> QED
    BY <1>8, <2>1 DEF TickArrival
<1>10. dest' \in Seq(Ports \cup {Outside})
  BY AppendProperties DEF TickArrival, TypeOK
<1>11. accepted' \in [Ports -> Seq(Packet)]
  <2>1. accepted \in [Ports -> Seq(Packet)]
    BY DEF TypeOK
  <2>2. p \in Ports => Append(accepted[p], Len(dest) + 1) \in Seq(Packet)
    BY <1>8, <2>1, AppendProperties
  <2>3. p \in open => p \in Ports
    BY DEF TypeOK
  <2> QED
    BY <2>1, <2>2, <2>3 DEF TickArrival
<1>12. slots' \in [Ports -> [Index -> [Words -> Packet \cup {NoPacket}]]]
  BY <1>4 DEF TypeOK
<1> QED
  <2>1. /\ adapter' \in Seq(Word) /\ Len(adapter') <= 1
        /\ skid1' \in Seq(Word) /\ Len(skid1') <= 2
        /\ skid2' \in Seq(Word) /\ Len(skid2') <= 2
    BY <1>4, <1>5, <1>6
  <2>2. wchan' \in Seq([slot : Ports \X Index, at : 1 .. LastWord + 1,
                        packet : Packet \cup {NoPacket}, last : BOOLEAN])
    BY <1>4, <1>6
  <2> QED
    BY <1>2, <1>7, <1>8, <1>9, <1>10, <1>11, <1>12, <2>1, <2>2 DEF TypeOK

-----------------------------------------------------------------------------
(***************************************************************************)
(* Rings, reader and histories.                                            *)
(***************************************************************************)

(* The numbers that RingInv relates. *)
LEMMA RingNumbers ==
  ASSUME TypeOK, HistTypes, NEW p \in Ports, RingInv(p)
  PROVE  /\ rings[p] \in Ring /\ accepted[p] \in Seq(Packet)
         /\ delivered[p] \in Seq(Seq(Packet \cup {NoPacket}))
         /\ Len(accepted[p]) \in Nat /\ Len(delivered[p]) \in Nat
         /\ Popped(p) \in Nat
         /\ Count(rings[p]) \in Nat /\ Count(rings[p]) <= BUFFER_LENGTH
         /\ rings[p].full <=> Count(rings[p]) = BUFFER_LENGTH
         /\ rings[p].empty <=> Count(rings[p]) = 0
         /\ One(Coming(p)) \in {0, 1}
         /\ Len(accepted[p]) = Popped(p) + Count(rings[p]) + One(Coming(p))
         /\ Coming(p) => ~rings[p].full
<1>1. /\ rings[p] \in Ring /\ accepted[p] \in Seq(Packet)
      /\ delivered[p] \in Seq(Seq(Packet \cup {NoPacket}))
      /\ Len(accepted[p]) \in Nat /\ Len(delivered[p]) \in Nat
  BY LenZero DEF TypeOK, HistTypes
<1>2. /\ Popped(p) \in Nat /\ Count(rings[p]) \in 0 .. BUFFER_LENGTH
      /\ rings[p].full <=> Count(rings[p]) = BUFFER_LENGTH
      /\ rings[p].empty <=> Count(rings[p]) = 0
  BY <1>1, CountRange DEF RingInv
<1>5. Count(rings[p]) \in Nat /\ Count(rings[p]) <= BUFFER_LENGTH
  BY <1>2, BufferLengthAssumption
<1>3. /\ One(Coming(p)) \in {0, 1} /\ (Coming(p) => One(Coming(p)) = 1)
      /\ Len(accepted[p]) = Popped(p) + Count(rings[p]) + One(Coming(p))
      /\ Len(accepted[p]) - Popped(p) <= BUFFER_LENGTH
  BY DEF RingInv, One
<1>4. Coming(p) => ~rings[p].full
  <2>1. Len(accepted[p]) - Popped(p) = Count(rings[p]) + One(Coming(p))
    BY <1>2, <1>3, <1>5
  <2>2. Coming(p) => Count(rings[p]) + 1 <= BUFFER_LENGTH
    BY <1>3, <2>1
  <2>3. Coming(p) => Count(rings[p]) # BUFFER_LENGTH
    BY <1>5, <2>2, BufferLengthAssumption
  <2> QED
    BY <1>2, <2>3
<1> QED
  BY <1>1, <1>2, <1>3, <1>4, <1>5

(* The ring of a port in a clock: push is the push of the packet on its    *)
(* way there, pop the reader's, new the arrival of a header for it.        *)
LEMMA RingClock ==
  ASSUME TypeOK, TypeOK', HistTypes, NEW p \in Ports, RingInv(p), ReaderInv,
         NEW push \in BOOLEAN, NEW pop \in BOOLEAN, NEW new \in BOOLEAN,
         rings'[p] = ClockRing(rings[p], push, pop /\ reader.port = p),
         pop => reader.pc = "pop", reader' = IF pop THEN Idle ELSE reader,
         delivered' = delivered,
         NEW n, n = Now', new => n \in Packet, Coming(p) => Now' = Now,
         accepted'[p] = IF new THEN Append(accepted[p], n) ELSE accepted[p],
         Coming(p)' <=> new \/ (Coming(p) /\ ~push),
         push => Coming(p), new => ~Coming(p),
         \A i \in DOMAIN dest : i \in DOMAIN dest' /\ dest'[i] = dest[i],
         new => n \in DOMAIN dest' /\ dest'[n] = p,
         new => Len(accepted[p]) - Popped(p) < BUFFER_LENGTH,
         \A i \in Index : slots'[p][i] = slots[p][i]
                          \/ (Coming(p) /\ ~push /\ i = rings[p].head),
         push => \A w \in Words : slots[p][rings[p].head][w] = Now
  PROVE  RingInv(p)'
<1> DEFINE popped == pop /\ reader.port = p
           r == rings[p]
<1>1. /\ r \in Ring /\ accepted[p] \in Seq(Packet)
      /\ Len(accepted[p]) \in Nat /\ Len(delivered[p]) \in Nat
      /\ Popped(p) \in Nat
      /\ Count(r) \in Nat /\ Count(r) <= BUFFER_LENGTH
      /\ r.full <=> Count(r) = BUFFER_LENGTH
      /\ r.empty <=> Count(r) = 0
      /\ One(Coming(p)) \in {0, 1}
      /\ Len(accepted[p]) = Popped(p) + Count(r) + One(Coming(p))
      /\ Coming(p) => ~r.full
  BY RingNumbers
<1>2. popped \in BOOLEAN /\ (popped => ~r.empty) /\ (push => ~r.full) /\ RingConsistent(r)
  BY <1>1 DEF ReaderInv, RingInv
<1>3. rings'[p] = ClockRing(r, push, popped)
  OBVIOUS
<1> HIDE DEF popped, r
<1> DEFINE c == ClockRing(r, push, popped)
<1>4. /\ RingConsistent(c)
      /\ Count(c) = Count(r) + One(push) - One(popped)
  BY <1>1, <1>2, ClockRingCounts DEF One
<1>5. \A k \in 0 .. Count(c) - 1 :
        /\ SlotAt(c, k) = SlotAt(r, IF popped THEN k + 1 ELSE k)
        /\ (IF popped THEN k + 1 ELSE k) \in 0 .. Count(r)
  BY <1>1, <1>2, ClockRingPlaces
<1> HIDE DEF c
<1>6. rings'[p] = c
  BY <1>3 DEF c
<1>7. /\ One(push) \in {0, 1} /\ One(popped) \in {0, 1} /\ One(new) \in {0, 1}
      /\ One(push) = 1 <=> push
      /\ One(popped) = 1 <=> popped
      /\ One(new) = 1 <=> new
  BY <1>2 DEF One
<1>8. PICK g \in Nat : Popped(p)' = g /\ g = Popped(p) + One(popped)
  <2>1. PICK d \in Nat : d = Len(delivered[p])
    BY <1>1
  <2>2. Popped(p)' = d - (IF reader'.pc = "pop" /\ reader'.port = p THEN 1 ELSE 0)
    BY <2>1 DEF Popped
  <2>3. Popped(p) = d - (IF reader.pc = "pop" /\ reader.port = p THEN 1 ELSE 0)
    BY <2>1 DEF Popped
  <2>4. CASE pop
    <3>1. reader'.pc = "idle"
      BY <2>4 DEF Idle
    <3>2. Popped(p)' = d
      BY <2>2, <3>1
    <3>3. Popped(p) = d - One(popped)
      BY <2>3, <2>4 DEF One, popped
    <3>4. d = Popped(p) + One(popped)
      BY <1>1, <1>7, <3>3
    <3> QED
      BY <3>2, <3>4
  <2>5. CASE ~pop
    <3>1. reader' = reader /\ One(popped) = 0
      BY <2>5 DEF One, popped
    <3>2. Popped(p)' = Popped(p)
      BY <2>2, <2>3, <3>1
    <3> QED
      BY <1>1, <3>1, <3>2
  <2> QED
    BY <2>4, <2>5
<1>9. PICK a \in Nat : Len(accepted'[p]) = a /\ a = Len(accepted[p]) + One(new)
  BY <1>1, AppendProperties DEF One
<1>10. /\ \A k \in 1 .. Len(accepted[p]) : accepted'[p][k] = accepted[p][k]
       /\ new => accepted'[p][a] = n
  BY <1>1, <1>7, <1>9, AppendProperties
<1>11. One(Coming(p)') = One(Coming(p)) + One(new) - One(push)
  BY DEF One
<1>12. a = g + Count(c) + One(Coming(p)')
  <2>1. PICK x \in {0, 1}, y \in {0, 1}, z \in {0, 1}, o \in {0, 1} :
          /\ One(push) = x /\ One(popped) = y /\ One(new) = z /\ One(Coming(p)) = o
    BY <1>1, <1>7
  <2>2. /\ Count(c) = Count(r) + x - y /\ g = Popped(p) + y
        /\ a = Popped(p) + Count(r) + o + z /\ One(Coming(p)') = o + z - x
    BY <1>1, <1>4, <1>8, <1>9, <1>11, <2>1
  <2> QED
    BY <1>1, <2>2
<1>13. a - g <= BUFFER_LENGTH
  <2>1. CASE new
    <3>1. a - g <= Len(accepted[p]) - Popped(p) + 1
      <4>1. a = Len(accepted[p]) + 1
        BY <1>7, <1>9, <2>1
      <4>2. g >= Popped(p)
        BY <1>1, <1>7, <1>8
      <4>3. Len(accepted[p]) \in Int /\ Popped(p) \in Int
        BY <1>1
      <4> QED
        BY <4>1, <4>2, <4>3
    <3>2. Len(accepted[p]) - Popped(p) < BUFFER_LENGTH
      BY <2>1
    <3> QED
      BY <1>1, <3>1, <3>2, BufferLengthAssumption
  <2>2. CASE ~new
    <3>1. Len(accepted[p]) - Popped(p) <= BUFFER_LENGTH
      BY DEF RingInv
    <3> QED
      BY <1>1, <1>7, <1>8, <1>9, <2>2, <3>1, BufferLengthAssumption
  <2> QED
    BY <2>1, <2>2
<1>14. Coming(p)' => accepted'[p][a] = n
  <2>1. Coming(p)' /\ ~new => Coming(p) /\ n = Now /\ accepted'[p] = accepted[p]
    OBVIOUS
  <2>2. Coming(p) => accepted[p][Len(accepted[p])] = Now
    BY DEF RingInv
  <2> QED
    BY <1>9, <1>10, <2>1, <2>2
<1>15. ASSUME NEW k \in 1 .. a
       PROVE  accepted'[p][k] \in DOMAIN dest' /\ dest'[accepted'[p][k]] = p
  <2>1. CASE k \in 1 .. Len(accepted[p])
    BY <1>10, <2>1 DEF RingInv
  <2>2. CASE k = a /\ new
    BY <1>10, <2>2
  <2> QED
    BY <1>1, <1>7, <1>9, <2>1, <2>2
<1>16. ASSUME NEW k \in 0 .. Count(c) - 1, NEW w \in Words
       PROVE  slots'[p][SlotAt(c, k)][w] = accepted'[p][g + k + 1]
  <2>1. PICK j \in 0 .. Count(r) : j = (IF popped THEN k + 1 ELSE k)
    BY <1>5
  <2>2. SlotAt(c, k) = SlotAt(r, j) /\ j = k + One(popped)
    BY <1>5, <2>1 DEF One
  <2>3. g + k + 1 = Popped(p) + j + 1
    <3>1. PICK y \in {0, 1} : One(popped) = y
      BY <1>7
    <3>2. g = Popped(p) + y /\ j = k + y
      BY <1>8, <2>2, <3>1
    <3>3. Popped(p) \in Int /\ k \in Int /\ y \in Int
      BY <1>1
    <3> QED
      BY <3>2, <3>3
  <2>4. CASE j < Count(r)
    <3>1. /\ j \in 0 .. Count(r) - 1 /\ j \in Index
          /\ Popped(p) + j + 1 \in 1 .. Len(accepted[p])
      BY <1>1, <2>4, BufferLengthAssumption DEF Index
    <3>2. slots[p][SlotAt(r, j)][w] = accepted[p][Popped(p) + j + 1]
      BY <3>1 DEF RingInv, r
    <3>3. SlotAt(r, j) \in Index /\ (Coming(p) => SlotAt(r, j) # r.head)
      BY <1>1, <1>2, <3>1, SlotAtFacts
    <3>4. slots'[p][SlotAt(r, j)] = slots[p][SlotAt(r, j)]
      BY <3>3 DEF r
    <3> QED
      BY <1>10, <2>2, <2>3, <3>1, <3>2, <3>4
  <2>5. CASE j = Count(r)
    <3>1. push
      BY <1>1, <1>4, <1>7, <1>16, <2>2, <2>5
    <3>2. SlotAt(r, j) = r.head
      BY <1>1, <1>2, <2>5, <3>1, SlotAtFacts
    <3>3. slots'[p][r.head] = slots[p][r.head] /\ slots[p][r.head][w] = Now
      <4>1. r.head \in Index
        BY <1>1 DEF Ring
      <4> QED
        BY <3>1, <4>1 DEF r
    <3>4. One(Coming(p)) = 1 /\ Coming(p) /\ ~new
      BY <3>1 DEF One
    <3>5. Popped(p) + j + 1 = Len(accepted[p]) /\ Len(accepted[p]) \in 1 .. Len(accepted[p])
      <4>1. Popped(p) + j + 1 = Len(accepted[p])
        BY <1>1, <2>5, <3>4
      <4>2. Len(accepted[p]) >= 1
        BY <1>1, <2>5, <4>1
      <4> QED
        BY <1>1, <4>1, <4>2
    <3>6. accepted'[p][Len(accepted[p])] = Now
      BY <1>10, <3>4, <3>5 DEF RingInv
    <3> QED
      BY <2>2, <2>3, <3>2, <3>3, <3>5, <3>6
  <2>6. j < Count(r) \/ j = Count(r)
    BY <1>1, <2>1
  <2> QED
    BY <2>4, <2>5, <2>6
<1>17. /\ Len(delivered'[p]) <= a
       /\ \A k \in 1 .. Len(delivered'[p]) : \A w \in Words :
            delivered'[p][k][w] = accepted'[p][k]
  <2>1. /\ Len(delivered[p]) <= Len(accepted[p])
        /\ \A k \in 1 .. Len(delivered[p]) : \A w \in Words :
             delivered[p][k][w] = accepted[p][k]
    BY DEF RingInv
  <2>2. \A k \in 1 .. Len(delivered[p]) : k \in 1 .. Len(accepted[p])
    BY <1>1, <2>1
  <2>3. Len(delivered[p]) <= a
    BY <1>1, <1>7, <1>9, <2>1
  <2> QED
    BY <1>10, <2>1, <2>2, <2>3
<1>18. a = g + Count(c) + (IF Coming(p)' THEN 1 ELSE 0)
  BY <1>12 DEF One
<1>19. /\ RingConsistent(rings'[p]) /\ Count(rings'[p]) = Count(c)
       /\ Popped(p)' = g /\ g \in Nat /\ Len(accepted'[p]) = a
  BY <1>4, <1>6, <1>8, <1>9
<1>20. /\ Len(accepted'[p])
            = Popped(p)' + Count(rings'[p]) + (IF Coming(p)' THEN 1 ELSE 0)
       /\ Len(accepted'[p]) - Popped(p)' <= BUFFER_LENGTH
  BY <1>13, <1>18, <1>19
<1>21. Coming(p)' => accepted'[p][Len(accepted'[p])] = Now'
  BY <1>14, <1>19
<1>22. \A k \in 1 .. Len(accepted'[p]) :
         accepted'[p][k] \in DOMAIN dest' /\ dest'[accepted'[p][k]] = p
  BY <1>15, <1>19
<1>23. \A k \in 0 .. Count(rings'[p]) - 1 : \A w \in Words :
         slots'[p][SlotAt(rings'[p], k)][w] = accepted'[p][Popped(p)' + k + 1]
  BY <1>6, <1>16, <1>19
<1>24. /\ Len(delivered'[p]) <= Len(accepted'[p])
       /\ \A k \in 1 .. Len(delivered'[p]) : \A w \in Words :
            delivered'[p][k][w] = accepted'[p][k]
  BY <1>17, <1>19
<1> QED
  BY ONLY <1>19, <1>20, <1>21, <1>22, <1>23, <1>24 DEF RingInv

(* The slot the reader has in hand stays as it is, and stays the oldest.   *)
LEMMA ReaderClock ==
  ASSUME TypeOK, HistTypes, \A p \in Ports : RingInv(p), ReaderInv,
         NEW feed, NEW room, NEW wready, NEW pop \in BOOLEAN,
         Stream(feed, room, wready, pop),
         Pushed(wready) => Coming(filter.sel),
         \A p \in Ports : \A i \in Index :
           slots'[p][i] = slots[p][i] \/ (Coming(p) /\ i = rings[p].head)
  PROVE  ReaderInv' /\ HistTypes'
<1>1. reader' = (IF pop THEN Idle ELSE reader) /\ delivered' = delivered
  BY DEF Stream
<1>2. HistTypes'
  <2>1. Idle \in [pc : {"idle", "header", "payload", "pop"},
                  port : Ports \cup {Outside}, tail : Index,
                  frame : Seq(Packet \cup {NoPacket})]
    BY BufferLengthAssumption DEF Idle, Index
  <2> QED
    BY <1>1, <2>1 DEF HistTypes
<1>3. ASSUME pop \/ reader.pc = "idle" PROVE ReaderInv'
  <2>1. reader'.pc = "idle"
    BY <1>1, <1>3 DEF Idle
  <2> QED
    BY <2>1 DEF ReaderInv
<1>5. ASSUME ~pop, reader.pc # "idle" PROVE ReaderInv'
  <2>1. PICK q \in Ports : q = reader.port
    BY <1>5 DEF ReaderInv
  <2> DEFINE r == rings[q]
             push == Pushed(wready) /\ filter.sel = q
  <2>2. /\ r \in Ring /\ Count(r) \in Nat /\ Count(r) <= BUFFER_LENGTH
        /\ r.empty <=> Count(r) = 0
        /\ Coming(q) => ~r.full
        /\ RingConsistent(r)
    BY RingNumbers DEF RingInv
  <2>3. ~r.empty /\ reader.tail = r.tail /\ Count(r) >= 1
    BY <1>5, <2>1, <2>2 DEF ReaderInv
  <2> DEFINE popped == pop /\ reader.port = q
  <2>4. /\ rings'[q] = ClockRing(r, push, popped)
        /\ push \in BOOLEAN /\ (push => ~r.full)
        /\ popped \in BOOLEAN /\ ~popped
    BY <1>5, <2>2 DEF Stream, NextRings
  <2> HIDE DEF r, push, popped
  <2> DEFINE c == ClockRing(r, push, popped)
  <2>5. /\ c \in Ring /\ RingConsistent(c)
        /\ Count(c) = Count(r) + One(push)
        /\ c.tail = r.tail
    <3>1. c \in Ring /\ RingConsistent(c) /\ c.tail = r.tail
          /\ Count(c) = Count(r) + (IF push THEN 1 ELSE 0)
                                 - (IF popped THEN 1 ELSE 0)
      BY <2>2, <2>4, ClockRingCounts
    <3>2. Count(c) = Count(r) + One(push) - 0
      BY <2>4, <3>1 DEF One
    <3>3. One(push) \in Int
      BY DEF One
    <3> QED
      BY <2>2, <3>1, <3>2, <3>3
  <2> HIDE DEF c
  <2>6. ~c.empty
    <3>1. c.empty <=> Count(c) = 0
      BY <2>5, CountRange
    <3>2. One(push) >= 0 /\ One(push) \in Int
      BY DEF One
    <3> QED
      BY <2>2, <2>3, <2>5, <3>1, <3>2
  <2>7. slots'[q][reader.tail] = slots[q][reader.tail]
    <3>1. r.tail \in Index
      BY <2>2 DEF Ring
    <3>2. Coming(q) => r.tail # r.head
      <4>1. SlotAt(r, 0) = r.tail
        BY <2>2, FirstPlace
      <4>2. 0 \in 0 .. Count(r) - 1
        BY <2>2, <2>3
      <4> QED
        BY <2>2, <4>1, <4>2, SlotAtFacts
    <3> QED
      BY <2>3, <3>1, <3>2 DEF r
  <2>8. reader' = reader /\ rings'[q] = c
    BY <1>1, <1>5, <2>4 DEF c
  <2>9. reader.pc = "payload" => reader.frame = << slots[q][reader.tail][1] >>
    BY <1>5, <2>1 DEF ReaderInv
  <2>10. /\ reader'.port = q /\ q \in Ports
         /\ ~rings'[q].empty /\ reader'.tail = rings'[q].tail
    BY <2>1, <2>3, <2>5, <2>6, <2>8
  <2>11. reader'.pc = "payload" =>
           reader'.frame = << slots'[q][reader'.tail][1] >>
    BY <2>7, <2>8, <2>9
  <2> QED
    BY <2>10, <2>11 DEF ReaderInv
<1> QED
  BY <1>2, <1>3, <1>5

(* A clock without a new header keeps the invariant. *)
LEMMA TickKeeps ==
  ASSUME RxInv,
         NEW feed \in BOOLEAN, NEW room \in BOOLEAN, NEW wready \in BOOLEAN,
         NEW pop \in BOOLEAN, Tick(feed, room, wready, pop)
  PROVE  RxInv'
<1>1. TypeOK /\ HistTypes /\ PipeInv /\ ReaderInv /\ \A p \in Ports : RingInv(p)
  BY DEF RxInv
<1>2. Stream(feed, room, wready, pop)
  BY DEF Tick
<1>3. TypeOK'
  BY <1>1, TickType
<1>4. /\ PipeInv' /\ Now' = Now
      /\ Pushed(wready) => Coming(filter.sel) /\ slots' = slots
      /\ \A p \in Ports :
           /\ Coming(p)' <=> Coming(p) /\ ~(Pushed(wready) /\ filter.sel = p)
           /\ Pushed(wready) /\ filter.sel = p =>
                \A w \in Words : slots[p][rings[p].head][w] = Now
           /\ \A i \in Index : slots'[p][i] = slots[p][i]
                               \/ (Coming(p) /\ i = rings[p].head)
  BY <1>1, <1>3, PipeClock
<1>5. ReaderInv' /\ HistTypes'
  BY <1>1, <1>2, <1>4, ReaderClock
<1>6. ASSUME NEW p \in Ports PROVE RingInv(p)'
  <2> DEFINE push == Pushed(wready) /\ filter.sel = p
  <2>1. /\ rings'[p] = ClockRing(rings[p], push, pop /\ reader.port = p)
        /\ pop => reader.pc = "pop"
        /\ reader' = IF pop THEN Idle ELSE reader
        /\ delivered' = delivered /\ dest' = dest /\ accepted' = accepted
    BY DEF Tick, Stream, NextRings
  <2>2. /\ Coming(p)' <=> Coming(p) /\ ~push
        /\ push => Coming(p)
        /\ push => \A w \in Words : slots[p][rings[p].head][w] = Now
        /\ \A i \in Index : slots'[p][i] = slots[p][i]
                            \/ (Coming(p) /\ ~push /\ i = rings[p].head)
    BY <1>4
  <2>3. push \in BOOLEAN
    OBVIOUS
  <2> HIDE DEF push
  <2>4. /\ Coming(p) => Now' = Now
        /\ accepted'[p] = IF FALSE THEN Append(accepted[p], Now) ELSE accepted[p]
        /\ Coming(p)' <=> FALSE \/ (Coming(p) /\ ~push)
        /\ \A i \in DOMAIN dest : i \in DOMAIN dest' /\ dest'[i] = dest[i]
    BY <1>4, <2>1, <2>2
  <2> DEFINE n == Now
  <2>5. n = Now'
    BY <1>4
  <2> HIDE DEF n
  <2> QED
    BY <1>1, <1>3, <2>1, <2>2, <2>3, <2>4, <2>5, RingClock DEF n
<1> QED
  BY <1>3, <1>4, <1>5, <1>6 DEF RxInv

(* So does one with which a header arrives.                                *)
LEMMA ArrivalKeeps ==
  ASSUME AllAssumed, RxInv, NEW p \in Ports \cup {Outside},
         NEW room \in BOOLEAN, NEW wready \in BOOLEAN, NEW pop \in BOOLEAN,
         TickArrival(p, room, wready, pop)
  PROVE  RxInv'
<1>1. TypeOK /\ HistTypes /\ PipeInv /\ ReaderInv /\ \A q \in Ports : RingInv(q)
  BY DEF RxInv
<1>2. Stream(FALSE, room, wready, pop) /\ MayArrive(p)
  BY DEF TickArrival
<1>3. Rest
  BY <1>1, <1>2, ArrivesAtRest
<1>4. TypeOK' /\ Len(dest) + 1 \in Packet
  BY <1>1, <1>3, ArrivalType
<1>5. /\ PipeInv' /\ Arrived' /\ Port' = p /\ Now' = Len(dest) + 1
      /\ slots' = slots /\ ~Pushed(wready)
  BY <1>1, <1>3, ArrivalStep
<1>6. \A q \in Ports : ~Coming(q) /\ (Coming(q)' <=> q = p /\ p \in open)
  <2>1. ~Arrived /\ ~Judging /\ ~Writing
    BY <1>1, <1>3, Stages
  <2>2. ~Judging' /\ ~Writing'
    BY <1>4, <1>5, StagesNext
  <2>3. open' = open
    BY <1>2 DEF Stream
  <2> QED
    BY <1>5, <2>1, <2>2, <2>3 DEF Coming
<1>7. ReaderInv' /\ HistTypes'
  BY <1>1, <1>2, <1>5, ReaderClock
<1>8. ASSUME NEW q \in Ports PROVE RingInv(q)'
  <2> DEFINE new == q = p /\ p \in open
             push == Pushed(wready) /\ filter.sel = q
             n == Len(dest) + 1
  <2>1. /\ rings'[q] = ClockRing(rings[q], push, pop /\ reader.port = q)
        /\ pop => reader.pc = "pop"
        /\ reader' = IF pop THEN Idle ELSE reader
        /\ delivered' = delivered
    BY <1>2 DEF Stream, NextRings
  <2>2. ~push /\ push \in BOOLEAN /\ new \in BOOLEAN
    BY <1>5
  <2>3. accepted'[q] = IF new THEN Append(accepted[q], n) ELSE accepted[q]
    <3>1. accepted \in [Ports -> Seq(Packet)]
      BY <1>1 DEF TypeOK
    <3> QED
      BY <3>1 DEF TickArrival
  <2>4. /\ ~Coming(q) /\ (Coming(q)' <=> new \/ (Coming(q) /\ ~push))
        /\ (push => Coming(q)) /\ (new => ~Coming(q))
    BY <1>6, <2>2
  <2>5. /\ \A i \in DOMAIN dest : i \in DOMAIN dest' /\ dest'[i] = dest[i]
        /\ n \in DOMAIN dest' /\ dest'[n] = p
    <3>1. dest \in Seq(Ports \cup {Outside}) /\ dest' = Append(dest, p)
      BY <1>1 DEF TypeOK, TickArrival
    <3>2. /\ Len(dest) \in Nat /\ Len(dest') = Len(dest) + 1
          /\ DOMAIN dest = 1 .. Len(dest) /\ DOMAIN dest' = 1 .. Len(dest')
          /\ \A i \in 1 .. Len(dest) : dest'[i] = dest[i]
          /\ dest'[Len(dest) + 1] = p
      BY <3>1, AppendProperties, LenProperties
    <3> QED
      BY <3>2
  <2>6. new => Len(accepted[q]) - Popped(q) < BUFFER_LENGTH
    <3>1. new => Unread(q) < BUFFER_LENGTH
      BY <1>2 DEF MayArrive, AllAssumed
    <3>2. Len(accepted[q]) \in Nat /\ Len(delivered[q]) \in Nat
      BY <1>1, RingNumbers
    <3>3. Unread(q) = Len(accepted[q]) - Popped(q)
      BY <3>2 DEF Unread, Popped
    <3> QED
      BY <3>1, <3>3
  <2>7. n \in Packet /\ n = Now'
    BY <1>4, <1>5
  <2>8. new => n \in DOMAIN dest' /\ dest'[n] = q
    BY <2>5
  <2>9. \A i \in Index : slots'[q][i] = slots[q][i]
                          \/ (Coming(q) /\ ~push /\ i = rings[q].head)
    BY <1>5
  <2>10. \A i \in DOMAIN dest : i \in DOMAIN dest' /\ dest'[i] = dest[i]
    BY <2>5
  <2>11. push => \A w \in Words : slots[q][rings[q].head][w] = Now
    BY <2>2
  <2> HIDE DEF push, new, n
  <2> QED
    BY <1>1, <1>4, <2>1, <2>2, <2>3, <2>4, <2>6, <2>7, <2>8, <2>9, <2>10,
       <2>11, RingClock
<1> QED
  BY <1>4, <1>5, <1>7, <1>8 DEF RxInv

-----------------------------------------------------------------------------
(***************************************************************************)
(* The steps of the reader and of the sockets.                             *)
(***************************************************************************)

(* A step that leaves the pipeline alone keeps its invariant, unless it    *)
(* opens or closes a socket while a header is being judged.                *)
LEMMA PipeKept ==
  ASSUME TypeOK, PipeInv, UNCHANGED streamVars, slots' = slots,
         rings' = rings, dest' = dest, open' = open \/ (~Arrived /\ ~Judging)
  PROVE  /\ PipeInv' /\ Now' = Now
         /\ \A p \in Ports : Coming(p)' <=> Coming(p)
<1>1. /\ stack' = stack /\ adapter' = adapter /\ filter' = filter
      /\ skid1' = skid1 /\ adder' = adder /\ skid2' = skid2 /\ ctl' = ctl
      /\ dma' = dma /\ wchan' = wchan
  BY DEF streamVars
<1>2. Now' = Now /\ Port' = Port /\ Place' = Place /\ Frame' = Frame
  BY <1>1 DEF Now, Port, Place, Frame
<1>3. Burst' = Burst
  BY <1>1, <1>2 DEF Burst
<1>4. AtFilter' = AtFilter /\ AtAdder' = AtAdder /\ AtEngine' = AtEngine
  BY <1>1 DEF AtFilter, AtAdder, AtEngine
<1>5. AtBus' = AtBus /\ AtMemory' = AtMemory
  BY <1>1, <1>4 DEF AtBus, AtMemory
<1>6. Clear' <=> Clear
  BY <1>1 DEF Clear
<1>7. (Rest' <=> Rest) /\ (Arrived' <=> Arrived)
  BY <1>1, <1>6 DEF Rest, Arrived
<1>8. Discarding' <=> Discarding
  BY <1>1, <1>4, <1>6 DEF Discarding
<1>9. Passing' <=> Passing
  BY <1>1, <1>4 DEF Passing
<1>10. Engine' <=> Engine
  BY <1>1, <1>2, <1>4 DEF Engine
<1>11. Writing' <=> Writing
  BY <1>1, <1>2, <1>5, <1>9, <1>10 DEF Writing
<1>12. /\ open' = open => (Judging' <=> Judging)
       /\ Judging' => ~stack.hdr_valid /\ AtFilter = 2 /\ filter.state = "CHECK"
  BY <1>1, <1>2, <1>4, <1>6 DEF Judging
<1>13. (Judging' <=> Judging) /\ (open' = open \/ (~Arrived /\ ~Judging))
  <2>1. ASSUME ~Arrived, ~Judging, Judging' PROVE FALSE
    <3>1. Rest \/ Discarding \/ Writing
      BY <2>1 DEF PipeInv
    <3> QED
      BY <1>12, <2>1, <3>1 DEF Rest, Discarding, Writing, Passing
  <2> QED
    BY <1>12, <2>1
<1>14. \A p \in Ports : Coming(p)' <=> Coming(p)
  BY <1>2, <1>7, <1>11, <1>13 DEF Coming
<1>15. /\ Run(adapter', Frame', AtFilter') /\ Run(skid1', Frame', AtAdder')
       /\ Run(skid2', Frame', AtEngine') /\ Run(wchan', Burst', AtMemory')
  BY <1>1, <1>2, <1>3, <1>4, <1>5 DEF PipeInv
<1>16. /\ Now' = Len(dest') /\ (~Rest' => Now' # NoPacket)
       /\ Rest' \/ Arrived' \/ Judging' \/ Discarding' \/ Writing'
       /\ AtAdder' >= 2 /\ AtEngine' >= 1 /\ AtMemory' >= 1
  BY <1>2, <1>4, <1>5, <1>7, <1>8, <1>11, <1>13 DEF PipeInv
<1> QED
  BY <1>2, <1>14, <1>15, <1>16 DEF PipeInv

(* What the reader may have changed of a ring's accounting. *)
LEMMA RingKept ==
  ASSUME NEW p \in Ports, RingInv(p), rings' = rings, slots' = slots,
         accepted' = accepted, dest' = dest, Now' = Now,
         Coming(p)' <=> Coming(p), Popped(p)' = Popped(p),
         Len(delivered'[p]) <= Len(accepted[p]),
         \A k \in 1 .. Len(delivered'[p]) : \A w \in Words :
           delivered'[p][k][w] = accepted[p][k]
  PROVE  RingInv(p)'
<1>1. PICK g : g = Popped(p) /\ Popped(p)' = g
  OBVIOUS
<1>2. /\ RingConsistent(rings[p]) /\ g \in Nat
      /\ Len(accepted[p]) = g + Count(rings[p]) + (IF Coming(p)' THEN 1 ELSE 0)
      /\ Len(accepted[p]) - g <= BUFFER_LENGTH
      /\ Coming(p)' => accepted[p][Len(accepted[p])] = Now'
  BY <1>1 DEF RingInv
<1>3. /\ \A k \in 1 .. Len(accepted[p]) :
           accepted[p][k] \in DOMAIN dest /\ dest[accepted[p][k]] = p
      /\ \A k \in 0 .. Count(rings[p]) - 1 : \A w \in Words :
           slots[p][SlotAt(rings[p], k)][w] = accepted[p][g + k + 1]
  BY <1>1 DEF RingInv
<1> QED
  BY <1>1, <1>2, <1>3 DEF RingInv

(* The reader looks at a ring. *)
LEMMA ReadTailKeeps ==
  ASSUME RxInv, NEW p \in Ports, ReadTail(p)
  PROVE  RxInv'
<1>1. TypeOK /\ HistTypes /\ PipeInv /\ \A q \in Ports : RingInv(q)
  BY DEF RxInv
<1>2. /\ UNCHANGED streamVars /\ open' = open /\ slots' = slots
      /\ rings' = rings /\ dest' = dest /\ accepted' = accepted
      /\ delivered' = delivered
      /\ reader.pc = "idle" /\ ~rings[p].empty
      /\ reader' = [pc |-> "header", port |-> p, tail |-> rings[p].tail,
                    frame |-> << >>]
  BY DEF ReadTail, histVars
<1>3. /\ PipeInv' /\ Now' = Now
      /\ \A q \in Ports : Coming(q)' <=> Coming(q)
  BY <1>1, <1>2, PipeKept
<1>4. TypeOK'
  BY <1>1, <1>2 DEF TypeOK, streamVars
<1>5. HistTypes'
  <2>1. rings[p].tail \in Index
    BY <1>1 DEF TypeOK, Ring
  <2>2. << >> \in Seq(Packet \cup {NoPacket})
    BY EmptySeq
  <2> QED
    BY <1>1, <1>2, <2>1, <2>2 DEF HistTypes
<1>6. ReaderInv'
  BY <1>2 DEF ReaderInv
<1>7. ASSUME NEW q \in Ports PROVE RingInv(q)'
  <2>1. Popped(q)' = Popped(q)
    BY <1>2 DEF Popped
  <2>2. /\ Len(delivered'[q]) <= Len(accepted[q])
        /\ \A k \in 1 .. Len(delivered'[q]) : \A w \in Words :
             delivered'[q][k][w] = accepted[q][k]
    BY <1>1, <1>2 DEF RingInv
  <2> QED
    BY <1>1, <1>2, <1>3, <2>1, <2>2, RingKept
<1> QED
  BY <1>3, <1>4, <1>5, <1>6, <1>7 DEF RxInv

(* The reader copies the header. *)
LEMMA CopyHeaderKeeps ==
  ASSUME RxInv, CopyHeader
  PROVE  RxInv'
<1>1. /\ TypeOK /\ HistTypes /\ PipeInv /\ ReaderInv
      /\ \A q \in Ports : RingInv(q)
  BY DEF RxInv
<1> DEFINE word == slots[reader.port][reader.tail][1]
<1>2. /\ UNCHANGED streamVars /\ open' = open /\ slots' = slots
      /\ rings' = rings /\ dest' = dest /\ accepted' = accepted
      /\ delivered' = delivered
      /\ reader.pc = "header"
      /\ reader' = [reader EXCEPT !.pc = "payload", !.frame = << word >>]
  BY DEF CopyHeader, histVars
<1>3. /\ PipeInv' /\ Now' = Now
      /\ \A q \in Ports : Coming(q)' <=> Coming(q)
  BY <1>1, <1>2, PipeKept
<1>4. /\ reader' = [pc |-> "payload", port |-> reader.port,
                    tail |-> reader.tail, frame |-> << word >>]
  BY <1>1, <1>2 DEF HistTypes
<1>5. TypeOK'
  BY <1>1, <1>2, <1>4 DEF TypeOK, streamVars
<1>6. HistTypes'
  <2>1. reader.port \in Ports /\ reader.tail \in Index
    BY <1>1, <1>2 DEF ReaderInv, HistTypes
  <2>2. word \in Packet \cup {NoPacket}
    BY <1>1, <2>1 DEF TypeOK, Words
  <2>3. << word >> \in Seq(Packet \cup {NoPacket})
    BY <2>2
  <2> HIDE DEF word
  <2> QED
    BY <1>1, <1>2, <1>4, <2>1, <2>3 DEF HistTypes
<1>7. ReaderInv'
  BY <1>1, <1>2, <1>4 DEF ReaderInv
<1>8. ASSUME NEW q \in Ports PROVE RingInv(q)'
  <2>1. Popped(q)' = Popped(q)
    BY <1>2, <1>4 DEF Popped
  <2>2. /\ Len(delivered'[q]) <= Len(accepted[q])
        /\ \A k \in 1 .. Len(delivered'[q]) : \A w \in Words :
             delivered'[q][k][w] = accepted[q][k]
    BY <1>1, <1>2 DEF RingInv
  <2> QED
    BY <1>1, <1>2, <1>3, <2>1, <2>2, RingKept
<1> QED
  BY <1>3, <1>5, <1>6, <1>7, <1>8 DEF RxInv

(* A header word followed by two payload words is a frame of three words.  *)
LEMMA WholeFrame ==
  ASSUME NEW S, NEW s, s[1] \in S, s[2] \in S, s[3] \in S
  PROVE  LET copy == << s[1] >> \o << s[2], s[3] >>
         IN  copy \in Seq(S) /\ \A w \in Words : copy[w] = s[w]
<1>1. << s[1] >> \in Seq(S) /\ << s[2], s[3] >> \in Seq(S)
  OBVIOUS
<1>2. /\ Len(<< s[1] >>) = 1 /\ << s[1] >>[1] = s[1]
      /\ Len(<< s[2], s[3] >>) = 2
      /\ << s[2], s[3] >>[1] = s[2] /\ << s[2], s[3] >>[2] = s[3]
  OBVIOUS
<1> DEFINE a == << s[1] >>
           b == << s[2], s[3] >>
<1>3. /\ a \in Seq(S) /\ b \in Seq(S) /\ Len(a) = 1 /\ Len(b) = 2
      /\ a[1] = s[1] /\ b[1] = s[2] /\ b[2] = s[3]
  BY <1>1, <1>2
<1> HIDE DEF a, b
<1>4. /\ a \o b \in Seq(S)
      /\ \A i \in 1 .. Len(a) + Len(b) :
           (a \o b)[i] = IF i <= Len(a) THEN a[i] ELSE b[i - Len(a)]
  BY <1>3, ConcatProperties
<1>5. (a \o b)[1] = s[1] /\ (a \o b)[2] = s[2] /\ (a \o b)[3] = s[3]
  <2>1. 1 \in 1 .. Len(a) + Len(b) /\ 1 <= Len(a)
    BY <1>3
  <2>2. 2 \in 1 .. Len(a) + Len(b) /\ ~(2 <= Len(a)) /\ 2 - Len(a) = 1
    BY <1>3
  <2>3. 3 \in 1 .. Len(a) + Len(b) /\ ~(3 <= Len(a)) /\ 3 - Len(a) = 2
    BY <1>3
  <2>4. (a \o b)[1] = a[1]
    BY <1>4, <2>1
  <2>5. (a \o b)[2] = b[1]
    BY <1>4, <2>2
  <2>6. (a \o b)[3] = b[2]
    BY <1>4, <2>3
  <2> QED
    BY <1>3, <2>4, <2>5, <2>6
<1> QED
  BY <1>4, <1>5 DEF a, b, Words

(* The reader copies the payload and writes the pop: the packet it has     *)
(* delivered is the oldest one in the ring.                                *)
LEMMA CopyPayloadKeeps ==
  ASSUME RxInv, CopyPayload
  PROVE  RxInv'
<1>1. /\ TypeOK /\ HistTypes /\ PipeInv /\ ReaderInv
      /\ \A q \in Ports : RingInv(q)
  BY DEF RxInv
<1>2. PICK p \in Ports : p = reader.port
  BY <1>1 DEF CopyPayload, ReaderInv
<1>3. PICK t \in Index : t = reader.tail
  BY <1>1 DEF HistTypes
<1>4. PICK s : s = slots[p][t]
  OBVIOUS
<1>5. /\ s[1] \in Packet \cup {NoPacket} /\ s[2] \in Packet \cup {NoPacket}
      /\ s[3] \in Packet \cup {NoPacket}
  BY <1>1, <1>4 DEF TypeOK, Words
<1> DEFINE copy == << s[1] >> \o << s[2], s[3] >>
<1>6. reader.pc = "payload" /\ reader.frame = << s[1] >>
  BY <1>1, <1>2, <1>3, <1>4 DEF CopyPayload, ReaderInv
<1>7. /\ UNCHANGED streamVars /\ open' = open /\ slots' = slots
      /\ rings' = rings /\ dest' = dest /\ accepted' = accepted
      /\ reader' = [reader EXCEPT !.pc = "pop", !.frame = copy]
      /\ delivered' = [delivered EXCEPT ![p] = Append(@, copy)]
  BY <1>2, <1>3, <1>4, <1>6 DEF CopyPayload
<1>8. copy \in Seq(Packet \cup {NoPacket}) /\ \A w \in Words : copy[w] = s[w]
  BY <1>5, WholeFrame
<1> HIDE DEF copy
<1>9. reader' = [pc |-> "pop", port |-> p, tail |-> t, frame |-> copy]
  BY <1>1, <1>2, <1>3, <1>7 DEF HistTypes
<1>10. /\ PipeInv' /\ Now' = Now
       /\ \A q \in Ports : Coming(q)' <=> Coming(q)
  BY <1>1, <1>7, PipeKept
<1>11. TypeOK'
  BY <1>1, <1>7, <1>9 DEF TypeOK, streamVars
<1>12. ReaderInv'
  BY <1>1, <1>2, <1>3, <1>6, <1>7, <1>9 DEF ReaderInv
<1>13. HistTypes'
  <2>1. Append(delivered[p], copy) \in Seq(Seq(Packet \cup {NoPacket}))
    BY <1>1, <1>8, AppendProperties DEF HistTypes
  <2> QED
    BY <1>1, <1>7, <1>8, <1>9, <2>1 DEF HistTypes
<1>14. ASSUME NEW q \in Ports, q # p PROVE RingInv(q)'
  <2>1. delivered'[q] = delivered[q]
    BY <1>1, <1>7, <1>14 DEF HistTypes
  <2>2. Popped(q)' = Popped(q)
    BY <1>2, <1>9, <1>14, <2>1 DEF Popped
  <2>3. /\ Len(delivered'[q]) <= Len(accepted[q])
        /\ \A k \in 1 .. Len(delivered'[q]) : \A w \in Words :
             delivered'[q][k][w] = accepted[q][k]
    BY <1>1, <2>1 DEF RingInv
  <2> QED
    BY <1>1, <1>7, <1>10, <2>2, <2>3, RingKept
<1>15. RingInv(p)'
  <2>1. PICK d \in Nat : d = Len(delivered[p])
    BY <1>1, RingNumbers
  <2>2. /\ delivered'[p] = Append(delivered[p], copy)
        /\ Len(delivered'[p]) = d + 1
        /\ \A k \in 1 .. d : delivered'[p][k] = delivered[p][k]
        /\ delivered'[p][d + 1] = copy
    <3>1. delivered'[p] = Append(delivered[p], copy)
      BY <1>1, <1>7 DEF HistTypes
    <3>2. delivered[p] \in Seq(Seq(Packet \cup {NoPacket}))
      BY <1>1 DEF HistTypes
    <3> QED
      BY <1>8, <2>1, <3>1, <3>2, AppendProperties
  <2>3. Popped(p) = d
    BY <1>6, <2>1 DEF Popped
  <2>4. Popped(p)' = d
    <3>1. Popped(p)' = Len(delivered'[p]) - 1
      BY <1>9 DEF Popped
    <3> QED
      BY <2>1, <2>2, <3>1
  <2>5. /\ rings[p] \in Ring /\ t = rings[p].tail
        /\ Count(rings[p]) \in Nat /\ Count(rings[p]) # 0
        /\ Len(accepted[p]) \in Nat /\ d + 1 <= Len(accepted[p])
    <3>1. /\ rings[p] \in Ring /\ Count(rings[p]) \in Nat
          /\ Len(accepted[p]) \in Nat /\ One(Coming(p)) \in {0, 1}
          /\ rings[p].empty <=> Count(rings[p]) = 0
          /\ Len(accepted[p]) = Popped(p) + Count(rings[p]) + One(Coming(p))
      BY <1>1, RingNumbers
    <3>2. ~rings[p].empty /\ t = rings[p].tail
      BY <1>1, <1>2, <1>3, <1>6 DEF ReaderInv
    <3>3. Len(accepted[p]) = d + Count(rings[p]) + One(Coming(p))
      BY <2>3, <3>1
    <3> QED
      BY <3>1, <3>2, <3>3
  <2>6. \A w \in Words : copy[w] = accepted[p][d + 1]
    <3>1. 0 \in 0 .. Count(rings[p]) - 1
      BY <2>5
    <3>2. \A w \in Words : slots[p][SlotAt(rings[p], 0)][w]
                             = accepted[p][Popped(p) + 0 + 1]
      BY <1>1, <3>1 DEF RingInv
    <3>3. SlotAt(rings[p], 0) = t
      BY <2>5, FirstPlace
    <3>4. Popped(p) + 0 + 1 = d + 1
      BY <2>1, <2>3
    <3> QED
      BY <1>4, <1>8, <3>2, <3>3, <3>4
  <2>7. \A k \in 1 .. d + 1 : \A w \in Words :
          delivered'[p][k][w] = accepted[p][k]
    <3>1. \A k \in 1 .. d : \A w \in Words : delivered[p][k][w] = accepted[p][k]
      BY <1>1, <2>1 DEF RingInv
    <3>2. \A k \in 1 .. d + 1 : k \in 1 .. d \/ k = d + 1
      BY <2>1
    <3> QED
      BY <2>2, <2>6, <3>1, <3>2
  <2>8. Len(delivered'[p]) <= Len(accepted[p]) /\ Popped(p)' = Popped(p)
    BY <2>2, <2>3, <2>4, <2>5
  <2> QED
    BY <1>1, <1>7, <1>10, <2>2, <2>7, <2>8, RingKept
<1> QED
  BY <1>10, <1>11, <1>12, <1>13, <1>14, <1>15 DEF RxInv

(* A socket is opened or closed. *)
LEMMA SetSocketKeeps ==
  ASSUME AllAssumed, RxInv, NEW p \in Ports, SetSocket(p)
  PROVE  RxInv'
<1>1. /\ TypeOK /\ HistTypes /\ PipeInv /\ ReaderInv
      /\ \A q \in Ports : RingInv(q)
  BY DEF RxInv
<1>2. /\ UNCHANGED streamVars /\ slots' = slots /\ rings' = rings
      /\ reader' = reader
      /\ dest' = dest /\ accepted' = accepted /\ delivered' = delivered
      /\ open' = IF p \in open THEN open \ {p} ELSE open \cup {p}
  BY DEF SetSocket, histVars
<1>3. ~Arrived /\ ~Judging
  BY DEF AllAssumed, SetSocket, NotJudging, Arrived, Judging
<1>4. /\ PipeInv' /\ Now' = Now
      /\ \A q \in Ports : Coming(q)' <=> Coming(q)
  BY <1>1, <1>2, <1>3, PipeKept
<1>5. TypeOK'
  BY <1>1, <1>2 DEF TypeOK, streamVars
<1>6. HistTypes' /\ ReaderInv'
  BY <1>1, <1>2 DEF HistTypes, ReaderInv
<1>7. ASSUME NEW q \in Ports PROVE RingInv(q)'
  <2>1. Popped(q)' = Popped(q)
    BY <1>2 DEF Popped
  <2>2. /\ Len(delivered'[q]) <= Len(accepted[q])
        /\ \A k \in 1 .. Len(delivered'[q]) : \A w \in Words :
             delivered'[q][k][w] = accepted[q][k]
    BY <1>1, <1>2 DEF RingInv
  <2> QED
    BY <1>1, <1>2, <1>4, <2>1, <2>2, RingKept
<1> QED
  BY <1>4, <1>5, <1>6, <1>7 DEF RxInv

-----------------------------------------------------------------------------
(***************************************************************************)
(* The specification.                                                      *)
(***************************************************************************)

(* Out of reset everything is empty.                                       *)
LEMMA RxInvInit ==
  ASSUME Init
  PROVE  RxInv
<1>1. FirstRing \in Ports
  BY RxAssumption DEF FirstRing
<1>2. 0 \in Index
  BY BufferLengthAssumption DEF Index
<1>3. /\ Len(<< >>) = 0 /\ << >> \in Seq(Word) /\ << >> \in Seq(Packet)
      /\ << >> \in Seq(Ports \cup {Outside})
      /\ << >> \in Seq([slot : Ports \X Index, at : 1 .. LastWord + 1,
                        packet : Packet \cup {NoPacket}, last : BOOLEAN])
      /\ << >> \in Seq(Packet \cup {NoPacket})
      /\ << >> \in Seq(Seq(Packet \cup {NoPacket}))
  BY EmptySeq
<1>4. ResetRing \in Ring /\ RingConsistent(ResetRing) /\ Count(ResetRing) = 0
  BY ResetRingFacts
<1>5. TypeOK
  <2>1. stack \in [packet : Packet \cup {NoPacket}, hdr_valid : BOOLEAN,
                   next : 2 .. LastWord + 1]
    BY DEF Init, LastWord
  <2>2. filter \in [state : {"IDLE", "CHECK", "FORWARD", "DISCARD"}, sel : Ports,
                    valid : BOOLEAN]
    BY <1>1 DEF Init
  <2>3. ctl \in [valid : BOOLEAN, slot : Ports \X Index]
    BY <1>1, <1>2 DEF Init
  <2>4. dma \in [state : {"IDLE", "START", "WRITE", "FINISH_BURST"},
                 ready : BOOLEAN, slot : Ports \X Index, word : 1 .. LastWord + 1]
    BY <1>1, <1>2 DEF Init, LastWord
  <2>5. slots \in [Ports -> [Index -> [Words -> Packet \cup {NoPacket}]]]
    BY DEF Init
  <2>6. rings \in [Ports -> Ring] /\ accepted \in [Ports -> Seq(Packet)]
    BY <1>3, <1>4 DEF Init
  <2> QED
    BY <1>3, <2>1, <2>2, <2>3, <2>4, <2>5, <2>6 DEF Init, TypeOK, Idle
<1>6. HistTypes
  BY <1>2, <1>3 DEF Init, HistTypes, Idle
<1>7. Rest
  BY DEF Init, Rest, Clear, LastWord
<1>8. PipeInv
  <2>1. Now = Len(dest)
    BY <1>3 DEF Init, Now, NoPacket
  <2>2. AtFilter = LastWord + 1 /\ Run(adapter, Frame, AtFilter)
    BY <1>3, RunEmpty DEF Init, AtFilter, LastWord
  <2>3. skid1 = << >> /\ skid2 = << >> /\ wchan = << >> /\ adder = "IDLE"
    BY DEF Init
  <2>4. AtAdder = LastWord + 1 /\ AtEngine = LastWord + 1
    BY <1>3, <2>2, <2>3 DEF AtAdder, AtEngine, LastWord
  <2>5. AtBus = LastWord + 2 /\ AtMemory = LastWord + 2
    BY <1>3, <2>3, <2>4 DEF Init, AtBus, AtMemory, LastWord
  <2>6. /\ Run(skid1, Frame, AtAdder) /\ Run(skid2, Frame, AtEngine)
        /\ Run(wchan, Burst, AtMemory)
    BY <2>3, RunEmpty
  <2> QED
    BY <1>7, <2>1, <2>2, <2>4, <2>5, <2>6 DEF PipeInv, LastWord
<1>9. ASSUME NEW p \in Ports PROVE RingInv(p)
  <2>1. ~Coming(p)
    BY <1>5, <1>7, <1>8, Stages DEF Coming
  <2>2. accepted[p] = << >> /\ delivered[p] = << >> /\ rings[p] = ResetRing
    BY DEF Init
  <2>3. Popped(p) = 0
    BY <1>3, <2>2 DEF Init, Idle, Popped
  <2> QED
    BY <1>3, <1>4, <2>1, <2>2, <2>3, BufferLengthAssumption DEF RingInv
<1>10. ReaderInv
  BY DEF Init, Idle, ReaderInv
<1> QED
  BY <1>5, <1>6, <1>8, <1>9, <1>10 DEF RxInv

(* Every step keeps the invariant. *)
LEMMA RxInvStep ==
  ASSUME AllAssumed, RxInv, [Next]_vars
  PROVE  RxInv'
<1>1. ASSUME NEW feed \in BOOLEAN, NEW room \in BOOLEAN,
             NEW wready \in BOOLEAN, NEW pop \in BOOLEAN,
             Tick(feed, room, wready, pop)
      PROVE  RxInv'
  BY <1>1, TickKeeps
<1>2. ASSUME NEW p \in Ports \cup {Outside}, NEW room \in BOOLEAN,
             NEW wready \in BOOLEAN, NEW pop \in BOOLEAN,
             TickArrival(p, room, wready, pop)
      PROVE  RxInv'
  BY <1>2, ArrivalKeeps
<1>3. ASSUME NEW p \in Ports, ReadTail(p) \/ SetSocket(p)
      PROVE  RxInv'
  BY <1>3, ReadTailKeeps, SetSocketKeeps
<1>4. ASSUME CopyHeader \/ CopyPayload
      PROVE  RxInv'
  BY <1>4, CopyHeaderKeeps, CopyPayloadKeeps
<1>5. ASSUME UNCHANGED vars
      PROVE  RxInv'
  <2>1. /\ UNCHANGED streamVars /\ slots' = slots /\ rings' = rings
        /\ reader' = reader /\ open' = open
        /\ dest' = dest /\ accepted' = accepted /\ delivered' = delivered
    BY <1>5 DEF vars, histVars
  <2>2. /\ TypeOK /\ HistTypes /\ PipeInv /\ ReaderInv
        /\ \A q \in Ports : RingInv(q)
    BY DEF RxInv
  <2>3. /\ PipeInv' /\ Now' = Now
        /\ \A q \in Ports : Coming(q)' <=> Coming(q)
    BY <2>1, <2>2, PipeKept
  <2>4. TypeOK' /\ HistTypes' /\ ReaderInv'
    <3>1. TypeOK'
      BY <2>1, <2>2 DEF TypeOK, streamVars
    <3>2. HistTypes' /\ ReaderInv'
      BY <2>1, <2>2 DEF HistTypes, ReaderInv
    <3> QED
      BY <3>1, <3>2
  <2>5. ASSUME NEW q \in Ports PROVE RingInv(q)'
    <3>1. Popped(q)' = Popped(q)
      BY <2>1 DEF Popped
    <3>2. /\ Len(delivered'[q]) <= Len(accepted[q])
          /\ \A k \in 1 .. Len(delivered'[q]) : \A w \in Words :
               delivered'[q][k][w] = accepted[q][k]
      BY <2>1, <2>2 DEF RingInv
    <3> QED
      BY <2>1, <2>2, <2>3, <3>1, <3>2, RingKept
  <2> QED
    BY <2>3, <2>4, <2>5 DEF RxInv
<1> QED
  BY <1>1, <1>2, <1>3, <1>4, <1>5 DEF Next

(* Under the three assumptions the invariant holds for ever. *)
THEOREM RxInvariant == AllAssumed /\ Spec => [](AllAssumed /\ RxInv)
<1>1. AllAssumed /\ Init => RxInv
  BY RxInvInit
<1>2. AllAssumed /\ RxInv /\ [Next]_vars => AllAssumed' /\ RxInv'
  <2>1. AllAssumed => AllAssumed'
    BY DEF AllAssumed
  <2> QED
    BY <2>1, RxInvStep
<1> QED
  BY <1>1, <1>2, PTL DEF Spec

(* Every register, slot and history keeps its type; in particular the      *)
(* registers of the stream never hold more words than they have room for,  *)
(* and the write engine never counts past the end of a slot.               *)
THEOREM RxTypeCorrect == AllAssumed /\ Spec => []TypeOK
<1>1. RxInv => TypeOK
  BY DEF RxInv
<1> QED
  BY <1>1, RxInvariant, PTL

(* A frame the reader copied is one packet, header and payload, that was   *)
(* addressed to the port whose ring it was copied from.                    *)
THEOREM RxIntegrityCorrect == AllAssumed /\ Spec => []RxIntegrity
<1>1. ASSUME RxInv PROVE RxIntegrity
  <2>1. ASSUME NEW p \in Ports, NEW k \in DOMAIN delivered[p]
        PROVE  LET f == delivered[p][k]
               IN  /\ f[1] # NoPacket /\ dest[f[1]] = p
                   /\ \A w \in Words : f[w] = f[1]
    <3>1. /\ RingInv(p) /\ k \in 1 .. Len(delivered[p])
          /\ Len(delivered[p]) \in Nat /\ Len(accepted[p]) \in Nat
      <4>1. TypeOK /\ HistTypes /\ RingInv(p)
        BY <1>1 DEF RxInv
      <4>2. /\ delivered[p] \in Seq(Seq(Packet \cup {NoPacket}))
            /\ Len(delivered[p]) \in Nat /\ Len(accepted[p]) \in Nat
        BY <4>1, RingNumbers
      <4> QED
        BY <4>1, <4>2, LenProperties
    <3>2. /\ k \in 1 .. Len(accepted[p])
          /\ \A w \in Words : delivered[p][k][w] = accepted[p][k]
      BY <3>1 DEF RingInv
    <3>3. accepted[p][k] \in DOMAIN dest /\ dest[accepted[p][k]] = p
      BY <3>1, <3>2 DEF RingInv
    <3>4. accepted[p][k] # NoPacket
      <4>1. dest \in Seq(Ports \cup {Outside})
        BY <1>1 DEF RxInv, TypeOK
      <4>2. DOMAIN dest = 1 .. Len(dest)
        BY <4>1, LenProperties
      <4> QED
        BY <3>3, <4>2 DEF NoPacket
    <3> QED
      BY <3>2, <3>3, <3>4 DEF Words
  <2> QED
    BY <2>1 DEF RxIntegrity
<1> QED
  BY <1>1, RxInvariant, PTL

(* Packets of an open socket are delivered in the order of their arrival,  *)
(* none skipped and none twice.                                            *)
THEOREM RxFifoCorrect == AllAssumed /\ Spec => []RxFifo
<1>1. ASSUME RxInv PROVE RxFifo
  <2>1. ASSUME NEW p \in Ports
        PROVE  IsPrefix([k \in DOMAIN delivered[p] |-> delivered[p][k][1]],
                        accepted[p])
    <3>1. TypeOK /\ HistTypes /\ RingInv(p)
      BY <1>1 DEF RxInv
    <3>2. PICK d \in Nat : d = Len(delivered[p])
      BY <3>1, RingNumbers
    <3>3. DOMAIN delivered[p] = 1 .. d
      BY <3>1, <3>2, RingNumbers, LenProperties
    <3> DEFINE s == [k \in 1 .. d |-> delivered[p][k][1]]
               t == accepted[p]
    <3>4. /\ t \in Seq(Packet) /\ Len(t) \in Nat /\ d <= Len(t)
          /\ \A k \in 1 .. d : delivered[p][k][1] = t[k]
      <4>1. t \in Seq(Packet) /\ Len(t) \in Nat
        BY <3>1, RingNumbers
      <4>2. 1 \in Words
        BY DEF Words
      <4>3. d <= Len(t) /\ \A k \in 1 .. d : delivered[p][k][1] = t[k]
        BY <3>1, <3>2, <4>2 DEF RingInv
      <4> QED
        BY <4>1, <4>3
    <3>5. /\ \A k \in 1 .. d : s[k] = t[k] /\ t[k] \in Packet
          /\ s \in Seq(Packet) /\ Len(s) = d
      <4>1. \A k \in 1 .. d : k \in 1 .. Len(t)
        BY <3>4
      <4>2. \A k \in 1 .. d : s[k] = t[k] /\ t[k] \in Packet
        BY <3>4, <4>1, ElementOfSeq
      <4>3. s \in [1 .. d -> Packet]
        BY <4>2
      <4> QED
        BY <3>2, <4>2, <4>3, IsASeq, LenProperties
    <3> HIDE DEF s, t
    <3>6. /\ SubSeq(s, 1, d) = [k \in 1 .. d |-> s[k]]
          /\ SubSeq(t, 1, d) = [k \in 1 .. d |-> t[k]]
      OBVIOUS
    <3>7. SubSeq(s, 1, d) = SubSeq(t, 1, d)
      BY <3>5, <3>6
    <3>8. IsPrefix(s, t)
      BY <3>4, <3>5, <3>7 DEF IsPrefix
    <3> QED
      BY <3>3, <3>8 DEF s, t
  <2> QED
    BY <2>1 DEF RxFifo
<1> QED
  BY <1>1, RxInvariant, PTL

(* No last beat of a packet meets a full ring, although nothing in the     *)
(* hardware compares the head with full before it writes.                  *)
THEOREM RxNoOverrunCorrect == AllAssumed /\ Spec => []RxNoOverrun
<1>1. ASSUME RxInv, Pushed(TRUE) PROVE ~rings[filter.sel].full
  <2>1. /\ TypeOK /\ HistTypes /\ PipeInv /\ wchan # << >>
    BY <1>1 DEF RxInv, Pushed, WriteBeat
  <2>2. Writing
    BY <2>1 DEF PipeInv, Rest, Arrived, Judging, Discarding, Clear
  <2>3. filter.sel \in Ports /\ Coming(filter.sel)
    BY <2>2 DEF Writing, Coming
  <2> QED
    BY <1>1, <2>1, <2>3, RingNumbers DEF RxInv
<1>2. RxInv => RxNoOverrun
  BY <1>1 DEF RxNoOverrun
<1> QED
  BY <1>2, RxInvariant, PTL
=============================================================================
