---------------------------- MODULE TxPathProofs ----------------------------
(***************************************************************************)
(* Proofs about the transmit path for every ring length and any packets,   *)
(* when the send function is called by one thread at a time: no overrun,   *)
(* no stale descriptor, no copy into a slot in use, and the stream is the  *)
(* sequence of the packets sent.                                           *)
(***************************************************************************)
EXTENDS TxPath, RingLemmas, SequenceTheorems, TLAPS

(* One sender at a time, as the lock of the device's queue has it. *)
OneSender == \E s : Senders = {s}

(* A sender with a packet has begun a call, and only one that writes has   *)
(* the bus.  This holds for any number of senders.                         *)
Started ==
  \A s \in Senders :
    /\ pc[s] # "idle" => calls[s] >= 1
    /\ bus.owner = s => pc[s] \in {"clear", "set", "clearAgain"}

-----------------------------------------------------------------------------
(***************************************************************************)
(* The sender and the pulse.                                               *)
(***************************************************************************)

(* The 1 was written and the ring has not seen its pulse. *)
Pending(s) ==
  /\ ~pulse.reg2
  /\ \/ pc[s] = "set" /\ bus.owner = s
     \/ pc[s] = "clearAgain" /\ pulse.reg

(* The packet is in the slot, or on its way there, and not in the ring.    *)
Filled(s) ==
  \/ pc[s] = "clear"
  \/ pc[s] = "set" /\ bus.owner = None
  \/ Pending(s)

Preparing(s) == pc[s] \in {"head", "header", "payload"} \/ Filled(s)

(* The levels of register and flops at each step of the three writes.      *)
Levels(s) ==
  /\ pc[s] \in {"idle", "head", "header", "payload", "clear"}
       => ~pulse.reg /\ ~pulse.reg1
  /\ pc[s] = "clear" /\ bus.wstate # "WRIDLE" => ~pulse.reg2
  /\ pc[s] = "set" /\ bus.wstate # "WRRESP"
       => ~pulse.reg /\ ~pulse.reg1 /\ ~pulse.reg2
  /\ pc[s] = "set" /\ bus.wstate = "WRRESP"
       => pulse.reg /\ (pulse.reg2 => pulse.reg1)
  /\ pc[s] = "clearAgain" /\ bus.wstate # "WRRESP"
       => pulse.reg /\ pulse.reg1
  /\ pc[s] = "clearAgain" /\ bus.wstate = "WRDATA" => pulse.reg2
  /\ pc[s] = "clearAgain" /\ bus.wstate = "WRRESP"
       => ~pulse.reg /\ (pulse.reg1 => pulse.reg2)

BusInv ==
  /\ bus.owner = None => bus.wstate = "WRIDLE"
  /\ \A s \in Senders : bus.owner = s => (bus.value <=> pc[s] = "set")
  /\ \A s \in Senders : Levels(s)

-----------------------------------------------------------------------------
(***************************************************************************)
(* Controller and read engine: the phases of a fetch.                      *)
(***************************************************************************)

NoFetch ==
  /\ dma.axi = "IDLE" /\ ~dma.cmd /\ ~dma.arvalid
  /\ mem = << >> /\ dma.axis = "IDLE"

Unlocked ==
  /\ ~ctl.locked /\ NoFetch
  /\ ctl.valid => ~ring.empty /\ ctl.slot = ring.tail

Accepted ==
  /\ ctl.locked /\ ~ring.empty /\ ~dma.ready
  /\ dma.axi = "START" /\ dma.cmd /\ ~dma.arvalid /\ dma.addr = ring.tail
  /\ mem = << >> /\ dma.axis = "IDLE"

Addressed ==
  /\ ctl.locked /\ ~ctl.valid /\ ~ring.empty
  /\ dma.axi = "IDLE" /\ ~dma.cmd /\ dma.arvalid /\ dma.araddr = ring.tail
  /\ mem = << >> /\ dma.axis = "READ" /\ dma.word = 1

Reading ==
  /\ ctl.locked /\ ~ctl.valid /\ ~ring.empty
  /\ dma.axi = "IDLE" /\ ~dma.cmd /\ ~dma.arvalid
  /\ mem = << ring.tail >> /\ dma.axis = "READ"

Streaming == ctl.locked /\ ~ctl.valid /\ NoFetch

EngineInv ==
  /\ RingConsistent(ring)
  /\ Unlocked \/ Accepted \/ Addressed \/ Reading \/ Streaming

-----------------------------------------------------------------------------
(***************************************************************************)
(* What the stream carries.                                                *)
(***************************************************************************)

(* The packet that is being fetched or streamed. *)
Current == sent[Len(wire) + 1]

First == [word |-> Current, last |-> FALSE]
Second == [word |-> Current, last |-> TRUE]

(* Nothing, one word or both words of it have left the memory. *)
NoneOut == frame = << >> /\ out = None /\ fifo = << >>

OneOut ==
  \/ frame = << >> /\ out = None /\ fifo = << First >>
  \/ frame = << >> /\ out = First /\ fifo = << >>
  \/ frame = << Current >> /\ out = None /\ fifo = << >>

BothOut ==
  \/ frame = << >> /\ out = None /\ fifo = << First, Second >>
  \/ frame = << >> /\ out = First /\ fifo = << Second >>
  \/ frame = << Current >> /\ out = None /\ fifo = << Second >>
  \/ frame = << Current >> /\ out = Second /\ fifo = << >>

StreamInv ==
  /\ Unlocked \/ Accepted \/ Addressed => NoneOut
  /\ Reading /\ dma.word = 1 => NoneOut
  /\ Reading /\ dma.word = 2 => OneOut
  /\ Streaming => BothOut

(* Packets popped and not yet streamed; pushes the ring has yet to see.    *)
Gone == IF ctl.locked /\ NoFetch THEN 1 ELSE 0
Coming == IF \E s \in Senders : Pending(s) THEN 1 ELSE 0

(* Every packet sent is on the wire, in the stream, in the ring or at its  *)
(* head, in this order.                                                    *)
ContentInv ==
  /\ Len(sent) = Len(wire) + Gone + Count(ring) + Coming
  /\ \A k \in 0 .. Count(ring) - 1 : \A w \in Words :
       slots[SlotAt(ring, k)][w] = sent[Len(wire) + Gone + k + 1]
  /\ \A k \in 1 .. Len(wire) : wire[k] = << sent[k], sent[k] >>

SenderInv ==
  \A s \in Senders :
    /\ pc[s] # "idle" => fits[s]
    /\ Preparing(s) => ~ring.full
    /\ Preparing(s) /\ pc[s] # "head" => offset[s] = ring.head
    /\ pc[s] = "payload" \/ Filled(s) => slots[ring.head][1] = PacketOf(s)
    /\ Filled(s) => slots[ring.head][2] = PacketOf(s)
    /\ Pending(s) => sent[Len(sent)] = PacketOf(s)

TxInv == TypeOK /\ Started /\ BusInv /\ EngineInv /\ StreamInv /\ ContentInv /\ SenderInv

-----------------------------------------------------------------------------
(***************************************************************************)
(* Operators.                                                              *)
(***************************************************************************)

(* What udp_core_pkt_compose accepts fits in a slot behind its header.     *)
LEMMA ComposeFits ==
  ASSUME NEW skb \in Skb, Compose(skb)
  PROVE  Fits(skb)
<1>1. ~(PayloadSize(skb.len) > MAX_PAYLOAD_SIZE)
  BY DEF Compose, ComposeRaw, ComposeClassic
<1>2. skb.len - UDP_HLEN \in Int
  <2>1. skb.len \in U16
    BY DEF Skb
  <2>2. \A n \in U16 : n \in Int
    <3>1. U16_MAX \in Int
      BY SMT DEF U16_MAX
    <3> QED
      BY <3>1, SMT DEF U16
  <2>3. UDP_HLEN \in Int
    BY DEF UDP_HLEN
  <2> QED
    BY <2>1, <2>2, <2>3
<1>3. SizeMod \in Nat \ {0}
  BY DEF SizeMod
<1>4. PayloadSize(skb.len) \in 0 .. SizeMod - 1
  BY <1>2, <1>3 DEF PayloadSize
<1>5. PICK n \in Nat : PayloadSize(skb.len) = n /\ ~(n > MAX_PAYLOAD_SIZE)
  BY <1>1, <1>3, <1>4
<1> QED
  BY <1>5 DEF Fits, MAX_PAYLOAD_SIZE, BUFFER_ELEM_MAX_SIZE_BYTES,
              PACKET_HEADER_SIZE_BYTES

(* Sequences of one and of two words. *)
LEMMA ShortSequences ==
  ASSUME NEW a, NEW b
  PROVE  /\ Append(<< >>, a) = << a >> /\ Append(<< a >>, b) = << a, b >>
         /\ Head(<< a >>) = a /\ Head(<< a, b >>) = a
         /\ Tail(<< a >>) = << >> /\ Tail(<< a, b >>) = << b >>
         /\ << a >> # << >> /\ << a, b >> # << >>
         /\ Len(<< >>) = 0 /\ Len(<< a >>) = 1
<1>1. Append(<< >>, a) = << a >>
  OBVIOUS
<1>2. Append(<< a >>, b) = << a, b >>
  <2> DEFINE q == Append(<< a >>, b)
             r == << a, b >>
  <2>1. /\ << a >> \in Seq({a, b}) /\ Len(<< a >>) = 1
        /\ r \in Seq({a, b}) /\ Len(r) = 2 /\ r[1] = a /\ r[2] = b
    OBVIOUS
  <2>2. q \in Seq({a, b}) /\ Len(q) = 2 /\ q[1] = a /\ q[2] = b
    BY <2>1, AppendProperties
  <2> HIDE DEF q, r
  <2>3. \A i \in 1 .. Len(q) : q[i] = r[i]
    BY <2>1, <2>2
  <2>4. q = r
    BY <2>1, <2>2, <2>3, SeqEqual
  <2> QED
    BY <2>4 DEF q, r
<1>3. Head(<< a >>) = a /\ Head(<< a, b >>) = a
  OBVIOUS
<1>4. Tail(<< a >>) = << >>
  OBVIOUS
<1>5. Tail(<< a, b >>) = << b >>
  OBVIOUS
<1>6. << a >> # << >> /\ << a, b >> # << >>
  OBVIOUS
<1>7. Len(<< >>) = 0 /\ Len(<< a >>) = 1
  OBVIOUS
<1> QED
  BY <1>1, <1>2, <1>3, <1>4, <1>5, <1>6, <1>7

-----------------------------------------------------------------------------
(***************************************************************************)
(* Types.                                                                  *)
(***************************************************************************)

(* Steps of the sender keep the types. *)
LEMMA SenderType ==
  ASSUME TypeOK, NEW s \in Senders, pc[s] # "idle" => calls[s] >= 1, Sender(s)
  PROVE  TypeOK'
<1> USE TxAssumption DEF TypeOK, hwVars, Goto, PC
<1>1. ASSUME NEW skb \in Skbs, SendStart(s, skb) PROVE TypeOK'
  BY <1>1 DEF SendStart, Fits
<1>2. ASSUME NEW skb \in Skbs, SendRefused(s, skb) PROVE TypeOK'
  BY <1>2 DEF SendRefused
<1>3. ASSUME NEW skb \in Skbs, SendInvalid(s, skb) PROVE TypeOK'
  BY <1>3 DEF SendInvalid
<1>4. CASE ReadHead(s)
  BY <1>4 DEF ReadHead, Ring
<1>5. PacketOf(s) \in Packet \/ pc[s] = "idle"
  BY DEF PacketOf, Packet
<1>6. ASSUME NEW places, CopyTo(s, places), pc[s] # "idle"
      PROVE  slots' \in [Index -> [Words -> Packet \cup {None}]]
  BY <1>5, <1>6 DEF CopyTo
<1>7. CASE CopyHeader(s)
  BY <1>6, <1>7 DEF CopyHeader
<1>8. CASE CopyPayload(s)
  BY <1>6, <1>8 DEF CopyPayload
<1>9. CASE WritePushed(s)
  BY <1>5, <1>9 DEF WritePushed, cpuVars
<1> QED
  BY <1>1, <1>2, <1>4, <1>7, <1>8, <1>9, <1>3 DEF Sender

(* A clock keeps the types. *)
LEMMA TickType ==
  ASSUME TypeOK, NEW go \in BOOLEAN, NEW arready \in BOOLEAN,
         NEW rvalid \in BOOLEAN, NEW tready \in BOOLEAN,
         Tick(go, arready, rvalid, tready)
  PROVE  TypeOK'
<1> USE TxAssumption
<1>1. bus' \in [owner : Senders \cup {None}, value : BOOLEAN,
                wstate : {"WRIDLE", "WRDATA", "WRRESP"}]
  BY DEF Tick, NextBus, TypeOK
<1>2. pc' \in [Senders -> PC]
  <2>1. bus.owner \in Senders \cup {None}
    BY DEF TypeOK
  <2>2. \A l \in PC : AfterWrite(l) \in PC
    BY DEF AfterWrite, PC
  <2>3. pc \in [Senders -> PC]
    BY DEF TypeOK
  <2> QED
    BY <2>1, <2>2, <2>3 DEF Tick, WriteDone
<1>3. pulse' \in [reg : BOOLEAN, reg1 : BOOLEAN, reg2 : BOOLEAN]
  BY DEF Tick, NextPulse, TypeOK
<1>4. ring' \in Ring
  BY ClockRingType DEF Tick, TypeOK
<1>5. ctl' \in [locked : BOOLEAN, valid : BOOLEAN, slot : Index]
  BY DEF Tick, NextCtl, NextLocked, NextValid, Accept, TypeOK, Ring
<1>6. dma' \in [axi : {"IDLE", "START"}, ready : BOOLEAN, addr : Index,
                cmd : BOOLEAN, arvalid : BOOLEAN, araddr : Index,
                axis : {"IDLE", "READ"}, word : Words]
  <2>1. NextAxis(rvalid).axis \in {"IDLE", "READ"}
    BY DEF NextAxis, TypeOK
  <2>2. NextAxis(rvalid).word \in Words
    <3>1. dma.word \in Words /\ 1 \in Words
      BY DEF TypeOK, Words
    <3>2. \A w \in Words : w # LastWord => w + 1 \in Words
      BY DEF Words, LastWord
    <3> QED
      BY <3>1, <3>2 DEF NextAxis
  <2> QED
    BY <2>1, <2>2 DEF Tick, NextDma, Accept, StartBurst, CmdReady, TypeOK
<1>7. mem' \in Seq(Index)
  <2>1. mem \in Seq(Index) /\ dma.araddr \in Index
    BY DEF TypeOK
  <2>2. Popped(rvalid) => mem # << >>
    BY DEF Popped, ReadBeat
  <2> QED
    BY <2>1, <2>2 DEF Tick, NextMem
<1>8. fifo' \in Seq(Beat)
  <2>1. fifo \in Seq(Beat)
    BY DEF TypeOK
  <2>2. ReadBeat(rvalid) => [word |-> slots[Head(mem)][dma.word],
                             last |-> dma.word = LastWord] \in Beat
    <3>1. ReadBeat(rvalid) => Head(mem) \in Index
      BY DEF ReadBeat, TypeOK
    <3> QED
      BY <3>1 DEF TypeOK, Beat
  <2>3. Load(tready) => fifo # << >>
    BY DEF Load
  <2> DEFINE rest == IF Load(tready) THEN Tail(fifo) ELSE fifo
  <2>4. rest \in Seq(Beat)
    BY <2>1, <2>3
  <2> HIDE DEF rest
  <2>5. fifo' = IF ReadBeat(rvalid)
                THEN Append(rest, [word |-> slots[Head(mem)][dma.word],
                                   last |-> dma.word = LastWord])
                ELSE rest
    BY DEF Tick, NextFifo, rest
  <2> QED
    BY <2>2, <2>4, <2>5
<1>9. out' \in Beat \cup {None}
  BY DEF Tick, NextOut, Load, TypeOK
<1>10. Handover(tready) => out.word \in Packet \cup {None}
  BY DEF Handover, TypeOK, Beat
<1>11. frame' \in Seq(Packet \cup {None})
  BY <1>10 DEF Tick, TypeOK
<1>12. wire' \in Seq(Seq(Packet \cup {None}))
  <2>1. Handover(tready) => Append(frame, out.word) \in Seq(Packet \cup {None})
    BY <1>10 DEF TypeOK
  <2> QED
    BY <2>1 DEF Tick, TypeOK
<1> QED
  BY <1>1, <1>2, <1>3, <1>4, <1>5, <1>6, <1>7, <1>8, <1>9, <1>11, <1>12
     DEF Tick, TypeOK

(* The initial state. *)
LEMMA TypeInit ==
  ASSUME Init
  PROVE  TypeOK /\ Started
<1> USE TxAssumption, BufferLengthAssumption DEF Init
<1>1. 0 \in Index /\ 1 \in Words /\ 0 \in 0 .. MaxPackets
  BY DEF Index, Words
<1>2. ring \in Ring
  BY ResetRingFacts
<1>3. /\ pc \in [Senders -> PC] /\ calls \in [Senders -> 0 .. MaxPackets]
      /\ offset \in [Senders -> Index] /\ fits \in [Senders -> BOOLEAN]
      /\ slots \in [Index -> [Words -> Packet \cup {None}]]
  BY <1>1 DEF PC
<1>4. Started
  BY DEF Started
<1> QED
  BY <1>1, <1>2, <1>3, <1>4 DEF TypeOK

(* Any step. *)
LEMMA TypeStep ==
  ASSUME TypeOK, Started, [Next]_vars
  PROVE  TypeOK' /\ Started'
<1>1. CASE UNCHANGED vars
  BY <1>1 DEF vars, cpuVars, hwVars, TypeOK, Started
<1>2. ASSUME NEW s \in Senders, Sender(s) PROVE TypeOK' /\ Started'
  <2>1. TypeOK'
    BY <1>2, SenderType DEF Started
  <2>2. Started'
    BY <1>2, TxAssumption
       DEF Sender, SendStart, SendRefused, SendInvalid, ReadHead,
           CopyHeader, CopyPayload, WritePushed, Goto, cpuVars, TypeOK,
           Started
  <2> QED
    BY <2>1, <2>2
<1>3. ASSUME NEW go \in BOOLEAN, NEW arready \in BOOLEAN,
             NEW rvalid \in BOOLEAN, NEW tready \in BOOLEAN,
             Tick(go, arready, rvalid, tready)
      PROVE  TypeOK' /\ Started'
  <2>1. TypeOK'
    BY <1>3, TickType
  <2>2. Started'
    BY <1>3, TxAssumption
       DEF Tick, NextBus, WriteDone, AfterWrite, TypeOK, Started
  <2> QED
    BY <2>1, <2>2
<1> QED
  BY <1>1, <1>2, <1>3 DEF Next

(* Every register, slot and history keeps its type, for any number of      *)
(* senders.                                                                *)
THEOREM TxTypeCorrect == Spec => []TypeOK
<1>1. Init => TypeOK /\ Started
  BY TypeInit
<1>2. TypeOK /\ Started /\ [Next]_vars => TypeOK' /\ Started'
  BY TypeStep
<1> QED
  BY <1>1, <1>2, PTL DEF Spec

-----------------------------------------------------------------------------
(***************************************************************************)
(* The sender's writes and the pulse.                                      *)
(***************************************************************************)

(* A clock moves register and flops along; it takes the pulse to the ring  *)
(* at most once, and makes nothing pending.                                *)
LEMMA BusTick ==
  ASSUME NEW s, Senders = {s}, TypeOK, Started, BusInv,
         NEW go \in BOOLEAN, NEW arready \in BOOLEAN,
         NEW rvalid \in BOOLEAN, NEW tready \in BOOLEAN,
         Tick(go, arready, rvalid, tready)
  PROVE  /\ BusInv'
         /\ Pushed => Pending(s)
         /\ Pending(s)' <=> Pending(s) /\ ~Pushed
         /\ Filled(s)' => Filled(s) /\ ~Pushed
         /\ pc'[s] \in {"head", "header", "payload"} => pc'[s] = pc[s] /\ ~Pushed
         /\ pc[s] = "idle" => pc'[s] = "idle"
<1>1. /\ s # None /\ bus.owner \in {s, None} /\ pc \in [{s} -> PC]
      /\ bus.wstate \in {"WRIDLE", "WRDATA", "WRRESP"}
      /\ bus.value \in BOOLEAN
      /\ pulse.reg \in BOOLEAN /\ pulse.reg1 \in BOOLEAN
      /\ pulse.reg2 \in BOOLEAN
  BY TxAssumption DEF TypeOK
<1>2. /\ pulse'.reg = IF go /\ bus.owner # None /\ bus.wstate = "WRDATA"
                      THEN bus.value ELSE pulse.reg
      /\ pulse'.reg1 = pulse.reg
      /\ pulse'.reg2 = pulse.reg1
  BY DEF Tick, NextPulse
<1>3. CASE bus.owner = None \/ ~go
  <2>1. bus' = bus /\ pc' = pc
    BY <1>3 DEF Tick, NextBus, WriteDone
  <2>2. pulse'.reg = pulse.reg
    BY <1>2, <1>3
  <2>3. BusInv'
    BY <1>1, <1>2, <2>1, <2>2 DEF BusInv, Levels
  <2>4. /\ Pushed => Pending(s)
        /\ Pending(s)' <=> Pending(s) /\ ~Pushed
    BY <1>1, <1>2, <2>1, <2>2 DEF BusInv, Started, Levels, Pushed, Pending, PC
  <2>5. /\ Filled(s)' => Filled(s) /\ ~Pushed
        /\ pc[s] \in {"head", "header", "payload"} => ~Pushed
    BY <1>1, <2>1, <2>4 DEF BusInv, Levels, Pushed, Filled
  <2> QED
    BY <2>1, <2>3, <2>4, <2>5
<1>4. CASE bus.owner = s /\ go /\ bus.wstate = "WRIDLE"
  <2>1. /\ pc' = pc /\ bus'.owner = s /\ bus'.value = bus.value
        /\ bus'.wstate = "WRDATA"
    BY <1>1, <1>4 DEF Tick, NextBus, WriteDone, TypeOK
  <2> QED
    BY <1>1, <1>2, <1>4, <2>1
       DEF BusInv, Started, Levels, Pushed, Pending, Filled
<1>5. CASE bus.owner = s /\ go /\ bus.wstate = "WRDATA"
  <2>1. /\ pc' = pc /\ bus'.owner = s /\ bus'.value = bus.value
        /\ bus'.wstate = "WRRESP"
    BY <1>1, <1>5 DEF Tick, NextBus, WriteDone, TypeOK
  <2> QED
    BY <1>1, <1>2, <1>5, <2>1
       DEF BusInv, Started, Levels, Pushed, Pending, Filled
<1>6. CASE bus.owner = s /\ go /\ bus.wstate = "WRRESP"
  <2>1. /\ pc'[s] = AfterWrite(pc[s]) /\ bus'.owner = None
        /\ bus'.wstate = "WRIDLE"
    BY <1>1, <1>6 DEF Tick, NextBus, WriteDone, TypeOK
  <2> QED
    BY <1>1, <1>2, <1>6, <2>1
       DEF BusInv, Started, Levels, Pushed, Pending, Filled, AfterWrite
<1> QED
  BY <1>1, <1>3, <1>4, <1>5, <1>6

-----------------------------------------------------------------------------
(***************************************************************************)
(* The engine, one lemma for each phase of a fetch.                        *)
(***************************************************************************)

(* The registers of controller and read engine after a clock. *)
LEMMA EngineRegisters ==
  ASSUME NEW go, NEW arready, NEW rvalid, NEW tready,
         Tick(go, arready, rvalid, tready)
  PROVE  /\ ctl'.locked = NextLocked(tready) /\ ctl'.valid = NextValid
         /\ ctl'.slot = ring.tail
         /\ dma'.axi = IF Accept \/ (dma.axi = "START" /\ dma.arvalid)
                       THEN "START" ELSE "IDLE"
         /\ dma'.ready = (~Accept /\ ~dma.cmd
                            /\ (dma.axi = "IDLE" \/ StartBurst))
         /\ dma'.addr = IF Accept THEN ctl.slot ELSE dma.addr
         /\ dma'.cmd = (Accept \/ (dma.cmd /\ ~CmdReady))
         /\ dma'.arvalid = (StartBurst \/ (dma.arvalid /\ ~arready))
         /\ dma'.araddr = IF StartBurst THEN dma.addr ELSE dma.araddr
         /\ dma'.axis = NextAxis(rvalid).axis
         /\ dma'.word = NextAxis(rvalid).word
         /\ mem' = NextMem(arready, rvalid)
BY DEF Tick, NextCtl, NextDma

(* Only the last word of a fetch pops, and then the ring has its packet.   *)
LEMMA RingTick ==
  ASSUME TypeOK, EngineInv, Pushed => ~ring.full,
         NEW go \in BOOLEAN, NEW arready \in BOOLEAN,
         NEW rvalid \in BOOLEAN, NEW tready \in BOOLEAN,
         Tick(go, arready, rvalid, tready)
  PROVE  /\ Popped(rvalid) <=> Reading /\ rvalid /\ dma.word = 2
         /\ Popped(rvalid) => ~ring.empty
         /\ ring' \in Ring /\ RingConsistent(ring')
         /\ Count(ring') = Count(ring) + (IF Pushed THEN 1 ELSE 0)
                                       - (IF Popped(rvalid) THEN 1 ELSE 0)
         /\ ~Pushed => /\ ring'.head = ring.head
                       /\ ~ring.full => ~ring'.full
         /\ ~Popped(rvalid) => /\ ring'.tail = ring.tail
                               /\ ~ring.empty => ~ring'.empty
<1>1. /\ Popped(rvalid) <=> Reading /\ rvalid /\ dma.word = 2
      /\ Popped(rvalid) => ~ring.empty
  BY ShortSequences
     DEF EngineInv, Unlocked, Accepted, Addressed, Reading, Streaming,
         NoFetch, Popped, ReadBeat, LastWord
<1>2. Popped(rvalid) \in BOOLEAN /\ Pushed \in BOOLEAN
  BY DEF Popped, ReadBeat, Pushed, TypeOK
<1>3. /\ ring \in Ring /\ RingConsistent(ring)
      /\ ring' = ClockRing(ring, Pushed, Popped(rvalid))
  BY DEF TypeOK, EngineInv, Tick
<1>4. /\ ring' \in Ring /\ RingConsistent(ring')
      /\ Count(ring') = Count(ring) + (IF Pushed THEN 1 ELSE 0)
                                    - (IF Popped(rvalid) THEN 1 ELSE 0)
      /\ ring'.head = IF Pushed THEN NextIndex(ring.head) ELSE ring.head
      /\ ring'.tail = IF Popped(rvalid) THEN NextIndex(ring.tail) ELSE ring.tail
  BY <1>1, <1>2, <1>3, ClockRingCounts
<1>5. ~Popped(rvalid) /\ ~ring.empty => ~ring'.empty
  <2>1. /\ Count(ring) \in 0 .. BUFFER_LENGTH /\ (ring.empty <=> Count(ring) = 0)
        /\ ring'.empty <=> Count(ring') = 0
    BY <1>3, <1>4, CountRange
  <2> QED
    BY <1>4, <2>1, BufferLengthAssumption
<1>6. ~Pushed /\ ~ring.full => ~ring'.full
  <2>1. /\ Count(ring) \in 0 .. BUFFER_LENGTH
        /\ ring.full <=> Count(ring) = BUFFER_LENGTH
        /\ ring'.full <=> Count(ring') = BUFFER_LENGTH
    BY <1>3, <1>4, CountRange
  <2> QED
    BY <1>4, <2>1, BufferLengthAssumption
<1> QED
  BY <1>1, <1>4, <1>5, <1>6

(* Before a descriptor is taken. *)
LEMMA UnlockedTick ==
  ASSUME TypeOK, EngineInv, Pushed => ~ring.full, Unlocked, NoneOut,
         NEW go \in BOOLEAN, NEW arready \in BOOLEAN,
         NEW rvalid \in BOOLEAN, NEW tready \in BOOLEAN,
         Tick(go, arready, rvalid, tready)
  PROVE  (Unlocked' \/ Accepted') /\ NoneOut' /\ wire' = wire
<1>1. ring'.tail = ring.tail /\ (~ring.empty => ~ring'.empty)
  BY RingTick DEF Unlocked, NoFetch, Reading
<1>2. /\ ~ReadBeat(rvalid) /\ ~Popped(rvalid) /\ ~CmdReady /\ ~StartBurst
      /\ ~Handover(tready) /\ ~Load(tready)
  BY DEF Unlocked, NoFetch, NoneOut, ReadBeat, Popped, CmdReady, StartBurst,
         Handover, Load
<1>3. NoneOut' /\ wire' = wire
  BY <1>2 DEF NoneOut, Tick, NextFifo, NextOut
<1>4. mem' = << >> /\ dma'.axis = "IDLE" /\ ~dma'.arvalid
  BY <1>2, EngineRegisters DEF Unlocked, NoFetch, NextMem, NextAxis
<1>5. CASE Accept
  <2>1. ctl'.locked
    BY <1>2, <1>5, EngineRegisters DEF NextLocked
  <2>2. ~dma'.ready /\ dma'.axi = "START" /\ dma'.cmd /\ dma'.addr = ctl.slot
    BY <1>5, EngineRegisters
  <2>3. ~ring.empty /\ ctl.slot = ring.tail
    BY <1>5 DEF Unlocked, Accept
  <2> QED
    BY <1>1, <1>3, <1>4, <2>1, <2>2, <2>3 DEF Accepted
<1>6. CASE ~Accept
  <2>1. ~ctl'.locked
    BY <1>2, <1>6, EngineRegisters DEF NextLocked, Unlocked
  <2>2. dma'.axi = "IDLE" /\ ~dma'.cmd
    BY <1>6, EngineRegisters DEF Unlocked, NoFetch
  <2>3. ctl'.valid => ~ring.empty
    BY EngineRegisters DEF NextValid, Unlocked
  <2>4. ctl'.slot = ring.tail
    BY EngineRegisters
  <2> QED
    BY <1>1, <1>3, <1>4, <2>1, <2>2, <2>3, <2>4 DEF Unlocked, NoFetch
<1> QED
  BY <1>3, <1>5, <1>6

(* The descriptor was taken: the address follows, and the command for the  *)
(* output side.                                                            *)
LEMMA AcceptedTick ==
  ASSUME TypeOK, EngineInv, Pushed => ~ring.full, Accepted, NoneOut,
         NEW go \in BOOLEAN, NEW arready \in BOOLEAN,
         NEW rvalid \in BOOLEAN, NEW tready \in BOOLEAN,
         Tick(go, arready, rvalid, tready)
  PROVE  Addressed' /\ NoneOut' /\ wire' = wire
<1>1. ring'.tail = ring.tail /\ ~ring'.empty
  BY RingTick DEF Accepted, Reading
<1>2. /\ ~ReadBeat(rvalid) /\ ~Popped(rvalid) /\ CmdReady /\ StartBurst
      /\ ~Handover(tready) /\ ~Load(tready) /\ ~Accept
  BY DEF Accepted, NoneOut, ReadBeat, Popped, CmdReady, StartBurst,
         Handover, Load, Accept
<1>3. NoneOut' /\ wire' = wire
  BY <1>2 DEF NoneOut, Tick, NextFifo, NextOut
<1>4. mem' = << >> /\ dma'.axis = "READ" /\ dma'.word = 1
  BY <1>2, EngineRegisters DEF Accepted, NextMem, NextAxis
<1>5. Addressed'
  BY <1>1, <1>2, <1>4, EngineRegisters
     DEF Accepted, Addressed, NextLocked, NextValid
<1> QED
  BY <1>3, <1>5

(* The address waits for the memory. *)
LEMMA AddressedTick ==
  ASSUME TypeOK, EngineInv, Pushed => ~ring.full, Addressed, NoneOut,
         NEW go \in BOOLEAN, NEW arready \in BOOLEAN,
         NEW rvalid \in BOOLEAN, NEW tready \in BOOLEAN,
         Tick(go, arready, rvalid, tready)
  PROVE  /\ Addressed' \/ (Reading' /\ dma'.word = 1)
         /\ NoneOut' /\ wire' = wire
<1>1. ring'.tail = ring.tail /\ ~ring'.empty
  BY RingTick, ShortSequences DEF Addressed, Reading
<1>2. /\ ~ReadBeat(rvalid) /\ ~Popped(rvalid) /\ ~CmdReady /\ ~StartBurst
      /\ ~Handover(tready) /\ ~Load(tready) /\ ~Accept
  BY DEF Addressed, NoneOut, ReadBeat, Popped, CmdReady, StartBurst,
         Handover, Load, Accept
<1>3. NoneOut' /\ wire' = wire
  BY <1>2 DEF NoneOut, Tick, NextFifo, NextOut
<1>4. dma'.axis = "READ" /\ dma'.word = 1
  BY <1>2, EngineRegisters DEF Addressed, NextAxis
<1>5. mem' = IF arready THEN << ring.tail >> ELSE << >>
  BY <1>2, EngineRegisters, ShortSequences DEF Addressed, NextMem
<1>6. Addressed' \/ Reading'
  BY <1>1, <1>2, <1>4, <1>5, EngineRegisters
     DEF Addressed, Reading, NextLocked, NextValid
<1> QED
  BY <1>3, <1>4, <1>6

(* The two beats of a frame. *)
LEMMA Beats ==
  ASSUME Current \in Packet \cup {None}
  PROVE  /\ First # None /\ Second # None
         /\ First.word = Current /\ First.last = FALSE
         /\ Second.word = Current /\ Second.last = TRUE
<1>1. First \in Beat /\ Second \in Beat
  BY DEF First, Second, Beat
<1>2. None \notin Beat
  BY TxAssumption
<1>3. First.word = Current /\ Second.word = Current
  BY DEF First, Second
<1>4. First.last = FALSE
  BY DEF First
<1>5. Second.last = TRUE
  BY DEF Second
<1> QED
  BY <1>1, <1>2, <1>3, <1>4, <1>5

(* A clock of the output side with one word out: the word that is read, if *)
(* one is, is put behind it, and nothing is completed.                     *)
LEMMA OneOutTick ==
  ASSUME OneOut, Current \in Packet \cup {None},
         NEW go \in BOOLEAN, NEW arready \in BOOLEAN,
         NEW rvalid \in BOOLEAN, NEW tready \in BOOLEAN,
         Tick(go, arready, rvalid, tready),
         ReadBeat(rvalid) => /\ slots[Head(mem)][dma.word] = Current
                             /\ dma.word = LastWord
  PROVE  /\ wire' = wire
         /\ ReadBeat(rvalid) => BothOut'
         /\ ~ReadBeat(rvalid) => OneOut'
<1>1. First # None /\ Second # None /\ First.last = FALSE /\ First.word = Current
  BY Beats
<1>2. ReadBeat(rvalid) => [word |-> slots[Head(mem)][dma.word],
                           last |-> dma.word = LastWord] = Second
  BY DEF Second
<1> DEFINE beats == IF ReadBeat(rvalid) THEN << Second >> ELSE << >>
           rest == IF Load(tready) THEN Tail(fifo) ELSE fifo
<1>3. fifo' = IF ReadBeat(rvalid) THEN Append(rest, Second) ELSE rest
  BY <1>2 DEF Tick, NextFifo
<1>4. wire' = wire
  BY <1>1 DEF OneOut, Tick, Handover
<1>5. Current' = Current /\ First' = First /\ Second' = Second
  BY <1>4 DEF Tick, Current, First, Second
<1> HIDE DEF First, Second, Current
<1>6. CASE frame = << >> /\ out = None /\ fifo = << First >>
  <2>1. frame' = << >> /\ out' = First /\ rest = << >>
    BY <1>6, ShortSequences DEF Tick, NextOut, Load, Handover
  <2>2. fifo' = beats
    BY <1>3, <2>1, ShortSequences
  <2> QED
    BY <1>4, <1>5, <2>1, <2>2 DEF OneOut, BothOut
<1>7. CASE frame = << >> /\ out = First /\ fifo = << >>
  <2>1. rest = << >> /\ fifo' = beats
    BY <1>3, <1>7, ShortSequences DEF Load
  <2>2. CASE tready
    <3>1. frame' = << Current >> /\ out' = None
      BY <1>1, <1>7, <2>2, ShortSequences DEF Tick, NextOut, Load, Handover
    <3> QED
      BY <1>4, <1>5, <2>1, <3>1 DEF OneOut, BothOut
  <2>3. CASE ~tready
    <3>1. frame' = << >> /\ out' = First
      BY <1>1, <1>7, <2>3 DEF Tick, NextOut, Load, Handover
    <3> QED
      BY <1>4, <1>5, <2>1, <3>1 DEF OneOut, BothOut
  <2> QED
    BY <2>2, <2>3
<1>8. CASE frame = << Current >> /\ out = None /\ fifo = << >>
  <2>1. rest = << >> /\ fifo' = beats
    BY <1>3, <1>8, ShortSequences DEF Load
  <2>2. frame' = << Current >> /\ out' = None
    BY <1>8 DEF Tick, NextOut, Load, Handover
  <2> QED
    BY <1>4, <1>5, <2>1, <2>2 DEF OneOut, BothOut
<1> QED
  BY <1>6, <1>7, <1>8 DEF OneOut

(* A clock with both words out: it completes the frame or moves it on.     *)
LEMMA BothOutTick ==
  ASSUME BothOut, Current \in Packet \cup {None},
         NEW go \in BOOLEAN, NEW arready \in BOOLEAN,
         NEW rvalid \in BOOLEAN, NEW tready \in BOOLEAN,
         Tick(go, arready, rvalid, tready), ~ReadBeat(rvalid)
  PROVE  \/ /\ Handover(tready) /\ out.last
            /\ NoneOut' /\ wire' = Append(wire, << Current, Current >>)
         \/ /\ ~(Handover(tready) /\ out.last)
            /\ BothOut' /\ wire' = wire
<1>1. /\ First # None /\ Second # None
      /\ First.last = FALSE /\ First.word = Current
      /\ Second.last = TRUE /\ Second.word = Current
  BY Beats
<1>2. fifo' = IF Load(tready) THEN Tail(fifo) ELSE fifo
  BY DEF Tick, NextFifo
<1>3. ~(Handover(tready) /\ out.last) => wire' = wire
  BY DEF Tick
<1>4. wire' = wire => Current' = Current /\ First' = First /\ Second' = Second
  BY DEF Tick, Current, First, Second
<1> HIDE DEF First, Second, Current
<1>5. CASE frame = << >> /\ out = None /\ fifo = << First, Second >>
  <2>1. Load(tready) /\ ~Handover(tready)
    BY <1>5, ShortSequences DEF Load, Handover
  <2>2. frame' = << >> /\ out' = First /\ fifo' = << Second >>
    BY <1>2, <1>5, <2>1, ShortSequences DEF Tick, NextOut
  <2> QED
    BY <1>3, <1>4, <2>1, <2>2 DEF BothOut
<1>6. CASE frame = << >> /\ out = First /\ fifo = << Second >>
  <2>1. ~(Handover(tready) /\ out.last)
    BY <1>1, <1>6
  <2>2. CASE tready
    <3>1. frame' = << Current >> /\ out' = Second /\ fifo' = << >>
      BY <1>1, <1>2, <1>6, <2>2, ShortSequences
         DEF Tick, NextOut, Load, Handover
    <3> QED
      BY <1>3, <1>4, <2>1, <3>1 DEF BothOut
  <2>3. CASE ~tready
    <3>1. frame' = << >> /\ out' = First /\ fifo' = << Second >>
      BY <1>1, <1>2, <1>6, <2>3 DEF Tick, NextOut, Load, Handover
    <3> QED
      BY <1>3, <1>4, <2>1, <3>1 DEF BothOut
  <2> QED
    BY <2>2, <2>3
<1>7. CASE frame = << Current >> /\ out = None /\ fifo = << Second >>
  <2>1. Load(tready) /\ ~Handover(tready)
    BY <1>7, ShortSequences DEF Load, Handover
  <2>2. frame' = << Current >> /\ out' = Second /\ fifo' = << >>
    BY <1>2, <1>7, <2>1, ShortSequences DEF Tick, NextOut
  <2> QED
    BY <1>3, <1>4, <2>1, <2>2 DEF BothOut
<1>8. CASE frame = << Current >> /\ out = Second /\ fifo = << >>
  <2>1. ~Load(tready) /\ fifo' = << >>
    BY <1>2, <1>8 DEF Load
  <2>2. CASE tready
    <3>1. Handover(tready) /\ out.last
      BY <1>1, <1>8, <2>2 DEF Handover
    <3>2. frame' = << >> /\ out' = None
      BY <2>1, <2>2, <3>1 DEF Tick, NextOut
    <3>3. wire' = Append(wire, << Current, Current >>)
      BY <1>1, <1>8, <3>1, ShortSequences DEF Tick
    <3> QED
      BY <2>1, <3>1, <3>2, <3>3 DEF NoneOut
  <2>3. CASE ~tready
    <3>1. ~Handover(tready) /\ frame' = frame /\ out' = out
      BY <2>1, <2>3 DEF Tick, NextOut, Handover
    <3> QED
      BY <1>3, <1>4, <1>8, <2>1, <3>1 DEF BothOut
  <2> QED
    BY <2>2, <2>3
<1> QED
  BY <1>5, <1>6, <1>7, <1>8 DEF BothOut

(* The memory delivers the words of the slot. *)
LEMMA ReadingTick ==
  ASSUME TypeOK, EngineInv, Pushed => ~ring.full, Reading,
         dma.word = 1 => NoneOut, dma.word = 2 => OneOut,
         \A w \in Words : slots[ring.tail][w] = Current,
         NEW go \in BOOLEAN, NEW arready \in BOOLEAN,
         NEW rvalid \in BOOLEAN, NEW tready \in BOOLEAN,
         Tick(go, arready, rvalid, tready)
  PROVE  /\ wire' = wire
         /\ ~Popped(rvalid) => /\ Reading'
                               /\ \/ dma'.word = 1 /\ NoneOut'
                                  \/ dma'.word = 2 /\ OneOut'
         /\ Popped(rvalid) => Streaming' /\ BothOut'
<1>1. dma.word \in {1, 2}
  BY DEF TypeOK, Words
<1>2. /\ mem # << >> /\ Head(mem) = ring.tail /\ Tail(mem) = << >>
      /\ dma.axis = "READ"
  BY ShortSequences DEF Reading
<1>3. Current \in Packet \cup {None}
  BY DEF TypeOK, Words, Ring
<1>4. ~Accept /\ ~StartBurst /\ ~CmdReady /\ ctl.locked
  BY DEF Reading, Accept, StartBurst, CmdReady
<1>5. ~ctl'.valid /\ dma'.axi = "IDLE" /\ ~dma'.cmd /\ ~dma'.arvalid
  BY <1>4, EngineRegisters DEF Reading, NextValid
<1>6. mem' = IF Popped(rvalid) THEN << >> ELSE mem
  BY <1>2, EngineRegisters DEF Reading, NextMem
<1>7. ASSUME ~Popped(rvalid), ctl'.locked, dma'.axis = "READ" PROVE Reading'
  <2>1. ring'.tail = ring.tail /\ ~ring'.empty
    BY <1>7, RingTick DEF Reading
  <2> QED
    BY <1>5, <1>6, <1>7, <2>1 DEF Reading
<1>8. CASE dma.word = 1
  <2>1. NoneOut /\ ~Popped(rvalid)
    BY <1>8 DEF Popped, LastWord
  <2>2. ~Handover(tready) /\ ~Load(tready)
    BY <2>1 DEF NoneOut, Handover, Load
  <2>3. frame' = << >> /\ out' = None /\ wire' = wire
    BY <2>1, <2>2 DEF NoneOut, Tick, NextOut
  <2>4. ctl'.locked
    BY <1>4, <2>2, EngineRegisters DEF NextLocked
  <2>5. CASE ReadBeat(rvalid)
    <3>1. dma'.axis = "READ" /\ dma'.word = 2
      BY <1>4, <1>8, <2>5, EngineRegisters DEF NextAxis, LastWord
    <3>2. fifo' = << First >>
      <4>1. slots[Head(mem)][dma.word] = Current
        BY <1>2, <1>8 DEF Words
      <4>2. (dma.word = LastWord) = FALSE
        BY <1>8 DEF LastWord
      <4>3. fifo' = Append(<< >>, First)
        BY <2>1, <2>2, <2>5, <4>1, <4>2 DEF Tick, NextFifo, NoneOut, First
      <4> QED
        BY <4>3, ShortSequences
    <3>3. First' = First
      BY <2>3 DEF Tick, First, Current
    <3> QED
      BY <1>7, <2>1, <2>3, <2>4, <3>1, <3>2, <3>3 DEF OneOut
  <2>6. CASE ~ReadBeat(rvalid)
    <3>1. dma'.axis = "READ" /\ dma'.word = 1
      BY <1>2, <1>4, <1>8, <2>6, EngineRegisters DEF NextAxis
    <3>2. fifo' = << >>
      BY <2>1, <2>2, <2>6 DEF Tick, NextFifo, NoneOut
    <3> QED
      BY <1>7, <2>1, <2>3, <2>4, <3>1, <3>2 DEF NoneOut
  <2> QED
    BY <2>5, <2>6
<1>9. CASE dma.word = 2
  <2>1. OneOut /\ (Popped(rvalid) <=> ReadBeat(rvalid))
    BY <1>9 DEF Popped, LastWord
  <2>2. ~(Handover(tready) /\ out.last)
    BY <2>1 DEF OneOut, First, Handover
  <2>3. ctl'.locked
    BY <1>4, <2>2, EngineRegisters DEF NextLocked
  <2>4. /\ wire' = wire
        /\ ReadBeat(rvalid) => BothOut'
        /\ ~ReadBeat(rvalid) => OneOut'
    BY <1>2, <1>3, <1>9, <2>1, OneOutTick DEF Words, LastWord
  <2>5. CASE ReadBeat(rvalid)
    <3>1. dma'.axis = "IDLE"
      BY <1>4, <1>9, <2>5, EngineRegisters DEF NextAxis, LastWord
    <3>2. Streaming'
      BY <1>5, <1>6, <2>1, <2>3, <2>5, <3>1 DEF Streaming, NoFetch
    <3> QED
      BY <2>1, <2>4, <2>5, <3>2
  <2>6. CASE ~ReadBeat(rvalid)
    <3>1. dma'.axis = "READ" /\ dma'.word = 2
      BY <1>2, <1>4, <1>9, <2>6, EngineRegisters DEF NextAxis
    <3> QED
      BY <1>7, <2>1, <2>3, <2>4, <2>6, <3>1
  <2> QED
    BY <2>5, <2>6
<1> QED
  BY <1>1, <1>8, <1>9

(* The words move on to the UDP stack; the last one releases the lock.     *)
LEMMA StreamingTick ==
  ASSUME TypeOK, EngineInv, Pushed => ~ring.full, Streaming, BothOut,
         Current \in Packet \cup {None},
         NEW go \in BOOLEAN, NEW arready \in BOOLEAN,
         NEW rvalid \in BOOLEAN, NEW tready \in BOOLEAN,
         Tick(go, arready, rvalid, tready)
  PROVE  \/ /\ Unlocked' /\ NoneOut'
            /\ wire' = Append(wire, << Current, Current >>)
         \/ Streaming' /\ BothOut' /\ wire' = wire
<1>1. /\ ~ReadBeat(rvalid) /\ ~Popped(rvalid) /\ ~CmdReady /\ ~StartBurst
      /\ ~Accept
  BY DEF Streaming, NoFetch, ReadBeat, Popped, CmdReady, StartBurst, Accept
<1>2. \/ /\ Handover(tready) /\ out.last
         /\ NoneOut' /\ wire' = Append(wire, << Current, Current >>)
      \/ /\ ~(Handover(tready) /\ out.last)
         /\ BothOut' /\ wire' = wire
  BY <1>1, BothOutTick
<1>3. NoFetch' /\ ~ctl'.valid
  BY <1>1, EngineRegisters
     DEF Streaming, NoFetch, NextMem, NextAxis, NextValid
<1>4. ctl'.locked <=> ~(Handover(tready) /\ out.last)
  BY <1>1, EngineRegisters DEF Streaming, NextLocked
<1> QED
  BY <1>2, <1>3, <1>4 DEF Unlocked, Streaming

-----------------------------------------------------------------------------
(***************************************************************************)
(* A clock.                                                                *)
(***************************************************************************)

(* The phases as they are after a clock, each with its words. *)
LEMMA NextPhases ==
  /\ (Unlocked' \/ Accepted' \/ Addressed') /\ NoneOut'
       => StreamInv' /\ Gone' = 0
  /\ Reading' /\ dma'.word = 1 /\ NoneOut' => StreamInv' /\ Gone' = 0
  /\ Reading' /\ dma'.word = 2 /\ OneOut' => StreamInv' /\ Gone' = 0
  /\ Streaming' /\ BothOut' => StreamInv' /\ Gone' = 1
BY DEF StreamInv, Gone, Unlocked, Accepted, Addressed, Reading, Streaming,
       NoFetch

(* What the invariant says of the packet in the stream and of the one that *)
(* is on its way to the ring.                                              *)
LEMMA InTransit ==
  ASSUME TxInv, NEW s, Senders = {s}
  PROVE  /\ Len(sent) \in Nat /\ Len(wire) \in Nat
         /\ Count(ring) \in 0 .. BUFFER_LENGTH
         /\ Gone \in {0, 1} /\ Coming \in {0, 1}
         /\ Coming = (IF Pending(s) THEN 1 ELSE 0)
         /\ Pushed => Pending(s) /\ ~ring.full
         /\ Streaming => Gone = 1 /\ Current \in Packet
         /\ Reading => /\ Gone = 0
                       /\ \A w \in Words : slots[ring.tail][w] = Current
         /\ Unlocked \/ Accepted \/ Addressed => Gone = 0
<1> USE DEF TxInv
<1>1. /\ Len(sent) \in Nat /\ Len(wire) \in Nat
      /\ ring \in Ring /\ RingConsistent(ring)
  BY DEF TypeOK, EngineInv
<1>2. Gone \in {0, 1} /\ Coming \in {0, 1}
  BY DEF Gone, Coming
<1>3. /\ Count(ring) \in 0 .. BUFFER_LENGTH
      /\ ring.empty <=> Count(ring) = 0
  BY <1>1, CountRange
<1>4. Coming = IF Pending(s) THEN 1 ELSE 0
  BY DEF Coming
<1>5. Pushed => Pending(s)
  <2>1. /\ bus.wstate \in {"WRIDLE", "WRDATA", "WRRESP"} /\ pc[s] \in PC
        /\ bus.owner \in {s, None}
    BY DEF TypeOK
  <2> QED
    BY <2>1 DEF Pushed, Pending, BusInv, Levels, Started, PC
<1>6. Pending(s) => ~ring.full
  BY DEF SenderInv, Preparing, Filled
<1>7. ASSUME Streaming PROVE Gone = 1 /\ Current \in Packet
  <2>1. Gone = 1
    BY <1>7 DEF Streaming, Gone
  <2>2. Len(wire) + 1 \in 1 .. Len(sent)
    BY <1>1, <1>2, <1>3, <2>1, BufferLengthAssumption DEF ContentInv
  <2> QED
    BY <2>1, <2>2 DEF Current, TypeOK
<1>8. ASSUME Reading
      PROVE  Gone = 0 /\ \A w \in Words : slots[ring.tail][w] = Current
  <2>1. Gone = 0
    BY <1>8, ShortSequences DEF Reading, NoFetch, Gone
  <2>2. 0 \in 0 .. Count(ring) - 1
    BY <1>3, <1>8, BufferLengthAssumption DEF Reading
  <2>3. \A w \in Words : slots[SlotAt(ring, 0)][w] = sent[Len(wire) + Gone + 0 + 1]
    BY <2>2 DEF ContentInv
  <2>4. Len(wire) + Gone + 0 + 1 = Len(wire) + 1
    BY <1>1, <2>1
  <2> QED
    BY <1>1, <2>1, <2>3, <2>4, FirstPlace DEF Current
<1>9. Unlocked \/ Accepted \/ Addressed => Gone = 0
  BY DEF Unlocked, Accepted, Addressed, NoFetch, Gone
<1> QED
  BY <1>1, <1>2, <1>3, <1>4, <1>5, <1>6, <1>7, <1>8, <1>9

(* The engine goes from phase to phase, and a packet with it: from the     *)
(* ring into the stream, from the stream on the wire.                      *)
LEMMA EngineTick ==
  ASSUME TxInv, NEW s, Senders = {s},
         NEW go \in BOOLEAN, NEW arready \in BOOLEAN,
         NEW rvalid \in BOOLEAN, NEW tready \in BOOLEAN,
         Tick(go, arready, rvalid, tready)
  PROVE  /\ EngineInv' /\ StreamInv'
         /\ \/ /\ wire' = wire
               /\ Gone' = Gone + (IF Popped(rvalid) THEN 1 ELSE 0)
            \/ /\ wire' = Append(wire, << Current, Current >>)
               /\ Gone = 1 /\ Gone' = 0 /\ ~Popped(rvalid)
<1>1. /\ TypeOK /\ EngineInv /\ StreamInv /\ (Pushed => ~ring.full)
  BY InTransit DEF TxInv
<1>2. /\ RingConsistent(ring')
      /\ Popped(rvalid) <=> Reading /\ rvalid /\ dma.word = 2
  BY <1>1, RingTick
<1>3. CASE Unlocked
  <2>1. (Unlocked' \/ Accepted') /\ NoneOut' /\ wire' = wire
    BY <1>1, <1>3, UnlockedTick DEF StreamInv
  <2>2. ~Popped(rvalid) /\ Gone = 0
    BY <1>2, <1>3, InTransit DEF Unlocked, NoFetch, Reading
  <2> QED
    BY <1>2, <2>1, <2>2, NextPhases DEF EngineInv
<1>4. CASE Accepted
  <2>1. Addressed' /\ NoneOut' /\ wire' = wire
    BY <1>1, <1>4, AcceptedTick DEF StreamInv
  <2>2. ~Popped(rvalid) /\ Gone = 0
    BY <1>2, <1>4, InTransit DEF Accepted, Reading
  <2> QED
    BY <1>2, <2>1, <2>2, NextPhases DEF EngineInv
<1>5. CASE Addressed
  <2>1. /\ Addressed' \/ (Reading' /\ dma'.word = 1)
        /\ NoneOut' /\ wire' = wire
    BY <1>1, <1>5, AddressedTick DEF StreamInv
  <2>2. ~Popped(rvalid) /\ Gone = 0
    BY <1>2, <1>5, InTransit DEF Addressed, Reading
  <2> QED
    BY <1>2, <2>1, <2>2, NextPhases DEF EngineInv
<1>6. CASE Reading
  <2>1. Gone = 0 /\ \A w \in Words : slots[ring.tail][w] = Current
    BY <1>6, InTransit
  <2>2. /\ wire' = wire
        /\ ~Popped(rvalid) => /\ Reading'
                              /\ \/ dma'.word = 1 /\ NoneOut'
                                 \/ dma'.word = 2 /\ OneOut'
        /\ Popped(rvalid) => Streaming' /\ BothOut'
    BY <1>1, <1>6, <2>1, ReadingTick DEF StreamInv
  <2> QED
    BY <1>2, <2>1, <2>2, NextPhases DEF EngineInv
<1>7. CASE Streaming
  <2>1. Gone = 1 /\ Current \in Packet
    BY <1>7, InTransit
  <2>2. \/ /\ Unlocked' /\ NoneOut'
           /\ wire' = Append(wire, << Current, Current >>)
        \/ Streaming' /\ BothOut' /\ wire' = wire
    BY <1>1, <1>7, <2>1, StreamingTick DEF StreamInv
  <2>3. ~Popped(rvalid)
    BY <1>2, <1>7 DEF Streaming, NoFetch, Reading
  <2> QED
    BY <1>2, <2>1, <2>2, <2>3, NextPhases DEF EngineInv
<1> QED
  BY <1>1, <1>3, <1>4, <1>5, <1>6, <1>7 DEF EngineInv

(* A clock loses and reorders no packet: a push takes the prepared one     *)
(* into the head slot, a pop moves the oldest one on.                      *)
LEMMA ContentTick ==
  ASSUME TxInv, NEW s, Senders = {s},
         NEW go \in BOOLEAN, NEW arready \in BOOLEAN,
         NEW rvalid \in BOOLEAN, NEW tready \in BOOLEAN,
         Tick(go, arready, rvalid, tready)
  PROVE  ContentInv'
<1> DEFINE push == IF Pushed THEN 1 ELSE 0
           pop == IF Popped(rvalid) THEN 1 ELSE 0
<1>1. /\ Len(sent) \in Nat /\ Len(wire) \in Nat
      /\ Count(ring) \in 0 .. BUFFER_LENGTH
      /\ Gone \in {0, 1} /\ Coming \in {0, 1}
      /\ Coming = (IF Pending(s) THEN 1 ELSE 0)
      /\ Pushed => Pending(s) /\ ~ring.full
      /\ push \in {0, 1} /\ pop \in {0, 1}
  BY InTransit
<1>2. wire' = wire \/ wire' = Append(wire, << Current, Current >>)
  BY EngineTick
<1>3. Gone' \in {0, 1}
  BY DEF Gone
<1>4. Len(wire') \in Nat /\ Len(wire') + Gone' = Len(wire) + Gone + pop
  <2>1. Len(Append(wire, << Current, Current >>)) = Len(wire) + 1
    BY DEF TxInv, TypeOK
  <2>2. CASE wire' = wire /\ Gone' = Gone + pop
    BY <1>1, <2>2
  <2>3. CASE /\ wire' = Append(wire, << Current, Current >>)
             /\ Gone = 1 /\ Gone' = 0 /\ ~Popped(rvalid)
    BY <1>1, <2>1, <2>3
  <2> QED
    BY <2>2, <2>3, EngineTick
<1>5. /\ ring \in Ring /\ RingConsistent(ring)
      /\ Count(ring') = Count(ring) + push - pop
      /\ Popped(rvalid) => ~ring.empty
      /\ ring' = ClockRing(ring, Pushed, Popped(rvalid))
  BY <1>1, RingTick DEF TxInv, EngineInv, TypeOK, Tick
<1>6. Coming' = Coming - push
  <2>1. Pending(s)' <=> Pending(s) /\ ~Pushed
    BY BusTick DEF TxInv
  <2> QED
    BY <1>1, <2>1 DEF Coming
<1>7. sent' = sent /\ slots' = slots
  BY DEF Tick
<1>8. Len(sent) = Len(wire) + Gone + Count(ring) + Coming
  BY DEF TxInv, ContentInv
<1>9. Len(sent') = Len(wire') + Gone' + Count(ring') + Coming'
  <2> HIDE DEF push, pop
  <2>1. Count(ring) \in Int
    BY <1>1, BufferLengthAssumption
  <2> QED
    BY <1>1, <1>5, <1>6, <1>7, <1>8, <1>3, <1>4, <2>1
<1>10. ASSUME NEW k \in 0 .. Count(ring') - 1, NEW w \in Words
      PROVE  slots'[SlotAt(ring', k)][w] = sent'[Len(wire') + Gone' + k + 1]
  <2>1. Pushed \in BOOLEAN /\ Popped(rvalid) \in BOOLEAN
    BY DEF TxInv, TypeOK, Pushed, Popped, ReadBeat
  <2>2. /\ SlotAt(ring', k) = SlotAt(ring, IF Popped(rvalid) THEN k + 1 ELSE k)
        /\ (IF Popped(rvalid) THEN k + 1 ELSE k) \in 0 .. Count(ring)
    BY <1>1, <1>5, <2>1, ClockRingPlaces
  <2>3. (IF Popped(rvalid) THEN k + 1 ELSE k) = k + pop
    BY <1>5
  <2>4. k \in Int /\ Len(wire') + Gone' + k + 1 = Len(wire) + Gone + (k + pop) + 1
    <3> HIDE DEF pop
    <3> QED
      BY <1>1, <1>3, <1>4
  <2>5. CASE k + pop \in 0 .. Count(ring) - 1
    <3>1. slots[SlotAt(ring, k + pop)][w] = sent[Len(wire) + Gone + (k + pop) + 1]
      BY <2>5 DEF TxInv, ContentInv
    <3> QED
      BY <1>7, <2>2, <2>3, <2>4, <3>1
  <2>6. CASE k + pop = Count(ring)
    <3>1. Pushed
      BY <1>1, <1>5, <2>6, BufferLengthAssumption
    <3>2. SlotAt(ring, Count(ring)) = ring.head
      BY <1>1, <1>5, <3>1, SlotAtFacts
    <3>3. slots[ring.head][w] = sent[Len(sent)]
      <4>1. Pending(s) /\ Filled(s)
        BY <1>1, <3>1 DEF Filled
      <4>2. /\ slots[ring.head][1] = PacketOf(s)
            /\ slots[ring.head][2] = PacketOf(s)
            /\ sent[Len(sent)] = PacketOf(s)
        BY <4>1 DEF TxInv, SenderInv
      <4>3. w = 1 \/ w = 2
        BY DEF Words
      <4> QED
        BY <4>2, <4>3
    <3>4. Len(sent) = Len(wire) + Gone + (k + pop) + 1
      BY <1>1, <1>8, <2>6, <3>1, BufferLengthAssumption
    <3> QED
      BY <1>7, <2>2, <2>3, <2>4, <2>6, <3>2, <3>3, <3>4
  <2> QED
    BY <1>1, <2>2, <2>3, <2>4, <2>5, <2>6, BufferLengthAssumption
<1>11. \A k \in 1 .. Len(wire') : wire'[k] = << sent'[k], sent'[k] >>
  <2>1. \A k \in 1 .. Len(wire) : wire[k] = << sent[k], sent[k] >>
    BY DEF TxInv, ContentInv
  <2>2. CASE wire' = wire
    BY <1>7, <2>1, <2>2
  <2>3. CASE wire' = Append(wire, << Current, Current >>)
    <3>1. /\ Len(wire') = Len(wire) + 1
          /\ \A k \in 1 .. Len(wire) : wire'[k] = wire[k]
          /\ wire'[Len(wire) + 1] = << Current, Current >>
      BY <2>3, AppendProperties DEF TxInv, TypeOK
    <3> QED
      BY <1>1, <1>7, <2>1, <3>1 DEF Current
  <2> QED
    BY <1>2, <2>2, <2>3
<1> QED
  BY <1>9, <1>10, <1>11 DEF ContentInv

(* A clock does not disturb the packet that is being prepared. *)
LEMMA SenderTick ==
  ASSUME TxInv, NEW s, Senders = {s},
         NEW go \in BOOLEAN, NEW arready \in BOOLEAN,
         NEW rvalid \in BOOLEAN, NEW tready \in BOOLEAN,
         Tick(go, arready, rvalid, tready)
  PROVE  SenderInv'
<1>1. /\ Pending(s)' <=> Pending(s) /\ ~Pushed
      /\ Filled(s)' => Filled(s) /\ ~Pushed
      /\ pc'[s] \in {"head", "header", "payload"} => pc'[s] = pc[s] /\ ~Pushed
      /\ pc[s] = "idle" => pc'[s] = "idle"
  BY BusTick DEF TxInv
<1>2. UNCHANGED << calls, offset, fits, slots, sent >>
  BY DEF Tick
<1>3. ~Pushed => /\ ring'.head = ring.head
                 /\ ~ring.full => ~ring'.full
  BY InTransit, RingTick DEF TxInv
<1>4. /\ pc[s] # "idle" => fits[s]
      /\ Preparing(s) => ~ring.full
      /\ Preparing(s) /\ pc[s] # "head" => offset[s] = ring.head
      /\ pc[s] = "payload" \/ Filled(s) => slots[ring.head][1] = PacketOf(s)
      /\ Filled(s) => slots[ring.head][2] = PacketOf(s)
      /\ Pending(s) => sent[Len(sent)] = PacketOf(s)
  BY DEF TxInv, SenderInv
<1>5. PacketOf(s)' = PacketOf(s)
  BY <1>2 DEF PacketOf
<1>6. Preparing(s)' => /\ Preparing(s) /\ ~Pushed
                       /\ pc[s] = "head" => pc'[s] = "head" 
  BY <1>1 DEF Preparing, Filled, Pending
<1>7. /\ pc'[s] # "idle" => fits'[s]
      /\ Preparing(s)' => ~ring'.full
      /\ Preparing(s)' /\ pc'[s] # "head" => offset'[s] = ring'.head
  BY <1>1, <1>2, <1>3, <1>4, <1>6
<1>8. /\ pc'[s] = "payload" \/ Filled(s)' => slots'[ring'.head][1] = PacketOf(s)'
      /\ Filled(s)' => slots'[ring'.head][2] = PacketOf(s)'
      /\ Pending(s)' => sent'[Len(sent')] = PacketOf(s)'
  BY <1>1, <1>2, <1>3, <1>4, <1>5
<1> QED
  BY <1>7, <1>8 DEF SenderInv

-----------------------------------------------------------------------------
(***************************************************************************)
(* The sender.                                                             *)
(***************************************************************************)

(* A step of the sender that writes no register leaves bus, pulse and      *)
(* engine alone, and nothing is pending before or after it.                *)
LEMMA QuietStep ==
  ASSUME TxInv, NEW s, Senders = {s}, UNCHANGED << bus, hwVars, sent >>,
         pc[s] \in {"idle", "head", "header", "payload"},
         pc'[s] \in {"idle", "head", "header", "payload", "clear"}
  PROVE  /\ BusInv' /\ EngineInv' /\ StreamInv'
         /\ ~Filled(s) /\ ~Pending(s)'
         /\ Filled(s)' <=> pc'[s] = "clear"
         /\ Gone' = Gone /\ Coming' = Coming
<1>1. EngineInv' /\ StreamInv' /\ Gone' = Gone
  BY DEF hwVars, TxInv, EngineInv, StreamInv, Unlocked, Accepted, Addressed,
         Reading, Streaming, NoFetch, NoneOut, OneOut, BothOut, First,
         Second, Current, Gone
<1>2. bus' = bus /\ pulse' = pulse /\ bus.owner = None /\ bus.wstate = "WRIDLE"
  BY DEF hwVars, TxInv, Started, BusInv, TypeOK
<1>3. s # None
  BY TxAssumption
<1>4. BusInv'
  BY <1>2, <1>3 DEF TxInv, BusInv, Levels
<1>5. ~Pending(s) /\ ~Pending(s)' /\ ~Filled(s)
  BY <1>2 DEF Pending, Filled
<1>6. Filled(s)' <=> pc'[s] = "clear"
  BY <1>5 DEF Filled
<1>7. Coming' = Coming
  BY <1>5 DEF Coming
<1> QED
  BY <1>1, <1>4, <1>5, <1>6, <1>7

(* A copy leaves every place of the ring that is in use as it is. *)
LEMMA CopyAvoids ==
  ASSUME TxInv, NEW s \in Senders, CopyHeader(s) \/ CopyPayload(s)
  PROVE  /\ \A k \in 0 .. Count(ring) - 1 :
              slots'[SlotAt(ring, k)] = slots[SlotAt(ring, k)]
         /\ offset[s] = ring.head /\ ring.head \in Index
         /\ CopyHeader(s) => slots'[ring.head][1] = PacketOf(s)
         /\ CopyPayload(s) => /\ slots'[ring.head][1] = PacketOf(s)
                              /\ slots'[ring.head][2] = PacketOf(s)
<1>1. /\ offset[s] = ring.head /\ ~ring.full /\ fits[s]
      /\ pc[s] = "payload" => slots[ring.head][1] = PacketOf(s)
  BY DEF TxInv, SenderInv, CopyHeader, CopyPayload, Preparing
<1>2. /\ ring \in Ring /\ RingConsistent(ring) /\ ring.head \in Index
      /\ Count(ring) \in 0 .. BUFFER_LENGTH
      /\ slots \in [Index -> [Words -> Packet \cup {None}]]
  BY CountRange DEF TxInv, TypeOK, EngineInv, Ring
<1>3. \A k \in 0 .. Count(ring) - 1 :
        SlotAt(ring, k) \in Index /\ SlotAt(ring, k) # ring.head
  <2>1. \A k \in 0 .. Count(ring) - 1 : k \in Index
    BY <1>2, BufferLengthAssumption DEF Index
  <2> QED
    BY <1>1, <1>2, <2>1, SlotAtFacts
<1>4. ASSUME NEW places, CopyTo(s, places),
             \A i \in Index : \A w \in Words :
               << i, w >> \in places => i = ring.head
      PROVE  \A i \in Index : i # ring.head => slots'[i] = slots[i]
  <2>1. ASSUME NEW i \in Index, i # ring.head
        PROVE  slots'[i] = slots[i]
    <3>1. slots'[i] = [w \in Words |-> slots[i][w]]
      BY <1>4, <2>1 DEF CopyTo
    <3> QED
      BY <1>2, <3>1
  <2> QED
    BY <2>1
<1>5. CASE CopyHeader(s)
  <2>1. CopyTo(s, {<< ring.head, 1 >>})
    BY <1>1, <1>5 DEF CopyHeader
  <2>2. slots'[ring.head][1] = PacketOf(s)
    BY <1>2, <2>1 DEF CopyTo, Words
  <2> QED
    BY <1>1, <1>2, <1>3, <1>4, <1>5, <2>1, <2>2 DEF CopyPayload, CopyHeader
<1>6. CASE CopyPayload(s)
  <2>1. CopyTo(s, {<< ring.head, 2 >>})
    BY <1>1, <1>6 DEF CopyPayload
  <2>2. slots'[ring.head][2] = PacketOf(s)
    BY <1>2, <2>1 DEF CopyTo, Words
  <2>3. slots'[ring.head][1] = PacketOf(s)
    BY <1>1, <1>2, <1>6, <2>1 DEF CopyTo, Words, CopyPayload
  <2> QED
    BY <1>1, <1>2, <1>3, <1>4, <1>6, <2>1, <2>2, <2>3 DEF CopyPayload, CopyHeader
<1> QED
  BY <1>5, <1>6

(* Where no packet is sent and the places in use are left alone, their     *)
(* content stays the sequence of packets.                                  *)
LEMMA ContentKept ==
  ASSUME ContentInv, UNCHANGED << ring, wire, sent >>,
         Gone' = Gone, Coming' = Coming,
         \A k \in 0 .. Count(ring) - 1 :
           slots'[SlotAt(ring, k)] = slots[SlotAt(ring, k)]
  PROVE  ContentInv'
BY DEF ContentInv

(* The write of BUFTX_PUSHED that is issued makes the packet count as      *)
(* sent, and the pulse is then pending.                                    *)
LEMMA WriteStep ==
  ASSUME TxInv, NEW s, Senders = {s}, WritePushed(s)
  PROVE  BusInv' /\ EngineInv' /\ StreamInv' /\ ContentInv' /\ SenderInv'
<1>1. /\ pc' = pc /\ calls' = calls /\ offset' = offset /\ fits' = fits
      /\ UNCHANGED << slots, pulse, ring, ctl, dma, mem, fifo, out, frame, wire >>
      /\ bus.owner = None /\ bus.wstate = "WRIDLE" /\ s # None
      /\ pc[s] \in {"clear", "set", "clearAgain"}
  BY TxAssumption DEF WritePushed, cpuVars, hwVars, TxInv, BusInv
<1>2. /\ bus'.owner = s /\ bus'.value = (pc[s] = "set")
      /\ bus'.wstate = "WRIDLE"
  BY DEF WritePushed
<1>3. BusInv'
  BY <1>1, <1>2 DEF TxInv, BusInv, Levels
<1>4. /\ pc[s] = "set" => ~Pending(s) /\ Pending(s)'
      /\ pc[s] # "set" => (Pending(s)' <=> Pending(s))
      /\ Filled(s)' <=> Filled(s)
  BY <1>1, <1>2 DEF TxInv, BusInv, Levels, Pending, Filled
<1>5. /\ Len(sent) \in Nat /\ Len(wire) \in Nat /\ sent \in Seq(Packet)
      /\ Count(ring) \in 0 .. BUFFER_LENGTH /\ Gone \in {0, 1}
      /\ Coming \in {0, 1} /\ Coming = (IF Pending(s) THEN 1 ELSE 0)
  BY InTransit DEF TxInv, TypeOK
<1>6. /\ pc[s] = "set" => /\ Len(sent') = Len(sent) + 1
                          /\ sent'[Len(sent')] = PacketOf(s)
      /\ pc[s] # "set" => sent' = sent
      /\ \A k \in 1 .. Len(sent) : sent'[k] = sent[k]
  <2>1. PacketOf(s) \in Packet
    BY <1>1 DEF TxInv, Started, TypeOK, PacketOf, Packet
  <2> QED
    BY <1>5, <2>1, AppendProperties DEF WritePushed
<1>7. Streaming \/ Reading => Current' = Current
  <2>1. ASSUME Streaming \/ Reading PROVE Len(wire) + 1 \in 1 .. Len(sent)
    <3>1. Reading => Count(ring) # 0
      BY CountRange DEF Reading, TxInv, EngineInv, TypeOK
    <3>2. Streaming => Gone = 1
      BY InTransit
    <3> QED
      BY <1>5, <2>1, <3>1, <3>2, BufferLengthAssumption DEF TxInv, ContentInv
  <2> QED
    BY <1>1, <1>6, <2>1 DEF Current
<1>8. EngineInv' /\ Gone' = Gone
  BY <1>1 DEF TxInv, EngineInv, Unlocked, Accepted, Addressed, Reading,
              Streaming, NoFetch, Gone
<1>9. StreamInv'
  <2>1. /\ (Unlocked' \/ Accepted' \/ Addressed') <=> (Unlocked \/ Accepted \/ Addressed)
        /\ Reading' <=> Reading /\ dma' = dma
        /\ Streaming' <=> Streaming
        /\ NoneOut' <=> NoneOut
    BY <1>1 DEF Unlocked, Accepted, Addressed, Reading, Streaming, NoFetch,
                NoneOut
  <2>2. Streaming \/ Reading => (OneOut' <=> OneOut) /\ (BothOut' <=> BothOut)
    BY <1>1, <1>7 DEF OneOut, BothOut, First, Second
  <2> QED
    BY <2>1, <2>2 DEF TxInv, StreamInv
<1>10. Len(sent') = Len(wire') + Gone' + Count(ring') + Coming'
  <2>1. Coming' = Coming + (IF pc[s] = "set" THEN 1 ELSE 0)
    BY <1>4, <1>5 DEF Coming
  <2>2. Len(sent) = Len(wire) + Gone + Count(ring) + Coming
    BY DEF TxInv, ContentInv
  <2>3. Count(ring) \in Int
    BY <1>5, BufferLengthAssumption
  <2> QED
    BY <1>1, <1>5, <1>6, <1>8, <2>1, <2>2, <2>3
<1>11. ASSUME NEW k \in 0 .. Count(ring') - 1, NEW w \in Words
       PROVE  slots'[SlotAt(ring', k)][w] = sent'[Len(wire') + Gone' + k + 1]
  <2>1. slots[SlotAt(ring, k)][w] = sent[Len(wire) + Gone + k + 1]
    BY <1>1 DEF TxInv, ContentInv
  <2>2. Len(wire) + Gone + k + 1 \in 1 .. Len(sent)
    BY <1>1, <1>5, BufferLengthAssumption DEF TxInv, ContentInv
  <2> QED
    BY <1>1, <1>6, <1>8, <2>1, <2>2
<1>12. \A k \in 1 .. Len(wire') : wire'[k] = << sent'[k], sent'[k] >>
  <2>1. \A k \in 1 .. Len(wire) : k \in 1 .. Len(sent)
    BY <1>5, BufferLengthAssumption DEF TxInv, ContentInv
  <2> QED
    BY <1>1, <1>6, <2>1 DEF TxInv, ContentInv
<1>13. ContentInv'
  BY <1>10, <1>11, <1>12 DEF ContentInv
<1>14. SenderInv'
  <2>1. PacketOf(s)' = PacketOf(s)
    BY <1>1 DEF PacketOf
  <2>2. Preparing(s)' <=> Preparing(s)
    BY <1>1, <1>4 DEF Preparing
  <2>3. Pending(s)' => sent'[Len(sent')] = PacketOf(s)
    BY <1>4, <1>6 DEF TxInv, SenderInv
  <2> QED
    BY <1>1, <1>4, <2>1, <2>2, <2>3 DEF TxInv, SenderInv
<1> QED
  BY <1>3, <1>8, <1>9, <1>13, <1>14

(* The other steps of the sender. *)
LEMMA PrepareStep ==
  ASSUME TxInv, NEW s, Senders = {s}, Sender(s), ~WritePushed(s)
  PROVE  BusInv' /\ EngineInv' /\ StreamInv' /\ ContentInv' /\ SenderInv'
<1>1. /\ UNCHANGED << bus, hwVars, sent >>
      /\ pc[s] \in {"idle", "head", "header", "payload"}
  BY DEF Sender, SendStart, SendRefused, SendInvalid, ReadHead, CopyHeader,
         CopyPayload
<1>2. pc \in [Senders -> PC] /\ calls \in [Senders -> 0 .. MaxPackets]
      /\ offset \in [Senders -> Index] /\ fits \in [Senders -> BOOLEAN]
  BY DEF TxInv, TypeOK
<1>3. UNCHANGED << ring, wire >>
  BY <1>1 DEF hwVars
<1>4. /\ pc[s] # "idle" => fits[s]
      /\ Preparing(s) => ~ring.full
      /\ Preparing(s) /\ pc[s] # "head" => offset[s] = ring.head
  BY DEF TxInv, SenderInv
<1>5. ASSUME slots' = slots, pc'[s] \in {"idle", "head", "header"},
             pc'[s] # "idle" => fits'[s] /\ ~ring.full,
             pc'[s] = "header" => offset'[s] = ring.head
      PROVE  BusInv' /\ EngineInv' /\ StreamInv' /\ ContentInv' /\ SenderInv'
  <2>1. /\ BusInv' /\ EngineInv' /\ StreamInv'
        /\ ~Pending(s)' /\ ~Filled(s)' /\ Gone' = Gone /\ Coming' = Coming
    BY <1>1, <1>5, QuietStep
  <2>2. ContentInv'
    BY <1>1, <1>3, <1>5, <2>1, ContentKept DEF TxInv
  <2>3. SenderInv'
    BY <1>3, <1>5, <2>1 DEF SenderInv, Preparing
  <2> QED
    BY <2>1, <2>2, <2>3
<1>6. ASSUME NEW skb \in Skbs, SendStart(s, skb)
      PROVE  BusInv' /\ EngineInv' /\ StreamInv' /\ ContentInv' /\ SenderInv'
  <2>1. Fits(skb)
    BY <1>6, TxAssumption, ComposeFits DEF SendStart
  <2> QED
    BY <1>2, <1>5, <1>6, <2>1 DEF SendStart, SlotFree, Goto
<1>7. ASSUME NEW skb \in Skbs, SendRefused(s, skb) \/ SendInvalid(s, skb)
      PROVE  BusInv' /\ EngineInv' /\ StreamInv' /\ ContentInv' /\ SenderInv'
  BY <1>5, <1>7 DEF SendRefused, SendInvalid
<1>8. CASE ReadHead(s)
  BY <1>2, <1>4, <1>5, <1>8 DEF ReadHead, Goto, Preparing
<1>9. CASE CopyHeader(s) \/ CopyPayload(s)
  <2>1. pc'[s] = (IF CopyHeader(s) THEN "payload" ELSE "clear")
    BY <1>2, <1>9 DEF CopyHeader, CopyPayload, Goto
  <2>2. UNCHANGED << calls, offset, fits >> /\ pc[s] \in {"header", "payload"}
    BY <1>9 DEF CopyHeader, CopyPayload
  <2>3. /\ BusInv' /\ EngineInv' /\ StreamInv'
        /\ ~Pending(s)' /\ (Filled(s)' <=> pc'[s] = "clear")
        /\ Gone' = Gone /\ Coming' = Coming
    BY <1>1, <2>1, QuietStep
  <2>4. /\ \A k \in 0 .. Count(ring) - 1 :
             slots'[SlotAt(ring, k)] = slots[SlotAt(ring, k)]
        /\ offset[s] = ring.head
        /\ CopyHeader(s) => slots'[ring.head][1] = PacketOf(s)
        /\ CopyPayload(s) => /\ slots'[ring.head][1] = PacketOf(s)
                             /\ slots'[ring.head][2] = PacketOf(s)
    BY <1>9, CopyAvoids
  <2>5. ContentInv'
    BY <1>1, <1>3, <2>3, <2>4, ContentKept DEF TxInv
  <2>6. PacketOf(s)' = PacketOf(s)
    BY <2>2 DEF PacketOf
  <2>7. Preparing(s) /\ fits[s]
    BY <1>4, <2>2 DEF Preparing
  <2>8. SenderInv'
    BY <1>3, <1>4, <1>9, <2>1, <2>2, <2>3, <2>4, <2>6, <2>7 DEF SenderInv
  <2> QED
    BY <2>3, <2>5, <2>8
<1> QED
  BY <1>6, <1>7, <1>8, <1>9 DEF Sender

-----------------------------------------------------------------------------
(***************************************************************************)
(* The invariant and what follows from it.                                 *)
(***************************************************************************)

(* Out of reset everything is idle and empty. *)
LEMMA TxInvInit ==
  ASSUME OneSender, Init
  PROVE  TxInv
<1>1. TypeOK /\ Started
  BY TypeInit
<1>2. /\ ring.empty /\ ~ring.full /\ RingConsistent(ring) /\ Count(ring) = 0
  BY ResetRingFacts DEF Init, ResetRing
<1>3. \A s \in Senders : pc[s] = "idle" /\ s # None
  BY TxAssumption DEF Init
<1>4. BusInv
  BY <1>3 DEF Init, BusInv, Levels
<1>5. Unlocked /\ NoneOut /\ Gone = 0
  BY DEF Init, Unlocked, NoFetch, NoneOut, Gone
<1>6. EngineInv
  BY <1>2, <1>5 DEF EngineInv
<1>7. StreamInv
  BY <1>5 DEF StreamInv, Unlocked, NoFetch, Reading, Streaming
<1>8. \A s \in Senders : ~Pending(s) /\ ~Filled(s) /\ ~Preparing(s)
  BY <1>3 DEF Pending, Filled, Preparing
<1>9. ContentInv
  <2>1. Coming = 0 /\ Len(sent) = 0 /\ Len(wire) = 0
    BY <1>8 DEF Coming, Init
  <2> QED
    BY <1>2, <1>5, <2>1 DEF ContentInv
<1>10. SenderInv
  BY <1>3, <1>8 DEF SenderInv
<1> QED
  BY <1>1, <1>4, <1>6, <1>7, <1>9, <1>10 DEF TxInv

(* Every step keeps it. *)
LEMMA TxInvStep ==
  ASSUME OneSender, TxInv, [Next]_vars
  PROVE  TxInv'
<1>1. PICK s : Senders = {s}
  BY DEF OneSender
<1>2. TypeOK' /\ Started'
  BY TypeStep DEF TxInv
<1>3. CASE UNCHANGED vars
  <2>1. /\ UNCHANGED << pc, calls, offset, fits, pulse, ring, ctl, dma, mem >>
        /\ UNCHANGED << fifo, out, frame, wire, slots, bus, sent >>
    BY <1>3 DEF vars, cpuVars, hwVars
  <2>2. /\ Unlocked' = Unlocked /\ Accepted' = Accepted /\ Addressed' = Addressed
        /\ Reading' = Reading /\ Streaming' = Streaming /\ NoFetch' = NoFetch
    BY <2>1 DEF Unlocked, Accepted, Addressed, Reading, Streaming, NoFetch
  <2>3. /\ NoneOut' = NoneOut /\ OneOut' = OneOut /\ BothOut' = BothOut
        /\ Gone' = Gone
    BY <2>1, <2>2 DEF NoneOut, OneOut, BothOut, First, Second, Current, Gone
  <2>4. BusInv'
    BY <2>1 DEF TxInv, BusInv, Levels
  <2>5. EngineInv' /\ StreamInv'
    BY <2>1, <2>2, <2>3 DEF TxInv, EngineInv, StreamInv
  <2>6. \A q \in Senders : /\ Pending(q)' = Pending(q) /\ Filled(q)' = Filled(q)
                           /\ Preparing(q)' = Preparing(q) /\ PacketOf(q)' = PacketOf(q)
    BY <2>1 DEF Pending, Filled, Preparing, PacketOf
  <2>7. Coming' = Coming
    BY <2>6 DEF Coming
  <2>8. ContentInv'
    BY <2>1, <2>3, <2>7 DEF TxInv, ContentInv
  <2>9. SenderInv'
    BY <2>1, <2>6 DEF TxInv, SenderInv
  <2> QED
    BY <1>2, <2>4, <2>5, <2>8, <2>9 DEF TxInv
<1>4. CASE Sender(s) /\ WritePushed(s)
  BY <1>1, <1>2, <1>4, WriteStep DEF TxInv
<1>5. CASE Sender(s) /\ ~WritePushed(s)
  BY <1>1, <1>2, <1>5, PrepareStep DEF TxInv
<1>6. ASSUME NEW go \in BOOLEAN, NEW arready \in BOOLEAN,
             NEW rvalid \in BOOLEAN, NEW tready \in BOOLEAN,
             Tick(go, arready, rvalid, tready)
      PROVE  TxInv'
  <2>1. BusInv'
    BY <1>1, <1>6, BusTick DEF TxInv
  <2>2. EngineInv' /\ StreamInv'
    BY <1>1, <1>6, EngineTick
  <2>3. ContentInv' /\ SenderInv'
    BY <1>1, <1>6, ContentTick, SenderTick
  <2> QED
    BY <1>2, <2>1, <2>2, <2>3 DEF TxInv
<1> QED
  BY <1>1, <1>3, <1>4, <1>5, <1>6 DEF Next

(* With one sender at a time the invariant holds for ever. *)
THEOREM TxInvariant == OneSender /\ Spec => [](OneSender /\ TxInv)
<1>1. OneSender /\ Init => TxInv
  BY TxInvInit
<1>2. OneSender /\ TxInv /\ [Next]_vars => OneSender' /\ TxInv'
  <2>1. OneSender => OneSender'
    BY DEF OneSender
  <2> QED
    BY <2>1, TxInvStep
<1> QED
  BY <1>1, <1>2, PTL DEF Spec

(* No push meets a full ring and no pop an empty one, though circular_     *)
(* buffer.v has no guard of its own, software tests full long before the   *)
(* push arrives, and the pop comes from the memory.                        *)
THEOREM TxNoOverrun == OneSender /\ Spec => []NoOverrun
<1>1. ASSUME OneSender, TxInv PROVE NoOverrun
  <2>1. PICK s : Senders = {s}
    BY <1>1 DEF OneSender
  <2>2. Pushed => ~ring.full
    BY <1>1, <2>1, InTransit
  <2>3. Popped(TRUE) => ~ring.empty
    BY <1>1, ShortSequences
       DEF TxInv, EngineInv, Unlocked, Accepted, Addressed, Reading,
           Streaming, NoFetch, Popped, ReadBeat
  <2> QED
    BY <2>2, <2>3 DEF NoOverrun
<1> QED
  BY <1>1, TxInvariant, PTL

(* The descriptor that axi_dma_rd takes names the oldest packet of the     *)
(* ring, although address and valid of the request logic lag the tail and  *)
(* the lock by a clock, and no other fetch is under way.                   *)
THEOREM TxFreshDescriptor == OneSender /\ Spec => []FreshDescriptor
<1>1. ASSUME TxInv PROVE FreshDescriptor
  <2>1. Unlocked \/ Accepted \/ Addressed \/ Reading \/ Streaming
    BY <1>1 DEF TxInv, EngineInv
  <2>2. CASE Unlocked
    BY <2>2, ShortSequences
       DEF Unlocked, NoFetch, FreshDescriptor, Fetches, Accept
  <2>3. CASE Accepted
    BY <2>3, ShortSequences DEF Accepted, FreshDescriptor, Fetches, Accept
  <2>4. CASE Addressed
    BY <2>4, ShortSequences DEF Addressed, FreshDescriptor, Fetches, Accept
  <2>5. CASE Reading
    BY <2>5, ShortSequences DEF Reading, FreshDescriptor, Fetches, Accept
  <2>6. CASE Streaming
    BY <2>6, ShortSequences
       DEF Streaming, NoFetch, FreshDescriptor, Fetches, Accept
  <2> QED
    BY <2>1, <2>2, <2>3, <2>4, <2>5, <2>6
<1> QED
  BY <1>1, TxInvariant, PTL

(* The frames given to the UDP stack are the packets software sent, in     *)
(* order, each once and whole; at most a ring's worth and one more are     *)
(* under way.                                                              *)
THEOREM TxInOrder == OneSender /\ Spec => []TxFifo
<1>1. ASSUME OneSender, TxInv PROVE TxFifo
  <2>1. PICK s : Senders = {s}
    BY <1>1 DEF OneSender
  <2>2. /\ Len(sent) \in Nat /\ Len(wire) \in Nat
        /\ Count(ring) \in 0 .. BUFFER_LENGTH
        /\ Gone \in {0, 1} /\ Coming \in {0, 1}
        /\ Coming = 1 => ~ring.full
    BY <1>1, <2>1, InTransit DEF TxInv, SenderInv, Preparing, Filled
  <2>3. ring.full <=> Count(ring) = BUFFER_LENGTH
    BY <1>1, CountRange DEF TxInv, TypeOK, EngineInv
  <2>4. Len(sent) = Len(wire) + Gone + Count(ring) + Coming
    BY <1>1 DEF TxInv, ContentInv
  <2>5. /\ Len(wire) <= Len(sent)
        /\ Len(sent) - Len(wire) <= BUFFER_LENGTH + 1
    BY <2>2, <2>3, <2>4, BufferLengthAssumption
  <2> QED
    BY <1>1, <2>5 DEF TxFifo, TxInv, ContentInv
<1> QED
  BY <1>1, TxInvariant, PTL

(* No step of software writes a slot that axi_dma_rd is fetching or has    *)
(* still to fetch.                                                         *)
THEOREM TxCopyAvoidsLive == OneSender /\ Spec => CopyAvoidsLive
<1>1. ASSUME TxInv, [Next]_vars
      PROVE  [\A i \in Live : slots'[i] = slots[i]]_vars
  <2>1. CASE slots' = slots
    BY <2>1
  <2>2. ASSUME NEW s \in Senders, CopyHeader(s) \/ CopyPayload(s)
        PROVE  \A i \in Live : slots'[i] = slots[i]
    BY <1>1, <2>2, CopyAvoids DEF Live
  <2> QED
    BY <1>1, <2>1, <2>2
       DEF Next, Sender, SendStart, SendRefused, SendInvalid, ReadHead,
           WritePushed, Tick, vars
<1> QED
  BY <1>1, TxInvariant, PTL DEF Spec, CopyAvoidsLive
=============================================================================
