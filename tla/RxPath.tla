------------------------------- MODULE RxPath -------------------------------
(***************************************************************************)
(* The receive path of controller.v: the UDP stack hands over a header and *)
(* a payload; axis_udp_port_filter forwards or discards the packet,        *)
(* axis_header_adder puts the header words in front of it, axi_dma_wr      *)
(* writes the frame to the head slot of the ring of its port, the last     *)
(* write beat pushes, and a reader on the CPU (udp_core_napi_rx_poll,      *)
(* udriver_recv) copies the tail slot and pops it.                         *)
(*                                                                         *)
(* Tick is one clock edge: NextX below compute the new value of a register *)
(* from the old ones and from the inputs of that edge.  A packet is its    *)
(* number; a frame is one header word and two payload words, each of which *)
(* names the packet it belongs to.  The stack, the axis_register skid      *)
(* buffers and the memory are external.                                    *)
(***************************************************************************)
EXTENDS CircularBufferOps, Sequences, SequencesExt

CONSTANTS
  Ports,        \* ports of the configured range, one ring each
  Outside,      \* a destination port outside the range
  MaxPackets,   \* bound: packets the network delivers
  MaxSwitches,  \* bound: times a socket is opened or closed
  Assumed       \* assumptions on the environment, see below

(***************************************************************************)
(* "memory":  the memory takes the last beat of a packet before the header *)
(*            of the next one arrives;                                     *)
(* "peers":   the senders never have more packets unread than a ring holds;*)
(* "sockets": no socket is opened or closed in the two clocks in which a   *)
(*            header is being judged.                                      *)
(* Nothing in the code enforces any of them.                               *)
(***************************************************************************)
ASSUME RxAssumption ==
  /\ Ports # {} /\ Outside \notin Ports
  /\ MaxPackets \in Nat /\ MaxSwitches \in Nat
  /\ Assumed \subseteq {"memory", "peers", "sockets"}

Packet == 1 .. MaxPackets
NoPacket == 0
Words == 1 .. 3          \* header, payload, payload
LastWord == 3

VARIABLES
  stack,       \* header outputs of the UDP stack and payload words it has left
  adapter,     \* axis_adapter: at most one word waiting for the filter
  open,        \* open_sockets_vector
  filter,      \* axis_udp_port_filter: state, buffer_select_idx_o, valid_udp_port_o
  skid1,       \* axis_register behind the filter
  adder,       \* state of axis_header_adder
  skid2,       \* axis_register behind the header adder
  ctl,         \* dma_wr_ctrl_valid_o and the slot dma_wr_ctrl_addr_o names
  dma,         \* axi_dma_wr
  wchan,       \* write beats the memory has not taken yet
  slots,       \* the rx buffers in DDR
  rings,       \* circular_buffer_rx, one per port
  reader,      \* the reader on the CPU
  switches,    \* times a socket was opened or closed
  dest,        \* history: destination port of every packet that arrived
  accepted,    \* history: per port, packets that met an open socket
  delivered    \* history: per port, frames the reader copied

streamVars == << stack, adapter, filter, skid1, adder, skid2, ctl, dma, wchan >>
histVars == << dest, accepted, delivered >>
vars == << streamVars, open, slots, rings, reader, switches, histVars >>

(* The ring that the low bits of dest - lower select; outside the range    *)
(* they name some ring, here the first.                                    *)
FirstRing == CHOOSE p \in Ports : TRUE
RingOf(p) == IF p \in Ports THEN p ELSE FirstRing

Idle == [pc |-> "idle", port |-> Outside, tail |-> 0, frame |-> << >>]

Init ==
  /\ stack = [packet |-> NoPacket, hdr_valid |-> FALSE, next |-> LastWord + 1]
  /\ adapter = << >>
  /\ open \in SUBSET Ports
  /\ filter = [state |-> "IDLE", sel |-> FirstRing, valid |-> FALSE]
  /\ skid1 = << >>
  /\ adder = "IDLE"
  /\ skid2 = << >>
  /\ ctl = [valid |-> FALSE, slot |-> << FirstRing, 0 >>]
  /\ dma = [state |-> "IDLE", ready |-> FALSE, slot |-> << FirstRing, 0 >>,
            word |-> 1]
  /\ wchan = << >>
  /\ slots = [p \in Ports |-> [i \in Index |-> [w \in Words |-> NoPacket]]]
  /\ rings = [p \in Ports |-> ResetRing]
  /\ reader = Idle
  /\ switches = 0
  /\ dest = << >>
  /\ accepted = [p \in Ports |-> << >>]
  /\ delivered = [p \in Ports |-> << >>]

-----------------------------------------------------------------------------
(***************************************************************************)
(* Combinational signals.                                                  *)
(***************************************************************************)

(* An axis_register of type 2 holds up to two words. *)
SkidReady(skid) == Len(skid) < 2

(* valid_udp_port: the destination port of the header now at the outputs   *)
(* of the stack is in range and its socket is open.                        *)
ValidPort == stack.packet # NoPacket /\ dest[stack.packet] \in open

(* Mutant: the payload of a discarded packet is not drained. *)
FilterReadyNoDrain ==
  filter.state \in {"IDLE", "FORWARD"} /\ SkidReady(skid1)

(* s_axis_payload_tready of the filter. *)
FilterReady ==
  CASE filter.state = "DISCARD" -> TRUE
    [] filter.state = "CHECK" -> FALSE
    [] OTHER -> SkidReady(skid1)

Consumed == adapter # << >> /\ FilterReady

PayloadLast == Consumed /\ Head(adapter).word = LastWord

(* rx_hdr_ready: the header adder takes a header whenever it is idle. *)
HdrReady == adder = "IDLE" /\ SkidReady(skid2)

(* A payload word moves from the filter's register through the adder. *)
PayloadBeat == adder = "PAYLOAD" /\ skid1 # << >> /\ SkidReady(skid2)

(* A word of the frame moves into axi_dma_wr; room: its output FIFO has    *)
(* room.                                                                   *)
FrameBeat(room) == room /\ dma.state = "WRITE" /\ skid2 # << >>

(* The memory takes a write beat. *)
WriteBeat(wready) == wready /\ wchan # << >>

(* Mutant: wlast is left out of the condition. *)
PushedEveryBeat(wready) == WriteBeat(wready)

(* dma_wr_ctrl_pushed_i: wlast & wvalid & wready. *)
Pushed(wready) == WriteBeat(wready) /\ Head(wchan).last

(* Nothing is left that only waits for the memory. *)
MemoryDone ==
  /\ adapter = << >> /\ skid2 = << >> /\ wchan = << >>
  /\ adder # "HEADER" /\ ~PayloadBeat /\ dma.state # "FINISH_BURST"

(* The filter's two looks at the socket are over. *)
NotJudging == ~stack.hdr_valid /\ ~filter.valid /\ filter.state # "CHECK"

(* Packets of an open socket whose slot has not been given back. *)
Unread(p) == Len(accepted[p]) - Len(delivered[p])
               + (IF reader.pc = "pop" /\ reader.port = p THEN 1 ELSE 0)

-----------------------------------------------------------------------------
(***************************************************************************)
(* The next value of every register.                                       *)
(***************************************************************************)

(* A header may come to the outputs of the stack at this edge: the last    *)
(* one was taken and its payload has left the stack.                       *)
MayArrive(p) ==
  /\ Len(dest) < MaxPackets
  /\ ~stack.hdr_valid /\ stack.next > LastWord
  /\ "memory" \in Assumed => MemoryDone
  /\ "peers" \in Assumed /\ p \in Ports => Unread(p) < BUFFER_LENGTH

(* feed: the stack gives the adapter the next payload word. *)
Feeds(feed) == feed /\ stack.next <= LastWord /\ adapter = << >>

NextStack(feed) ==
  [stack EXCEPT !.hdr_valid = @ /\ ~HdrReady,
                !.next = IF Feeds(feed) THEN @ + 1 ELSE @]

NextAdapter(feed) ==
  IF Consumed THEN << >>
  ELSE IF Feeds(feed)
       THEN << [packet |-> stack.packet, word |-> stack.next] >> ELSE adapter

(* The state machine of the filter. *)
NextFilterState ==
  CASE filter.state = "IDLE" -> IF stack.hdr_valid THEN "CHECK" ELSE "IDLE"
    [] filter.state = "CHECK" -> IF ValidPort THEN "FORWARD" ELSE "DISCARD"
    [] OTHER -> IF PayloadLast THEN "IDLE" ELSE filter.state

(* Mutant: the ring is selected once the packet is being forwarded. *)
NextSelLate ==
  IF filter.state \in {"FORWARD", "DISCARD"} /\ PayloadLast
  THEN RingOf(dest[stack.packet]) ELSE filter.sel

(* buffer_select_idx_o. *)
NextSel ==
  IF filter.state = "CHECK" THEN RingOf(dest[stack.packet]) ELSE filter.sel

NextFilter == [state |-> NextFilterState, sel |-> NextSel,
               valid |-> ValidPort /\ stack.hdr_valid]

(* In IDLE and DISCARD the filter takes words and forwards none. *)
NextSkid1 ==
  LET rest == IF PayloadBeat THEN Tail(skid1) ELSE skid1
  IN  IF Consumed /\ filter.state = "FORWARD" THEN rest \o adapter ELSE rest

(* The state machine of the header adder.  hdr_valid_port is a clock older *)
(* than the decision of the filter.                                        *)
NextAdder ==
  CASE adder = "IDLE" -> IF HdrReady /\ filter.valid THEN "HEADER" ELSE "IDLE"
    [] adder = "HEADER" -> IF SkidReady(skid2) THEN "PAYLOAD" ELSE "HEADER"
    [] adder = "PAYLOAD" -> IF PayloadBeat /\ Head(skid1).word = LastWord
                            THEN "IDLE" ELSE "PAYLOAD"

(* The header word is made from the header outputs of the stack as they    *)
(* are when it is sent.                                                    *)
NextSkid2(room) ==
  LET rest == IF FrameBeat(room) THEN Tail(skid2) ELSE skid2
  IN  CASE adder = "HEADER" /\ SkidReady(skid2) ->
             Append(rest, [packet |-> stack.packet, word |-> 1])
        [] PayloadBeat -> Append(rest, Head(skid1))
        [] OTHER -> rest

(* Mutant: the tail slot is addressed. *)
NextCtlTail ==
  [valid |-> dma.ready /\ (ctl.valid \/ skid2 # << >>),
   slot  |-> << filter.sel, rings[filter.sel].tail >>]

(* DMA write control: dma_wr_ctrl_valid_o and dma_wr_ctrl_addr_o. *)
NextCtl ==
  [valid |-> dma.ready /\ (ctl.valid \/ skid2 # << >>),
   slot  |-> << filter.sel, rings[filter.sel].head >>]

(* The state machine of axi_dma_wr.  The descriptor's length counts the    *)
(* UDP header too, so a frame ends one beat before its burst and           *)
(* STATE_FINISH_BURST pads it.                                             *)
NextDma(room) ==
  CASE dma.state = "IDLE" /\ dma.ready /\ ctl.valid ->
         [state |-> "START", ready |-> FALSE, slot |-> ctl.slot, word |-> 1]
    [] dma.state = "IDLE" /\ ~(dma.ready /\ ctl.valid) ->
         [dma EXCEPT !.ready = TRUE]
    [] dma.state = "START" /\ room /\ skid2 # << >> ->
         [dma EXCEPT !.state = "WRITE"]
    [] FrameBeat(room) ->
         [dma EXCEPT !.state = IF Head(skid2).word = LastWord
                               THEN "FINISH_BURST" ELSE "WRITE",
                     !.word = @ + 1]
    [] dma.state = "FINISH_BURST" /\ room ->
         [dma EXCEPT !.state = "IDLE", !.ready = TRUE]
    [] OTHER -> dma

NextWchan(room, wready) ==
  LET rest == IF WriteBeat(wready) THEN Tail(wchan) ELSE wchan
      Beat(n, l) == [slot |-> dma.slot, at |-> dma.word, packet |-> n, last |-> l]
  IN  CASE FrameBeat(room) -> Append(rest, Beat(Head(skid2).packet, FALSE))
        [] dma.state = "FINISH_BURST" /\ room -> Append(rest, Beat(NoPacket, TRUE))
        [] OTHER -> rest

(* The padding beat has its strobes off. *)
NextSlots(wready) ==
  IF WriteBeat(wready) /\ ~Head(wchan).last
  THEN LET b == Head(wchan)
       IN  [slots EXCEPT ![b.slot[1]][b.slot[2]][b.at] = b.packet]
  ELSE slots

(* The pushes go to the ring that is selected when the last beat is taken. *)
NextRings(wready, popped) ==
  [p \in Ports |-> ClockRing(rings[p], Pushed(wready) /\ filter.sel = p,
                             popped /\ reader.port = p)]

-----------------------------------------------------------------------------

(* One clock edge with no new header.  pop: the reader's pop arrives. *)
Stream(feed, room, wready, pop) ==
  /\ pop => reader.pc = "pop"
  /\ adapter' = NextAdapter(feed)
  /\ filter' = NextFilter
  /\ skid1' = NextSkid1
  /\ adder' = NextAdder
  /\ skid2' = NextSkid2(room)
  /\ ctl' = NextCtl
  /\ dma' = NextDma(room)
  /\ wchan' = NextWchan(room, wready)
  /\ slots' = NextSlots(wready)
  /\ rings' = NextRings(wready, pop)
  /\ reader' = IF pop THEN Idle ELSE reader
  /\ UNCHANGED << open, switches, delivered >>

Tick(feed, room, wready, pop) ==
  /\ Stream(feed, room, wready, pop)
  /\ stack' = NextStack(feed)
  /\ UNCHANGED << dest, accepted >>

(* The same edge, with which the next header arrives. *)
TickArrival(p, room, wready, pop) ==
  /\ MayArrive(p)
  /\ Stream(FALSE, room, wready, pop)
  /\ stack' = [packet |-> Len(dest) + 1, hdr_valid |-> TRUE, next |-> 2]
  /\ dest' = Append(dest, p)
  /\ accepted' = IF p \in open
                 THEN [accepted EXCEPT ![p] = Append(@, Len(dest) + 1)]
                 ELSE accepted

(* The reader is the kernel's poll function or udriver_recv.  The register *)
(* of a ring is read: empty and tail together.                             *)
(*                                                                         *)
(* The copy sees memory as the write engine left it.  That is assumed: the *)
(* kernel allocates with dma_alloc_noncoherent and its poll function syncs *)
(* nothing for the CPU before it copies; udriver_recv has no sync either.  *)
ReadTail(p) ==
  /\ reader.pc = "idle"
  /\ ~rings[p].empty
  /\ reader' = [pc |-> "header", port |-> p, tail |-> rings[p].tail,
                frame |-> << >>]
  /\ UNCHANGED << streamVars, open, slots, rings, switches, histVars >>

CopyHeader ==
  /\ reader.pc = "header"
  /\ reader' = [reader EXCEPT !.pc = "payload",
                  !.frame = << slots[reader.port][reader.tail][1] >>]
  /\ UNCHANGED << streamVars, open, slots, rings, switches, histVars >>

(* The payload is copied and the pop is written; it reaches the ring with  *)
(* a later clock edge and the reader waits for that.                       *)
CopyPayload ==
  /\ reader.pc = "payload"
  /\ LET slot == slots[reader.port][reader.tail]
         copy == reader.frame \o << slot[2], slot[3] >>
     IN  /\ reader' = [reader EXCEPT !.pc = "pop", !.frame = copy]
         /\ delivered' = [delivered EXCEPT ![reader.port] = Append(@, copy)]
  /\ UNCHANGED << streamVars, open, slots, rings, switches, dest, accepted >>

(* OPENSOCK of a port is written. *)
SetSocket(p) ==
  /\ switches < MaxSwitches
  /\ "sockets" \in Assumed => NotJudging
  /\ open' = IF p \in open THEN open \ {p} ELSE open \cup {p}
  /\ switches' = switches + 1
  /\ UNCHANGED << streamVars, slots, rings, reader, histVars >>

Next ==
  \/ \E feed, room, wready, pop \in BOOLEAN : Tick(feed, room, wready, pop)
  \/ \E p \in Ports \cup {Outside}, room, wready, pop \in BOOLEAN :
       TickArrival(p, room, wready, pop)
  \/ \E p \in Ports : ReadTail(p) \/ SetSocket(p)
  \/ CopyHeader
  \/ CopyPayload

Spec == Init /\ [][Next]_vars

(***************************************************************************)
(* The clock runs, stack and memory stall for a while but not for ever,    *)
(* and the reader comes back to every ring that is not empty: the poll     *)
(* function scans all of them.                                             *)
(***************************************************************************)
Fairness ==
  /\ WF_vars(Tick(TRUE, TRUE, TRUE, reader.pc = "pop"))
  /\ WF_vars(CopyHeader)
  /\ WF_vars(CopyPayload)
  /\ \A p \in Ports : SF_vars(ReadTail(p))

FairSpec == Spec /\ Fairness

-----------------------------------------------------------------------------

Word == [packet : Packet, word : Words]

(* Every register, slot and history holds a value of its kind. *)
TypeOK ==
  /\ stack \in [packet : Packet \cup {NoPacket}, hdr_valid : BOOLEAN,
                next : 2 .. LastWord + 1]
  /\ adapter \in Seq(Word) /\ Len(adapter) <= 1
  /\ open \subseteq Ports
  /\ filter \in [state : {"IDLE", "CHECK", "FORWARD", "DISCARD"}, sel : Ports,
                 valid : BOOLEAN]
  /\ skid1 \in Seq(Word) /\ Len(skid1) <= 2
  /\ adder \in {"IDLE", "HEADER", "PAYLOAD"}
  /\ skid2 \in Seq(Word) /\ Len(skid2) <= 2
  /\ ctl \in [valid : BOOLEAN, slot : Ports \X Index]
  /\ dma \in [state : {"IDLE", "START", "WRITE", "FINISH_BURST"},
              ready : BOOLEAN, slot : Ports \X Index, word : 1 .. LastWord + 1]
  /\ wchan \in Seq([slot : Ports \X Index, at : 1 .. LastWord + 1,
                    packet : Packet \cup {NoPacket}, last : BOOLEAN])
  /\ slots \in [Ports -> [Index -> [Words -> Packet \cup {NoPacket}]]]
  /\ rings \in [Ports -> Ring]
  /\ reader.pc \in {"idle", "header", "payload", "pop"}
  /\ dest \in Seq(Ports \cup {Outside})
  /\ accepted \in [Ports -> Seq(Packet)]

(* A frame copied from the ring of a port is one whole packet that was     *)
(* addressed to that port: header and payload never come from different    *)
(* packets, whatever filter, header adder, write engine and reader do in   *)
(* the meantime.                                                           *)
RxIntegrity ==
  \A p \in Ports : \A k \in DOMAIN delivered[p] :
    LET f == delivered[p][k]
    IN  /\ f[1] # NoPacket /\ dest[f[1]] = p
        /\ \A w \in Words : f[w] = f[1]

(* Per port, packets that met an open socket are delivered in the order of *)
(* their arrival, none skipped and none twice.                             *)
RxFifo ==
  \A p \in Ports :
    IsPrefix([k \in DOMAIN delivered[p] |-> delivered[p][k][1]], accepted[p])

(* The PL waits for the rx buffer not to be full before it writes a packet *)
(* to it and pushes: no last beat meets a full ring.                       *)
RxNoOverrun == Pushed(TRUE) => ~rings[filter.sel].full

(* The path catches up again and again: no packet that met an open socket  *)
(* is left in it, whatever is discarded around it, and the stack has been  *)
(* relieved of every payload, so that the next packet can come.            *)
RxDelivered ==
  []<>(/\ \A p \in Ports : Len(delivered[p]) = Len(accepted[p])
       /\ stack.next > LastWord /\ adapter = << >>)
=============================================================================
