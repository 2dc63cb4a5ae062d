------------------------------- MODULE TxPath -------------------------------
(***************************************************************************)
(* The transmit path: a sender on the CPU (udp_core_ndo_start_xmit in the  *)
(* kernel driver, udriver_send in the user-space one) places a packet in   *)
(* the head slot of the tx ring and pushes it through the AXI-Lite         *)
(* registers; the controller has axi_dma_rd fetch the tail slot and stream *)
(* it out.                                                                 *)
(*                                                                         *)
(* The CPU takes its steps between clock edges, as slowly as it likes.     *)
(* Tick is one rising edge of the fabric clock: every register takes the   *)
(* value computed from the old ones, so NextX below are functions of the   *)
(* unprimed state and of the inputs the environment gives for that edge.   *)
(* A packet is a model value and a slot is two words, the header and the   *)
(* payload, each of which names the packet it was copied from.             *)
(***************************************************************************)
EXTENDS CircularBufferOps, Packets, Sequences

CONSTANTS
  Senders,      \* threads that call the send function (external: the callers)
  MaxPackets,   \* bound: send calls per sender
  Skbs,         \* the socket buffers they send
  None

Packet == Senders \X (1 .. MaxPackets)

(* A word of a stream, with the mark of the last one of a frame. *)
Beat == [word : Packet \cup {None}, last : BOOLEAN]

ASSUME TxAssumption ==
  /\ MaxPackets \in Nat
  /\ Skbs \subseteq Skb
  /\ None \notin Senders \cup Beat

Words == 1 .. 2     \* beats of a slot; 256 in the bitstream, one AXI burst
LastWord == 2

VARIABLES
  pc, calls, offset,    \* per sender: next step, calls made, head index it read
  fits,                 \* per sender: the payload of the packet fits in a slot
  slots,                \* the tx buffer in DDR
  bus,                  \* write channel of config_regs_AXI_Manager
  pulse,                \* buftx_pushed_o_r and the two flops of pulse_on_posedge
  ring,                 \* circular_buffer_tx
  ctl,                  \* dma_rd_locked, dma_rd_ctrl_valid_o, slot of _addr_o
  dma,                  \* both state machines of axi_dma_rd
  mem,                  \* slots of the read bursts the memory still has to serve
  fifo, out,            \* output FIFO and output register of axi_dma_rd
  frame,                \* words of the frame now being handed over
  sent, wire            \* history: packets pushed by software, frames streamed

cpuVars == << pc, calls, offset, fits >>
hwVars == << pulse, ring, ctl, dma, mem, fifo, out, frame, wire >>
vars == << cpuVars, slots, bus, hwVars, sent >>

PC == {"idle", "head", "header", "payload", "clear", "set", "clearAgain"}

Init ==
  /\ pc = [s \in Senders |-> "idle"]
  /\ calls = [s \in Senders |-> 0]
  /\ offset = [s \in Senders |-> 0]
  /\ fits = [s \in Senders |-> TRUE]
  /\ slots = [i \in Index |-> [w \in Words |-> None]]
  /\ bus = [owner |-> None, value |-> FALSE, wstate |-> "WRIDLE"]
  /\ pulse = [reg |-> FALSE, reg1 |-> FALSE, reg2 |-> FALSE]
  /\ ring = ResetRing
  /\ ctl = [locked |-> FALSE, valid |-> FALSE, slot |-> 0]
  /\ dma = [axi |-> "IDLE", ready |-> FALSE, addr |-> 0, cmd |-> FALSE,
            arvalid |-> FALSE, araddr |-> 0, axis |-> "IDLE", word |-> 1]
  /\ mem = << >>
  /\ fifo = << >>
  /\ out = None
  /\ frame = << >>
  /\ sent = << >>
  /\ wire = << >>

-----------------------------------------------------------------------------
(***************************************************************************)
(* The sender.                                                             *)
(***************************************************************************)

PacketOf(s) == << s, calls[s] >>

Goto(s, l) == pc' = [pc EXCEPT ![s] = l]

(* Mutant: the full register is not looked at. *)
SlotFreeUnchecked == TRUE

(* BUFTX_FULL reads 0. *)
SlotFree == ~ring.full

(* The call starts with a packet that can be sent and finds a free slot.   *)
(* udriver_send takes a packet as it is given: its callers give it nothing *)
(* longer than a slot, which is what sendmsg lets through.                 *)
SendStart(s, skb) ==
  /\ pc[s] = "idle" /\ calls[s] < MaxPackets
  /\ Compose(skb)
  /\ SlotFree
  /\ calls' = [calls EXCEPT ![s] = @ + 1]
  /\ fits' = [fits EXCEPT ![s] = Fits(skb)]
  /\ Goto(s, "head")
  /\ UNCHANGED << offset, slots, bus, hwVars, sent >>

(* The call starts, finds the ring full and gives the packet up: udriver_  *)
(* send returns -1, udp_core_ndo_start_xmit returns NETDEV_TX_OK.          *)
SendRefused(s, skb) ==
  /\ pc[s] = "idle" /\ calls[s] < MaxPackets
  /\ Compose(skb)
  /\ ~SlotFree
  /\ calls' = [calls EXCEPT ![s] = @ + 1]
  /\ UNCHANGED << pc, offset, fits, slots, bus, hwVars, sent >>

(* udp_core_pkt_compose finds that the packet is no UDP datagram it can    *)
(* send: it is dropped before the device is looked at.                     *)
SendInvalid(s, skb) ==
  /\ pc[s] = "idle" /\ calls[s] < MaxPackets
  /\ ~Compose(skb)
  /\ calls' = [calls EXCEPT ![s] = @ + 1]
  /\ UNCHANGED << pc, offset, fits, slots, bus, hwVars, sent >>

(* BUFTX_HEAD is read. *)
ReadHead(s) ==
  /\ pc[s] = "head"
  /\ offset' = [offset EXCEPT ![s] = ring.head]
  /\ Goto(s, "header")
  /\ UNCHANGED << calls, fits, slots, bus, hwVars, sent >>

(* The packet is copied to places of the tx buffer. *)
CopyTo(s, places) ==
  slots' = [i \in Index |-> [w \in Words |->
              IF << i, w >> \in places THEN PacketOf(s) ELSE slots[i][w]]]

(* First memcpy into the slot. *)
CopyHeader(s) ==
  /\ pc[s] = "header"
  /\ CopyTo(s, {<< offset[s], 1 >>})
  /\ Goto(s, "payload")
  /\ UNCHANGED << calls, offset, fits, bus, hwVars, sent >>

(* Second memcpy into the slot, then the cache is written back.  A payload *)
(* that does not fit runs into the slot behind.                            *)
CopyPayload(s) ==
  /\ pc[s] = "payload"
  /\ CopyTo(s, {<< offset[s], 2 >>}
                 \cup IF fits[s] THEN {} ELSE {<< offset[s] + 1, 1 >>})
  /\ Goto(s, "clear")
  /\ UNCHANGED << calls, offset, fits, bus, hwVars, sent >>

(* BUFTX_PUSHED is written: 0, then 1, then 0.  The write waits for the    *)
(* register file; Tick completes it.  The packet counts as sent when the   *)
(* write of the 1 is issued.                                               *)
WritePushed(s) ==
  /\ pc[s] \in {"clear", "set", "clearAgain"}
  /\ bus.owner = None
  /\ bus' = [owner |-> s, value |-> pc[s] = "set", wstate |-> "WRIDLE"]
  /\ sent' = IF pc[s] = "set" THEN Append(sent, PacketOf(s)) ELSE sent
  /\ UNCHANGED << cpuVars, slots, hwVars >>

(* Where the sender continues when its register write has completed. *)
AfterWrite(l) == CASE l = "clear" -> "set"
                   [] l = "set" -> "clearAgain"
                   [] OTHER -> "idle"

-----------------------------------------------------------------------------
(***************************************************************************)
(* One clock edge.  The inputs: go, the AXI-Lite master takes the next     *)
(* step of its handshake; arready; rvalid, the memory has the next word    *)
(* and the output FIFO has room for it; tready, the stream is taken.       *)
(***************************************************************************)

(* wstate, wnext. *)
NextBus(go) ==
  IF bus.owner = None \/ ~go THEN bus
  ELSE CASE bus.wstate = "WRIDLE" -> [bus EXCEPT !.wstate = "WRDATA"]
         [] bus.wstate = "WRDATA" -> [bus EXCEPT !.wstate = "WRRESP"]
         [] bus.wstate = "WRRESP" -> [owner |-> None, value |-> FALSE,
                                      wstate |-> "WRIDLE"]

(* BVALID & BREADY: the CPU's store has completed. *)
WriteDone(go) == go /\ bus.owner # None /\ bus.wstate = "WRRESP"

(* The register of BUFTX_PUSHED at the W handshake, and the flops after it. *)
NextPulse(go) ==
  [reg  |-> IF go /\ bus.owner # None /\ bus.wstate = "WRDATA"
            THEN bus.value ELSE pulse.reg,
   reg1 |-> pulse.reg,
   reg2 |-> pulse.reg1]

(* Mutant: the register's level is used, not its rising edge. *)
PushedLevel == pulse.reg1

(* buftx_pushed_o. *)
Pushed == pulse.reg1 /\ ~pulse.reg2

(* A word is transferred on the R channel. *)
ReadBeat(rvalid) == rvalid /\ dma.axis = "READ" /\ mem # << >>

(* dma_rd_ctrl_popped_i: rlast & rvalid & rready. *)
Popped(rvalid) == ReadBeat(rvalid) /\ dma.word = LastWord

(* dma_rd_data_axis is handed over to the header remover. *)
Handover(tready) == tready /\ out # None

(* dma_rd_lock_condition; with it axi_dma_rd takes the descriptor. *)
Accept == ctl.valid /\ dma.ready

(* Mutant: nothing ever unlocks. *)
NextLockedForever(tready) == ctl.locked \/ Accept

(* Mutant: the lock is not taken. *)
NextLockedNever(tready) == FALSE

(* dma_rd_locked. *)
NextLocked(tready) ==
  IF Handover(tready) /\ out.last THEN FALSE ELSE ctl.locked \/ Accept

(* dma_rd_ctrl_valid_o. *)
NextValid == ~ctl.locked /\ (ctl.valid \/ ~ring.empty)

(* The transfer-request logic of the controller. *)
NextCtl(tready) ==
  [locked |-> NextLocked(tready), valid |-> NextValid, slot |-> ring.tail]

(* AXI_STATE_START with the address channel free. *)
StartBurst == dma.axi = "START" /\ ~dma.arvalid

(* axis_cmd_ready: the output side takes the next command. *)
CmdReady == dma.axis = "IDLE" /\ dma.cmd

(* Mutant: the output side waits for one word too many. *)
NextAxisLate(rvalid) ==
  CASE CmdReady -> [axis |-> "READ", word |-> 1]
    [] ReadBeat(rvalid) -> [axis |-> "READ", word |-> dma.word + 1]
    [] OTHER -> [axis |-> dma.axis, word |-> dma.word]

(* The AXIS state machine and its word counter. *)
NextAxis(rvalid) ==
  CASE CmdReady -> [axis |-> "READ", word |-> 1]
    [] ReadBeat(rvalid) /\ dma.word = LastWord -> [axis |-> "IDLE", word |-> 1]
    [] ReadBeat(rvalid) /\ dma.word # LastWord ->
         [axis |-> "READ", word |-> dma.word + 1]
    [] OTHER -> [axis |-> dma.axis, word |-> dma.word]

(* axi_dma_rd. *)
NextDma(arready, rvalid) ==
  [axi     |-> IF Accept \/ (dma.axi = "START" /\ dma.arvalid)
               THEN "START" ELSE "IDLE",
   ready   |-> ~Accept /\ ~dma.cmd /\ (dma.axi = "IDLE" \/ StartBurst),
   addr    |-> IF Accept THEN ctl.slot ELSE dma.addr,
   cmd     |-> Accept \/ (dma.cmd /\ ~CmdReady),
   arvalid |-> StartBurst \/ (dma.arvalid /\ ~arready),
   araddr  |-> IF StartBurst THEN dma.addr ELSE dma.araddr,
   axis    |-> NextAxis(rvalid).axis,
   word    |-> NextAxis(rvalid).word]

(* Bursts requested and not yet completely read. *)
NextMem(arready, rvalid) ==
  LET rest == IF Popped(rvalid) THEN Tail(mem) ELSE mem
  IN  IF dma.arvalid /\ arready THEN Append(rest, dma.araddr) ELSE rest

(* The output register is loaded from the FIFO when it is free or taken. *)
Load(tready) == fifo # << >> /\ (out = None \/ tready)

NextFifo(rvalid, tready) ==
  LET rest == IF Load(tready) THEN Tail(fifo) ELSE fifo
  IN  IF ReadBeat(rvalid)
      THEN Append(rest, [word |-> slots[Head(mem)][dma.word],
                         last |-> dma.word = LastWord])
      ELSE rest

NextOut(tready) ==
  IF Load(tready) THEN Head(fifo) ELSE IF tready THEN None ELSE out

Tick(go, arready, rvalid, tready) ==
  /\ bus' = NextBus(go)
  /\ pc' = IF WriteDone(go) THEN [pc EXCEPT ![bus.owner] = AfterWrite(@)] ELSE pc
  /\ pulse' = NextPulse(go)
  /\ ring' = ClockRing(ring, Pushed, Popped(rvalid))
  /\ ctl' = NextCtl(tready)
  /\ dma' = NextDma(arready, rvalid)
  /\ mem' = NextMem(arready, rvalid)
  /\ fifo' = NextFifo(rvalid, tready)
  /\ out' = NextOut(tready)
  /\ frame' = IF ~Handover(tready) THEN frame
              ELSE IF out.last THEN << >> ELSE Append(frame, out.word)
  /\ wire' = IF Handover(tready) /\ out.last
             THEN Append(wire, Append(frame, out.word)) ELSE wire
  /\ UNCHANGED << calls, offset, fits, slots, sent >>

Sender(s) ==
  \/ \E skb \in Skbs : SendStart(s, skb) \/ SendRefused(s, skb)
                                        \/ SendInvalid(s, skb)
  \/ ReadHead(s)
  \/ CopyHeader(s)
  \/ CopyPayload(s)
  \/ WritePushed(s)

Next ==
  \/ \E s \in Senders : Sender(s)
  \/ \E go, arready, rvalid, tready \in BOOLEAN :
       Tick(go, arready, rvalid, tready)

Spec == Init /\ [][Next]_vars

(***************************************************************************)
(* The clock runs, and every handshake is answered in the end: bus master, *)
(* memory and UDP stack may stall for any time but not for ever.  The      *)
(* thread that is inside the send function is scheduled.                   *)
(***************************************************************************)
Fairness ==
  /\ WF_vars(Tick(TRUE, TRUE, TRUE, TRUE))
  /\ \A s \in Senders :
       WF_vars(ReadHead(s) \/ CopyHeader(s) \/ CopyPayload(s) \/ WritePushed(s))

FairSpec == Spec /\ Fairness

-----------------------------------------------------------------------------

(* Every register, slot and history holds a value of its kind. *)
TypeOK ==
  /\ pc \in [Senders -> PC]
  /\ calls \in [Senders -> 0 .. MaxPackets]
  /\ offset \in [Senders -> Index] /\ fits \in [Senders -> BOOLEAN]
  /\ slots \in [Index -> [Words -> Packet \cup {None}]]
  /\ bus \in [owner : Senders \cup {None}, value : BOOLEAN,
              wstate : {"WRIDLE", "WRDATA", "WRRESP"}]
  /\ pulse \in [reg : BOOLEAN, reg1 : BOOLEAN, reg2 : BOOLEAN]
  /\ ring \in Ring
  /\ ctl \in [locked : BOOLEAN, valid : BOOLEAN, slot : Index]
  /\ dma \in [axi : {"IDLE", "START"}, ready : BOOLEAN, addr : Index,
              cmd : BOOLEAN, arvalid : BOOLEAN, araddr : Index,
              axis : {"IDLE", "READ"}, word : Words]
  /\ mem \in Seq(Index)
  /\ fifo \in Seq(Beat)
  /\ out \in Beat \cup {None}
  /\ frame \in Seq(Packet \cup {None})
  /\ sent \in Seq(Packet)
  /\ wire \in Seq(Seq(Packet \cup {None}))

(* circular_buffer.v has no guard of its own: full is tested by software,  *)
(* long before the push arrives, and the pop comes from the memory.  Yet   *)
(* no push ever meets a full ring and no pop an empty one.                 *)
NoOverrun ==
  /\ Pushed => ~ring.full
  /\ Popped(TRUE) => ~ring.empty

(* dma_rd_ctrl_addr_o lags the tail by a clock and dma_rd_ctrl_valid_o     *)
(* lags the lock and the empty flag: a descriptor that is offered still    *)
(* names the oldest packet, and it is the only fetch under way.            *)
Fetches == Len(mem) + (IF dma.arvalid THEN 1 ELSE 0)
                    + (IF dma.axi = "START" THEN 1 ELSE 0)

FreshDescriptor ==
  /\ Fetches <= 1
  /\ Accept => ~ring.empty /\ ctl.slot = ring.tail /\ Fetches = 0

(* The frames streamed to the UDP stack are the packets sent, in order,    *)
(* each exactly once and none mixed from two packets, and no more than a   *)
(* ring's worth and the packet being streamed are under way.               *)
TxFifo ==
  /\ Len(wire) <= Len(sent)
  /\ Len(sent) - Len(wire) <= BUFFER_LENGTH + 1
  /\ \A k \in 1 .. Len(wire) : wire[k] = << sent[k], sent[k] >>

(* Slots that hold a packet not yet completely fetched. *)
Live == { SlotAt(ring, k) : k \in 0 .. Count(ring) - 1 }

(* The copy in software never touches a slot that axi_dma_rd has still to  *)
(* fetch or is fetching.                                                   *)
CopyAvoidsLive == [][\A i \in Live : slots'[i] = slots[i]]_vars

(* Whatever was pushed is streamed: the lock is always released and the    *)
(* next request always follows.                                            *)
Streamed ==
  \A n \in 1 .. MaxPackets : (Len(sent) >= n) ~> (Len(wire) >= n)
=============================================================================
