------------------------------ MODULE NapiIrq ------------------------------
(***************************************************************************)
(* How a received packet wakes the kernel driver: the interrupt registers  *)
(* of config_regs_AXI_Manager.v, the interrupt handler, the NAPI poll      *)
(* function, and udp_core_ndo_open / udp_core_ndo_stop, which switch all   *)
(* of it on and off while it runs.  The handler, the poll function and the *)
(* thread in open or stop run on different CPUs and interleave at every    *)
(* register access.                                                        *)
(*                                                                         *)
(* The rings are counters here (RxPath has their detail).  The interrupt   *)
(* controller (edge triggered, as the device tree says) and the NAPI core  *)
(* of the kernel are external.                                             *)
(***************************************************************************)
EXTENDS Integers

CONSTANTS
  NumPorts,      \* open_ports.port_opened_num
  RingSize,      \* slots of a ring
  Budget,        \* NAPI budget of a poll
  MaxPushes,     \* bound: packets the device pushes
  MaxFailures,   \* bound: failed allocations
  MaxOpens,      \* bound: times the interface is brought up
  EarlyTraffic   \* packets may come in before napi_enable has run

ASSUME NapiAssumption ==
  /\ NumPorts \in Nat \ {0} /\ RingSize \in Nat \ {0} /\ Budget \in Nat \ {0}
  /\ MaxPushes \in Nat /\ MaxFailures \in Nat /\ MaxOpens \in Nat
  /\ EarlyTraffic \in BOOLEAN

Ports == 1 .. NumPorts

VARIABLES
  gie, ier, isr,   \* int_gie, ext_ier0[0], ext_isr0[0]
  res, open,       \* user reset register; the sockets are open
  pending,         \* an edge the interrupt controller has latched
  handler,         \* next step of udp_core_irq_handler
  sched, missed, disable, listed,  \* NAPI state bits; on a poll list
  poll, port, found, processed,    \* udp_core_rx_poll: next step and variables
  owed,            \* polls past napi_complete that have yet to write GIE
  admin,           \* next step of udp_core_ndo_open or udp_core_ndo_stop
  unread,          \* per port, packets in the ring
  pushes, failures, opens

regVars == << gie, ier, isr, pending >>
napiVars == << sched, missed, disable, listed >>
loopVars == << port, found, processed >>
pollVars == << poll, loopVars >>
boundVars == << pushes, failures, opens >>
vars == << regVars, res, open, handler, napiVars, pollVars, owed, admin, unread,
           boundVars >>

Init ==
  /\ gie = FALSE /\ ier = FALSE /\ isr = FALSE
  /\ res = FALSE /\ open = FALSE
  /\ pending = FALSE
  /\ handler = "idle"
  /\ sched = TRUE /\ missed = FALSE /\ disable = FALSE /\ listed = FALSE
  /\ poll = "idle" /\ port = 1 /\ found = FALSE /\ processed = 0
  /\ owed = 0
  /\ admin = "down"
  /\ unread = [p \in Ports |-> 0]
  /\ pushes = 0 /\ failures = 0 /\ opens = 0

-----------------------------------------------------------------------------
(***************************************************************************)
(* Interrupt registers.                                                    *)
(***************************************************************************)

Line(g, i) == g /\ i          \* interrupt = int_gie & |ext_isr0

(* The registers take new values; a rising line is latched on top of p.    *)
Regs(g, i, p) ==
  /\ gie' = g
  /\ isr' = i
  /\ pending' = (p \/ (Line(g, i) /\ ~Line(gie, isr)))

CanPush(p) ==
  /\ ~res /\ open /\ unread[p] < RingSize
  /\ EarlyTraffic \/ admin = "up"
  /\ pushes < MaxPushes

(* The last beat of a packet is written: the ring counts it and            *)
(* bufrx_push_irq_i is high for a clock.                                   *)
Push(p) ==
  /\ CanPush(p)
  /\ unread' = [unread EXCEPT ![p] = @ + 1]
  /\ pushes' = pushes + 1
  /\ Regs(gie, isr \/ ier, pending)
  /\ UNCHANGED << ier, res, open, handler, napiVars, pollVars, owed, admin,
                  failures,
                  opens >>

-----------------------------------------------------------------------------
(***************************************************************************)
(* udp_core_irq_handler.                                                   *)
(***************************************************************************)

(* Mutant: the device is not masked. *)
HandlerMaskOmitted ==
  /\ handler = "idle" /\ pending
  /\ Regs(gie, isr, FALSE)
  /\ handler' = "schedule"
  /\ UNCHANGED << ier, res, open, napiVars, pollVars, owed, admin, unread,
                  boundVars >>

(* The CPU takes the interrupt; the first thing the handler does is to     *)
(* write 0 to GIE.                                                         *)
HandlerMask ==
  /\ handler = "idle" /\ pending
  /\ Regs(FALSE, isr, FALSE)
  /\ handler' = "schedule"
  /\ UNCHANGED << ier, res, open, napiVars, pollVars, owed, admin, unread,
                  boundVars >>

(* napi_schedule: on a poll list unless it is scheduled already, and then  *)
(* marked missed; no effect while it is being disabled.                    *)
Scheduled ==
  \/ ~disable /\ ~sched /\ sched' = TRUE /\ listed' = TRUE
       /\ UNCHANGED << missed, disable >>
  \/ ~disable /\ sched /\ missed' = TRUE /\ UNCHANGED << sched, disable, listed >>
  \/ disable /\ UNCHANGED napiVars

HandlerSchedule ==
  /\ handler = "schedule"
  /\ Scheduled
  /\ handler' = IF sched \/ disable THEN "ack" ELSE "ackListed"
  /\ UNCHANGED << regVars, res, open, pollVars, owed, admin, unread,
                  boundVars >>

(* A write to ISR0 toggles the bit. *)
HandlerAck ==
  /\ handler \in {"ack", "ackListed"}
  /\ Regs(gie, ~isr, pending)
  /\ handler' = "idle"
  /\ UNCHANGED << ier, res, open, napiVars, pollVars, owed, admin, unread,
                  boundVars >>

(* The same write in the clock of a push, which leaves no trace in ISR0. *)
HandlerAckPush(p) ==
  /\ handler \in {"ack", "ackListed"}
  /\ CanPush(p)
  /\ unread' = [unread EXCEPT ![p] = @ + 1]
  /\ pushes' = pushes + 1
  /\ Regs(gie, ~isr, pending)
  /\ handler' = "idle"
  /\ UNCHANGED << ier, res, open, napiVars, pollVars, owed, admin, failures,
                  opens >>

-----------------------------------------------------------------------------
(***************************************************************************)
(* udp_core_rx_poll.                                                       *)
(***************************************************************************)

PollUnchanged ==
  UNCHANGED << regVars, res, open, handler, admin, pushes, opens >>

(* The softirq runs on the CPU whose handler has listed the instance, so   *)
(* it waits for that handler to return.                                    *)
PollStart ==
  /\ poll = "idle" /\ listed /\ handler # "ackListed"
  /\ poll' = "scan" /\ port' = 1 /\ found' = FALSE /\ processed' = 0
  /\ PollUnchanged /\ UNCHANGED << napiVars, owed, unread, failures >>

(* Mutant: the budget is tested after one packet too many. *)
ScanningPastBudget ==
  poll = "scan" /\ port <= NumPorts /\ processed <= Budget

(* The for loop has a port to look at. *)
Scanning == poll = "scan" /\ port <= NumPorts /\ processed < Budget

(* The for loop is over. *)
Scanned == poll = "scan" /\ ~Scanning

PollSkip ==
  /\ Scanning /\ unread[port] = 0
  /\ port' = port + 1
  /\ PollUnchanged
  /\ UNCHANGED << poll, found, processed, napiVars, owed, unread, failures >>

PollFind ==
  /\ Scanning /\ unread[port] > 0
  /\ poll' = "copy" /\ found' = TRUE
  /\ PollUnchanged
  /\ UNCHANGED << port, processed, napiVars, owed, unread, failures >>

(* No memory for the skb: the for loop is left, the packet stays. *)
PollNoMemory ==
  /\ poll = "copy" /\ failures < MaxFailures
  /\ failures' = failures + 1
  /\ poll' = "scan" /\ port' = NumPorts + 1
  /\ PollUnchanged /\ UNCHANGED << found, processed, napiVars, owed, unread >>

(* A pop moves the tail of a ring that was reset meanwhile all the same,   *)
(* and the ring then looks almost full.                                    *)
PopCount(n) == IF res THEN 0 ELSE IF n = 0 THEN RingSize - 1 ELSE n - 1

(* The packet goes up the stack and its slot is popped. *)
PollReceive ==
  /\ poll = "copy"
  /\ unread' = [unread EXCEPT ![port] = PopCount(@)]
  /\ poll' = "scan" /\ port' = port + 1 /\ processed' = processed + 1
  /\ PollUnchanged /\ UNCHANGED << found, napiVars, owed, failures >>

PollAgain ==
  /\ Scanned /\ found /\ processed < Budget
  /\ port' = 1 /\ found' = FALSE
  /\ PollUnchanged
  /\ UNCHANGED << poll, processed, napiVars, owed, unread, failures >>

(* napi_complete: runs again when a schedule was missed. *)
Completed ==
  \/ missed /\ missed' = FALSE /\ UNCHANGED << sched, disable, listed >>
  \/ ~missed /\ sched' = FALSE /\ listed' = FALSE /\ UNCHANGED << missed, disable >>

(* Mutant: the interrupt is acknowledged when the poll is done. *)
PollCompleteAcks ==
  /\ Scanned /\ ~found /\ processed < Budget
  /\ Completed
  /\ owed' = owed + 1
  /\ poll' = "idle"
  /\ isr' = FALSE
  /\ UNCHANGED << gie, ier, pending, res, open, handler, admin, pushes, opens,
                  loopVars, unread, failures >>

(* A whole scan found nothing. *)
PollComplete ==
  /\ Scanned /\ ~found /\ processed < Budget
  /\ Completed
  /\ owed' = owed + 1
  /\ poll' = "idle"
  /\ PollUnchanged /\ UNCHANGED << loopVars, unread, failures >>

(* The budget is used up: the NAPI core calls again, or completes in the   *)
(* driver's stead when the instance is being disabled.                     *)
PollExhausted ==
  /\ Scanned /\ processed >= Budget
  /\ sched' = (sched /\ ~disable) /\ listed' = (listed /\ ~disable)
  /\ poll' = "idle"
  /\ PollUnchanged
  /\ UNCHANGED << missed, disable, loopVars, owed, unread, failures >>

(* Mutant: the completed poll leaves interrupts off. *)
PollEnableForgotten ==
  /\ owed > 0
  /\ owed' = owed - 1
  /\ UNCHANGED << regVars, res, open, handler, napiVars, pollVars, admin,
                  unread,
                  boundVars >>

(* After napi_complete, 1 is written to GIE. *)
PollEnable ==
  /\ owed > 0
  /\ owed' = owed - 1
  /\ Regs(TRUE, isr, pending)
  /\ UNCHANGED << ier, res, open, handler, napiVars, pollVars, admin, unread,
                  boundVars >>

-----------------------------------------------------------------------------
(***************************************************************************)
(* udp_core_ndo_open and udp_core_ndo_stop, one action per register access *)
(* that the other parties can notice.                                      *)
(***************************************************************************)

AdminStep(from, to) == admin = from /\ admin' = to

AdminUnchanged == UNCHANGED << handler, pollVars, owed, pushes, failures >>

(* RES = 1, memory, port range, sockets. *)
OpenReset ==
  /\ AdminStep("down", "ier") /\ opens < MaxOpens
  /\ opens' = opens + 1
  /\ res' = TRUE /\ open' = TRUE
  /\ unread' = [p \in Ports |-> 0]
  /\ AdminUnchanged /\ UNCHANGED << regVars, napiVars >>

(* RES = 1 and then no memory for the buffers: open fails, the device      *)
(* stays in reset.                                                         *)
OpenNoMemory ==
  /\ admin = "down" /\ opens < MaxOpens /\ failures < MaxFailures
  /\ failures' = failures + 1
  /\ res' = TRUE
  /\ unread' = [p \in Ports |-> 0]
  /\ UNCHANGED << regVars, open, handler, napiVars, pollVars, owed, admin,
                  pushes, opens >>

OpenIer ==
  /\ AdminStep("ier", "gie")
  /\ ier' = TRUE
  /\ AdminUnchanged
  /\ UNCHANGED << gie, isr, pending, res, open, napiVars, unread, opens >>

OpenGie ==
  /\ AdminStep("gie", "run")
  /\ Regs(TRUE, isr, pending)
  /\ AdminUnchanged /\ UNCHANGED << ier, res, open, napiVars, unread, opens >>

OpenRun ==
  /\ AdminStep("run", "napi")
  /\ res' = FALSE
  /\ AdminUnchanged /\ UNCHANGED << regVars, open, napiVars, unread, opens >>

(* napi_enable clears the scheduled bit that netif_napi_add or             *)
(* napi_disable left behind.                                               *)
OpenNapi ==
  /\ AdminStep("napi", "up")
  /\ sched' = FALSE
  /\ AdminUnchanged
  /\ UNCHANGED << missed, disable, listed, regVars, res, open, unread, opens >>

(* RES = 1, memory freed, pops, sockets closed. *)
StopReset ==
  /\ AdminStep("up", "ier0")
  /\ res' = TRUE /\ open' = FALSE
  /\ unread' = [p \in Ports |-> 0]
  /\ AdminUnchanged /\ UNCHANGED << regVars, napiVars, opens >>

StopIer ==
  /\ AdminStep("ier0", "gie0")
  /\ ier' = FALSE
  /\ AdminUnchanged
  /\ UNCHANGED << gie, isr, pending, res, open, napiVars, unread, opens >>

StopGie ==
  /\ AdminStep("gie0", "run0")
  /\ Regs(FALSE, isr, pending)
  /\ AdminUnchanged /\ UNCHANGED << ier, res, open, napiVars, unread, opens >>

(* RES = 0; napi_disable begins. *)
StopRun ==
  /\ AdminStep("run0", "disable")
  /\ res' = FALSE
  /\ disable' = TRUE
  /\ AdminUnchanged
  /\ UNCHANGED << sched, missed, listed, regVars, open, unread, opens >>

(* napi_disable has waited for the last poll and takes the scheduled bit.  *)
StopNapi ==
  /\ AdminStep("disable", "down")
  /\ ~sched
  /\ sched' = TRUE /\ disable' = FALSE
  /\ AdminUnchanged
  /\ UNCHANGED << missed, listed, regVars, res, open, unread, opens >>

-----------------------------------------------------------------------------

Handler == HandlerMask \/ HandlerSchedule \/ HandlerAck

Poll == \/ PollStart \/ PollSkip \/ PollFind \/ PollReceive
        \/ PollAgain \/ PollComplete \/ PollExhausted

Admin == \/ OpenIer \/ OpenGie \/ OpenRun \/ OpenNapi
         \/ StopIer \/ StopGie \/ StopRun \/ StopNapi

Next ==
  \/ Handler
  \/ Poll
  \/ PollNoMemory
  \/ PollEnable
  \/ OpenReset
  \/ OpenNoMemory
  \/ StopReset
  \/ Admin
  \/ \E p \in Ports : Push(p) \/ HandlerAckPush(p)

Spec == Init /\ [][Next]_vars

(***************************************************************************)
(* Interrupts are delivered, handler and softirq run to their end and the  *)
(* open and stop calls return.  Nobody has to send, open or stop.          *)
(***************************************************************************)
Fairness ==
  /\ WF_vars(HandlerMask) /\ WF_vars(HandlerSchedule) /\ WF_vars(HandlerAck)
  /\ WF_vars(Poll) /\ WF_vars(PollEnable) /\ WF_vars(Admin)

FairSpec == Spec /\ Fairness

-----------------------------------------------------------------------------

(* Every register, flag and counter holds a value of its kind. *)
TypeOK ==
  /\ gie \in BOOLEAN /\ ier \in BOOLEAN /\ isr \in BOOLEAN
  /\ res \in BOOLEAN /\ open \in BOOLEAN /\ pending \in BOOLEAN
  /\ handler \in {"idle", "schedule", "ack", "ackListed"}
  /\ sched \in BOOLEAN /\ missed \in BOOLEAN
  /\ disable \in BOOLEAN /\ listed \in BOOLEAN
  /\ poll \in {"idle", "scan", "copy"}
  /\ port \in 1 .. NumPorts + 1 /\ found \in BOOLEAN
  /\ processed \in 0 .. Budget
  /\ owed \in Nat
  /\ admin \in {"down", "ier", "gie", "run", "napi", "up", "ier0", "gie0",
                "run0", "disable"}
  /\ unread \in [Ports -> 0 .. RingSize]
  /\ pushes \in 0 .. MaxPushes
  /\ failures \in 0 .. MaxFailures
  /\ opens \in 0 .. MaxOpens

(***************************************************************************)
(* While the interface is up, one party at a time owns the duty to look at *)
(* the rings.                                                              *)
(***************************************************************************)

(* A packet in one of the first n - 1 rings has left its mark in ISR0. *)
Marked(n) == \A p \in Ports : p < n /\ unread[p] > 0 => isr

NapiIdle == ~sched /\ ~listed /\ poll = "idle"

(* The device: the next push interrupts, or an interrupt is latched. *)
Armed ==
  /\ gie /\ handler = "idle" /\ NapiIdle /\ owed = 0
  /\ pending <=> isr
  /\ Marked(NumPorts + 1)

(* The handler. *)
Handling ==
  /\ ~gie /\ ~pending /\ poll = "idle" /\ owed = 0
  /\ \/ handler = "schedule" /\ NapiIdle
     \/ handler = "ackListed" /\ sched /\ listed

(* The poll function: what a scan has passed by is empty or marked. *)
Polling ==
  /\ ~gie /\ ~pending /\ handler = "idle" /\ owed = 0
  /\ sched /\ listed
  /\ poll = "scan" /\ ~found => Marked(port)
  /\ poll = "copy" => found

(* A poll that has completed and not yet written GIE. *)
Enabling ==
  /\ ~gie /\ ~pending /\ handler = "idle" /\ NapiIdle /\ owed = 1
  /\ Marked(NumPorts + 1)

(* The duty is never lost and never held twice: device, handler, poll      *)
(* function and completed poll hand it on without a lock, and GIE is on    *)
(* exactly while the device holds it.                                      *)
OneOwner ==
  admin = "up" =>
    /\ ier /\ ~disable /\ ~missed
    /\ Armed \/ Handling \/ Polling \/ Enabling

(* Some party is bound to look at the rings again. *)
Awake == pending \/ handler # "idle" \/ listed \/ owed > 0

(* No lost wake-up: while the interface is up, a packet in a ring always   *)
(* has an interrupt, a handler or a poll on its way to it, although ISR0   *)
(* is toggled by a write that may swallow a push, the interrupt is edge    *)
(* triggered, and poll and handler share GIE without a lock.               *)
NoLostWakeup ==
  admin = "up" /\ (\E p \in Ports : unread[p] > 0) => Awake

(* A packet in a ring is taken off it, or the interface goes down. *)
RxServed ==
  \A p \in Ports :
    (admin = "up" /\ unread[p] > 0) ~> (unread[p] = 0 \/ admin # "up")

(* Interrupt generation, disabled by the handler, is enabled again while   *)
(* the interface is up.                                                    *)
GieRestored == (admin = "up" /\ ~gie) ~> (gie \/ admin # "up")
=============================================================================
