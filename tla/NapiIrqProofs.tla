--------------------------- MODULE NapiIrqProofs ---------------------------
(***************************************************************************)
(* Proofs about NapiIrq for any number of ports, ring size, budget and     *)
(* traffic: type correctness, and, for an interface that is brought up     *)
(* once and sees no packet before napi_enable, that the duty to look at    *)
(* the rings always has an owner and no wake-up is lost.                   *)
(***************************************************************************)
EXTENDS NapiIrq, TLAPS

-----------------------------------------------------------------------------
(***************************************************************************)
(* Types, in groups: each is inductive by itself and suits a         *)
(* different prover.                                                       *)
(***************************************************************************)

RegFlags ==
  /\ gie \in BOOLEAN /\ ier \in BOOLEAN /\ isr \in BOOLEAN
  /\ res \in BOOLEAN /\ open \in BOOLEAN /\ pending \in BOOLEAN

NapiFlags ==
  /\ sched \in BOOLEAN /\ missed \in BOOLEAN
  /\ disable \in BOOLEAN /\ listed \in BOOLEAN /\ found \in BOOLEAN

Labels ==
  /\ handler \in {"idle", "schedule", "ack", "ackListed"}
  /\ poll \in {"idle", "scan", "copy"}
  /\ admin \in {"down", "ier", "gie", "run", "napi", "up", "ier0", "gie0",
                "run0", "disable"}

(* While a packet is being copied the loop variables are within the loop.  *)
Counters ==
  /\ poll = "copy" => port <= NumPorts /\ processed < Budget
  /\ port \in 1 .. NumPorts + 1 /\ processed \in 0 .. Budget
  /\ owed \in Nat
  /\ unread \in [Ports -> 0 .. RingSize]
  /\ pushes \in 0 .. MaxPushes
  /\ failures \in 0 .. MaxFailures
  /\ opens \in 0 .. MaxOpens

TypeInv == RegFlags /\ NapiFlags /\ Labels /\ Counters

(* The initial state is well typed. *)
LEMMA TypeInit == Init => TypeInv
<1> SUFFICES ASSUME Init PROVE TypeInv
  OBVIOUS
<1>1. RegFlags /\ NapiFlags
  BY Zenon DEF Init, RegFlags, NapiFlags
<1>2. Labels
  BY DEF Init, Labels
<1>3. Counters
  BY NapiAssumption DEF NapiAssumption, Init, Counters, Ports
<1> QED BY <1>1, <1>2, <1>3 DEF TypeInv

(* Every register bit stays a bit. *)
LEMMA RegFlagsStep == RegFlags /\ [Next]_vars => RegFlags'
  BY ZenonT(60)
     DEF RegFlags, Next, Handler, Poll, Admin, vars, regVars, napiVars, loopVars,
         pollVars, boundVars, HandlerMask, HandlerSchedule, Scheduled, HandlerAck,
         HandlerAckPush, Push, Regs, Line, PollUnchanged, PollStart, PollSkip,
         PollFind, PollReceive, PollAgain, PollComplete, Completed, PollExhausted,
         PollNoMemory, PollEnable, AdminStep, AdminUnchanged, OpenReset,
         OpenNoMemory, StopReset, OpenIer, OpenGie, OpenRun, OpenNapi, StopIer,
         StopGie, StopRun, StopNapi

(* Every flag in software stays a flag. *)
LEMMA NapiFlagsStep == NapiFlags /\ [Next]_vars => NapiFlags'
  BY ZenonT(60)
     DEF NapiFlags, Next, Handler, Poll, Admin, vars, regVars, napiVars, loopVars,
         pollVars, boundVars, HandlerMask, HandlerSchedule, Scheduled, HandlerAck,
         HandlerAckPush, Push, Regs, Line, PollUnchanged, PollStart, PollSkip,
         PollFind, PollReceive, PollAgain, PollComplete, Completed, PollExhausted,
         PollNoMemory, PollEnable, AdminStep, AdminUnchanged, OpenReset,
         OpenNoMemory, StopReset, OpenIer, OpenGie, OpenRun, OpenNapi, StopIer,
         StopGie, StopRun, StopNapi

(* Every program counter stays one. *)
LEMMA LabelsStep == Labels /\ [Next]_vars => Labels'
  BY Zenon
     DEF Labels, Next, Handler, Poll, Admin, vars, regVars, napiVars, loopVars,
         pollVars, boundVars, HandlerMask, HandlerSchedule, Scheduled, HandlerAck,
         HandlerAckPush, Push, Regs, Line, PollUnchanged, PollStart, PollSkip,
         PollFind, PollReceive, PollAgain, PollComplete, Completed, PollExhausted,
         PollNoMemory, PollEnable, AdminStep, AdminUnchanged, OpenReset,
         OpenNoMemory, StopReset, OpenIer, OpenGie, OpenRun, OpenNapi, StopIer,
         StopGie, StopRun, StopNapi

(* A pop leaves a ring's count within the ring. *)
LEMMA PopCountRange ==
  ASSUME NEW n \in 0 .. RingSize
  PROVE  PopCount(n) \in 0 .. RingSize
  BY NapiAssumption DEF NapiAssumption, PopCount

(* Every counter stays within its bounds. *)
LEMMA CountersStep == Counters /\ [Next]_vars => Counters'
<1> SUFFICES ASSUME Counters, [Next]_vars PROVE Counters'
  OBVIOUS
<1> USE NapiAssumption
    DEF NapiAssumption, Counters, Ports, regVars, napiVars, loopVars, pollVars,
        boundVars, PollUnchanged, AdminStep, AdminUnchanged
<1>1. CASE Handler
  BY <1>1, Zenon DEF Handler, HandlerMask, HandlerSchedule, HandlerAck
<1>2. CASE \E p \in Ports : Push(p) \/ HandlerAckPush(p)
  <2>1. PICK p \in Ports : /\ unread[p] < RingSize /\ pushes < MaxPushes
                           /\ unread' = [unread EXCEPT ![p] = @ + 1]
                           /\ pushes' = pushes + 1
                           /\ UNCHANGED << pollVars, owed, failures, opens >>
    BY <1>2, Zenon DEF Push, HandlerAckPush, CanPush
  <2> QED BY <2>1
<1>3. CASE PollStart
  BY <1>3 DEF PollStart
<1>4. CASE PollSkip
  BY <1>4 DEF PollSkip, Scanning
<1>5. CASE PollFind
  BY <1>5 DEF PollFind, Scanning
<1>6. CASE PollReceive
  <2>1. port \in Ports /\ processed + 1 \in 0 .. Budget
    BY <1>6 DEF PollReceive
  <2>2. unread' \in [Ports -> 0 .. RingSize]
    BY <1>6, <2>1, PopCountRange DEF PollReceive
  <2> QED BY <1>6, <2>1, <2>2 DEF PollReceive
<1>7. CASE PollAgain
  BY <1>7 DEF PollAgain, Scanned
<1>8. CASE PollComplete \/ PollExhausted
  <2>1. /\ owed' = owed + 1 \/ owed' = owed
        /\ poll' = "idle"
        /\ UNCHANGED << loopVars, unread, boundVars >>
    BY <1>8, Zenon DEF PollComplete, PollExhausted
  <2> QED BY <2>1
<1>9. CASE PollNoMemory
  BY <1>9 DEF PollNoMemory
<1>10. CASE PollEnable
  <2>1. owed > 0 /\ owed' = owed - 1 /\ UNCHANGED << pollVars, unread, boundVars >>
    BY <1>10, Zenon DEF PollEnable
  <2> QED BY <2>1
<1>11. CASE OpenReset \/ OpenNoMemory \/ StopReset
  <2>1. /\ unread' = [p \in Ports |-> 0]
        /\ \/ opens < MaxOpens /\ opens' = opens + 1 /\ failures' = failures
           \/ failures < MaxFailures /\ failures' = failures + 1 /\ opens' = opens
           \/ failures' = failures /\ opens' = opens
        /\ UNCHANGED << pollVars, owed, pushes >>
    BY <1>11, Zenon DEF OpenReset, OpenNoMemory, StopReset
  <2> QED BY <2>1
<1>12. CASE Admin
  BY <1>12, Zenon
     DEF Admin, OpenIer, OpenGie, OpenRun, OpenNapi, StopIer, StopGie, StopRun,
         StopNapi
<1>13. CASE UNCHANGED vars
  BY <1>13 DEF vars
<1> QED
  BY <1>1, <1>2, <1>3, <1>4, <1>5, <1>6, <1>7, <1>8, <1>9, <1>10, <1>11, <1>12,
     <1>13 DEF Next, Poll

(* The types are inductive. *)
LEMMA TypeStep == TypeInv /\ [Next]_vars => TypeInv'
  BY RegFlagsStep, NapiFlagsStep, LabelsStep, CountersStep DEF TypeInv

(* Registers, NAPI state, the poll loop's variables and the rings keep     *)
(* their types whatever handler, poll, open, stop and traffic do.          *)
THEOREM NapiTypeCorrect == Spec => []TypeOK
<1>1. TypeInv => TypeOK
  BY Zenon DEF TypeInv, RegFlags, NapiFlags, Labels, Counters, TypeOK
<1> QED BY TypeInit, TypeStep, <1>1, PTL DEF Spec

-----------------------------------------------------------------------------
(***************************************************************************)
(* The duty to look at the rings.  Before the first napi_enable nothing    *)
(* has happened yet; from then on until stop OneOwner is inductive.        *)
(***************************************************************************)

(* The interface is brought up at most once, and no packet comes in before *)
(* napi_enable: what the repository's open sequence needs to be correct.   *)
SingleOpen == MaxOpens <= 1 /\ ~EarlyTraffic

Untouched ==
  /\ ~isr /\ ~pending /\ handler = "idle" /\ owed = 0 /\ poll = "idle"
  /\ ~missed /\ ~disable /\ ~listed
  /\ gie <=> admin \in {"run", "napi"}
  /\ ier <=> admin \in {"gie", "run", "napi"}
  /\ \A p \in Ports : unread[p] = 0

NotYetUp == (admin = "down" /\ opens = 0) \/ admin \in {"ier", "gie", "run", "napi"}

Before ==
  /\ admin # "down" => opens > 0
  /\ NotYetUp => Untouched

OwnerInv == TypeInv /\ Before /\ OneOwner

(* Nothing has happened yet in the initial state. *)
LEMMA OwnerInit == Init => OwnerInv
<1> SUFFICES ASSUME Init PROVE OwnerInv
  OBVIOUS
<1>1. TypeInv
  BY TypeInit
<1>2. OneOwner
  BY DEF Init, OneOwner
<1>3. \A p \in Ports : unread[p] = 0
  BY DEF Init
<1>4. Before
  BY <1>3, Zenon DEF Init, Before, NotYetUp, Untouched
<1> QED BY <1>1, <1>2, <1>4 DEF OwnerInv

(* Steps of handler, poll function and traffic: none is possible before    *)
(* the interface is up, and none ends that phase.                          *)
LEMMA BeforeOthers ==
  ASSUME TypeInv, Before, SingleOpen,
         \/ Handler \/ Poll \/ PollNoMemory \/ PollEnable
         \/ \E p \in Ports : Push(p) \/ HandlerAckPush(p)
  PROVE  Before'
<1>1. admin' = admin /\ opens' = opens
  BY Zenon
     DEF Handler, Poll, regVars, boundVars, HandlerMask, HandlerSchedule,
         HandlerAck, HandlerAckPush, Push, PollUnchanged, PollStart, PollSkip,
         PollFind, PollReceive, PollAgain, PollComplete, PollExhausted,
         PollNoMemory, PollEnable
<1>2. ~NotYetUp
  <2> SUFFICES ASSUME NotYetUp PROVE FALSE
    OBVIOUS
  <2>1. Untouched /\ admin # "up"
    BY Zenon DEF Before, NotYetUp
  <2>2. ~(owed > 0)
    BY <2>1 DEF Untouched
  <2> QED
    BY <2>1, <2>2, Zenon
       DEF Untouched, SingleOpen, Handler, Poll, HandlerMask, HandlerSchedule,
           HandlerAck, HandlerAckPush, Push, CanPush, PollStart, Scanned, Scanning,
           PollSkip, PollFind, PollReceive, PollAgain, PollComplete, PollExhausted,
           PollNoMemory, PollEnable
<1> QED BY <1>1, <1>2, Zenon DEF Before, NotYetUp

(* Steps of open. *)
LEMMA BeforeOpen ==
  ASSUME TypeInv, Before, SingleOpen,
         OpenReset \/ OpenNoMemory \/ OpenIer \/ OpenGie \/ OpenRun \/ OpenNapi
  PROVE  Before'
<1> USE DEF AdminStep, AdminUnchanged, regVars, napiVars, pollVars, loopVars
<1>1. opens \in Nat /\ MaxOpens \in Nat /\ MaxOpens <= 1
  BY NapiAssumption DEF NapiAssumption, TypeInv, Counters, SingleOpen
<1>2. CASE OpenReset
  <2>1. admin = "down" /\ opens < MaxOpens
    BY <1>2 DEF OpenReset
  <2>2. NotYetUp /\ opens + 1 > 0
    BY <1>1, <2>1 DEF NotYetUp
  <2>3. \A p \in Ports : unread'[p] = 0
    BY <1>2, Zenon DEF OpenReset
  <2> QED BY <1>2, <2>1, <2>2, <2>3, Zenon DEF OpenReset, Before, NotYetUp, Untouched
<1>3. CASE OpenNoMemory
  <2>1. \A p \in Ports : unread'[p] = 0
    BY <1>3, Zenon DEF OpenNoMemory
  <2> QED BY <1>3, <2>1, Zenon DEF OpenNoMemory, Before, NotYetUp, Untouched
<1>4. CASE OpenIer
  BY <1>4, Zenon DEF OpenIer, Before, NotYetUp, Untouched
<1>5. CASE OpenGie
  BY <1>5, Zenon DEF OpenGie, Regs, Line, Before, NotYetUp, Untouched
<1>6. CASE OpenRun
  BY <1>6, Zenon DEF OpenRun, Before, NotYetUp, Untouched
<1>7. CASE OpenNapi
  BY <1>7, Zenon DEF OpenNapi, Before, NotYetUp, Untouched
<1> QED BY <1>2, <1>3, <1>4, <1>5, <1>6, <1>7

(* Steps of stop. *)
LEMMA BeforeStop ==
  ASSUME TypeInv, Before,
         StopReset \/ StopIer \/ StopGie \/ StopRun \/ StopNapi
  PROVE  Before'
<1>1. admin # "down" /\ opens' = opens
  BY Zenon DEF AdminStep, StopReset, StopIer, StopGie, StopRun, StopNapi
<1>2. opens > 0 /\ opens # 0
  BY <1>1 DEF Before, TypeInv, Counters
<1>3. admin' \in {"ier0", "gie0", "run0", "disable", "down"}
  BY Zenon DEF AdminStep, StopReset, StopIer, StopGie, StopRun, StopNapi
<1> QED BY <1>1, <1>2, <1>3, Zenon DEF Before, NotYetUp

-----------------------------------------------------------------------------

(* What OneOwner says of a state in which the interface is up. *)
OwnerUp == ier /\ ~disable /\ ~missed /\ (Armed \/ Handling \/ Polling \/ Enabling)

(* A push marks its packet, whoever owns the duty. *)
LEMMA OwnerPush ==
  ASSUME TypeInv, OwnerUp, NEW q \in Ports, Push(q)
  PROVE  OwnerUp'
<1>1. isr' = TRUE /\ gie' = gie
  BY Zenon DEF OwnerUp, Push, Regs
<1>2. pending' = (pending \/ (gie /\ ~(gie /\ isr)))
  BY <1>1, Zenon DEF Push, Regs, Line
<1>3. UNCHANGED << ier, handler, sched, missed, disable, listed, poll, port, found,
                   owed >>
  BY Zenon DEF Push, napiVars, pollVars, loopVars
<1>4. isr \in BOOLEAN /\ pending \in BOOLEAN /\ gie \in BOOLEAN
  BY Zenon DEF TypeInv, RegFlags
<1>5. (\A n : Marked(n))'
  BY <1>1, Zenon DEF Marked
<1>6. CASE Armed
  BY <1>1, <1>2, <1>3, <1>4, <1>5, <1>6, Zenon DEF OwnerUp, Armed, NapiIdle, Marked
<1>7. CASE Handling
  BY <1>1, <1>2, <1>3, <1>7, Zenon DEF OwnerUp, Handling, NapiIdle
<1>8. CASE Polling
  BY <1>1, <1>2, <1>3, <1>5, <1>8, Zenon DEF OwnerUp, Polling, Marked
<1>9. CASE Enabling
  BY <1>1, <1>2, <1>3, <1>5, <1>9, Zenon DEF OwnerUp, Enabling, NapiIdle, Marked
<1> QED BY <1>6, <1>7, <1>8, <1>9 DEF OwnerUp

(* The handler takes the duty from the device and gives it to the poll     *)
(* function, which has not begun and will look at every ring: it does not  *)
(* matter what the write to ISR0 leaves there.                             *)
LEMMA OwnerHandler ==
  ASSUME TypeInv, OwnerUp, Handler \/ \E p \in Ports : HandlerAckPush(p)
  PROVE  OwnerUp'
<1> USE DEF regVars, napiVars, pollVars, loopVars
<1>1. CASE HandlerMask
  <2>1. Armed
    BY <1>1, Zenon DEF OwnerUp, HandlerMask, Handling, Polling, Enabling
  <2>2. ~gie' /\ ~pending'
    BY <1>1, Zenon DEF HandlerMask, Regs, Line
  <2>3. Handling'
    BY <1>1, <2>1, <2>2, Zenon DEF HandlerMask, Armed, Handling, NapiIdle
  <2> QED BY <1>1, <2>3, Zenon DEF OwnerUp, HandlerMask
<1>2. CASE HandlerSchedule
  <2>1. Handling /\ ~sched /\ ~disable
    BY <1>2, Zenon
       DEF OwnerUp, HandlerSchedule, Armed, Handling, Polling, Enabling, NapiIdle
  <2>2. /\ sched' = TRUE /\ listed' = TRUE /\ missed' = missed /\ disable' = disable
        /\ handler' = IF sched \/ disable THEN "ack" ELSE "ackListed"
    BY <1>2, <2>1, Zenon DEF HandlerSchedule, Scheduled
  <2>3. handler' = "ackListed"
    BY <2>1, <2>2, Zenon
  <2>4. Handling'
    BY <1>2, <2>1, <2>2, <2>3, Zenon DEF HandlerSchedule, Handling
  <2> QED BY <1>2, <2>2, <2>4, Zenon DEF OwnerUp, HandlerSchedule
<1>3. CASE HandlerAck \/ \E p \in Ports : HandlerAckPush(p)
  <2>1. /\ handler \in {"ack", "ackListed"} /\ handler' = "idle"
        /\ gie' = gie
        /\ pending' = (pending \/ (gie /\ ~isr /\ ~(gie /\ isr)))
        /\ UNCHANGED << ier, sched, missed, disable, listed, poll, found, port, owed >>
    BY <1>3, Zenon DEF HandlerAck, HandlerAckPush, Regs, Line
  <2>2. Handling /\ handler = "ackListed"
    BY <2>1, Zenon DEF OwnerUp, Armed, Handling, Polling, Enabling
  <2>3. Polling'
    BY <2>1, <2>2, Zenon DEF Handling, Polling
  <2> QED BY <2>1, <2>3, Zenon DEF OwnerUp
<1> QED BY <1>1, <1>2, <1>3 DEF Handler

(* Only the owner polls. *)
LEMMA PollOwns ==
  ASSUME OwnerUp, Poll \/ PollNoMemory
  PROVE  Polling
  BY Zenon
     DEF OwnerUp, Poll, Armed, Handling, Polling, Enabling, NapiIdle, PollStart,
         Scanned, Scanning, PollSkip, PollFind, PollReceive, PollAgain,
         PollComplete, PollExhausted, PollNoMemory

(* The poll function keeps the duty while it scans, and hands it on with   *)
(* napi_complete only after a scan that has passed by every ring.          *)
LEMMA OwnerPoll ==
  ASSUME TypeInv, OwnerUp, Poll \/ PollNoMemory
  PROVE  OwnerUp'
<1> USE DEF regVars, napiVars, pollVars, loopVars, PollUnchanged
<1>1. Polling /\ ier /\ ~disable /\ ~missed
  BY PollOwns, Zenon DEF OwnerUp
<1>2. UNCHANGED << gie, pending, handler, ier, isr >>
  BY Zenon
     DEF Poll, PollStart, PollSkip, PollFind, PollReceive, PollAgain, PollComplete,
         PollExhausted, PollNoMemory
<1>3. CASE PollStart \/ PollAgain
  <2>1. port' = 1 /\ poll' = "scan" /\ UNCHANGED << sched, missed, disable, listed, owed >>
    BY <1>3, Zenon DEF PollStart, PollAgain, Scanned
  <2>2. Marked(port)'
    BY <2>1, NapiAssumption DEF NapiAssumption, Marked, Ports
  <2>3. Polling'
    BY <1>1, <1>2, <2>1, <2>2, Zenon DEF Polling
  <2> QED BY <1>1, <1>2, <2>1, <2>3, Zenon DEF OwnerUp
<1>4. CASE PollSkip
  <2>1. /\ unread[port] = 0 /\ port' = port + 1 /\ poll = "scan"
        /\ UNCHANGED << poll, found, sched, missed, disable, listed, owed, unread >>
    BY <1>4, Zenon DEF PollSkip, Scanning
  <2>2. ASSUME Marked(port) PROVE Marked(port)'
    <3> SUFFICES ASSUME NEW p \in Ports, p < port + 1, unread[p] > 0 PROVE isr
      BY <1>2, <2>1, Zenon DEF Marked
    <3>1. p < port
      BY <2>1 DEF Ports, TypeInv, Counters
    <3> QED BY <2>2, <3>1, Zenon DEF Marked
  <2>3. Polling'
    BY <1>1, <1>2, <2>1, <2>2, Zenon DEF Polling
  <2> QED BY <1>1, <1>2, <2>1, <2>3, Zenon DEF OwnerUp
<1>5. CASE PollFind
  <2>1. /\ poll' = "copy" /\ found' = TRUE
        /\ UNCHANGED << sched, missed, disable, listed, owed >>
    BY <1>5, Zenon DEF PollFind
  <2>2. Polling'
    BY <1>1, <1>2, <2>1, Zenon DEF Polling
  <2> QED BY <1>1, <1>2, <2>1, <2>2, Zenon DEF OwnerUp
<1>6. CASE PollReceive \/ PollNoMemory
  <2>1. /\ poll' = "scan" /\ found' = found /\ poll = "copy"
        /\ UNCHANGED << sched, missed, disable, listed, owed >>
    BY <1>6, Zenon DEF PollReceive, PollNoMemory
  <2>2. Polling'
    BY <1>1, <1>2, <2>1, Zenon DEF Polling
  <2> QED BY <1>1, <1>2, <2>1, <2>2, Zenon DEF OwnerUp
<1>7. CASE PollComplete
  <2>1. /\ poll = "scan" /\ ~found /\ ~Scanning /\ processed < Budget
        /\ poll' = "idle" /\ sched' = FALSE /\ listed' = FALSE
        /\ UNCHANGED << missed, disable, unread >>
        /\ owed' = owed + 1
    BY <1>1, <1>7, Zenon DEF PollComplete, Scanned, Completed
  <2>2. port = NumPorts + 1
    BY <2>1, NapiAssumption DEF NapiAssumption, Scanning, TypeInv, Counters
  <2>3. Marked(NumPorts + 1)
    BY <1>1, <2>1, <2>2, Zenon DEF Polling
  <2>4. \A p \in Ports : p < NumPorts + 1 /\ unread'[p] > 0 => isr'
    BY <1>2, <2>1, <2>3, Zenon DEF Marked
  <2>5. owed' = 1
    BY <1>1, <2>1 DEF Polling
  <2>6. Enabling'
    BY <1>1, <1>2, <2>1, <2>4, <2>5, Zenon DEF Polling, Enabling, NapiIdle, Marked
  <2> QED BY <1>1, <1>2, <2>1, <2>6, Zenon DEF OwnerUp
<1>8. CASE PollExhausted
  <2>1. /\ poll' = "idle" /\ sched' = (sched /\ ~disable)
        /\ listed' = (listed /\ ~disable)
        /\ UNCHANGED << missed, disable, owed >>
    BY <1>8, Zenon DEF PollExhausted
  <2>2. Polling'
    BY <1>1, <1>2, <2>1, Zenon DEF Polling
  <2> QED BY <1>1, <1>2, <2>1, <2>2, Zenon DEF OwnerUp
<1> QED BY <1>3, <1>4, <1>5, <1>6, <1>7, <1>8, Zenon DEF Poll

(* The write to GIE gives the duty back to the device; what was marked     *)
(* meanwhile interrupts at once.                                           *)
LEMMA OwnerEnable ==
  ASSUME TypeInv, OwnerUp, PollEnable
  PROVE  OwnerUp'
<1> USE DEF regVars, napiVars, pollVars, loopVars
<1>1. owed > 0 /\ owed' = owed - 1
  BY Zenon DEF PollEnable
<1>2. owed # 0
  BY <1>1
<1>3. Enabling
  BY <1>2, Zenon DEF OwnerUp, Armed, Handling, Polling
<1>4. owed' = 0
  BY <1>1, <1>3 DEF Enabling
<1>5. /\ gie' = TRUE /\ isr' = isr
      /\ pending' = (pending \/ (isr /\ ~(gie /\ isr)))
      /\ UNCHANGED << ier, handler, sched, missed, disable, listed, poll, unread >>
  BY Zenon DEF PollEnable, Regs, Line
<1>6. Marked(NumPorts + 1)'
  BY <1>3, <1>5, Zenon DEF Enabling, Marked
<1>7. Armed'
  BY <1>3, <1>4, <1>5, <1>6, Zenon DEF Enabling, Armed, NapiIdle
<1> QED BY <1>5, <1>7, Zenon DEF OwnerUp

(* napi_enable gives the duty to the device. *)
LEMMA OwnerNapi ==
  ASSUME TypeInv, Before, OpenNapi
  PROVE  OwnerUp'
<1>1. Untouched /\ gie /\ ier
  BY Zenon DEF Before, NotYetUp, Untouched, OpenNapi, AdminStep
<1>2. /\ sched' = FALSE
      /\ UNCHANGED << gie, ier, isr, pending, handler, missed, disable, listed, poll,
                      owed, unread >>
  BY Zenon DEF OpenNapi, AdminUnchanged, regVars, pollVars, loopVars
<1>3. ASSUME NEW p \in Ports PROVE ~(unread[p] > 0)
  BY <1>1 DEF Untouched
<1>4. Marked(NumPorts + 1)'
  BY <1>2, <1>3, Zenon DEF Marked
<1>5. Armed'
  BY <1>1, <1>2, <1>4, Zenon DEF Untouched, Armed, NapiIdle
<1> QED BY <1>1, <1>2, <1>5, Zenon DEF OwnerUp, Untouched

-----------------------------------------------------------------------------

(* OneOwner is preserved: up comes from napi_enable or was there before. *)
LEMMA OwnerStep == SingleOpen /\ OwnerInv /\ [Next]_vars => OwnerInv'
<1> SUFFICES ASSUME SingleOpen, OwnerInv, [Next]_vars PROVE OwnerInv'
  OBVIOUS
<1>1. TypeInv /\ Before /\ (admin = "up" => OwnerUp)
  BY Zenon DEF OwnerInv, OneOwner, OwnerUp
<1>2. TypeInv'
  BY <1>1, TypeStep
<1>3. CASE UNCHANGED vars
  <2> USE DEF vars, regVars, napiVars, pollVars, loopVars, boundVars
  <2>1. Before'
    BY <1>1, <1>3, Zenon DEF Before, NotYetUp, Untouched
  <2>2. OneOwner'
    BY <1>3, Zenon DEF OwnerInv, OneOwner, Armed, Handling, Polling, Enabling,
                       NapiIdle, Marked
  <2> QED BY <1>2, <2>1, <2>2 DEF OwnerInv
<1>4. CASE OpenReset \/ OpenNoMemory \/ OpenIer \/ OpenGie \/ OpenRun \/ OpenNapi
  <2>1. Before'
    BY <1>1, <1>4, BeforeOpen
  <2>2. CASE OpenNapi
    BY <1>1, <1>2, <2>1, <2>2, OwnerNapi, Zenon DEF OwnerInv, OneOwner, OwnerUp
  <2>3. CASE ~OpenNapi
    <3>1. admin' # "up"
      BY <1>4, <2>3, Zenon
         DEF AdminStep, OpenReset, OpenNoMemory, OpenIer, OpenGie, OpenRun
    <3> QED BY <1>2, <2>1, <3>1, Zenon DEF OwnerInv, OneOwner
  <2> QED BY <2>2, <2>3
<1>5. CASE StopReset \/ StopIer \/ StopGie \/ StopRun \/ StopNapi
  <2>1. Before'
    BY <1>1, <1>5, BeforeStop
  <2>2. admin' # "up"
    BY <1>5, Zenon DEF AdminStep, StopReset, StopIer, StopGie, StopRun, StopNapi
  <2> QED BY <1>2, <2>1, <2>2, Zenon DEF OwnerInv, OneOwner
<1>6. CASE \/ Handler \/ Poll \/ PollNoMemory \/ PollEnable
           \/ \E p \in Ports : Push(p) \/ HandlerAckPush(p)
  <2>1. Before'
    BY <1>1, <1>6, BeforeOthers
  <2>2. admin' = admin
    BY <1>6, Zenon
       DEF Handler, Poll, HandlerMask, HandlerSchedule, HandlerAck, HandlerAckPush,
           Push, PollUnchanged, PollStart, PollSkip, PollFind, PollReceive,
           PollAgain, PollComplete, PollExhausted, PollNoMemory, PollEnable
  <2>3. admin = "up" => OwnerUp'
    BY <1>1, <1>6, OwnerHandler, OwnerPoll, OwnerEnable, OwnerPush, Zenon
  <2> QED BY <1>2, <2>1, <2>2, <2>3, Zenon DEF OwnerInv, OneOwner, OwnerUp
<1> QED BY <1>3, <1>4, <1>5, <1>6, Zenon DEF Next, Admin

(* While the interface is up, exactly one of device, handler, poll         *)
(* function and completed poll has the duty to look at the rings, for any  *)
(* number of ports, ring size, budget and traffic.                         *)
THEOREM OneOwnerCorrect == SingleOpen => (Spec => []OneOwner)
<1> SUFFICES ASSUME SingleOpen PROVE Spec => []OneOwner
  OBVIOUS
<1>1. OwnerInv => OneOwner
  BY DEF OwnerInv
<1>2. OwnerInv /\ [Next]_vars => OwnerInv'
  BY OwnerStep
<1> QED BY OwnerInit, <1>1, <1>2, PTL DEF Spec

(* No wake-up is lost: a packet in a ring always has an interrupt, a       *)
(* handler or a poll on its way to it while the interface is up.           *)
THEOREM NoLostWakeupCorrect == SingleOpen => (Spec => []NoLostWakeup)
<1> SUFFICES ASSUME SingleOpen PROVE Spec => []NoLostWakeup
  OBVIOUS
<1>1. OwnerInv => NoLostWakeup
  <2> SUFFICES ASSUME OwnerInv, admin = "up", NEW p \in Ports, unread[p] > 0
               PROVE  Awake
    BY Zenon DEF NoLostWakeup
  <2>1. OwnerUp
    BY Zenon DEF OwnerInv, OneOwner, OwnerUp
  <2>2. p < NumPorts + 1
    BY NapiAssumption DEF NapiAssumption, Ports
  <2>3. CASE Armed
    BY <2>2, <2>3, Zenon DEF Armed, Marked, Awake
  <2>4. CASE Handling
    BY <2>4 DEF Handling, Awake
  <2>5. CASE Polling
    BY <2>5, Zenon DEF Polling, Awake
  <2>6. CASE Enabling
    BY <2>6 DEF Enabling, Awake
  <2> QED BY <2>1, <2>3, <2>4, <2>5, <2>6 DEF OwnerUp
<1>2. OwnerInv /\ [Next]_vars => OwnerInv'
  BY OwnerStep
<1> QED BY OwnerInit, <1>1, <1>2, PTL DEF Spec
=============================================================================
