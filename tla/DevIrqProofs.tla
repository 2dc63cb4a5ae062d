---------------------------- MODULE DevIrqProofs ----------------------------
(***************************************************************************)
(* Proofs about DevIrq for any number of threads, ring size, traffic and   *)
(* loads of the module: the handler finds what it uses, the interrupt line *)
(* never sticks, and an unloaded module leaves nothing behind.             *)
(***************************************************************************)
EXTENDS DevIrq, TLAPS

(* The steps of dev_irq_mod_init, by position. *)
LEMMA InitStepsAt ==
  /\ Len(InitSteps) = 6
  /\ InitSteps[1] = "driver" /\ InitSteps[2] = "map"
  /\ InitSteps[3] = "misc" /\ InitSteps[4] = "wq"
  /\ InitSteps[5] = "ier" /\ InitSteps[6] = "gie"
  BY DEF InitSteps

(* The steps of dev_irq_mod_exit, by position. *)
LEMMA ExitStepsAt ==
  /\ Len(ExitSteps) = 4
  /\ ExitSteps[1] = "driver" /\ ExitSteps[2] = "ier"
  /\ ExitSteps[3] = "gie" /\ ExitSteps[4] = "misc"
  BY DEF ExitSteps

-----------------------------------------------------------------------------
(* Where loading and unloading are. *)
Places ==
  /\ stage \in {"unloaded", "loading", "loaded", "unloading", "dead"}
  /\ stage = "loading" => at \in 1 .. 6
  /\ stage = "unloading" => at \in 1 .. 4

(* What is there at each step; the device cannot raise its line before the *)
(* last step of loading nor after the third of unloading.                  *)
Account ==
  /\ stage = "unloaded" => ~irq /\ ~misc /\ ~ier /\ ~gie
  /\ stage = "loading" => ~gie
  /\ stage = "loading" /\ at = 1 => ~irq /\ ~misc
  /\ stage = "loading" /\ at > 2 => mapped
  /\ stage = "loading" /\ at > 4 => wq
  /\ stage \in {"loaded", "unloading"} => mapped /\ wq
  /\ stage = "unloading" /\ at > 1 => ~irq
  /\ stage = "unloading" /\ at > 2 => ~ier
  /\ stage = "unloading" /\ at > 3 => ~gie
  /\ stage = "dead" => ~gie

(* A handler that runs or is about to run finds what it uses. *)
Ready ==
  /\ handler # "idle" => irq
  /\ handler # "idle" => (mapped /\ wq) \/ stale
  /\ irq /\ pending => (mapped /\ wq) \/ stale

(* Registers and flags are bits. *)
Flags ==
  /\ irq \in BOOLEAN /\ mapped \in BOOLEAN /\ misc \in BOOLEAN
  /\ wq \in BOOLEAN /\ stale \in BOOLEAN
  /\ ier \in BOOLEAN /\ gie \in BOOLEAN /\ isr \in BOOLEAN
  /\ pending \in BOOLEAN

(* The inductive invariant. *)
DevInv == Places /\ Account /\ Ready /\ Flags /\ IrqRearmed

-----------------------------------------------------------------------------
(* A push leaves GIE alone; the edge it may raise needs GIE. *)
LEMMA PushInv ==
  ASSUME DevInv, NEW r \in Readers, PushIrq(r)
  PROVE  DevInv'
  BY DEF DevInv, Places, Account, Ready, Flags, IrqRearmed, PushIrq, Regs,
         Line, moduleVars

(* The handler's toggle of ISR0 either lowers the line or raises an edge.  *)
LEMMA HandlerInv ==
  ASSUME DevInv, stage # "dead", Handler
  PROVE  DevInv'
<1> USE DEF DevInv, Places, Account, Ready, Flags, IrqRearmed, Line,
            moduleVars, regVars
<1>1. CASE HandlerSet
  BY <1>1 DEF HandlerSet
<1>2. CASE HandlerWake
  BY <1>2 DEF HandlerWake
<1>3. CASE HandlerAck
  BY <1>3 DEF HandlerAck, Regs, Acked
<1>4. ASSUME NEW r \in Readers, HandlerAckPush(r) PROVE DevInv'
  BY <1>4 DEF HandlerAckPush, Regs, Acked
<1> QED
  BY <1>1, <1>2, <1>3, <1>4 DEF Handler

(* Threads touch neither the module's state nor the registers. *)
LEMMA ReaderInv ==
  ASSUME DevInv, NEW r \in Readers,
         \/ OpenFile(r)
         \/ CloseFile(r)
         \/ Recv(r)
         \/ InRecv(r)
         \/ Signal(r)
  PROVE  DevInv'
<1>1. UNCHANGED << moduleVars, regVars, handler >>
  BY DEF OpenFile, CloseFile, Recv, InRecv, ReadClear, ReadCheck, Look,
         Signal, ReaderLeaves
<1> QED
  BY <1>1 DEF DevInv, Places, Account, Ready, Flags, IrqRearmed, Line,
              moduleVars, regVars

(* Loading and unloading, a step at a time. *)
LEMMA ModuleInv ==
  ASSUME DevInv, ModuleStep
  PROVE  DevInv'
<1> USE InitStepsAt, ExitStepsAt
    DEF DevInv, Places, Account, Ready, Flags, IrqRearmed, Line, OtherVars,
        regVars, Loading, Unloading
<1>1. CASE Load
  <2>1. stage' = "loading" /\ at' = 1 /\ ~irq' /\ ~misc' /\ ~gie'
    BY <1>1 DEF Load
  <2>2. Places' /\ Account'
    BY <2>1
  <2>3. Ready' /\ Flags' /\ IrqRearmed'
    BY <1>1, <2>1 DEF Load
  <2> QED
    BY <2>2, <2>3
<1>2. ASSUME NEW found \in BOOLEAN, RegisterDriver(found) PROVE DevInv'
  BY <1>2 DEF RegisterDriver
<1>3. CASE MapRegisters
  BY <1>3 DEF MapRegisters
<1>4. CASE RegisterFile
  BY <1>4 DEF RegisterFile
<1>5. CASE InitWaitQueue
  BY <1>5 DEF InitWaitQueue
<1>6. CASE Enable
  <2> UNCHANGED << irq, mapped, misc, wq, loads, stale, OtherVars >>
    BY <1>6 DEF Enable
  <2>1. ASSUME Loading("ier"), Regs(TRUE, gie, isr, pending)
        PROVE  DevInv'
    <3>1. stage = "loading" /\ at = 5 /\ stage' = "loading" /\ at' = 6
      BY <2>1
    <3>2. Places' /\ Account'
      BY <2>1, <3>1 DEF Regs
    <3>3. Ready' /\ Flags' /\ IrqRearmed'
      BY <2>1, <3>1 DEF Regs
    <3> QED
      BY <3>2, <3>3
  <2>2. ASSUME Loading("gie"), Regs(ier, TRUE, isr, pending)
        PROVE  DevInv'
    <3>1. stage = "loading" /\ at = 6 /\ stage' = "loaded" /\ at' = 6
      BY <2>2
    <3>2. Places' /\ Account'
      BY <2>2, <3>1 DEF Regs
    <3>3. Ready' /\ Flags' /\ IrqRearmed'
      BY <2>2, <3>1 DEF Regs
    <3> QED
      BY <3>2, <3>3
  <2> QED
    <3> HIDE DEF DevInv, Loading, Unloading
    <3> QED
      BY <1>6, <2>1, <2>2 DEF Enable
<1>7. CASE LoadFails
  BY <1>7 DEF LoadFails
<1>8. CASE Unload
  BY <1>8 DEF Unload
<1>9. CASE UnregisterDriver
  <2>1. stage = "unloading" /\ at = 1 /\ stage' = "unloading" /\ at' = 2
    BY <1>9 DEF UnregisterDriver
  <2>2. Places' /\ Account'
    BY <1>9, <2>1 DEF UnregisterDriver
  <2>3. Ready' /\ Flags' /\ IrqRearmed'
    BY <1>9 DEF UnregisterDriver
  <2> QED
    BY <2>2, <2>3
<1>10. CASE Disable
  <2> UNCHANGED << irq, mapped, misc, wq, loads, stale, OtherVars >>
    BY <1>10 DEF Disable
  <2>1. ASSUME Unloading("ier"), Regs(FALSE, gie, isr, pending)
        PROVE  DevInv'
    <3>1. stage = "unloading" /\ at = 2 /\ stage' = "unloading" /\ at' = 3
      BY <2>1
    <3>2. Places' /\ Account'
      BY <2>1, <3>1 DEF Regs
    <3>3. Ready' /\ Flags' /\ IrqRearmed'
      BY <2>1, <3>1 DEF Regs
    <3> QED
      BY <3>2, <3>3
  <2>2. ASSUME Unloading("gie"), Regs(ier, FALSE, isr, pending)
        PROVE  DevInv'
    <3>1. stage = "unloading" /\ at = 3 /\ stage' = "unloading" /\ at' = 4
      BY <2>2
    <3>2. Places' /\ Account'
      BY <2>2, <3>1 DEF Regs
    <3>3. Ready' /\ Flags' /\ IrqRearmed'
      BY <2>2, <3>1 DEF Regs
    <3> QED
      BY <3>2, <3>3
  <2> QED
    <3> HIDE DEF DevInv, Loading, Unloading
    <3> QED
      BY <1>10, <2>1, <2>2 DEF Disable
<1>11. CASE DeregisterFile
  <2>1. stage = "unloading" /\ at = 4 /\ stage' = "unloaded"
    BY <1>11 DEF DeregisterFile
  <2>2. Places' /\ Account'
    BY <1>11, <2>1 DEF DeregisterFile
  <2>3. Ready' /\ Flags' /\ IrqRearmed'
    BY <1>11 DEF DeregisterFile
  <2> QED
    BY <2>2, <2>3
<1> QED
  BY <1>1, <1>2, <1>3, <1>4, <1>5, <1>6, <1>7, <1>8, <1>9, <1>10, <1>11
     DEF ModuleStep

(* DevInv holds of whatever the module, its handler, the device and the   *)
(* threads do.                                                             *)
LEMMA DevInvariant == Spec => []DevInv
<1>1. Init => DevInv
  BY DEF Init, DevInv, Places, Account, Ready, Flags, IrqRearmed, Line
<1>2. DevInv /\ [Next]_vars => DevInv'
  <2> SUFFICES ASSUME DevInv, [Next]_vars PROVE DevInv'
    OBVIOUS
  <2>1. CASE UNCHANGED vars
    BY <2>1 DEF vars, moduleVars, regVars, DevInv, Places, Account, Ready,
                Flags, IrqRearmed, Line
  <2>2. CASE Next
    BY <2>2, PushInv, HandlerInv, ReaderInv, ModuleInv DEF Next
  <2> QED
    BY <2>1, <2>2
<1> QED
  BY <1>1, <1>2, PTL DEF Spec

-----------------------------------------------------------------------------
(* dev_irq_irq runs with its registers mapped and its wait queue set up,   *)
(* except for an edge left over from an earlier load of the module.        *)
THEOREM HandlerSafeCorrect == Spec => []HandlerSafe
<1>1. DevInv => HandlerSafe
  BY DEF DevInv, Ready, HandlerSafe
<1> QED
  BY <1>1, DevInvariant, PTL

(* The interrupt line is never high without an edge to serve or a handler  *)
(* under way, although ISR0 is toggled and pushes come at any time.        *)
THEOREM IrqRearmedCorrect == Spec => []IrqRearmed
<1>1. DevInv => IrqRearmed
  BY DEF DevInv
<1> QED
  BY <1>1, DevInvariant, PTL

(* dev_irq_mod_exit leaves the handler and the file unregistered and the   *)
(* device quiet.                                                           *)
THEOREM CleanUnloadCorrect == Spec => []CleanUnload
<1>1. DevInv => CleanUnload
  BY DEF DevInv, Account, CleanUnload, Line
<1> QED
  BY <1>1, DevInvariant, PTL

-----------------------------------------------------------------------------
(* Where a thread may be. *)
Place == {"closed", "idle", "clear", "check", "sleep", "look", "crashed"}

(* The handler, the flag it sets, the threads and their rings. *)
Traffic ==
  /\ handler \in {"idle", "wake", "ack"}
  /\ arrived \in BOOLEAN
  /\ reader \in [Readers -> Place]
  /\ unread \in [Readers -> 0 .. RingSize]
  /\ owed \in [Readers -> BOOLEAN] /\ stolen \in [Readers -> BOOLEAN]

(* A ring that has room takes one packet more, and one that is not empty   *)
(* gives one: its count stays within the ring.                             *)
LEMMA Counting ==
  ASSUME NEW n \in 0 .. RingSize
  PROVE  /\ n < RingSize => n + 1 \in 0 .. RingSize
         /\ n # 0 => n - 1 \in 0 .. RingSize
BY DevIrqAssumption

(* Every step keeps the traffic in type. *)
LEMMA TrafficStep ==
  ASSUME Traffic, [Next]_vars
  PROVE  Traffic'
<1> USE DEF Traffic, Place
<1>1. CASE Handler
  <2>1. CASE HandlerSet
    BY <2>1 DEF HandlerSet, readVars
  <2>2. CASE HandlerWake
    BY <2>2 DEF HandlerWake, Woken
  <2>3. CASE HandlerAck
    BY <2>3 DEF HandlerAck, readVars
  <2>4. ASSUME NEW r \in Readers, HandlerAckPush(r) PROVE Traffic'
    BY <2>4, Counting DEF HandlerAckPush, Push, Room, readVars
  <2> QED
    BY <1>1, <2>1, <2>2, <2>3, <2>4 DEF Handler
<1>2. CASE ModuleStep
  <2>1. UNCHANGED << handler, readVars, unread >> /\ arrived' \in BOOLEAN
    BY <1>2 DEF ModuleStep, Load, RegisterDriver, MapRegisters, RegisterFile,
                InitWaitQueue, Enable, LoadFails, Unload, UnregisterDriver,
                Disable, DeregisterFile, OtherVars
  <2> QED
    BY <2>1 DEF readVars
<1>3. ASSUME NEW r \in Readers, PushIrq(r) PROVE Traffic'
  BY <1>3, Counting DEF PushIrq, Push, Room
<1>4. ASSUME NEW r \in Readers, OpenFile(r) \/ CloseFile(r) \/ Recv(r) \/ Signal(r)
      PROVE  Traffic'
  BY <1>4 DEF OpenFile, CloseFile, Recv, Signal, Goes, ReaderLeaves
<1>5. ASSUME NEW r \in Readers, InRecv(r) PROVE Traffic'
  <2>1. CASE ReadClear(r)
    <3>1. stolen' \in [Readers -> BOOLEAN]
      BY <2>1 DEF ReadClear
    <3> QED
      BY <2>1, <3>1 DEF ReadClear, Goes, ReaderLeaves
  <2>2. CASE ReadCheck(r)
    BY <2>2 DEF ReadCheck, Goes, ReaderLeaves
  <2>3. CASE Look(r)
    <3>1. /\ reader' = [reader EXCEPT ![r] = IF unread[r] = 0 THEN "clear" ELSE "idle"]
          /\ handler' = handler /\ arrived' = arrived
      BY <2>3 DEF Look, Goes, ReaderLeaves
    <3>2. reader' \in [Readers -> Place]
      BY <3>1
    <3>3. /\ unread' \in [Readers -> 0 .. RingSize]
          /\ owed' \in [Readers -> BOOLEAN] /\ stolen' \in [Readers -> BOOLEAN]
      <4>1. CASE unread[r] = 0
        BY <2>3, <4>1 DEF Look
      <4>2. CASE unread[r] # 0
        <5>1. /\ unread' = [unread EXCEPT ![r] = unread[r] - 1]
              /\ owed' = [owed EXCEPT ![r] = FALSE]
              /\ stolen' = [stolen EXCEPT ![r] = FALSE]
          BY <2>3, <4>2 DEF Look
        <5>2. unread[r] - 1 \in 0 .. RingSize
          BY <4>2, Counting
        <5> QED
          BY <5>1, <5>2
      <4> QED
        BY <4>1, <4>2
    <3> QED
      BY <3>1, <3>2, <3>3
  <2> QED
    BY <1>5, <2>1, <2>2, <2>3 DEF InRecv
<1>6. CASE UNCHANGED vars
  BY <1>6 DEF vars, readVars
<1> QED
  BY <1>1, <1>2, <1>3, <1>4, <1>5, <1>6 DEF Next

(* Every variable holds a value of its kind, and a ring never counts more  *)
(* packets than it has room for.                                           *)
THEOREM DevIrqTypeCorrect == Spec => []TypeOK
<1>1. Init => Traffic
  <2>1. 0 \in 0 .. RingSize
    BY DevIrqAssumption
  <2> QED
    BY <2>1 DEF Init, Traffic, Place
<1>2. Traffic /\ [Next]_vars => Traffic'
  BY TrafficStep
<1>3. Traffic /\ DevInv => TypeOK
  BY DEF Traffic, Place, DevInv, Places, Flags, TypeOK
<1> QED
  BY <1>1, <1>2, <1>3, DevInvariant, PTL DEF Spec
=============================================================================
