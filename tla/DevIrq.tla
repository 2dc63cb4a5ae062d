------------------------------- MODULE DevIrq -------------------------------
(***************************************************************************)
(* The kernel module dev-irq, by which a process waits for packets when    *)
(* the user-space driver is built with IRQ_SUPPORT: loading and unloading  *)
(* the module, the interrupt handler, and the threads that call            *)
(* udriver_recv, each for a port of its own.                               *)
(*                                                                         *)
(* The interrupt is edge-triggered: pending stands for the edge that the   *)
(* interrupt controller has latched, which it keeps while no handler is    *)
(* registered.  The driver of the platform, the file and the registers are *)
(* set up and torn down step by step; the device pushes packets meanwhile. *)
(***************************************************************************)
EXTENDS Naturals, Sequences

CONSTANTS
  Readers,                          \* threads, each with its port
  RingSize,
  MaxPushes, MaxLoads               \* bounds

ASSUME DevIrqAssumption ==
  /\ RingSize \in Nat \ {0} /\ {MaxPushes, MaxLoads} \subseteq Nat

VARIABLES
  stage, at,        \* what the module does, and the step of it to come
  irq, mapped, misc, wq,      \* handler registered, registers mapped, file
                    \* registered, wait queue initialised
  ier, gie, isr, pending,     \* interrupt registers; latched edge
  handler,          \* "idle", "wake", "ack"
  arrived,          \* drv_data.irq_arrived
  reader,           \* per thread: where it is in udriver_recv
  unread,           \* per thread: packets in the ring of its port
  pushes, loads,    \* counters
  stale,            \* history: an edge was latched before the handler was
                    \* registered in this load
  owed, stolen      \* history, per thread: a packet came while it waited;
                    \* another thread cleared irq_arrived before it looked

moduleVars == << stage, at, irq, mapped, misc, wq, loads, stale >>
regVars == << ier, gie, isr, pending >>
readVars == << reader, owed, stolen >>
vars == << moduleVars, regVars, handler, arrived, readVars, unread, pushes >>

Init ==
  /\ stage = "unloaded" /\ at = 1
  /\ irq = FALSE /\ mapped = FALSE /\ misc = FALSE /\ wq = FALSE
  /\ ier = FALSE /\ gie = FALSE /\ isr = FALSE /\ pending = FALSE
  /\ handler = "idle" /\ arrived = FALSE
  /\ reader = [r \in Readers |-> "closed"]
  /\ unread = [r \in Readers |-> 0]
  /\ pushes = 0 /\ loads = 0 /\ stale = FALSE
  /\ owed = [r \in Readers |-> FALSE] /\ stolen = [r \in Readers |-> FALSE]

-----------------------------------------------------------------------------
(* Interrupt registers. *)

Line(g, i) == g /\ i

(* The registers take new values; a rising line is latched on top of p.    *)
Regs(e, g, i, p) ==
  /\ ier' = e /\ gie' = g /\ isr' = i
  /\ pending' = (p \/ (Line(g, i) /\ ~Line(gie, isr)))

(* Mutant: one packet more than the ring has room for. *)
RoomForOneMore(r) == unread[r] <= RingSize

Room(r) == unread[r] < RingSize

(* The ring of r counts a packet. *)
Push(r) ==
  /\ Room(r) /\ pushes < MaxPushes
  /\ unread' = [unread EXCEPT ![r] = @ + 1]
  /\ pushes' = pushes + 1

(* bufrx_push_irq_i sets ISR0. *)
PushIrq(r) ==
  /\ Push(r)
  /\ Regs(ier, gie, isr \/ ier, pending)
  /\ owed' = IF /\ stage = "loaded" /\ irq /\ handler = "idle"
                /\ reader[r] \in {"check", "sleep"}
             THEN [owed EXCEPT ![r] = TRUE] ELSE owed
  /\ UNCHANGED << moduleVars, handler, arrived, reader, stolen >>

-----------------------------------------------------------------------------
(* dev_irq_irq *)

HandlerSet ==
  /\ irq /\ handler = "idle" /\ pending
  /\ pending' = FALSE
  /\ arrived' = TRUE
  /\ handler' = "wake"
  /\ UNCHANGED << moduleVars, ier, gie, isr, readVars, unread, pushes >>

(* Mutant: one of the waiting threads is woken. *)
WokenOne(r) ==
  IF reader[r] = "sleep" /\ r = CHOOSE q \in Readers : reader[q] = "sleep"
  THEN "check" ELSE reader[r]

(* wake_up_all: who sleeps looks at the condition again. *)
Woken(r) == IF reader[r] = "sleep" THEN "check" ELSE reader[r]

HandlerWake ==
  /\ handler = "wake"
  /\ reader' = [r \in Readers |-> Woken(r)]
  /\ handler' = "ack"
  /\ UNCHANGED << moduleVars, regVars, arrived, owed, stolen, unread, pushes >>

(* Mutant: the 0 written to ISR0 changes nothing. *)
AckedAsIs(i) == i

(* ISR0 toggles on a write, whatever is written. *)
Acked(i) == ~i

HandlerAck ==
  /\ handler = "ack"
  /\ Regs(ier, gie, Acked(isr), pending)
  /\ handler' = "idle"
  /\ UNCHANGED << moduleVars, arrived, readVars, unread, pushes >>

(* The same with a push in the clock of the write: no trace of it in ISR0. *)
HandlerAckPush(r) ==
  /\ handler = "ack"
  /\ Push(r)
  /\ Regs(ier, gie, Acked(isr), pending)
  /\ handler' = "idle"
  /\ UNCHANGED << moduleVars, arrived, readVars >>

-----------------------------------------------------------------------------
(* udriver_recv with IRQ_SUPPORT, in the loop of recvfrom. *)

Goes(r, from, to) == reader[r] = from /\ reader' = [reader EXCEPT ![r] = to]

ReaderLeaves == UNCHANGED << moduleVars, regVars, handler, pushes >>

(* udriver_initialize opens the file, which is registered before the wait  *)
(* queue is there.                                                         *)
OpenFile(r) ==
  /\ misc /\ stage \in {"loading", "loaded"}
  /\ Goes(r, "closed", "idle")
  /\ ReaderLeaves /\ UNCHANGED << arrived, owed, stolen, unread >>

CloseFile(r) ==
  /\ Goes(r, "idle", "closed")
  /\ ReaderLeaves /\ UNCHANGED << arrived, owed, stolen, unread >>

Recv(r) ==
  /\ Goes(r, "idle", "clear")
  /\ ReaderLeaves /\ UNCHANGED << arrived, owed, stolen, unread >>

(* dev_read: irq_arrived is cleared, for all who wait for it. *)
ReadClear(r) ==
  /\ Goes(r, "clear", "check")
  /\ arrived' = FALSE
  /\ stolen' = [q \in Readers |->
                  stolen[q] \/ (q # r /\ arrived /\ owed[q])]
  /\ ReaderLeaves /\ UNCHANGED << owed, unread >>

(* wait_event_interruptible; a signal ends it as the interrupt does.  To   *)
(* sleep is to enter the wait queue: the thread crashes on one that is not *)
(* initialised, and the kernel closes the file for it.                     *)
ReadCheck(r) ==
  /\ Goes(r, "check", IF arrived THEN "look" ELSE IF wq THEN "sleep" ELSE "crashed")
  /\ ReaderLeaves /\ UNCHANGED << arrived, owed, stolen, unread >>

Signal(r) ==
  /\ Goes(r, "sleep", "look")
  /\ ReaderLeaves /\ UNCHANGED << arrived, owed, stolen, unread >>

(* The ring of the port is looked at; nothing in it: recvfrom calls again. *)
Look(r) ==
  /\ Goes(r, "look", IF unread[r] = 0 THEN "clear" ELSE "idle")
  /\ IF unread[r] = 0
     THEN UNCHANGED << unread, owed, stolen >>
     ELSE /\ unread' = [unread EXCEPT ![r] = @ - 1]
          /\ owed' = [owed EXCEPT ![r] = FALSE]
          /\ stolen' = [stolen EXCEPT ![r] = FALSE]
  /\ ReaderLeaves /\ UNCHANGED arrived

-----------------------------------------------------------------------------
(* Loading and unloading. *)

(* Mutant: interrupts are enabled before there is what the handler uses.   *)
InitStepsEnableFirst == << "driver", "map", "ier", "gie", "misc", "wq" >>

(* dev_irq_mod_init and dev_init. *)
InitSteps == << "driver", "map", "misc", "wq", "ier", "gie" >>

(* Mutant: the interrupt is left enabled. *)
ExitStepsEnabled == << "driver", "misc" >>

(* dev_irq_mod_exit and dev_clean. *)
ExitSteps == << "driver", "ier", "gie", "misc" >>

OtherVars == << handler, arrived, readVars, unread, pushes >>

Load ==
  /\ stage = "unloaded" /\ loads < MaxLoads
  /\ stage' = "loading" /\ at' = 1 /\ loads' = loads + 1
  /\ mapped' = FALSE /\ wq' = FALSE /\ stale' = FALSE
  /\ arrived' = FALSE
  /\ UNCHANGED << irq, misc, regVars, handler, readVars, unread, pushes >>

Loading(step) ==
  /\ stage = "loading" /\ InitSteps[at] = step
  /\ IF at = Len(InitSteps) THEN stage' = "loaded" /\ at' = at
                            ELSE stage' = stage /\ at' = at + 1

(* platform_driver_register calls the probe, which finds the interrupt or  *)
(* none; the result does not reach mod_init.                               *)
RegisterDriver(found) ==
  /\ Loading("driver")
  /\ irq' = found /\ stale' = (found /\ pending)
  /\ UNCHANGED << mapped, misc, wq, loads, regVars, OtherVars >>

MapRegisters ==
  /\ Loading("map")
  /\ mapped' = TRUE
  /\ UNCHANGED << irq, misc, wq, loads, stale, regVars, OtherVars >>

RegisterFile ==
  /\ Loading("misc")
  /\ misc' = TRUE
  /\ UNCHANGED << irq, mapped, wq, loads, stale, regVars, OtherVars >>

InitWaitQueue ==
  /\ Loading("wq")
  /\ wq' = TRUE
  /\ UNCHANGED << irq, mapped, misc, loads, stale, regVars, OtherVars >>

Enable ==
  /\ \/ Loading("ier") /\ Regs(TRUE, gie, isr, pending)
     \/ Loading("gie") /\ Regs(ier, TRUE, isr, pending)
  /\ UNCHANGED << irq, mapped, misc, wq, loads, stale, OtherVars >>

(* A failing probe after the interrupt was found, a failing ioremap or     *)
(* misc_register: the first and the last touch what is not there, the      *)
(* other leaves a driver registered whose code is gone.                    *)
LoadFails ==
  /\ stage = "loading" /\ InitSteps[at] \in {"driver", "map", "misc"}
  /\ stage' = "dead"
  /\ UNCHANGED << at, irq, mapped, misc, wq, loads, stale, regVars,
                  OtherVars >>

(* The open file holds the module. *)
Unload ==
  /\ stage = "loaded" /\ \A r \in Readers : reader[r] \in {"closed", "crashed"}
  /\ stage' = "unloading" /\ at' = 1
  /\ UNCHANGED << irq, mapped, misc, wq, loads, stale, regVars, OtherVars >>

Unloading(step) ==
  /\ stage = "unloading" /\ ExitSteps[at] = step
  /\ IF at = Len(ExitSteps) THEN stage' = "unloaded" /\ at' = at
                            ELSE stage' = stage /\ at' = at + 1

(* dev_irq_remove: free_irq waits for the handler. *)
UnregisterDriver ==
  /\ Unloading("driver") /\ handler = "idle"
  /\ irq' = FALSE
  /\ UNCHANGED << mapped, misc, wq, loads, stale, regVars, OtherVars >>

Disable ==
  /\ \/ Unloading("ier") /\ Regs(FALSE, gie, isr, pending)
     \/ Unloading("gie") /\ Regs(ier, FALSE, isr, pending)
  /\ UNCHANGED << irq, mapped, misc, wq, loads, stale, OtherVars >>

DeregisterFile ==
  /\ Unloading("misc")
  /\ misc' = FALSE
  /\ UNCHANGED << irq, mapped, wq, loads, stale, regVars, OtherVars >>

ModuleStep ==
  \/ Load
  \/ \E found \in BOOLEAN : RegisterDriver(found)
  \/ MapRegisters
  \/ RegisterFile
  \/ InitWaitQueue
  \/ Enable
  \/ LoadFails
  \/ Unload
  \/ UnregisterDriver
  \/ Disable
  \/ DeregisterFile

Handler ==
  \/ HandlerSet
  \/ HandlerWake
  \/ HandlerAck
  \/ \E r \in Readers : HandlerAckPush(r)

(* What a thread inside udriver_recv does when it is scheduled. *)
InRecv(r) ==
  \/ ReadClear(r)
  \/ ReadCheck(r)
  \/ Look(r)

Next ==
  \/ stage # "dead" /\ Handler
  \/ ModuleStep
  \/ \E r \in Readers :
       \/ PushIrq(r)
       \/ OpenFile(r)
       \/ CloseFile(r)
       \/ Recv(r)
       \/ InRecv(r)
       \/ Signal(r)

(* Interrupts are served and runnable threads run. *)
Fairness ==
  /\ WF_vars(stage # "dead" /\ Handler)
  /\ \A r \in Readers : WF_vars(InRecv(r))

Spec == Init /\ [][Next]_vars /\ Fairness

-----------------------------------------------------------------------------
(* Every variable holds a value of its kind; a ring holds what it can. *)
TypeOK ==
  /\ stage \in {"unloaded", "loading", "loaded", "unloading", "dead"}
  /\ {irq, mapped, misc, wq, ier, gie, isr, pending, arrived, stale}
       \subseteq BOOLEAN
  /\ handler \in {"idle", "wake", "ack"}
  /\ reader \in [Readers -> {"closed", "idle", "clear", "check", "sleep", "look",
                             "crashed"}]
  /\ unread \in [Readers -> 0 .. RingSize]
  /\ owed \in [Readers -> BOOLEAN] /\ stolen \in [Readers -> BOOLEAN]

(* The handler uses the mapped registers and the wait queue, which are set *)
(* up long after it is registered; it does not run before, because the     *)
(* device is not enabled before - unless the interrupt controller still    *)
(* has an edge from an earlier load of the module.                         *)
HandlerSafe == handler # "idle" => (mapped /\ wq) \/ stale

(* No interrupt gets stuck: the line never stays high without an edge to   *)
(* serve or a handler that is to lower it.                                 *)
IrqRearmed == Line(gie, isr) => pending \/ handler # "idle"

(* After the module is unloaded nothing of it is registered and the device *)
(* is quiet, whatever it did meanwhile.                                    *)
CleanUnload ==
  stage = "unloaded" => ~irq /\ ~misc /\ ~Line(gie, isr) /\ ~ier

(* dev_read forgets the interrupts of the past, so a packet in the ring    *)
(* can wait for the next one to come.  One that comes while its thread     *)
(* waits, and no handler is running, gets it out of udriver_recv - unless  *)
(* another thread, in its own read, clears the flag they share first.      *)
WokenByNext == \A r \in Readers : owed[r] ~> (~owed[r] \/ stolen[r])
=============================================================================
