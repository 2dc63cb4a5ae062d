---------------------------- MODULE ProbeRemove ----------------------------
(***************************************************************************)
(* Probe and remove of the kernel driver udp-core: what is acquired and    *)
(* registered in which order, what the failure path undoes, and from when  *)
(* to when the rest of the kernel can call in.                             *)
(*                                                                         *)
(* Probe and remove are sequences of steps; pc is the step to come.  Each  *)
(* step that can fail has a parameter that says whether it did.  A failed  *)
(* step goes to the first step of remove, as the label init_fail does.     *)
(***************************************************************************)
EXTENDS Naturals

CONSTANT MaxBinds       \* bound: how often the device is probed

ASSUME MaxBindsAssumption == MaxBinds \in Nat

VARIABLES
  pc,         \* the step of probe or remove to come; "unbound", "bound"
  held,       \* what is acquired and registered
  drvdata,    \* platform_get_drvdata(pdev) is not NULL
  ndev,       \* drv_data->ndev: "null", "live" or "freed"
  irqn,       \* irq_descriptor.irqn: 0, a number, or negative
  oops,       \* NULL or freed memory was used
  failed,     \* history: a step of probe failed in this binding
  binds       \* history: bindings so far

lifeVars == << pc, held, drvdata, ndev, irqn, oops, failed, binds >>

Resources == {"devlink", "map", "region", "irq", "netdev", "notifier", "napi"}

InitLife ==
  /\ pc = "unbound" /\ held = {} /\ drvdata = FALSE
  /\ ndev = "null" /\ irqn = "none"
  /\ oops = FALSE /\ failed = FALSE /\ binds = 0

-----------------------------------------------------------------------------
(* Probe. *)

At(step) == pc = step /\ ~oops

(* A step that acquires r: on success on to the next, else to remove. *)
Acquire(r, ok, next) ==
  /\ IF ok THEN held' = held \cup {r} /\ pc' = next
           ELSE held' = held /\ pc' = "rm_notifier"
  /\ failed' = (failed \/ ~ok)

(* platform_driver_register, or the device comes: the kernel calls probe. *)
Bind ==
  /\ At("unbound") /\ binds < MaxBinds
  /\ binds' = binds + 1 /\ failed' = FALSE
  /\ pc' = "devlink"
  /\ UNCHANGED << held, drvdata, ndev, irqn, oops >>

(* udp_core_devlink_init: the parameters can be set from here on.  It      *)
(* undoes what it did when a part of it fails.                             *)
DevlinkInit(ok) ==
  /\ At("devlink")
  /\ Acquire("devlink", ok, "drvdata")
  /\ ndev' = "null" /\ irqn' = "none"
  /\ UNCHANGED << drvdata, oops, binds >>

SetDrvdata ==
  /\ At("drvdata")
  /\ drvdata' = TRUE /\ pc' = "devmem"
  /\ UNCHANGED << held, ndev, irqn, oops, failed, binds >>

DevmemInit(ok) ==
  /\ At("devmem")
  /\ Acquire("map", ok, "region")
  /\ UNCHANGED << drvdata, ndev, irqn, oops, binds >>

InitRegion(ok) ==
  /\ At("region")
  /\ Acquire("region", ok, "irq")
  /\ UNCHANGED << drvdata, ndev, irqn, oops, binds >>

(* udp_core_irq_init: none in the device tree, the error of register_irq   *)
(* kept as the number (and freed at once: a warning), or success.          *)
IrqInit(outcome) ==
  /\ At("irq")
  /\ irqn' = outcome
  /\ Acquire("irq", outcome = "number", "alloc")
  /\ UNCHANGED << drvdata, ndev, oops, binds >>

(* udp_core_netdev_init, up to the call of register_netdev. *)
NetdevAlloc(ok) ==
  /\ At("alloc")
  /\ ndev' = IF ok THEN "live" ELSE ndev
  /\ pc' = IF ok THEN "register" ELSE "rm_notifier"
  /\ failed' = ~ok
  /\ UNCHANGED << held, drvdata, irqn, oops, binds >>

NetdevRegister(ok) ==
  /\ At("register")
  /\ Acquire("netdev", ok, "notifier")
  /\ ndev' = IF ok THEN ndev ELSE "freed"
  /\ UNCHANGED << drvdata, irqn, oops, binds >>

NotifierRegister ==
  /\ At("notifier")
  /\ held' = held \cup {"notifier"} /\ pc' = "napi"
  /\ UNCHANGED << drvdata, ndev, irqn, oops, failed, binds >>

NapiAdd ==
  /\ At("napi")
  /\ held' = held \cup {"napi"} /\ pc' = "bound"
  /\ UNCHANGED << drvdata, ndev, irqn, oops, failed, binds >>

-----------------------------------------------------------------------------
(* Remove.  Each part starts with a return if there is no drv_data. *)

Release(r, next) == held' = held \ {r} /\ pc' = next

(* platform_driver_unregister, or the device goes. *)
Unbind ==
  /\ At("bound")
  /\ pc' = "rm_notifier"
  /\ UNCHANGED << held, drvdata, ndev, irqn, oops, failed, binds >>

(* Without drv_data, after a failed udp_core_devlink_init, remove returns. *)
RemoveNothing ==
  /\ At("rm_notifier") /\ ~drvdata
  /\ pc' = "unbound"
  /\ UNCHANGED << held, drvdata, ndev, irqn, oops, failed, binds >>

NotifierUnregister ==
  /\ At("rm_notifier") /\ drvdata
  /\ Release("notifier", "rm_napi")
  /\ UNCHANGED << drvdata, ndev, irqn, oops, failed, binds >>

(* netif_napi_del, on a pointer derived from ndev whatever that is. *)
NapiDel ==
  /\ At("rm_napi")
  /\ oops' = (ndev # "live")
  /\ Release("napi", "rm_netdev")
  /\ UNCHANGED << drvdata, ndev, irqn, failed, binds >>

(* unregister_netdev, once the interface is down, and free_netdev. *)
NetdevUnregister ==
  /\ At("rm_netdev")
  /\ Release("netdev", "rm_irq")
  /\ ndev' = "freed"
  /\ UNCHANGED << drvdata, irqn, oops, failed, binds >>

(* Mutant: the test of the number is inverted. *)
FreedIrqInverted == IF irqn = "none" THEN {"irq"} ELSE {}

(* udp_core_irq_deinit frees the interrupt if there is a number. *)
FreedIrq == IF irqn # "none" THEN {"irq"} ELSE {}

IrqDeinit ==
  /\ At("rm_irq")
  /\ held' = held \ FreedIrq
  /\ pc' = "rm_devlink"
  /\ UNCHANGED << drvdata, ndev, irqn, oops, failed, binds >>

(* udp_core_devlink_deinit; the driver core then drops what devm holds and *)
(* the drv_data pointer.                                                   *)
DevlinkDeinit ==
  /\ At("rm_devlink")
  /\ held' = held \ {"region", "devlink", "map"}
  /\ drvdata' = FALSE
  /\ pc' = "unbound"
  /\ UNCHANGED << ndev, irqn, oops, failed, binds >>

-----------------------------------------------------------------------------
(* Calls from the kernel. *)

Calls == {"param", "interrupt", "netdev op", "address event"}

(* What lets the kernel make the call. *)
Registration ==
  [c \in Calls |-> CASE c = "param" -> "devlink"
                     [] c = "interrupt" -> "irq"
                     [] c = "netdev op" -> "netdev"
                     [] c = "address event" -> "notifier"]

Reachable(c) == Registration[c] \in held

(* What the call needs.  A parameter's setter goes through drv_data->pfdev *)
(* to ndev and the register map; the handler schedules NAPI on ndev, and   *)
(* opening the interface enables NAPI.                                     *)
Served(c) ==
  /\ ndev = "live"
  /\ c # "address event" => drvdata /\ "map" \in held
  /\ c \in {"interrupt", "netdev op"} => "napi" \in held

(* The steps of probe and remove during which a call would crash.  The     *)
(* line of the interrupt is shared, udev opens interfaces as they appear,  *)
(* and parameters are set by the user: nothing prevents the calls there.   *)
Window ==
  [c \in Calls |->
     CASE c = "param" -> {"drvdata", "devmem", "region", "irq", "alloc",
                          "rm_irq", "rm_devlink"}
       [] c = "interrupt" -> {"alloc", "register", "notifier", "napi",
                              "rm_netdev", "rm_irq"}
       [] c = "netdev op" -> {"notifier", "napi", "rm_netdev"}
       [] c = "address event" -> {}]

(* Past a completed probe and after a completed remove no call finds its   *)
(* object missing: all that can be called is served, except in the windows *)
(* above and on the way out of a failed probe.                             *)
CallsServed ==
  \A c \in Calls : Reachable(c) /\ ~Served(c) => failed \/ pc \in Window[c]

(* Remove uses no missing object unless it runs for a failed probe, and    *)
(* leaves nothing acquired or registered behind.                           *)
CleanRemove ==
  /\ oops => failed
  /\ pc = "unbound" => held = {} /\ ~drvdata
=============================================================================
