------------------------------ MODULE Control ------------------------------
(***************************************************************************)
(* The control plane of the kernel driver and of the device: the calls     *)
(* that configure the device, on top of ProbeRemove which says when they   *)
(* can be made, and the user reset by which the device takes a new         *)
(* configuration over.                                                     *)
(*                                                                         *)
(* The calls come in two contexts that the kernel does not exclude from    *)
(* each other: rtnl (open, stop, address events, the MAC address) and      *)
(* devlink (the parameters).  A call is a sequence of accesses to the      *)
(* device, kept in todo, of which each is a step; the registers of the rx  *)
(* rings are changed by a read and a later write.  The NAPI poll pops      *)
(* rings through the same registers.  Between two accesses of the driver   *)
(* the device sees at least one clock.                                     *)
(***************************************************************************)
EXTENDS ProbeRemove, Sequences

CONSTANTS
  LastBuffer,     \* the driver loops over the rx rings 0 .. LastBuffer
  Slots,          \* length of open_ports.port_opened
  Usages,         \* usages of the driver: each the set of calls made in it
  MaxCalls        \* bound: calls of both contexts, by usage

ASSUME ControlAssumption ==
  /\ LastBuffer \in Nat
  /\ Slots \in Nat \ {0} /\ MaxCalls \in [Usages -> Nat]

Buffers == 0 .. LastBuffer

Ctx == {"rtnl", "devlink"}

VARIABLES
  usage,      \* one of Usages, for ever
  cfg,        \* drv_data: port range, open_ports, gateway
  todo,       \* per context: the accesses its call still has to make
  value,      \* per context: ring register (its open bit) as last read
  pop,        \* the poll: the ring it pops and the open bit it read
  up,         \* the interface is open
  mem,        \* current DMA memory, 0 for none
  res, regs, open,    \* device: RES, configuration registers, open bits
  hw,         \* device: flops of user_rst_handler, busy, latched registers
  clocked,    \* the device had a clock since the last access
  calls, allocated,   \* counters
  overlap,    \* history: calls with a reset overlapped or one was given up,
              \* and no later one that rewrites everything has run alone
  undone,     \* history: rings whose open bit a pop has written back, or
              \* that were open when a new binding began
  shown       \* history: the list was applied, and no stop came later

driverVars == << cfg, todo, value, pop, up, mem >>
deviceVars == << res, regs, open, hw >>
idleVars == << usage, lifeVars >>        \* what a call leaves alone
countVars == << calls, allocated, overlap, undone, shown >>
vars == << lifeVars, driverVars, deviceVars, clocked, countVars, usage >>

Registers == [shmem |-> 0, range |-> 0, ip |-> 0, gw |-> 0, mac |-> 0]

(* DEFAULT_PORT_RANGE_*, DEFAULT_OPENED_SOCKETS, GW_IP. *)
Defaults ==
  [range |-> 0, gw |-> 0, num |-> 1, ports |-> [i \in 1 .. Slots |-> 0]]

Listed == { cfg.ports[i] : i \in 1 .. cfg.num }

Init ==
  /\ InitLife /\ usage \in Usages
  /\ cfg = Defaults
  /\ todo = [c \in Ctx |-> << >>]
  /\ value = [c \in Ctx |-> FALSE]
  /\ pop = << >> /\ up = FALSE /\ mem = 0
  /\ res = 0 /\ regs = Registers
  /\ open = [b \in Buffers |-> FALSE]
  /\ hw = [requested |-> FALSE, enable |-> FALSE, rst |-> TRUE,
           busy |-> FALSE, latched |-> Registers]
  /\ clocked = TRUE /\ calls = 0 /\ allocated = 0
  /\ overlap = FALSE /\ undone = {} /\ shown = FALSE

-----------------------------------------------------------------------------
(* The device. *)

(* Mutant: a request is forgotten with the register that made it. *)
RequestedLevel(h) == res = 1

(* rst_requested outlives the register until the reset is given. *)
Requested(h) == res = 1 \/ (h.requested /\ ~h.rst)

(* Mutant: a reset request is left pending. *)
RstPowerOnOnly(h) == ~h.enable

(* After power-on the reset is held until the first request; later it is   *)
(* given when no transfer is under way.                                    *)
Rst(h) == ~h.enable \/ (h.requested /\ ~h.busy)

(* A clock of user_rst_handler and of the flops in controller.v.  start: a *)
(* transfer begins, done: one ends; both may come with the same clock.     *)
Clock(start, done) ==
  /\ hw' = [requested |-> Requested(hw),
            enable |-> hw.enable \/ hw.requested,
            rst |-> Rst(hw),
            busy |-> ~hw.rst /\ (start \/ (hw.busy /\ ~done)),
            latched |-> IF hw.rst THEN regs ELSE hw.latched]
  /\ clocked' = TRUE
  /\ UNCHANGED << idleVars, driverVars, res, regs, open, countVars >>

-----------------------------------------------------------------------------
(* The calls, as the accesses they make: an operation and its argument.    *)
(* The interrupt registers are in NapiIrq, BUFTX_PUSHED is in TxPath.      *)

(* Mutant: the memory is announced after the reset. *)
OpenCallLate ==
  << <<"res", 1>>, <<"alloc", 0>>, <<"range", 0>>, <<"empty", 0>>,
     <<"listed", 1>>, <<"res", 0>>, <<"shmem", 0>>, <<"up", 0>> >>

(* udp_core_ndo_open *)
OpenCall ==
  << <<"res", 1>>, <<"alloc", 0>>, <<"shmem", 0>>, <<"range", 0>>,
     <<"empty", 0>>, <<"listed", 1>>, <<"res", 0>>, <<"up", 0>> >>

(* udp_core_ndo_stop *)
StopCall ==
  << <<"res", 1>>, <<"free", 0>>, <<"shmem", 0>>, <<"empty", 0>>,
     <<"res", 0>>, <<"down", 0>> >>

(* udp_core_notifier_call, NETDEV_UP; the gateway is that of the default   *)
(* route or else the configured one. *)
UpCall(ip, gw) == << <<"res", 1>>, <<"ip", ip>>, <<"gw", gw>>, <<"res", 0>> >>

(* NETDEV_DOWN: the device is to be kept in reset. *)
DownCall == << <<"res", 1>> >>

(* Mutant: the sockets of the previous list are not closed. *)
NotifyCallOpenOnly ==
  << <<"res", 1>>, <<"listed", 1>>, <<"range", 0>>, <<"own_gw", 0>>,
     <<"res", 0>> >>

(* udp_core_netdev_notify_change *)
NotifyCall ==
  << <<"res", 1>>, <<"close", 0>>, <<"listed", 1>>, <<"range", 0>>,
     <<"own_gw", 0>>, <<"res", 0>> >>

(* A call begins; whole: it writes every open bit and ends with a reset. *)
Begin(c, accesses, whole) ==
  /\ todo[c] = << >> /\ calls < MaxCalls[usage]
  /\ calls' = calls + 1
  /\ todo' = [todo EXCEPT ![c] = accesses]
  /\ overlap' = IF \E d \in Ctx : todo[d] # << >> THEN TRUE
                ELSE overlap /\ ~whole

Uses(c) == c \in usage

NetdevOp == Reachable("netdev op") /\ Served("netdev op")
AddressEvent == Reachable("address event") /\ Served("address event")
Param == Reachable("param") /\ Served("param")

Open ==
  /\ NetdevOp /\ ~up
  /\ Begin("rtnl", OpenCall, TRUE)
  /\ UNCHANGED << idleVars, cfg, value, pop, up, mem, deviceVars, clocked,
                  allocated, undone, shown >>

Stop ==
  /\ NetdevOp /\ up
  /\ Begin("rtnl", StopCall, TRUE)
  /\ shown' = FALSE
  /\ UNCHANGED << idleVars, cfg, value, pop, up, mem, deviceVars, clocked,
                  allocated, undone >>

(* A new value of a register or parameter is named by the call it is for.  *)
New == calls + 1

AddressUp ==
  /\ Uses("address") /\ AddressEvent
  /\ \E gw \in {New, cfg.gw} : Begin("rtnl", UpCall(New, gw), FALSE)
  /\ UNCHANGED << idleVars, cfg, value, pop, up, mem, deviceVars, clocked,
                  allocated, undone, shown >>

AddressDown ==
  /\ Uses("address") /\ AddressEvent
  /\ Begin("rtnl", DownCall, FALSE)
  /\ UNCHANGED << idleVars, cfg, value, pop, up, mem, deviceVars, clocked,
                  allocated, undone, shown >>

(* unregister_netdev closes an open interface. *)
CloseByRemove ==
  /\ At("rm_netdev") /\ up /\ todo["rtnl"] = << >>
  /\ todo' = [todo EXCEPT !["rtnl"] = StopCall]
  /\ overlap' = (todo["devlink"] # << >>)
  /\ shown' = FALSE
  /\ UNCHANGED << idleVars, cfg, value, pop, up, mem, deviceVars, clocked,
                  calls, allocated, undone >>

Least(a, b) == IF a < b THEN a ELSE b

(* The slots with the first n numbers of the list in them. *)
Overwritten(ports, list, n) ==
  [i \in DOMAIN ports |-> IF i <= n THEN list[i] ELSE ports[i]]

(* Mutant: the loop over the numbers does not end with the last slot. *)
ParsedUnbounded(list, good) ==
  [cfg EXCEPT !.ports = Overwritten(@, list, good),
              !.num = IF good < Len(list) THEN @ ELSE good]

(* udp_core_devlink_parse_open_sockets, of whose numbers the first `good`  *)
(* ones are valid: it writes into the list in use, and at a bad number it  *)
(* returns an error that nobody looks at, the old count still in place.    *)
Parsed(list, good) ==
  [cfg EXCEPT !.ports = Overwritten(@, list, good),
              !.num = IF good < Least(Len(list), Slots) THEN @
                                                        ELSE Least(good, Slots)]

Lists == UNION { [1 .. n -> Buffers] : n \in 1 .. Slots + 1 }

(* Every setter notifies, also if it changed nothing: the gateway's MAC    *)
(* address is used for nothing else.                                       *)
Notify ==
  /\ Param
  /\ Begin("devlink", NotifyCall, TRUE)
  /\ shown' = TRUE
  /\ UNCHANGED << idleVars, value, pop, up, mem, deviceVars, clocked,
                  allocated, undone >>

(* udp_core_devlink_set_u16, for either end of the range. *)
SetRange == Uses("range") /\ cfg' = [cfg EXCEPT !.range = New] /\ Notify

(* udp_core_devlink_set_string. *)
SetGateway ==
  Uses("gateway") /\ cfg' \in { cfg, [cfg EXCEPT !.gw = New] } /\ Notify

SetSockets ==
  /\ Uses("sockets")
  /\ \E list \in Lists : \E good \in 0 .. Len(list) : cfg' = Parsed(list, good)
  /\ Notify

(* udp_core_ndo_set_mac_address: two writes, no reset. *)
SetMac ==
  /\ Uses("mac") /\ NetdevOp /\ todo["rtnl"] = << >>
  /\ regs' = [regs EXCEPT !.mac = 2]
  /\ clocked /\ clocked' = FALSE
  /\ UNCHANGED << idleVars, driverVars, res, open, hw, countVars >>

-----------------------------------------------------------------------------
(* The accesses. *)

(* The call in context c makes access a and goes on with `more`. *)
Does(c, a, more) ==
  /\ todo[c] # << >> /\ Head(todo[c]) = a
  /\ todo' = [todo EXCEPT ![c] = more \o Tail(@)]

(* A register is written: the device has seen the previous access. *)
Written == clocked /\ clocked' = FALSE

WriteRes(c) ==
  /\ \E v \in 0 .. 1 : Does(c, <<"res", v>>, << >>) /\ res' = v
  /\ Written
  /\ UNCHANGED << idleVars, cfg, value, pop, up, mem, regs, open, hw,
                  countVars >>

WriteConfig(c) ==
  /\ \/ Does(c, <<"shmem", 0>>, << >>) /\ regs' = [regs EXCEPT !.shmem = mem]
     \/ /\ Does(c, <<"range", 0>>, << >>)
        /\ regs' = [regs EXCEPT !.range = cfg.range]
     \/ /\ Does(c, <<"own_gw", 0>>, << >>)
        /\ regs' = [regs EXCEPT !.gw = cfg.gw]
     \/ \E v \in 0 .. calls :
          \/ Does(c, <<"gw", v>>, << >>) /\ regs' = [regs EXCEPT !.gw = v]
          \/ Does(c, <<"ip", v>>, << >>) /\ regs' = [regs EXCEPT !.ip = v]
  /\ Written
  /\ UNCHANGED << idleVars, cfg, value, pop, up, mem, res, open, hw,
                  countVars >>

(* The loop `name` goes on with ring b. *)
From(name, b) == IF b > LastBuffer THEN << >> ELSE << <<name, b>> >>

(* A ring's register is read, to be written back by the next access. *)
ReadRing(c) ==
  /\ \E b \in Buffers :
       /\ value' = [value EXCEPT ![c] = open[b]]
       /\ \/ Does(c, <<"empty", b>>,
                  << <<"write_back", b>>, <<"close_only", b>> >>
                    \o From("empty", b + 1))
          \/ Does(c, <<"close_only", b>>, << <<"clear", b>> >>)
          \/ Does(c, <<"close", b>>,
                  << <<"clear", b>> >> \o From("close", b + 1))
          \/ \E i \in 1 .. cfg.num :
               /\ b = cfg.ports[i]
               /\ Does(c, <<"listed", i>>, << <<"set", b>>, <<"listed", i + 1>> >>)
  /\ UNCHANGED << idleVars, cfg, pop, up, mem, deviceVars, clocked,
                  countVars >>

(* The loop over the list is done. *)
EndOfList(c) ==
  /\ \E i \in 1 .. Slots + 1 : i > cfg.num /\ Does(c, <<"listed", i>>, << >>)
  /\ UNCHANGED << idleVars, cfg, value, pop, up, mem, deviceVars, clocked,
                  countVars >>

(* udp_core_netdev_notify_pop_rx, clear_socket and open_socket write. *)
WriteRing(c) ==
  /\ \E b \in Buffers :
       /\ \E bit \in BOOLEAN :
            /\ open' = [open EXCEPT ![b] = bit]
            /\ \/ Does(c, <<"write_back", b>>, << >>) /\ bit = value[c]
               \/ Does(c, <<"clear", b>>, << >>) /\ ~bit
               \/ Does(c, <<"set", b>>, << >>) /\ bit
       /\ undone' = undone \ {b}
  /\ Written
  /\ UNCHANGED << idleVars, cfg, value, pop, up, mem, res, regs, hw, calls,
                  allocated, overlap, shown >>

(* udp_core_netdev_alloc_memory *)
Alloc(c) ==
  /\ Does(c, <<"alloc", 0>>, << >>)
  /\ mem' = allocated + 1 /\ allocated' = allocated + 1
  /\ UNCHANGED << idleVars, cfg, value, pop, up, deviceVars, clocked, calls,
                  overlap, undone, shown >>

(* Without memory, open returns and leaves the reset requested. *)
OutOfMemory(c) ==
  /\ todo[c] # << >> /\ Head(todo[c]) = <<"alloc", 0>>
  /\ todo' = [todo EXCEPT ![c] = << >>]
  /\ overlap' = TRUE
  /\ UNCHANGED << idleVars, cfg, value, pop, up, mem, deviceVars, clocked,
                  calls, allocated, undone, shown >>

Free(c) ==
  /\ Does(c, <<"free", 0>>, << >>)
  /\ mem' = 0
  /\ UNCHANGED << idleVars, cfg, value, pop, up, deviceVars, clocked,
                  countVars >>

(* napi_enable and the like at the end of open; napi_disable at the end of *)
(* stop waits for the poll.                                                *)
UpDown(c) ==
  /\ \/ Does(c, <<"up", 0>>, << >>) /\ up' = TRUE /\ shown' = TRUE
     \/ /\ Does(c, <<"down", 0>>, << >>) /\ pop = << >>
        /\ up' = FALSE /\ UNCHANGED shown
  /\ UNCHANGED << idleVars, cfg, value, pop, mem, deviceVars, clocked, calls,
                  allocated, overlap, undone >>

(* The poll pops ring b: it reads the register, and writes it back.        *)
PopRead(b) ==
  /\ Uses("poll") /\ up /\ pop = << >>
  /\ pop' = << b, open[b] >>
  /\ UNCHANGED << idleVars, cfg, todo, value, up, mem, deviceVars, clocked,
                  countVars >>

PopWrite ==
  /\ pop # << >>
  /\ open' = [open EXCEPT ![pop[1]] = pop[2]]
  /\ undone' = IF open' = open THEN undone ELSE undone \cup {pop[1]}
  /\ pop' = << >>
  /\ Written
  /\ UNCHANGED << idleVars, cfg, todo, value, up, mem, res, regs, hw, calls,
                  allocated, overlap, shown >>

-----------------------------------------------------------------------------
(* Probe and remove.  udp_core_devlink_init sets the defaults, while the   *)
(* device still has the open bits that the previous binding left, and      *)
(* udp_core_netdev_init the default MAC address.  The interface is closed  *)
(* before it is unregistered, and a parameter's setter is not under way    *)
(* when the device is freed: that is its window in ProbeRemove.            *)
ProbeStep ==
  \/ /\ \E ok \in BOOLEAN : DevlinkInit(ok)
     /\ cfg' = Defaults
     /\ shown' = FALSE
     /\ undone' = undone \cup { b \in Buffers : open[b] }
     /\ UNCHANGED << usage, todo, value, pop, up, mem, deviceVars, clocked,
                     calls, allocated, overlap >>
  \/ /\ NotifierRegister
     /\ regs' = [regs EXCEPT !.mac = 1]
     /\ Written
     /\ UNCHANGED << usage, driverVars, res, open, hw, countVars >>
  \/ /\ \/ Bind
        \/ SetDrvdata
        \/ \E ok \in BOOLEAN : DevmemInit(ok)
        \/ \E ok \in BOOLEAN : InitRegion(ok)
        \/ \E outcome \in {"none", "number", "negative"} : IrqInit(outcome)
        \/ \E ok \in BOOLEAN : NetdevAlloc(ok)
        \/ \E ok \in BOOLEAN : NetdevRegister(ok)
        \/ NapiAdd
     /\ UNCHANGED << usage, driverVars, deviceVars, clocked, countVars >>

RemoveStep ==
  /\ \/ Uses("remove") /\ Unbind
     \/ RemoveNothing
     \/ NotifierUnregister
     \/ NapiDel
     \/ NetdevUnregister /\ ~up /\ \A c \in Ctx : todo[c] = << >>
     \/ IrqDeinit
     \/ DevlinkDeinit
  /\ UNCHANGED << usage, driverVars, deviceVars, clocked, countVars >>

Next ==
  \/ \E start, done \in BOOLEAN : Clock(start, done)
  \/ Open
  \/ Stop
  \/ AddressUp
  \/ AddressDown
  \/ CloseByRemove
  \/ SetRange
  \/ SetGateway
  \/ SetSockets
  \/ SetMac
  \/ \E c \in Ctx :
       \/ WriteRes(c)
       \/ WriteConfig(c)
       \/ ReadRing(c)
       \/ EndOfList(c)
       \/ WriteRing(c)
       \/ Alloc(c)
       \/ OutOfMemory(c)
       \/ Free(c)
       \/ UpDown(c)
  \/ \E b \in Buffers : PopRead(b)
  \/ PopWrite
  \/ ProbeStep
  \/ RemoveStep

(* The device's clock runs. *)
Fairness == WF_vars(\E start, done \in BOOLEAN : Clock(start, done))

Spec == Init /\ [][Next]_vars /\ Fairness

-----------------------------------------------------------------------------
(* The accesses that calls and their loops are made of. *)
Access ==
  {"res", "alloc", "free", "shmem", "range", "ip", "gw", "own_gw", "empty",
   "write_back", "close_only", "close", "clear", "listed", "set", "up",
   "down"} \X Nat

(* Every variable holds a value of its kind; the list fits its slots. *)
TypeOK ==
  /\ held \subseteq Resources /\ ndev \in {"null", "live", "freed"}
  /\ cfg \in [range : 0 .. calls, gw : 0 .. calls, num : 1 .. Slots,
              ports : [1 .. Slots -> Buffers]]
  /\ todo \in [Ctx -> Seq(Access)]
  /\ value \in [Ctx -> BOOLEAN]
  /\ pop = << >> \/ pop \in Buffers \X BOOLEAN
  /\ {up, clocked, overlap, shown} \subseteq BOOLEAN
  /\ mem \in 0 .. allocated /\ res \in 0 .. 1
  /\ regs \in [DOMAIN Registers -> Nat]
  /\ open \in [Buffers -> BOOLEAN] /\ undone \subseteq Buffers
  /\ hw \in [requested : BOOLEAN, enable : BOOLEAN, rst : BOOLEAN,
             busy : BOOLEAN, latched : [DOMAIN Registers -> Nat]]

(* The device works: it is out of reset and none is asked for. *)
Works == ~hw.rst /\ ~hw.requested /\ res = 0

NoCall == \A c \in Ctx : todo[c] = << >>

(* What a call wrote is in force once the device works again, even if the  *)
(* pulse on RES was over before a transfer let the reset happen - all but  *)
(* the MAC address, which waits for the next reset.  Calls of the two      *)
(* contexts that overlap can end with a write that no reset follows.       *)
InForce ==
  NoCall /\ Works /\ ~overlap =>
    \A r \in DOMAIN regs \ {"mac"} : hw.latched[r] = regs[r]

(* While the interface is up and the device works, the device reads and    *)
(* writes the memory that the driver has now, not the one of an earlier    *)
(* open, whatever calls were made in between; a closed interface holds no  *)
(* memory.                                                                 *)
MemorySafe ==
  /\ NoCall /\ Works /\ ~overlap /\ up => hw.latched.shmem = mem
  /\ todo["rtnl"] = << >> => (up <=> mem # 0)

(* The open bits are those of the list as it is after the last call, also  *)
(* if the list was only partly overwritten, and all clear after stop -     *)
(* unless the poll wrote back a bit it had read before the call, or the    *)
(* bit was set when the driver was bound anew: probe clears none.          *)
OpenAsListed ==
  NoCall /\ ~overlap =>
    \A b \in Buffers \ undone : open[b] <=> shown /\ b \in Listed

(* A reset that was asked for during a transfer is not forgotten: if the   *)
(* device is idle now and then, it goes through the reset and works again, *)
(* or RES is kept set.                                                     *)
ResetGiven == []<>~hw.busy => ((hw.requested /\ res = 0) ~> (Works \/ res = 1))
=============================================================================
