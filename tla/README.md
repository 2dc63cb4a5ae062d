# TLA+ model of the UDP/IP core and its drivers

The repository offloads UDP/IP to an FPGA. Packets travel between the CPU and
the fabric through rings of slots in DDR; the CPU moves the rings with AXI-Lite
register accesses, the fabric with DMA engines, and a push or a pop is a
one-clock pulse. This directory models that machinery in TLA+, checks it with
TLC on small instances and proves its safety properties with TLAPS for all
sizes.

Contents: [Inventory](#inventory) - [Modules](#modules) - [Runs](#runs) -
[Observations](#observations) - [Bounds](#bounds) - [Fairness](#fairness) -
[Proofs](#proofs) -
[Abstractions and what is not modelled](#abstractions-and-what-is-not-modelled) -
[Plan](#plan)

## Inventory

All paths are below `src/`.

| component | source | state it keeps | operations |
|---|---|---|---|
| circular buffer | `hardware/rtl/circular_buffer.v` | head, tail, full, empty | push, pop, both, reset |
| AXI-Lite registers | `hardware/rtl/config_regs_AXI_Manager.v`, `pulse_on_posedge.v` | register file, write and read machines, GIE/IER/ISR | register write and read, edge to pulse, interrupt latch |
| transmit path | `hardware/rtl/controller.v`, `axi_dma_rd.v`, `axis_header_remover.v` | transfer lock, descriptor, read engine, output FIFO | request, fetch, stream, pop |
| receive path | `hardware/rtl/axis_udp_port_filter.v`, `axis_header_adder.v`, `controller.v`, `axi_dma_wr.v` | filter state and ring selection, adder state, write engine | judge port, add header, write, push |
| user reset | `hardware/rtl/user_rst_handler.v`, `controller.v` | reset request, busy flags, latched configuration | request, wait for idle, reset |
| kernel driver | `software/kernel/driver/udp_core_netdev.c`, `udp_core_irq.c` | NAPI instance, DMA buffers | open, stop, start_xmit, poll, interrupt handler |
| kernel driver, control | `udp_core_devlink.c`, `udp_core_main.c`, `udp_core_regs.c`, `udp_core_pkt.c` | what is registered, port range, list of sockets, gateway, DMA memory | probe and remove, devlink parameters, address events, packet composition |
| user-space interrupt device | `software/kernel/driver/dev-irq.c` | irq_arrived, wait queue | load, unload, read, interrupt |
| user-space driver | `software/userspace/driver/udriver.c` | mapped buffers and registers | send, recv, probe, open and close a port |
| socket layer | `software/userspace/driver/socket.c` | descriptor table | socket, bind, sendto, recvfrom, select, epoll, shutdown, close |
| UDP/IP stack, MAC | `hardware/rtl/fpga_core_1g.v`, `fpga_core_10g.v`, `lib/eth` (empty submodule) | - | external: its header and payload handshakes |

**How they interact.** To send, a CPU thread reads BUFTX_FULL and BUFTX_HEAD,
copies the packet into the head slot and writes 0, 1, 0 to BUFTX_PUSHED; the
rising edge becomes the push pulse. The controller sees the ring non-empty,
offers a descriptor to `axi_dma_rd` and locks; the last word read pops the ring
(`fpga_core_1g.v:574`), the last word streamed releases the lock. To receive,
the stack presents a header and a payload; the port filter decides twice, a
clock apart (once for the header adder, once for itself); `axi_dma_wr` writes
the frame to the head slot of the selected ring and the last write beat pushes
it (`fpga_core_1g.v:575`), which also sets ISR0 when IER0 is set. GIE and ISR0
make the interrupt line; the handler writes GIE = 0, schedules NAPI and toggles
ISR0; the poll function scans the rings, pops what it takes, completes and
writes GIE = 1. Open and stop switch reset, IER, GIE and NAPI while all of this
runs.

The device takes its configuration over only in reset. A driver call therefore
writes RES = 1, the registers, RES = 0; `user_rst_handler.v` remembers the
request and gives the reset when no transfer is under way, often long after the
call. These calls come under two locks that do not exclude each other: rtnl for
open, stop and address events, devlink for the parameters. The register of an
rx ring holds the pop bit and the open bit of its port, and the poll function,
open, stop and the parameters all change it by reading it and writing it back.
In user space `socket.c` replaces the POSIX calls: a table of sockets indexed by
dummy descriptors, a table of epoll instances, and loops that poll the device.
Built with IRQ_SUPPORT, `udriver_recv` first waits in `dev-irq.c`, one flag and
one wait queue for all threads.

**What is hard.** Nothing in the rings guards against a push when full or a pop
when empty: correctness depends on tests made elsewhere, clocks or milliseconds
earlier. Descriptor address, descriptor valid and ring selection are registers
that lag the state they describe. Filter and header adder judge one packet at
different clocks. Handler, poll function and open/stop share GIE, ISR0 and the
NAPI bits without a lock; ISR0 is toggled, not cleared, and a push that meets
the toggle leaves no trace. Probe registers things before what they use exists,
and its failure path is the whole of remove. Configuration waits for a deferred
reset while further calls come in. Descriptor numbers are used again at once, and
the device keeps its open bits when the process ends. The word of a port, which
holds its open bit and its pop bit, is read and written back by several threads
without a lock. `PROJECT.json` lists each hazard at its line with the properties
aimed at it.

**What makes each part correct.**

- ring: indexes and flags always count the slots in use, and the ring is a FIFO;
- transmit: no overrun, no stale or second descriptor, every packet pushed is
  streamed once, whole and in order, and a copy never touches a slot still to be fetched;
- receive: a frame taken from the ring of a port is one whole packet for that
  port, in order, none lost; the ring is not overrun;
- interrupts: a packet in a ring always has somebody on the way to it, and the
  device is unmasked again;
- configuration: what was written is in force once the device works again, the
  device uses the memory the driver has, the open bits are those of the list;
- user reset: a request made during a transfer is not forgotten;
- probe and remove: every call that can come in is served, nothing is left behind;
- interrupt device: the handler finds what it uses, the line never sticks, a
  packet that comes while its thread waits wakes it;
- sockets: descriptors and table agree, no epoll entry outlives its socket, a
  port stays as it was asked to be and is popped once per datagram, datagrams come
  once and in order, a call that polls returns when what it waits for is there,
  whatever other threads change under it.

## Modules

| module | models | composes |
|---|---|---|
| `CircularBufferOps` | the next-state logic of `circular_buffer.v` as pure operators | |
| `BoundedFifo` | what a ring promises: an abstract bounded queue | |
| `CircularBuffer` | one ring, its slots, a producer and a consumer | `CircularBufferOps`, refines `BoundedFifo` |
| `Packets` | which socket buffers the kernel driver accepts, and their payload length | |
| `TxPath` | both send functions, register write machine, push pulse, tx ring, transfer-request logic, `axi_dma_rd` | `CircularBufferOps`, `Packets` |
| `RxPath` | port filter, header adder, write control, `axi_dma_wr`, rx rings, reader | `CircularBufferOps` |
| `NapiIrq` | interrupt registers, handler, poll function, open, stop | |
| `ProbeRemove` | probe, its failure path and remove, step by step; when which call can come in | |
| `Control` | the configuring calls of both contexts, the poll's pops, `user_rst_handler.v` and the configuration latch | `ProbeRemove` |
| `DevIrq` | the module `dev-irq` and the threads that wait in `udriver_recv` | |
| `Sockets` | `socket.c` on top of `udriver.c`, with the ports of the device | |
| `RingLemmas` | what a clock does to a ring's registers, its occupancy and the places of its slots | `CircularBufferOps` |
| `CircularBufferProofs`, `TxPathProofs`, `RxPathProofs`, `NapiIrqProofs`, `ControlProofs`, `DevIrqProofs`, `SocketsProofs` | theorems about the module each is named after | the first three use `RingLemmas` |
| `MC*` | instances for TLC | |

**Clocked modules** (`CircularBuffer`, `TxPath`, `RxPath`). One `Tick` is one
rising edge. `NextX` is the value register `X` takes at that edge, a function of
the registers before it and of the edge's inputs; handshakes of memory, stack
and bus master are inputs chosen freely, so every stall pattern is covered.
Registers of one Verilog module are the fields of one record and keep their
source names. CPU code takes steps of its own between edges, one per register
access or memcpy, so a fabric that runs arbitrarily many clocks between two
instructions, or none, is covered. The registers of the transfer-request logic
(`controller.v:559-573`) are written with blocking assignments in clocked
blocks; they are modelled as the registers synthesis makes of them. The model
is that of the 1G core (`controller.v`); the controller of the 10G core
(`controller_64.v`) differs from it only in lacking the two width adapters.

**`TxPath`.** `pc[s]` is where thread `s` is in `udriver_send` or
`udp_core_ndo_start_xmit`; `SendStart`, `SendRefused` and `SendInvalid` are the
ways a call starts, then `ReadHead`, `CopyHeader`, `CopyPayload` and three
`WritePushed`. `bus` is the write machine of the registers, `pulse` the
BUFTX_PUSHED register with the flops of `pulse_on_posedge`, `ctl` the transfer-
request logic, `dma` both state machines of `axi_dma_rd`. A packet is named by
its sender and number, a slot is a header word and a payload word that name the
packet they were copied from: a torn or stale packet shows as a mixed frame.
`sent` and `wire` are histories. A call starts with a socket buffer: `Compose`
(`Packets`) decides in the source's own unsigned arithmetic whether it is sent,
and `Fits` whether its payload stays within the slot; one that does not would run
into the slot behind. `udriver_send` has no such test of its own; `sendmsg`
bounds the length, `sendto` does not, so the model assumes callers that do.

**`RxPath`.** A frame is three words that carry the number of their packet.
`TickArrival` is the edge with which a header comes to the outputs of the
stack; it may not come before the previous payload has left the stack. Three
assumptions on the environment, `Assumed`, are explicit because nothing in the
code enforces them: "memory" (the last beat of a packet is taken before the
next header), "peers" (no more unread packets than a ring holds), "sockets"
(no socket is switched in the two clocks in which a header is judged). The
reader's clear/set/clear of the BUFRX register is one pop event.

**`NapiIrq`.** Rings are counters. `Regs` is the interrupt logic: the line is
GIE and ISR0, and the interrupt controller latches its rising edge in
`pending`. One action per register access of the handler (`Handler*`), of the
poll function (`Poll*`) and of open and stop (`Open*`, `Stop*`). The NAPI core
is external: the bits SCHED, MISSED and DISABLE as `napi_schedule`,
`napi_complete`, `napi_enable` and `napi_disable` treat them.

**`ProbeRemove`.** `pc` is the step of `udp_core_probe` or `udp_core_remove` to
come; a step that can fail takes whether it did as its parameter, and a failure
goes to the first step of remove, as the label `init_fail` does. `held` is what
is acquired and registered. `Registration` says what lets the kernel make each
kind of call, `Served` what the call then dereferences, `Window` during which
steps the one is there without the other.

**`Control`.** `todo[c]` is the list of register accesses the call of context `c`
still has to make, and each access is an action, so the calls of the two
contexts interleave access by access. A ring's register is read by one access
and written by the next; the poll does the same with `PopRead` and `PopWrite`.
The loops over the rings and over the list of sockets unfold as they go, because
the list may be rewritten meanwhile. `Clock` is an edge of `user_rst_handler`,
of the busy flag and of the latch; between two accesses at least one edge
passes. Values of registers are the number of the call that wrote them, of the
memory the number of the allocation. A *usage* is the set of kinds of call made
in a behaviour, chosen at the start: each usage exercises one group of
interacting calls.

**`DevIrq`.** `stage` and `at` are the step of loading or unloading, `handler`
and `reader[r]` the places in `dev_irq_irq` and `udriver_recv`; the interrupt
registers are those of `NapiIrq`. An edge stays latched in the interrupt
controller while no handler is registered. The file is registered before the wait
queue is initialised: a process may open and read it in between, and one that has
to wait then is `"crashed"`.

**`Sockets`.** `fds` is `socket_fds` with the struct behind it, `inst` is
`epoll_instances`, `kind` what the kernel has behind each descriptor, `open` and
`pop` the two bits software writes into the word of a port, `rings` and `tx` how
full the device is. `call[t]` is the call thread `t` is in. A call that only
touches the tables is one action. Each access to the word of a port is a step:
`StatusRead` (the first half of `bind` and of `shutdown(SHUT_RD)`) and
`StatusWrite` are `udriver_set_socket_status`, `RecvFind` the look at the ring,
`RecvRead`, `RecvClear`, `RecvSet` and `RecvEnd` the read and the three writes of
`notify_pop_to_rx_buffer`. `WriteReg` is what the device makes of a write: the
open bit, and a pop at a rising edge of the pop bit, also of an empty ring
(`underflow`; what such a ring then shows is any datagram that came before).
`sendto` goes round `SendTry`, which needs a free slot of the tx ring; `Transmit`
and `OtherSend` empty and fill it meanwhile. `epoll_wait` reads an entry
(`EpollEntry`), the status of its descriptor (`EpollStatus`) and, through the
socket, the ring of its port (`EpollProbe`), and `EpollRound` ends a round; other
threads add, remove and close between any two of them. A thread may wait on an
instance that is closed and replaced under its number: it keeps the old one
(`Orphaned`). A call refused without effect is a stuttering step. `Restart` ends
and starts the process, and so does `Fault`: a register read beyond the page that
is mapped (a port above the range is not refused by `udriver_recv` and
`udriver_probe_port`), or a socket used after another thread closed it. The
device keeps its bits. `asked` is the history of who asked last for the status of
each port: `init` for the loop in `udriver_initialize`, `bind`, `SHUT_RD`, and
`SHUT_RDWR` for the request of `shutdown` that is never carried out. `app` is the
set of calls the application makes, chosen at the start.

## Runs

| run | expected | what it asks |
|---|---|---|
| `ring` | pass | `TypeOK`, `Accounting`, refinement of `BoundedFifo` (`FifoSpec`) |
| `tx` | pass | `NoOverrun`, `FreshDescriptor`, `TxFifo`, `CopyAvoidsLive`, liveness `Streamed`, one sender |
| `tx_threads` | violation | `NoOverrun` with two threads in the send function |
| `rx` | pass | `RxIntegrity`, `RxFifo`, `RxNoOverrun`, liveness `RxDelivered` under the three assumptions |
| `rx_full` | violation | `RxNoOverrun` without "peers" |
| `rx_stall` | violation | `RxIntegrity` without "memory" |
| `napi` | pass | `OneOwner`, `NoLostWakeup`, liveness `RxServed` and `GieRestored`, interface brought up once |
| `napi_open` | violation | `GieRestored` when a packet arrives before `napi_enable` |
| `control` | pass | `CallsServed`, `CleanRemove`, `InForce`, `MemorySafe`, `OpenAsListed`, liveness `ResetGiven` |
| `dev_irq` | pass | `HandlerSafe`, `IrqRearmed`, `CleanUnload`, liveness `WokenByNext` |
| `sockets` | pass | `Bookkept`, `NoStaleEntry`, `StatusKept`, `PoppedOnce`, `InOrderOnce`, liveness `RecvReturns`, `SendReturns`, `EpollWakes`, with restarts |
| `sockets_restart` | violation | `InitCloses`: ports are closed when a process starts |

What the violations show:

- **`tx_threads`**: `udriver_send` takes no lock. Two threads see the last free
  slot, both copy into it and both push; the second push meets a full ring. The
  benchmark starts several threads that send (`main.c:114`, `main.c:151`). The
  kernel's transmit lock makes `udp_core_ndo_start_xmit` a single sender.
- **`rx_full`**: README line 320 has the PL wait for the rx buffer not to be
  full; no signal of the receive path reads `full`.
- **`rx_stall`**: the filter's comment has IDLE wait for `dma_done`; the state
  machine leaves on `hdr_valid` alone. A stall of the memory over the next
  header credits the push to the wrong ring.
- **`napi_open`**: open enables interrupts and releases the reset before
  `napi_enable`; a handler in between masks the device for good.
- **`sockets_restart`**: `udriver_initialize` comments its loop "Reset sockets -
  they are initially closed" (`udriver.c:209`) but passes ring indexes where
  `udriver_set_socket_status` expects ports. Every index below `port_min` is
  refused, nothing is closed, and the ports of an earlier process stay open.

Two smaller disagreements with the repository's README have no run: it says the
tx slot is popped after the payload was delivered (line 322; the code pops on
the last word read, which `TxFifo` shows to be harmless), and that ISR, IER and
GIE are "Not functional for now" (lines 342-344; they are).

Exploring `MaxOpens = 2` shows a second open losing receive interrupts: stop may
leave GIE set by a late poll, or ISR0 toggled. The passing run and the theorems
therefore speak of an interface brought up once.

Every property of a passing run has a mutant in `PROJECT.json`: a plausible bug
in the modelled code (named `...Late`, `...Unchecked`, `...Omitted` and so on,
defined next to the original) under which TLC finds the property violated.

## Observations

What the models reach, and the properties of the passing runs therefore state an
exception for, or what they assume. None of it has a sentence in the repository
that says otherwise, unless one is quoted. An exception means that the property
does not catch the case: it shows that there is no other.

Control plane:

- Calls of the two contexts that overlap can end with a register write that no
  reset follows; the old value stays in force (`overlap` in `InForce`,
  `MemorySafe`, `OpenAsListed`). So does an open that runs out of memory: it
  leaves RES = 1.
- The poll's read-modify-write can undo a socket that was opened or closed in
  between (`undone`).
- A new binding starts with the default list of sockets while the device keeps
  its open bits: a list that was applied while the interface was down, or by an
  address event after stop, outlives remove (`undone` takes these bits in when
  probe installs the defaults). The proof of `OpenAsListed` turned this up: one
  binding in the run had not been enough to see it.
- Stop frees the DMA memory while a deferred reset is still pending, that is,
  while a transfer runs. The memory comes from `dma_alloc_noncoherent` and goes
  to `dma_free_coherent`.
- On NETDEV_DOWN the comment says that the reset is kept asserted
  (`udp_core_netdev.c:669`); the next `notify_change` ends with RES = 0, also
  after stop, and opens the sockets of the list with SHMEM = 0.
- The MAC address is not in force before the next reset.
- A bad number in the list of sockets leaves the list partly overwritten with
  the old count, and the setter goes on.
- `Window` lists the steps of probe and remove in which a call would crash:
  parameters are published before `pfdev` and `ndev` are set and stay until
  after `free_netdev`; the shared interrupt is requested before `ndev` exists;
  the interface is registered before, and unregistered after, its NAPI instance
  exists. A probe that fails after `udp_core_devlink_init` runs into a NULL or
  freed `ndev` in `udp_core_netdev_deinit`.
- The poll function copies from memory that `dma_alloc_noncoherent` gave
  (`udp_core_netdev.c:217`) without a `dma_sync_single_for_cpu`; the only sync is
  that of the transmit path (`:412`). `RxPath` assumes that the CPU sees what the
  write engine wrote.
- `ResetGiven` presumes that the device is idle now and then. `tx_busy` can stay
  set (`controller.v:269`) and the reset then waits for the next packet.

Receive path:

- Filter and header adder sample the open sockets a clock apart
  (`axis_udp_port_filter.v:115`). A socket switched in between makes one of them
  forward and the other discard, and the adder joins a header to the payload of
  another packet: `RxIntegrity` fails in run `rx` if "sockets" is taken out of
  `Assumed`.

User space:

- The second branch of `shutdown` is for `how == SHUT_RD || how == SHUT_RDWR`
  (`socket.c:207`), but the first takes `SHUT_RDWR` already. The port stays open,
  also after `close`, which shuts a socket down that way, and its ring fills
  (`asked` is `SHUT_RDWR`; `StatusKept` says nothing of such a port).
- A status change that falls into the pop of another thread is undone (`raced`
  in `StatusKept`).
- One that reads the word during the pop pulse (`udriver.c:256`) and writes it back
  after the pulse has ended (`udriver.c:263`) makes a second pulse (`extra` in
  `PoppedOnce`). A ring that was popped empty then has its tail past its head and
  claims packets: `udriver_probe_port`, which "Returns 1 if a packet is available"
  (`udriver.h:247`), returns 1 without one. TLC finds this if `underflow = {}` is
  stated as an invariant of run `sockets`.
- `udriver_recv` and `udriver_probe_port` take any port (`udriver.c:318`, `:339`).
  One above the range reads the word of a ring that no port uses, or 0xDEADBEEF
  behind the last word, which has the empty bit set: it looks like a port without
  data. One further up reads behind the page of 64 KiB that is mapped, and faults.
- `epoll_wait` reads the socket of a descriptor after its status: a `close` in
  between leaves it a NULL pointer. A closed epoll descriptor leaves its instance
  in the table, and a number that is used again leaves a waiting thread with the
  old instance.
- A socket added to two epoll instances leaves a stale entry in the first
  (`multi` in `NoStaleEntry`).
- `sendto` with an empty payload repeats for ever; empty datagrams received are
  dropped. `select` without a timeout compares uninitialised variables and
  ignores the caller's set. A failing `socket` or `epoll_create` leaves its dummy
  descriptor open. `sendto` binds before it looks at `addrlen`.
- `dev_read` clears the flag before it waits: a packet that is already in the
  ring waits for the next interrupt, and one thread's read can clear the flag
  set for another (`stolen` in `WokenByNext`).
- `misc_register` (`dev-irq.c:151`) precedes `init_waitqueue_head`
  (`dev-irq.c:159`): a process that opens and reads the file in between waits on a
  queue that is not initialised (`"crashed"`; no property depends on it).
- `udriver_send` syncs the buffer it wrote with `XCL_BO_SYNC_BO_FROM_DEVICE`
  (`udriver.c:287`), the direction of a read, and `udriver_recv` syncs nothing.
- An edge latched between `free_irq` and the masking of the device runs the
  handler at the next load, before the registers are mapped (`stale` in
  `HandlerSafe`). A failing probe or `misc_register` of `dev-irq` leaves the
  module in a state the model does not follow (`"dead"`).

## Bounds

- `BUFFER_LENGTH` 3 in `ring` (not a power of two, as in the unit test of
  `circular_buffer.v`) and 2 in `TxPath` and `RxPath`: full, empty and both
  wrap-arounds are reached, and full and empty differ by more than one push.
- `MaxPackets` 6 in `tx`: three times around the ring, with refused and invalid
  calls in between. 3 in `rx` over two ports and a port outside the range:
  forward and discard in every order, a full ring, a ring switch, and one
  socket opened or closed on the way (`MaxSwitches`).
- Two words of a slot in `TxPath`, three of a frame in `RxPath`: the first, the
  last and (rx) a middle one are told apart.
- `NumPorts`, `RingSize`, `Budget` 2 and `MaxPushes` 6 in `napi`: a poll ends
  with nothing found, with its budget used up, and starts over; pushes fall
  before, at and behind the port being scanned. `MaxFailures` 1: one failed
  allocation, in open or in a poll.

- `tx` sends socket buffers with length fields 0, 7, 8, 1480, 1481 and 65535
  among others: both ends of what is accepted and of the wrap.
- `control`: two rings, a list of two slots (lists of up to three numbers, valid
  up to any place), two bindings, and by usage one to three calls on top of
  probe (`MCMaxCalls`): removal with the MAC address 3, with the list of sockets
  1, the poll with the list 2, the range 3, gateway with address events 2. Three
  calls are enough for open, a second call that overlaps it or follows it, and
  stop; the second binding meets the open bits of the first. The theorems hold
  for any number of each.
- `dev_irq`: two readers, rings of two, four pushes, two loads: a stale edge and
  a stolen flag need two of each.
- `sockets`: four descriptors, one of them for `/dev/mem`, epoll tables of two,
  two sockets, two datagrams; two threads change the status of ports and one of
  them makes the calls that poll (`Pollers`). The instances have one or two
  entries, removed and added again under the scan, and a wait asks for one or two
  events (`MaxEvents`). Port 31 is also the automatic port of descriptor 3, so
  two sockets may share it; port 36 is above the range and above what is mapped.
  No port lies in the 20 words below `PORT_MIN`, whose ring index would name
  another register (`PortAssumption`). The tx ring has two slots and others send
  twice (`MaxOthers`), so that it is full before and between the rounds of a call;
  an empty send is repeated twice (`MaxRepeats`) and then stays where it is. An
  application opens two sockets if "sockets" is one of its calls, otherwise one:
  the one that closes what `epoll_wait` looks at reuses the numbers of its socket
  and its instance for instances, not for a second socket, which `NoStaleEntry`
  covers. Two threads that receive on one port are excluded, as `udriver_recv` has
  no lock. The process may end and start any number of times.
- `sockets_restart`: one socket, and an application that binds it and ends.
- A ring that underflowed is not counted any further: what arrives in it and what
  is handed over from it leaves `rings` and `got` as they are.

## Fairness

- `TxPath`, `RxPath`: the clock runs and every handshake is answered in the end
  (weak fairness of the edge on which nobody stalls); a thread inside a driver
  function is scheduled. The rx reader is strongly fair per ring because the
  poll function scans all of them in turn.
- `NapiIrq`: a latched interrupt is delivered, handler, softirq and the calls
  of open and stop run to their end. Nobody has to send, open or stop. Failed
  allocations are bounded, without which a poll could fail for ever.

- `Control`: the clock runs. Nobody has to make or finish a call.
- `DevIrq`: latched interrupts are served and runnable threads run; nobody has
  to receive, load or unload.
- `Sockets`: a thread inside a call is scheduled (`Continue(t)`), and the device
  sends what is in its tx ring (`Transmit`, which is `Streamed` of `TxPath`).
  Nothing is assumed of a thread in between: that a sender meets a free slot, and
  a scan the entry with the datagram, has to follow. Other senders are bounded;
  with ones that never stop a call could lose the race for every free slot.

`napi`, `napi_open`, `control`, `dev_irq` and the runs of `Sockets` do not check
for deadlock: traffic and calls are bounded, and a system with nothing left to do
stands still. The clocked data paths never stand still.

`RxServed` says that a ring with packets is emptied or the interface goes down.
With traffic that never ends a ring need not become empty; the run's bounded
traffic turns the statement into "every packet is taken".

## Proofs

Every invariant and every action property that a passing run checks, and the
refinement of `BoundedFifo`, is a theorem; only liveness is not. Assumptions are
the named ASSUMEs of the component modules: lengths and counts are naturals,
ring length, number of ports and budget at least one, the set of ports not empty.
Three of the proof modules state hypotheses of their own, `OneSender`,
`AllAssumed` and `SingleOpen` (below); violation runs and Observations
show what goes wrong without them.

`RingLemmas` says what `ClockRing` does to `Ring`, to `RingConsistent`, to
`Count` and to the places `SlotAt` for every combination of push and pop that
respects the flags; it serves both data paths and the ring itself.

**Ring** (`CircularBufferProofs`). `TypeCorrect` and `AccountingCorrect` hold for
every ring length. `Accounting` together with `TypeOK` is inductive; the
strengthening lies in the flags: `RingConsistent` says that exactly one of them
is set when head and tail coincide, and without it `Count` could not tell a full
ring from an empty one after the next push. `FifoCorrect` is the refinement, `Spec => FifoSpec`: under the mapping
`Contents` (the slots from tail to head) every clock is a step of `BoundedFifo`.
It rests on the two invariants and on lemmas that a push appends (the head slot
is the one place behind the contents and none of them, `SlotAtFacts`), a pop
takes the tail, and a clock with both is a pop followed by a push.

**Transmit path** (`TxPathProofs`). `TxTypeCorrect` holds for any number of
senders. `TxNoOverrun`, `TxFreshDescriptor`, `TxInOrder` and `TxCopyAvoidsLive`
hold for any ring length and number of packets with `OneSender`: the kernel's
tx queue lock makes `udp_core_ndo_start_xmit` one, and `tx_threads` shows what
happens without it. None of them is inductive by itself: full is read many
clocks before the push, empty and tail many clocks before the pop. `TxInv` ties
the ends together:

- `BusInv`: the levels of the BUFTX_PUSHED register and of the flops behind it at
  each of the three writes, so that one call gives exactly one pulse (`Pending`
  until the ring has seen it);
- `EngineInv`: the phases of a fetch, from a descriptor on offer to the last word
  read and to the last word streamed; in each there is one address at most and
  it is the tail, and `locked` covers all of them;
- `StreamInv`: which words of the current packet are in FIFO, register and frame;
- `ContentInv`: the packets sent are those on the wire, the one being streamed,
  those in the ring slot by slot, and one whose push is pending;
- `SenderInv`: between its test of full and its pulse the sender's slot is the
  head and the ring cannot fill up.

`CopyAvoidsLive` is an action property; it follows because a sender that copies
does so at the head of a ring that is not full.

**Receive path** (`RxPathProofs`). `RxTypeCorrect`, `RxIntegrityCorrect`,
`RxFifoCorrect` and `RxNoOverrunCorrect` hold for any ports, ring length, number
of packets and of socket switches under the three assumptions (`AllAssumed`);
`rx_full` and `rx_stall` show two of them to be needed, Observations the third. `RxInv` rests on
two ideas:

- *One packet in the pipeline.* `PipeInv` says at which of five stages it is
  (`Rest`, `Arrived`, `Judging`, `Discarding`, `Writing`) and that every queue on
  the way holds a `Run` of consecutive words of that one packet: the filter's
  register, the adder's, the beats towards the memory. The five positions from
  `AtFilter` to `AtMemory` are then all the proof has to follow, and the words
  before `AtMemory` are in the slot. `ArrivesAtRest` shows that "memory" makes
  `Rest` the only stage at which a header arrives; `PipeClock` is all the rest
  of the proof knows of a clock.
- *One account per ring.* `RingInv(p)`: the packets that met the open socket of
  `p` are those popped, those in the ring slot by slot, and the one `Coming`;
  together with "peers" this bounds the ring, so that the push meets room.
  "sockets" keeps `Coming` from changing under the filter's decision.

`ReaderInv` keeps the reader's copied tail equal to the ring's: nobody else pops.

**Interrupts** (`NapiIrqProofs`). `NapiTypeCorrect` holds for every instance.
`OneOwnerCorrect` and `NoLostWakeupCorrect` hold for any number of ports, ring
size, budget, failures and traffic, for an interface brought up once and without
packets before `napi_enable` (`SingleOpen`: the two cases left out are the ones
in which the code really loses the wake-up). `NoLostWakeup` alone is not
inductive: that nobody is on the way is compatible with a poll that has passed a
ring by just before a packet came in. The inductive invariant names the owner
of the duty to look at the rings:

- `Armed`: GIE is on, nothing runs, a latched edge exists exactly when ISR0 is
  set, and a non-empty ring has set ISR0;
- `Handling`: the handler is between GIE = 0 and its toggle of ISR0; every ring
  will be scanned afterwards, so a swallowed push does no harm;
- `Polling`: what the current scan has passed by is empty or has set ISR0;
- `Enabling`: the poll has completed; a ring that is not empty has set ISR0, so
  writing GIE = 1 raises the line.

While the interface is up exactly one of them holds (`OneOwner`); `Before`
describes the states of the first open before `napi_enable`.

**Probe and remove** (`ControlProofs`). `CallsServedCorrect` and
`CleanRemoveCorrect` hold for `Control` with any number of bindings, rings,
slots and calls and any usage. `StepIsLifeStep` reduces a step of `Control` to
one of `ProbeRemove` or a stutter. The inductive invariant `LifeInv` is an
account: for every step of probe and remove, exactly what is held, whether
`ndev` is live and whether the interrupt has a number. Neither property is
inductive without it: that an unbound device holds nothing depends on remove
having met, at each of its steps, just what the matching step of probe had left;
and after a failed probe it depends on `ndev` not being live, which makes
`NapiDel` the last step.

`ControlTypeCorrect`, `InForceCorrect`, `MemorySafeCorrect` and
`OpenAsListedCorrect` hold under the same conditions. They speak of states
without a call, so the invariant has to say what is true in the middle of each.
`CallInv` gives every list of accesses that can be left of a call its meaning
(`Opening`, `Stopping`, `Changing`, `Notifying`, and the loops `Emptying`,
`Closing`, `Listing`): between its two writes of RES a call keeps the device in
reset or has a request pending (`InReset`, `Seen`), the rings the loop has
passed have their final bit, and memory, its register and `up` change in the
order alloc, register, up, and the reverse. `Seen` is the point of the deferred
reset: RES = 0 is written only after a clock with RES = 1, hence with the
request stored. `Alone` and `overlap` say which of this two overlapping calls
may break; the part about the memory needs only rtnl. `Quiet` says that no call
is under way while probe and remove replace what the calls work on.

**Interrupt device** (`DevIrqProofs`). `DevIrqTypeCorrect`,
`HandlerSafeCorrect`, `IrqRearmedCorrect` and `CleanUnloadCorrect` hold for any number of threads, ring size, traffic and
loads. `IrqRearmed` is nearly inductive by itself; the other two are not. That
the handler, registered in the first step of loading, finds the registers mapped
and the wait queue set up in later ones depends on the device being unable to
raise its line in between: `Account` says for each step of loading and unloading
what is set up by then, and that GIE is 0 before the last step of loading and
after the third of unloading. `Ready` extends `HandlerSafe` to edges that are
latched and not yet served, with the edges of an earlier load set apart.

**Sockets** (`SocketsProofs`). `SocketsTypeCorrect`, `BookkeptCorrect`,
`NoStaleEntryCorrect`, `StatusKeptCorrect`, `PoppedOnceCorrect` and
`InOrderOnceCorrect` hold for any number of descriptors, table sizes, sockets,
datagrams, tx slots and threads and any set of calls. `SocketsInv` consists of
the types of tables, calls and device (`TableTypes`, `CallTypes`, `DeviceTypes`)
and of

- `Assigning`: the entries in use are those whose descriptor the kernel has
  booked, their sockets differ and were created (`Bookkept` needs that
  `open("/dev/null")` gives the lowest *free* number, `LowestFree`);
- `Entries`: an instance has at most one entry per descriptor, and an entry whose
  socket is in no second instance is the one that socket's `epfd` points back to.
  `NoStaleEntry` is the half of this that outlives the socket;
- `Receivers` and `Order`: a thread that pops is the only one that receives on
  its port, the datagram it holds comes after what was handed over and, once the
  ring was popped (`Gone`), before all that is left in it. This has to hold also
  if a status written back pops the ring in between;
- `Statuses`: `StatusKept`, and for a pop under way that the bit it will write
  back is the one last asked for unless the port is marked as raced
  (`Remembered`);
- `Pulses`: `PoppedOnce`, and for a port without an extra pulse that the pop bit is
  set only while a receiver is before its last write (`Pulsed`), and that a
  receiver before its pulse still has a datagram in the ring.

`PoppedOnce` is not inductive: that a pulse meets a datagram depends on the ring
having been found non-empty three accesses earlier, and on nobody having made a
pulse since. Most steps touch neither rings nor receivers (`Aside`); the five steps
of a receiver, `StatusWrite`, `Arrive`, `LibInit` and the end of the process are
all that the last four parts are about.

Only model-checked are the liveness properties: `Streamed`, `RxDelivered`,
`RxServed`, `GieRestored`, `ResetGiven`, `WokenByNext`, `RecvReturns`,
`SendReturns` and `EpollWakes`. They rest on fairness, hence on ENABLED, which
the prover does not handle.

## Abstractions and what is not modelled

- Packet contents: a word names its packet. Lengths are modelled where the
  kernel driver accepts a packet (`Packets`) and in the padding beat that the
  descriptor's extra 8 bytes cause. Not modelled: the byte counts inside the
  fabric (header remover, clipping and STATE_DROP_DATA of `axi_dma_wr`, bursts
  split at 4 KiB), which need frames of many words.
- In `Control` the two registers of the port range are one, as are the two of
  the MAC address and the three writes of a pop; the subnet mask goes with the
  address. The interrupt registers of open and stop are in `NapiIrq`.
- A reset does not meet a transfer in `TxPath` and `RxPath`: that the reset can
  rise in the clock in which a transfer begins is not modelled.
- The skid buffers, FIFOs and the memory are external and hold or deliver words
  in order; the CPU sees memory as it was written and the device what the CPU
  wrote, though neither driver syncs its reads (see Observations).
- The softirq runs on the CPU whose handler scheduled it (threaded NAPI, in
  which the poll may overtake the handler's toggle of ISR0, is excluded).
- `udp_core_pkt_decompose`, the getters, validators and dumps of devlink,
  `getsockname`, `getsockopt`, `listen`, `accept` and the printing functions
  change no state. `udriver_destroy` is called by nobody.
- `udp_core_notifier_call` runs for every interface of the host and reads the
  private data of foreign ones; the events modelled are those of the driver's
  own interface.
- Left out for good: transceiver wrappers and top levels beyond the wiring of
  push and pop, build files, bitstreams, benchmarks and examples.

## Plan

1. Proofs: the data paths as implementations of one abstract channel per port,
   in the way `CircularBuffer` implements `BoundedFifo`; step properties of the
   reader and of the socket layer (what a step never does to a delivered frame
   or to a port another thread receives on).
2. Lengths inside the fabric: header remover and write engine as recursive
   functions over byte counts, compared with what a datagram should give.
3. The reset in `TxPath`: a reset that falls between the acceptance of a
   descriptor and the read address handshake.
