------------------------------ MODULE Sockets ------------------------------
(***************************************************************************)
(* The socket layer (libsock.so): the POSIX calls that socket.c puts in    *)
(* front of the user-space driver udriver.c.                               *)
(*                                                                         *)
(* State of the process: the table socket_fds indexed by descriptor, the   *)
(* table epoll_instances, and what the kernel has behind each descriptor.  *)
(* State of the device, which survives the process: the register and the   *)
(* ring of every port, and how full the tx ring is.                        *)
(*                                                                         *)
(* A call that only touches the tables is one action.  The register of a   *)
(* port holds its open bit beside its pop bit, and all who change one of   *)
(* them read the word and write it back without a lock: each read and each *)
(* write of it is a step.  recvfrom, sendto, epoll_wait and select poll in *)
(* a loop, and the steps of other threads fall between theirs.  A call     *)
(* that fails without changing anything is a stuttering step: what it      *)
(* tests is the guard of the action.                                       *)
(***************************************************************************)
EXTENDS Integers, SequencesExt

CONSTANTS
  Threads,
  Pollers,          \* the threads that make calls that may poll
  Applications,     \* applications: each the set of the calls it makes, and
                    \* "sockets" if it opens more than one socket
  LastFd, Inherited,\* descriptors are 0 .. LastFd; those open at the start
  MAX_EPOLL_FDS, MAX_UDP_PORTS,
  PORT_MIN, PORT_MAX,
  LAST_MAPPED,      \* last port whose register lies in the page mapped
  TxLength,         \* slots of the tx ring
  Ports,            \* ports the application binds to, some beyond PORT_MAX
  MaxEvents,        \* bounds: events epoll_wait is asked for, ...
  MaxSockets, MaxDatagrams, MaxOthers, MaxRepeats,
  None

Fd == 0 .. LastFd

(* The upper range is for automatic ports; lib_init and bind have it so. *)
AutoPort(fd) == (PORT_MAX - 1 - fd) % 65536

Port == Ports \cup { AutoPort(fd) : fd \in Fd }

(* buffer_id = port - port_min names a ring of the device.  A port just    *)
(* below port_min would name one of the registers before those of the      *)
(* rings; anything lower is not mapped.                                    *)
ASSUME PortAssumption == \A p \in Port \cup {0} : p >= PORT_MIN \/ p < PORT_MIN - 20

ASSUME SocketsAssumption ==
  /\ {LastFd, MAX_EPOLL_FDS, MAX_UDP_PORTS, TxLength, MaxEvents} \subseteq Nat
  /\ {MaxSockets, MaxDatagrams, MaxOthers, MaxRepeats} \subseteq Nat
  /\ PORT_MAX <= LAST_MAPPED
  /\ Inherited \subseteq Fd
  /\ Pollers \subseteq Threads

VARIABLES
  app,            \* the application that runs, one of Applications
  initialized,
  kind,           \* what the kernel has behind each descriptor
  fds,            \* socket_fds, with the struct behind socket_ptr
  inst,           \* epoll_instances: sequences of entries, or None
  call,           \* per thread: the call it is in
  open, pop,      \* device: BUFFER_OPENSOCK and BUFFER_POPPED of each port
  rings,          \* device: what each rx ring holds
  underflow,      \* device: rings that were popped while empty
  tx,             \* device: slots of the tx ring in use
  created, arrived, others,   \* counters of sockets, datagrams, other sends
  asked, raced,   \* history: who last asked for the status of a port; ports
                  \* whose status was set while a pop of them was under way
  extra,          \* history: ports popped by a write of their status
  multi,          \* history: sockets added to a second epoll instance
  got             \* history: datagrams handed to the application, per port

procVars == << initialized, kind, fds, inst, multi >>
rxVars == << open, pop, rings, underflow, extra >>
askVars == << asked, raced >>
devVars == << rxVars, tx, askVars >>
histVars == << app, created, arrived, others, got >>
vars == << procVars, call, devVars, histVars >>

Kind == {"free", "file", "mem", "sock", "epoll", "leaked"}
NoSocket == [status |-> "NOT_ASSIGNED", epfd |-> -1, id |-> 0, port |-> 0,
             connected |-> FALSE, multicast |-> FALSE]
Idle == [op |-> "idle"]

ProcessStart ==
  [initialized |-> FALSE,
   kind |-> [fd \in Fd |-> IF fd \in Inherited THEN "file" ELSE "free"],
   fds |-> [fd \in Fd |-> NoSocket],
   inst |-> [fd \in Fd |-> None]]

Init ==
  /\ app \in Applications
  /\ initialized = ProcessStart.initialized
  /\ kind = ProcessStart.kind
  /\ fds = ProcessStart.fds
  /\ inst = ProcessStart.inst
  /\ call = [t \in Threads |-> Idle]
  /\ open = [p \in Port |-> FALSE] /\ pop = open
  /\ rings = [p \in Port |-> << >>]
  /\ underflow = {} /\ tx = 0
  /\ created = 0 /\ arrived = 0 /\ others = 0
  /\ asked = [p \in Port |-> "nobody"]
  /\ raced = {} /\ extra = {} /\ multi = {}
  /\ got = [p \in Port |-> << >>]

-----------------------------------------------------------------------------
(* Descriptors. *)

FreeFds == { fd \in Fd : kind[fd] = "free" }

(* open("/dev/null") books the lowest free descriptor. *)
Lowest == CHOOSE fd \in FreeFds : \A g \in FreeFds : fd <= g

Assigned(fd) == fds[fd].status # "NOT_ASSIGNED"
Bound(fd) == fds[fd].status = "BOUND"

(* fds_get_free_fd: the booked descriptor, refused if its entry is taken. *)
FreeEntry == FreeFds # {} /\ ~Assigned(Lowest)

Free(t) == call[t] = Idle

Enter(t, c) == call' = [call EXCEPT ![t] = c]

(* With AUTO_INIT lib_init is a constructor: it runs before the application. *)
Uses(c) == initialized /\ c \in app

-----------------------------------------------------------------------------
(* The register of a port. *)

InRange(p) == PORT_MIN <= p /\ p <= PORT_MAX

(* A port above the range is not refused by udriver_recv and udriver_probe_ *)
(* port: they read past the rings in use, where the device answers with an *)
(* empty ring (that of no port, or 0xDEADBEEF), and past the page mapped.  *)
Mapped(p) == PORT_MIN <= p /\ p <= LAST_MAPPED

(* The device pops a ring at a rising edge of the pop bit. *)
Edge(p, bit) == bit /\ ~pop[p]

(* Mutant: the pulse is lost. *)
NotPopped(ring) == ring

(* A ring after a pop. *)
Popped(ring) == IF ring = << >> THEN ring ELSE Tail(ring)

(* A write of the word.  Nothing in the device looks at empty: the tail of *)
(* an empty ring passes its head, and the ring then claims old slots.      *)
WriteReg(p, status, bit) ==
  /\ open' = [open EXCEPT ![p] = status]
  /\ pop' = [pop EXCEPT ![p] = bit]
  /\ rings' = IF Edge(p, bit) THEN [rings EXCEPT ![p] = Popped(@)] ELSE rings
  /\ underflow' = IF Edge(p, bit) /\ rings[p] = << >>
                  THEN underflow \cup {p} ELSE underflow

(* udriver_initialize opens /dev/mem and resets the device, which empties  *)
(* the rings.  The loop that is to close all sockets passes the indexes of *)
(* the rings where udriver_set_socket_status wants ports.                  *)
InitializeDevice ==
  /\ kind' = [kind EXCEPT ![Lowest] = "mem"]
  /\ open' = [p \in Port |-> open[p] /\ ~(InRange(p) /\ p < MAX_UDP_PORTS)]
  /\ pop' = [p \in Port |-> FALSE]
  /\ rings' = [p \in Port |-> << >>]
  /\ underflow' = {} /\ extra' = {} /\ raced' = {}
  /\ tx' = 0
  /\ asked' = [p \in Port |-> IF InRange(p) THEN "init" ELSE asked[p]]

(* lib_init: fds_init, then udriver_initialize. *)
LibInit ==
  /\ ~initialized /\ FreeFds # {}
  /\ initialized' = TRUE
  /\ fds' = [fd \in Fd |-> [fds[fd] EXCEPT !.status = "NOT_ASSIGNED"]]
  /\ InitializeDevice
  /\ UNCHANGED << inst, multi, call, histVars >>

-----------------------------------------------------------------------------
(* Sockets. *)

(* socket, with room for the descriptor and the struct. *)
Socket ==
  /\ Uses("socket") /\ FreeEntry /\ created < MaxSockets
  /\ created > 0 => Uses("sockets")
  /\ created' = created + 1
  /\ kind' = [kind EXCEPT ![Lowest] = "sock"]
  /\ fds' = [fds EXCEPT ![Lowest] =
               [NoSocket EXCEPT !.status = "INITIALIZED", !.id = created + 1]]
  /\ UNCHANGED << initialized, inst, multi, call, devVars, app, arrived,
                  others, got >>

(* socket or epoll_create fail after the descriptor was booked: no memory, *)
(* or a descriptor beyond epoll_instances.  Nobody closes it.              *)
LeakFd ==
  /\ Uses("fail") /\ FreeFds # {}
  /\ kind' = [kind EXCEPT ![Lowest] = "leaked"]
  /\ UNCHANGED << initialized, fds, inst, multi, call, devVars, histVars >>

(* udriver_set_socket_status reads the register and writes it back with    *)
(* the open bit changed, by: who wants it so.  What the thread does next   *)
(* is known from the start.  The result is ignored by all callers.         *)
StatusRead(t, p, by, fd, next) ==
  Enter(t, [op |-> "status", port |-> p, by |-> by, fd |-> fd, pop |-> pop[p],
            next |-> next])

(* What bind does once its arguments are accepted; port 0 asks for an      *)
(* automatic port.  Nothing tells whether another socket has the port.     *)
BindTo(t, fd, port, next) ==
  LET p == IF port = 0 THEN AutoPort(fd) ELSE port
  IN  /\ fds' = [fds EXCEPT ![fd].status = "BOUND", ![fd].port = p]
      /\ StatusRead(t, p, "bind", fd, next)

Bind(t, fd, port) ==
  /\ Uses("bind") /\ Free(t) /\ fds[fd].status = "INITIALIZED"
  /\ BindTo(t, fd, port, Idle)
  /\ UNCHANGED << initialized, kind, inst, multi, devVars, histVars >>

Connect(fd) ==
  /\ Uses("connect") /\ Assigned(fd)
  /\ fds' = [fds EXCEPT ![fd].connected = TRUE]
  /\ UNCHANGED << initialized, kind, inst, multi, call, devVars, histVars >>

(* setsockopt with IP_MULTICAST_IF; no other option is looked at. *)
SetMulticast(fd) ==
  /\ Uses("setsockopt") /\ Assigned(fd)
  /\ fds' = [fds EXCEPT ![fd].multicast = TRUE]
  /\ UNCHANGED << initialized, kind, inst, multi, call, devVars, histVars >>

-----------------------------------------------------------------------------
(* epoll. *)

(* The instance behind a descriptor that is used again is reached by none  *)
(* but a thread that still waits on it: it keeps the entries it had.       *)
Orphaned(c, ep) ==
  IF c.op = "epoll" /\ c.ep = ep /\ c.kept = None
  THEN [c EXCEPT !.kept = inst[ep]] ELSE c

EpollCreate ==
  /\ Uses("epoll") /\ FreeEntry /\ Lowest < MAX_EPOLL_FDS
  /\ kind' = [kind EXCEPT ![Lowest] = "epoll"]
  /\ inst' = [inst EXCEPT ![Lowest] = << >>]
  /\ call' = [t \in Threads |-> Orphaned(call[t], Lowest)]
  /\ UNCHANGED << initialized, fds, multi, devVars, histVars >>

Instance(ep) == ep \in Fd /\ ep < MAX_EPOLL_FDS /\ inst[ep] # None

Member(ep, fd) == \E i \in DOMAIN inst[ep] : inst[ep][i].fd = fd

Room(ep) == Len(inst[ep]) < MAX_EPOLL_FDS

(* EPOLL_CTL_ADD.  The descriptor need not be one of a socket.  (The epfd  *)
(* of an entry that is not in use is never read: it is left at -1.)        *)
EpollAdd(ep, fd) ==
  /\ Uses("epoll") /\ Instance(ep) /\ kind[fd] \in {"file", "sock"}
  /\ ~Member(ep, fd) /\ Room(ep)
  /\ inst' = [inst EXCEPT ![ep] = Append(@, [fd |-> fd, data |-> fds[fd].id])]
  /\ fds' = IF Assigned(fd) THEN [fds EXCEPT ![fd].epfd = ep] ELSE fds
  /\ multi' = IF \E e \in Fd : inst[e] # None /\ Member(e, fd)
              THEN multi \cup {fds[fd].id} ELSE multi
  /\ UNCHANGED << initialized, kind, call, devVars, histVars >>

(* The entries without the one of fd; those behind it move up. *)
Without(s, fd) == RemoveAt(s, CHOOSE i \in DOMAIN s : s[i].fd = fd)

(* EPOLL_CTL_DEL, as the tables are left by it. *)
AfterDel(ep, fd, table) ==
  IF Instance(ep) /\ Member(ep, fd)
  THEN [inst |-> [inst EXCEPT ![ep] = Without(@, fd)],
        fds |-> [table EXCEPT ![fd].epfd = -1]]
  ELSE [inst |-> inst, fds |-> table]

EpollDel(ep, fd) ==
  /\ Uses("epoll_del") /\ Instance(ep) /\ Member(ep, fd)
  /\ inst' = AfterDel(ep, fd, fds).inst
  /\ fds' = AfterDel(ep, fd, fds).fds
  /\ UNCHANGED << initialized, kind, multi, call, devVars, histVars >>

-----------------------------------------------------------------------------
(* shutdown and close. *)

(* Mutant: a socket keeps its place in the epoll instance. *)
AfterShutdownKept(fd, how) ==
  [inst |-> inst,
   fds |-> IF how = "SHUT_RD" THEN fds ELSE [fds EXCEPT ![fd].connected = FALSE]]

(* The tables after shutdown: the peer is forgotten by SHUT_WR and         *)
(* SHUT_RDWR, and the socket leaves the epoll instance it names.           *)
AfterShutdown(fd, how) ==
  AfterDel(fds[fd].epfd, fd,
           IF how = "SHUT_RD" THEN fds ELSE [fds EXCEPT ![fd].connected = FALSE])

(* SHUT_RD of a bound socket: the port is closed first. *)
ShutdownRead(t, fd) ==
  /\ Uses("shutdown") /\ Free(t) /\ Bound(fd)
  /\ StatusRead(t, fds[fd].port, "SHUT_RD", fd, Idle)
  /\ UNCHANGED << procVars, devVars, histVars >>

(* The second branch of shutdown names SHUT_RDWR, too: that is a request   *)
(* to close the port.  But the first branch was taken, and nothing is done. *)
AskedBy(fd, how) ==
  IF how = "SHUT_RDWR" /\ Bound(fd) /\ InRange(fds[fd].port)
  THEN [asked EXCEPT ![fds[fd].port] = how] ELSE asked

(* The other cases of shutdown touch the tables alone. *)
Shutdown(fd, how) ==
  /\ Uses("shutdown") /\ Assigned(fd)
  /\ how = "SHUT_RD" => ~Bound(fd)
  /\ inst' = AfterShutdown(fd, how).inst
  /\ fds' = AfterShutdown(fd, how).fds
  /\ asked' = AskedBy(fd, how)
  /\ UNCHANGED << initialized, kind, multi, call, rxVars, tx, raced, histVars >>

Popping(p) ==
  \E t \in Threads :
    call[t].op = "pop" /\ call[t].port = p /\ call[t].at # "read"

(* Mutant: the mask is inverted for a socket that is to be closed. *)
OpenBitSet(by) == TRUE

OpenBit(by) == by = "bind"

(* The second half of udriver_set_socket_status and what is left of the    *)
(* call it was made by.  The word written has the pop bit as it was read.  *)
StatusWrite(t) ==
  LET c == call[t]
      p == c.port
  IN  /\ c.op = "status"
      /\ IF InRange(p)
         THEN /\ WriteReg(p, OpenBit(c.by), c.pop)
              /\ asked' = [asked EXCEPT ![p] = c.by]
              /\ raced' = IF Popping(p) THEN raced \cup {p} ELSE raced \ {p}
              /\ extra' = IF Edge(p, c.pop) THEN extra \cup {p} ELSE extra
         ELSE UNCHANGED << rxVars, askVars >>
      /\ IF c.by = "SHUT_RD"
         THEN /\ inst' = AfterShutdown(c.fd, "SHUT_RD").inst
              /\ fds' = AfterShutdown(c.fd, "SHUT_RD").fds
         ELSE UNCHANGED << inst, fds >>
      /\ Enter(t, c.next)
      /\ UNCHANGED << initialized, kind, multi, tx, histVars >>

(* Mutant: the entry stays in use after the descriptor is given back. *)
ReleasedEntryKept(table, fd) == table

(* The entry of a closed socket. *)
ReleasedEntry(table, fd) == [table EXCEPT ![fd] = NoSocket]

(* close of a socket: shutdown(SHUT_RDWR), then the struct and the         *)
(* descriptor are given back.  The port stays open in the device.          *)
CloseSocket(fd) ==
  /\ Uses("close") /\ Assigned(fd)
  /\ inst' = AfterShutdown(fd, "SHUT_RDWR").inst
  /\ fds' = ReleasedEntry(AfterShutdown(fd, "SHUT_RDWR").fds, fd)
  /\ kind' = [kind EXCEPT ![fd] = "free"]
  /\ asked' = AskedBy(fd, "SHUT_RDWR")
  /\ UNCHANGED << initialized, multi, call, rxVars, tx, raced, histVars >>

(* close of any other descriptor goes to libc; the instance of an epoll    *)
(* descriptor stays in the table.                                          *)
CloseOther(fd) ==
  /\ Uses("close") /\ ~Assigned(fd) /\ kind[fd] \in {"file", "epoll"}
  /\ kind' = [kind EXCEPT ![fd] = "free"]
  /\ UNCHANGED << initialized, fds, inst, multi, call, devVars, histVars >>

-----------------------------------------------------------------------------
(* Calls that may poll. *)

(* recvfrom, recv, recvmsg: the port is read from the socket once.  The    *)
(* application has no two threads receive on one port at a time: udriver_  *)
(* recv takes no lock.                                                     *)
Recv(t, fd) ==
  /\ Uses("recv") /\ Free(t) /\ Bound(fd) /\ ~fds[fd].multicast
  /\ \A u \in Threads : call[u].op \in {"recv", "pop"}
                          => call[u].port # fds[fd].port
  /\ Enter(t, [op |-> "recv", port |-> fds[fd].port])
  /\ UNCHANGED << procVars, devVars, histVars >>

(* Mutant: the empty flag is not looked at. *)
FoundUntested(p) ==
  IF rings[p] = << >> THEN [id : {1}, empty : {FALSE}] ELSE {Head(rings[p])}

(* What udriver_recv may find in the ring of port p, that is at its tail.  *)
(* A ring that underflowed shows what once was in its slots.               *)
Found(p) ==
  IF p \in underflow THEN [id : 1 .. arrived, empty : BOOLEAN]
  ELSE IF rings[p] = << >> THEN {} ELSE {Head(rings[p])}

RecvFind(t) ==
  LET p == call[t].port
  IN  /\ call[t].op = "recv" /\ Mapped(p)
      /\ \E d \in Found(p) :
           Enter(t, [op |-> "pop", port |-> p, at |-> "read", value |-> FALSE,
                     dgram |-> d])
      /\ UNCHANGED << procVars, devVars, histVars >>

(* notify_pop_to_rx_buffer: the word is read once and written three times, *)
(* with the pop bit cleared, set and cleared.                              *)
RecvRead(t) ==
  /\ call[t].op = "pop" /\ call[t].at = "read"
  /\ Enter(t, [call[t] EXCEPT !.at = "clear", !.value = open[call[t].port]])
  /\ UNCHANGED << procVars, devVars, histVars >>

RecvWrite(t, at, bit, next) ==
  /\ call[t].op = "pop" /\ call[t].at = at
  /\ WriteReg(call[t].port, call[t].value, bit)
  /\ Enter(t, [call[t] EXCEPT !.at = next])
  /\ UNCHANGED << procVars, extra, tx, askVars, histVars >>

RecvClear(t) == RecvWrite(t, "clear", FALSE, "set")
RecvSet(t) == RecvWrite(t, "set", TRUE, "end")

(* Mutant: the loop ends on an empty datagram only. *)
RecvAgainInverted(d) == ~d.empty

(* recvfrom calls udriver_recv again when it returned 0 bytes. *)
RecvAgain(d) == d.empty

(* The last write, and the loop of recvfrom.  (What is handed over of a    *)
(* ring that underflowed is not kept in the history.)                      *)
RecvEnd(t) ==
  LET c == call[t]
  IN  /\ c.op = "pop" /\ c.at = "end"
      /\ WriteReg(c.port, c.value, FALSE)
      /\ IF RecvAgain(c.dgram)
         THEN Enter(t, [op |-> "recv", port |-> c.port]) /\ UNCHANGED got
         ELSE /\ Enter(t, Idle)
              /\ got' = IF c.port \in underflow THEN got
                        ELSE [got EXCEPT ![c.port] = Append(@, c.dgram.id)]
      /\ UNCHANGED << procVars, extra, tx, askVars, app, created, arrived,
                      others >>

(* sendto, sendmsg: a socket that is not bound gets an automatic port, and *)
(* addrlen is looked at after that.                                        *)
SendTo(t, fd, len) ==
  /\ Uses("send") /\ Free(t) /\ Assigned(fd)
  /\ \E next \in {Idle, [op |-> "send", len |-> len, sent |-> 0]} :
       IF Bound(fd) THEN UNCHANGED fds /\ Enter(t, next)
                    ELSE BindTo(t, fd, 0, next)
  /\ UNCHANGED << initialized, kind, inst, multi, devVars, histVars >>

(* send: only on a connected socket. *)
Send(t, fd, len) == fds[fd].connected /\ SendTo(t, fd, len)

(* Mutant: the loop goes on while there is success. *)
SendAgainInverted(sentb) == sentb > 0

(* The loop in sendto: udriver_send returns the bytes sent, or -1 if the   *)
(* ring is full, which changes nothing.                                    *)
SendAgain(sentb) == sentb <= 0

(* Mutant: the full flag is not looked at. *)
TxRoomUntested == tx <= TxLength

(* udriver_send finds that the tx ring is not full. *)
TxRoom == tx < TxLength

(* A round with room in the ring.  (Test and push are apart in TxPath.)    *)
SendTry(t) ==
  LET c == call[t]
  IN  /\ c.op = "send" /\ c.sent < MaxRepeats /\ TxRoom
      /\ tx' = tx + 1
      /\ Enter(t, IF SendAgain(c.len) THEN [c EXCEPT !.sent = @ + 1] ELSE Idle)
      /\ UNCHANGED << procVars, rxVars, askVars, histVars >>

-----------------------------------------------------------------------------
(* epoll_wait and select. *)

(* i: the entry looked at next; n: the events so far; fd: of the entry;    *)
(* forever: no timeout is given.                                           *)
EpollWait(t, ep, forever, max) ==
  /\ Uses("epoll_wait") /\ Free(t) /\ Instance(ep)
  /\ Enter(t, [op |-> "epoll", ep |-> ep, kept |-> None, forever |-> forever,
               max |-> max, at |-> "entry", i |-> 1, n |-> 0, fd |-> 0])
  /\ UNCHANGED << procVars, devVars, histVars >>

EntriesOf(c) == IF c.kept = None THEN inst[c.ep] ELSE c.kept

(* One round of the scan ends with the last entry or enough events. *)
Scanning(c) == c.i <= Len(EntriesOf(c)) /\ c.n < c.max

Waiting(t, at) == call[t].op = "epoll" /\ call[t].at = at

EpollEntry(t) ==
  LET c == call[t]
  IN  /\ Waiting(t, "entry") /\ Scanning(c)
      /\ Enter(t, [c EXCEPT !.at = "status", !.fd = EntriesOf(c)[c.i].fd])
      /\ UNCHANGED << procVars, devVars, histVars >>

(* Mutant: the scan ends at an entry that is not bound. *)
SkippedForGood(c) == [c EXCEPT !.at = "entry", !.i = Len(EntriesOf(c)) + 1]

(* An entry that is not of a bound socket is passed over. *)
Skipped(c) == [c EXCEPT !.at = "entry", !.i = @ + 1]

EpollStatus(t) ==
  LET c == call[t]
  IN  /\ Waiting(t, "status")
      /\ Enter(t, IF Bound(c.fd) THEN [c EXCEPT !.at = "probe"] ELSE Skipped(c))
      /\ UNCHANGED << procVars, devVars, histVars >>

(* udriver_probe_port. *)
Probe(p) == Found(p) # {}

(* socket_ptr is read again, and with it the port: the socket may have     *)
(* been closed since, and its descriptor used for another one.             *)
Readable(fd) == Assigned(fd) /\ Mapped(fds[fd].port)

EpollProbe(t) ==
  LET c == call[t]
  IN  /\ Waiting(t, "probe") /\ Readable(c.fd)
      /\ Enter(t, [c EXCEPT !.at = "entry", !.i = @ + 1,
                   !.n = IF Probe(fds[c.fd].port) THEN @ + 1 ELSE @])
      /\ UNCHANGED << procVars, devVars, histVars >>

(* The end of a round: the events are returned, the time is over, or the   *)
(* scan starts again.                                                      *)
EpollRound(t) ==
  LET c == call[t]
  IN  /\ Waiting(t, "entry") /\ ~Scanning(c)
      /\ \/ (c.n > 0 \/ ~c.forever) /\ Enter(t, Idle)
         \/ c.n = 0 /\ Enter(t, [c EXCEPT !.i = 1])
      /\ UNCHANGED << procVars, devVars, histVars >>

(* select looks at every bound socket below nfds, whatever the caller's    *)
(* set.  Without a timeout it compares with uninitialised variables, so it *)
(* may return at any time.                                                 *)
Select(t) ==
  /\ Uses("select") /\ Free(t)
  /\ Enter(t, [op |-> "select"])
  /\ UNCHANGED << procVars, devVars, histVars >>

SelectReturn(t) ==
  /\ call[t].op = "select"
  /\ Enter(t, Idle)
  /\ UNCHANGED << procVars, devVars, histVars >>

-----------------------------------------------------------------------------
(* The device, and the end of the process. *)

Arrive(p, empty) ==
  /\ arrived < MaxDatagrams /\ open[p]
  /\ arrived' = arrived + 1
  /\ rings' = IF p \in underflow THEN rings
              ELSE [rings EXCEPT ![p] = Append(@, [id |-> arrived + 1,
                                                   empty |-> empty])]
  /\ UNCHANGED << procVars, call, open, pop, underflow, extra, tx, askVars, app,
                  created, others, got >>

(* The transmit path sends the packet at the tail (TxPath). *)
Transmit ==
  /\ tx > 0
  /\ tx' = tx - 1
  /\ UNCHANGED << procVars, call, rxVars, askVars, histVars >>

(* Other users of the device send: another process, the benchmark. *)
OtherSend ==
  /\ Uses("others") /\ others < MaxOthers /\ TxRoom
  /\ others' = others + 1
  /\ tx' = tx + 1
  /\ UNCHANGED << procVars, call, rxVars, askVars, app, created, arrived, got >>

(* The process is gone and may be started again: the kernel closes its     *)
(* descriptors, the device keeps its registers and rings.                  *)
ProcessEnds ==
  /\ initialized' = ProcessStart.initialized
  /\ kind' = ProcessStart.kind
  /\ fds' = ProcessStart.fds
  /\ inst' = ProcessStart.inst
  /\ multi' = {}
  /\ call' = [t \in Threads |-> Idle]
  /\ UNCHANGED << devVars, histVars >>

(* It ends by itself or is killed ... *)
Restart == Uses("exit") /\ ProcessEnds

(* ... or it reads a register that is not mapped, or a socket that was     *)
(* closed since its status was looked at.                                  *)
Fault(t) ==
  LET c == call[t]
  IN  /\ \/ c.op = "recv" /\ ~Mapped(c.port)
         \/ Waiting(t, "probe") /\ ~Readable(c.fd)
         \/ c.op = "select" /\ \E fd \in Fd : Bound(fd) /\ ~Readable(fd)
      /\ ProcessEnds

CallOn(fd) ==
  \/ Connect(fd)
  \/ SetMulticast(fd)
  \/ \E how \in {"SHUT_RD", "SHUT_WR", "SHUT_RDWR"} : Shutdown(fd, how)
  \/ CloseSocket(fd)
  \/ CloseOther(fd)
  \/ \E ep \in Fd : EpollAdd(ep, fd)
  \/ \E ep \in Fd : EpollDel(ep, fd)

(* The calls that write the register of a port. *)
StatusCallOn(t, fd) ==
  \/ \E p \in Ports \cup {0} : Bind(t, fd, p)
  \/ ShutdownRead(t, fd)

PollingCallOn(t, fd) ==
  \/ Recv(t, fd)
  \/ \E len \in 0 .. 1 : SendTo(t, fd, len)
  \/ \E len \in 0 .. 1 : Send(t, fd, len)
  \/ \E forever \in BOOLEAN, max \in 1 .. MaxEvents :
       EpollWait(t, fd, forever, max)

(* What a thread inside a call does next. *)
Continue(t) ==
  \/ StatusWrite(t)
  \/ RecvFind(t)
  \/ RecvRead(t)
  \/ RecvClear(t)
  \/ RecvSet(t)
  \/ RecvEnd(t)
  \/ SendTry(t)
  \/ EpollEntry(t)
  \/ EpollStatus(t)
  \/ EpollProbe(t)
  \/ EpollRound(t)
  \/ SelectReturn(t)
  \/ Fault(t)

Next ==
  \/ LibInit
  \/ Socket
  \/ LeakFd
  \/ EpollCreate
  \/ \E fd \in Fd : CallOn(fd)
  \/ \E t \in Threads, fd \in Fd : StatusCallOn(t, fd)
  \/ \E t \in Pollers : Select(t) \/ \E fd \in Fd : PollingCallOn(t, fd)
  \/ \E t \in Threads : Continue(t)
  \/ \E p \in Port, empty \in BOOLEAN : Arrive(p, empty)
  \/ Transmit
  \/ OtherSend
  \/ Restart

Spec == Init /\ [][Next]_vars

(* A thread that is inside a call is scheduled, and the device sends what  *)
(* is in its tx ring (TxPath).                                             *)
Fairness ==
  /\ \A t \in Threads : WF_vars(Continue(t))
  /\ WF_vars(Transmit)

FairSpec == Spec /\ Fairness
-----------------------------------------------------------------------------
(* Every table entry, call and history holds a value of its kind. *)
TypeOK ==
  /\ initialized \in BOOLEAN
  /\ kind \in [Fd -> Kind]
  /\ fds \in [Fd -> [status : {"NOT_ASSIGNED", "INITIALIZED", "BOUND"},
                      epfd : Fd \cup {-1}, id : 0 .. MaxSockets,
                      port : Port \cup {0}, connected : BOOLEAN,
                      multicast : BOOLEAN]]
  /\ \A ep \in Fd : inst[ep] # None =>
       /\ inst[ep] \in Seq([fd : Fd, data : 0 .. MaxSockets])
       /\ Len(inst[ep]) <= MAX_EPOLL_FDS
  /\ \A t \in Threads :
       call[t].op \in {"idle", "status", "recv", "pop", "send", "epoll", "select"}
  /\ open \in [Port -> BOOLEAN] /\ pop \in [Port -> BOOLEAN]
  /\ asked \in [Port -> {"nobody", "init", "bind", "SHUT_RD", "SHUT_RDWR"}]
  /\ underflow \subseteq Port /\ raced \subseteq Port /\ extra \subseteq Port
  /\ tx \in 0 .. TxLength /\ multi \subseteq 0 .. MaxSockets

(* The comment in fds_get_free_fd, "This should not happen, because all    *)
(* assigned fds are bookeeped": the kernel has the dummy descriptor of     *)
(* every assigned entry open, no two sockets share an entry, and an entry  *)
(* that is in use is never the one the kernel hands out next.              *)
Bookkept ==
  /\ \A fd \in Fd : Assigned(fd) <=> kind[fd] = "sock"
  /\ \A fd, g \in Fd :
       Assigned(fd) /\ Assigned(g) /\ fds[fd].id = fds[g].id => fd = g

(* shutdown and close look for the socket in the one instance epfd names,  *)
(* and a descriptor number is soon used again.  An entry that was made for *)
(* a socket is gone when the socket is, so epoll_wait never reports the    *)
(* data of a closed socket for its successor - as long as the socket was   *)
(* in no second instance, which epfd cannot remember.                      *)
NoStaleEntry ==
  \A ep \in Fd : inst[ep] # None =>
    \A i \in DOMAIN inst[ep] :
      LET e == inst[ep][i]
      IN  e.data # 0 /\ e.data \notin multi => fds[e.fd].id = e.data

(* The open bit of a port shares a word with the pop bit, and receivers    *)
(* write the whole of it.  A port that was last asked for by bind stays    *)
(* open, and one that was shut down for reading stays closed, whatever is  *)
(* received meanwhile - unless the status was written between the read and *)
(* the last write of a pop, which then writes the old one back.  Nothing   *)
(* is said of a port that SHUT_RDWR was to close, since it is not closed,  *)
(* nor of one that was to be closed at the start: see InitCloses.          *)
StatusKept ==
  \A p \in Port \ raced :
    /\ asked[p] = "bind" => open[p]
    /\ asked[p] = "SHUT_RD" => ~open[p]

(* "Reset sockets - they are initially closed" (udriver_initialize): until *)
(* somebody asks for something else, the port is closed.                   *)
InitCloses == \A p \in Port : asked[p] = "init" => ~open[p]

(* The pop bit may be set by a status written back, too: udriver_set_      *)
(* socket_status read it in the middle of a pulse.  But for those, each    *)
(* pulse takes a datagram that was there, whatever is bound, shut down,    *)
(* received or interrupted meanwhile: the tail never passes the head.      *)
PoppedOnce == underflow \subseteq extra

(* Whatever sockets come, go and share a port, and even if a status that   *)
(* was written back pops the ring once more, the datagrams of a port are   *)
(* handed over in the order of arrival and none of them twice, as long as  *)
(* the tail of the ring does not pass its head.                            *)
InOrderOnce ==
  \A p \in Port : \A i, j \in DOMAIN got[p] : i < j => got[p][i] < got[p][j]

(* A call of recvfrom returns once a datagram with a payload is there, and *)
(* it does not get stuck behind the empty ones it throws away, even if the *)
(* socket is closed under it.  Only a status written back as a pulse can   *)
(* take the datagram away.                                                 *)
RecvReturns ==
  \A t \in Pollers, p \in Port :
    (/\ call[t].op = "recv" /\ call[t].port = p
     /\ \E i \in DOMAIN rings[p] : ~rings[p][i].empty)
      ~> (call[t] = Idle \/ p \in extra)

(* A call of sendto with a payload returns, however often it finds the tx  *)
(* ring full and loses the race for a free slot to other senders, as long  *)
(* as these do not go on for ever.                                         *)
SendReturns ==
  \A t \in Pollers :
    (call[t].op = "send" /\ call[t].len > 0) ~> (call[t] = Idle)

(* The descriptor is one epoll_wait is to look at, and has a datagram. *)
HasData(c, fd) ==
  /\ c.op = "epoll"
  /\ \E i \in DOMAIN EntriesOf(c) : EntriesOf(c)[i].fd = fd
  /\ Bound(fd) /\ fds[fd].port \in Port /\ rings[fds[fd].port] # << >>

(* epoll_wait reads entry by entry, and entries are added and removed      *)
(* under it, which moves those behind.  It may miss a descriptor in one    *)
(* round, but not for ever: while a bound socket of the instance has a     *)
(* datagram, the call returns.                                             *)
EpollWakes ==
  \A t \in Pollers, fd \in Fd :
    HasData(call[t], fd) ~> (call[t] = Idle \/ ~HasData(call[t], fd))
=============================================================================
