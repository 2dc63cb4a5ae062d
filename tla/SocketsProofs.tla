--------------------------- MODULE SocketsProofs ---------------------------
(***************************************************************************)
(* Proofs about the socket layer, for any number of threads, descriptors,  *)
(* sockets, ports and datagrams, any application and any number of         *)
(* restarts: the types, the book-keeping of the descriptors, the entries   *)
(* of the epoll instances, the status of the ports, the pulses of the pop  *)
(* bits and the order of the datagrams, each with the invariant it rests   *)
(* on.                                                                     *)
(***************************************************************************)
EXTENDS Sockets, SequenceTheorems, WellFoundedInduction, TLAPS

-----------------------------------------------------------------------------
(***************************************************************************)
(* Types of the parts TypeOK leaves open.                                  *)
(***************************************************************************)

Status == {"NOT_ASSIGNED", "INITIALIZED", "BOUND"}
SocketId == 0 .. MaxSockets

Socket_t == [status : Status, epfd : Fd \cup {-1}, id : SocketId,
             port : Port \cup {0}, connected : BOOLEAN, multicast : BOOLEAN]

Entry == [fd : Fd, data : SocketId]
DatagramId == 1 .. MaxDatagrams
Datagram == [id : DatagramId, empty : BOOLEAN]
Asker == {"nobody", "init", "bind", "SHUT_RD", "SHUT_RDWR"}

ReceiveCall == [op : {"recv"}, port : Port]
PopCall == [op : {"pop"}, port : Port, at : {"read", "clear", "set", "end"},
            value : BOOLEAN, dgram : Datagram]
SendCall == [op : {"send"}, len : 0 .. 1, sent : Int]
OtherCall == [op : {"idle", "select"}]
StatusCall == [op : {"status"}, port : Port, by : {"bind", "SHUT_RD"}, fd : Fd,
               pop : BOOLEAN, next : SendCall \cup OtherCall]
Call == ReceiveCall \cup PopCall \cup SendCall \cup OtherCall \cup StatusCall

(* A call of epoll_wait, of which nothing more is needed. *)
WaitCall(c) ==
  /\ c = [field \in DOMAIN c |-> c[field]]
  /\ "op" \in DOMAIN c /\ c.op = "epoll"

(* The table of epoll instances. *)
InstType(table) ==
  /\ DOMAIN table = Fd
  /\ \A ep \in Fd : table[ep] # None =>
       table[ep] \in Seq(Entry) /\ Len(table[ep]) <= MAX_EPOLL_FDS

(* The tables of the process. *)
TableTypes ==
  /\ initialized \in BOOLEAN
  /\ kind \in [Fd -> Kind]
  /\ fds \in [Fd -> Socket_t]
  /\ \A fd \in Fd : Bound(fd) => fds[fd].port \in Port
  /\ InstType(inst)
  /\ multi \subseteq SocketId
  /\ created \in SocketId

(* The calls under way. *)
CallTypes ==
  /\ call = [t \in Threads |-> call[t]]
  /\ \A t \in Threads : call[t] \in Call \/ WaitCall(call[t])

(* The registers and rings of the ports, and what was received. *)
DeviceTypes ==
  /\ open \in [Port -> BOOLEAN] /\ pop \in [Port -> BOOLEAN]
  /\ rings \in [Port -> Seq(Datagram)]
  /\ got \in [Port -> Seq(DatagramId)]
  /\ arrived \in 0 .. MaxDatagrams
  /\ asked \in [Port -> Asker]
  /\ underflow \subseteq Port /\ raced \subseteq Port /\ extra \subseteq Port
  /\ tx \in 0 .. TxLength

Receiving(t) == call[t].op \in {"recv", "pop"}

(* Threads that receive do so in a process that has called lib_init, and   *)
(* on ports of their own.                                                  *)
Receivers ==
  /\ \A t \in Threads : Receiving(t) => initialized
  /\ \A t, u \in Threads :
       Receiving(t) /\ Receiving(u) /\ call[t].port = call[u].port => t = u

-----------------------------------------------------------------------------
(***************************************************************************)
(* Operators.                                                              *)
(***************************************************************************)

(* A set of naturals that is not empty has a least element. *)
LEMMA Least ==
  ASSUME NEW S, S \subseteq Nat, S # {}
  PROVE  \E n \in S : \A m \in S : n <= m
<1> DEFINE R == {ss \in Nat \X Nat : ss[1] < ss[2]}
<1>1. IsWellFoundedOn(R, Nat)
  BY NatLessThanWellFounded DEF OpToRel
<1>2. \A x, y \in Nat : << y, x >> \in R <=> y < x
  OBVIOUS
<1> HIDE DEF R
<1>3. PICK n \in S : \A m \in S : ~(<< m, n >> \in R)
  BY <1>1, WFMin
<1>4. ASSUME NEW m \in S
      PROVE  n <= m
  <2>1. m \in Nat /\ n \in Nat /\ ~(m < n)
    BY <1>2, <1>3
  <2> QED
    BY <2>1
<1> QED
  BY <1>4

(* The descriptor open("/dev/null") books is a free one. *)
LEMMA LowestFree ==
  ASSUME FreeFds # {}
  PROVE  Lowest \in FreeFds
<1>1. FreeFds \subseteq Nat
  BY SocketsAssumption DEF FreeFds, Fd
<1>2. \E fd \in FreeFds : \A g \in FreeFds : fd <= g
  BY <1>1, Least
<1> QED
  BY <1>2 DEF Lowest

(* Taking a descriptor out of an instance: one entry less, no entry new,   *)
(* none of that descriptor left, and no two made equal.                    *)
LEMMA WithoutFacts ==
  ASSUME NEW s \in Seq(Entry), NEW fd,
         \E i \in DOMAIN s : s[i].fd = fd
  PROVE  /\ Without(s, fd) \in Seq(Entry)
         /\ Len(Without(s, fd)) = Len(s) - 1
         /\ \E place \in [DOMAIN Without(s, fd) -> DOMAIN s] :
              /\ \A i \in DOMAIN Without(s, fd) :
                   Without(s, fd)[i] = s[place[i]]
              /\ \A i, j \in DOMAIN Without(s, fd) :
                   place[i] = place[j] => i = j
              /\ (\A i, j \in DOMAIN s : s[i].fd = s[j].fd => i = j)
                   => \A i \in DOMAIN Without(s, fd) : s[place[i]].fd # fd
<1> DEFINE n == CHOOSE i \in DOMAIN s : s[i].fd = fd
           a == SubSeq(s, 1, n - 1)
           b == SubSeq(s, n + 1, Len(s))
           w == a \o b
<1>1. n \in DOMAIN s /\ s[n].fd = fd
  OBVIOUS
<1>2. Len(s) \in Nat /\ DOMAIN s = 1 .. Len(s) /\ n \in 1 .. Len(s)
  BY <1>1
<1>3. \A i \in 1 .. Len(s) : s[i] \in Entry
  OBVIOUS
<1> HIDE DEF n
<1>4. /\ a \in Seq(Entry) /\ Len(a) = n - 1
      /\ \A i \in 1 .. n - 1 : a[i] = s[i]
  <2>1. n - 1 \in Int /\ \A i \in 1 .. n - 1 : s[i] \in Entry
    BY <1>2, <1>3
  <2> QED
    BY <1>2, <2>1, SubSeqProperties
<1>5. /\ b \in Seq(Entry) /\ Len(b) = Len(s) - n
      /\ \A i \in 1 .. Len(s) - n : b[i] = s[n + i]
  <2>1. n + 1 \in Int /\ \A i \in n + 1 .. Len(s) : s[i] \in Entry
    BY <1>2, <1>3
  <2>2. /\ b \in Seq(Entry)
        /\ Len(b) = IF n + 1 <= Len(s) THEN Len(s) - (n + 1) + 1 ELSE 0
        /\ \A i \in 1 .. Len(s) - (n + 1) + 1 : b[i] = s[n + 1 + i - 1]
    BY <1>2, <2>1, SubSeqProperties
  <2> HIDE DEF b
  <2>3. /\ Len(s) - (n + 1) + 1 = Len(s) - n
        /\ \A i \in 1 .. Len(s) - n : n + 1 + i - 1 = n + i
    BY <1>2
  <2>4. Len(b) = Len(s) - n
    <3>1. Len(s) \in Int /\ n \in Int /\ n <= Len(s)
      BY <1>2
    <3>2. Len(b) = IF n + 1 <= Len(s) THEN Len(s) - (n + 1) + 1 ELSE 0
      BY <2>2
    <3> QED
      BY <3>1, <3>2
  <2> QED
    BY <2>2, <2>3, <2>4
<1> HIDE DEF a, b
<1>6. /\ w \in Seq(Entry) /\ Len(w) = Len(s) - 1
      /\ \A i \in 1 .. Len(s) - 1 : w[i] = IF i < n THEN s[i] ELSE s[i + 1]
  <2>1. /\ w \in Seq(Entry) /\ Len(w) = Len(a) + Len(b)
        /\ \A i \in 1 .. Len(a) + Len(b) :
             w[i] = IF i <= Len(a) THEN a[i] ELSE b[i - Len(a)]
    BY <1>4, <1>5, ConcatProperties
  <2>2. Len(a) + Len(b) = Len(s) - 1
    BY <1>2, <1>4, <1>5
  <2>3. ASSUME NEW i \in 1 .. Len(s) - 1
        PROVE  w[i] = IF i < n THEN s[i] ELSE s[i + 1]
    <3>1. CASE i < n
      BY <1>2, <1>4, <2>1, <2>2, <3>1
    <3>2. CASE ~(i < n)
      <4>1. i - Len(a) \in 1 .. Len(s) - n /\ n + (i - Len(a)) = i + 1
        BY <1>2, <1>4, <3>2
      <4>2. w[i] = b[i - Len(a)]
        BY <1>2, <1>4, <2>1, <2>2, <3>2
      <4> QED
        BY <1>5, <3>2, <4>1, <4>2
    <3> QED
      BY <3>1, <3>2
  <2> QED
    BY <2>1, <2>2, <2>3
<1>7. Without(s, fd) = w
  BY DEF Without, RemoveAt, n, a, b
<1> HIDE DEF w
<1>8. DOMAIN w = 1 .. Len(s) - 1
  BY <1>6
<1> DEFINE place == [i \in DOMAIN w |-> IF i < n THEN i ELSE i + 1]
<1>9. /\ place \in [DOMAIN w -> DOMAIN s]
      /\ \A i \in DOMAIN w : w[i] = s[place[i]] /\ place[i] # n
      /\ \A i, j \in DOMAIN w : place[i] = place[j] => i = j
  BY <1>2, <1>6, <1>8
<1> HIDE DEF place
<1>10. (\A i, j \in DOMAIN s : s[i].fd = s[j].fd => i = j)
         => \A i \in DOMAIN w : s[place[i]].fd # fd
  BY <1>1, <1>9 DEF n
<1> HIDE DEF n
<1>11. \E f \in [DOMAIN w -> DOMAIN s] :
         /\ \A i \in DOMAIN w : w[i] = s[f[i]]
         /\ \A i, j \in DOMAIN w : f[i] = f[j] => i = j
         /\ (\A i, j \in DOMAIN s : s[i].fd = s[j].fd => i = j)
              => \A i \in DOMAIN w : s[f[i]].fd # fd
  BY <1>9, <1>10
<1>12. PICK v : v = Without(s, fd) /\ v = w
  BY <1>7
<1>13. /\ v \in Seq(Entry) /\ Len(v) = Len(s) - 1
       /\ \E f \in [DOMAIN v -> DOMAIN s] :
            /\ \A i \in DOMAIN v : v[i] = s[f[i]]
            /\ \A i, j \in DOMAIN v : f[i] = f[j] => i = j
            /\ (\A i, j \in DOMAIN s : s[i].fd = s[j].fd => i = j)
                 => \A i \in DOMAIN v : s[f[i]].fd # fd
  BY ONLY <1>6, <1>11, <1>12
<1> QED
  BY ONLY <1>12, <1>13

(* Removing an entry leaves instances. *)
LEMMA AfterDelInst ==
  ASSUME InstType(inst), NEW ep, NEW fd, NEW table
  PROVE  InstType(AfterDel(ep, fd, table).inst)
<1>1. CASE Instance(ep) /\ Member(ep, fd)
  <2>1. AfterDel(ep, fd, table).inst = [inst EXCEPT ![ep] = Without(@, fd)]
    BY <1>1 DEF AfterDel
  <2>2. /\ inst[ep] \in Seq(Entry) /\ Len(inst[ep]) <= MAX_EPOLL_FDS
        /\ \E i \in DOMAIN inst[ep] : inst[ep][i].fd = fd
    BY <1>1 DEF Instance, Member, InstType
  <2>3. /\ Without(inst[ep], fd) \in Seq(Entry)
        /\ Len(Without(inst[ep], fd)) = Len(inst[ep]) - 1
    BY <2>2, WithoutFacts
  <2>4. Len(Without(inst[ep], fd)) <= MAX_EPOLL_FDS
    <3>1. Len(inst[ep]) \in Int /\ MAX_EPOLL_FDS \in Int
      BY <2>2, SocketsAssumption
    <3> QED
      BY <2>2, <2>3, <3>1
  <2> QED
    BY <2>1, <2>3, <2>4 DEF InstType
<1>2. CASE ~(Instance(ep) /\ Member(ep, fd))
  BY <1>2 DEF AfterDel
<1> QED
  BY <1>1, <1>2

-----------------------------------------------------------------------------
(***************************************************************************)
(* Types.                                                                  *)
(***************************************************************************)

(* A call under way has the fields of its kind. *)
LEMMA CallFields ==
  ASSUME CallTypes, NEW t \in Threads
  PROVE  /\ call[t].op = "recv" => call[t] \in ReceiveCall /\ call[t].port \in Port
         /\ call[t].op = "pop" => call[t] \in PopCall /\ call[t].port \in Port
         /\ call[t].op = "send" => call[t] \in SendCall
         /\ call[t].op = "status" =>
              call[t] \in StatusCall /\ call[t].port \in Port /\ call[t].fd \in Fd
         /\ call[t].op = "epoll" => WaitCall(call[t])
<1>1. CASE call[t] \in Call
  BY <1>1 DEF Call, ReceiveCall, PopCall, SendCall, OtherCall, StatusCall
<1>2. CASE WaitCall(call[t])
  BY <1>2 DEF WaitCall
<1> QED
  BY <1>1, <1>2 DEF CallTypes

(* The call of one thread changes. *)
LEMMA Entered ==
  ASSUME CallTypes, NEW t \in Threads, NEW c, Enter(t, c)
  PROVE  /\ call' = [u \in Threads |-> call'[u]]
         /\ call'[t] = c
         /\ \A u \in Threads : u # t => call'[u] = call[u]
BY DEF CallTypes, Enter

(* bind leaves the table in type and the socket with a port. *)
LEMMA BindToTypes ==
  ASSUME TableTypes, NEW t, NEW fd \in Fd, NEW port \in Ports \cup {0}, NEW next,
         BindTo(t, fd, port, next)
  PROVE  /\ fds' \in [Fd -> Socket_t]
         /\ \A g \in Fd : Bound(g)' => fds'[g].port \in Port
         /\ \A g \in Fd : /\ Assigned(fd) => (Assigned(g)' <=> Assigned(g))
                          /\ fds'[g].id = fds[g].id /\ fds'[g].epfd = fds[g].epfd
<1>1. (IF port = 0 THEN AutoPort(fd) ELSE port) \in Port
  BY DEF Port
<1>2. PICK q \in Port : fds' = [fds EXCEPT ![fd].status = "BOUND", ![fd].port = q]
  BY <1>1 DEF BindTo
<1>3. fds \in [Fd -> Socket_t] /\ fds[fd] \in Socket_t
  BY DEF TableTypes
<1>4. fds' = [fds EXCEPT ![fd] = [fds[fd] EXCEPT !.status = "BOUND", !.port = q]]
  BY <1>2, <1>3 DEF Socket_t
<1>5. PICK e : e = [fds[fd] EXCEPT !.status = "BOUND", !.port = q]
  OBVIOUS
<1>6. /\ e \in Socket_t /\ e.status = "BOUND" /\ e.port = q
      /\ e.id = fds[fd].id /\ e.epfd = fds[fd].epfd
  BY <1>3, <1>5 DEF Socket_t, Status
<1>7. fds' \in [Fd -> Socket_t] /\ fds'[fd] = e /\ \A g \in Fd : g # fd => fds'[g] = fds[g]
  BY <1>3, <1>4, <1>5, <1>6
<1>8. \A g \in Fd : Bound(g)' => fds'[g].port \in Port
  BY <1>6, <1>7 DEF Bound, TableTypes
<1> QED
  BY <1>6, <1>7, <1>8 DEF Assigned

(* shutdown leaves the table in type, and every socket where it is but for *)
(* epfd of its own.                                                        *)
LEMMA ShutdownKeeps ==
  ASSUME TableTypes, NEW fd \in Fd, NEW how, NEW g \in Fd
  PROVE  /\ AfterShutdown(fd, how).fds \in [Fd -> Socket_t]
         /\ AfterShutdown(fd, how).fds[g].status = fds[g].status
         /\ AfterShutdown(fd, how).fds[g].id = fds[g].id
         /\ AfterShutdown(fd, how).fds[g].port = fds[g].port
         /\ g # fd => AfterShutdown(fd, how).fds[g].epfd = fds[g].epfd
<1> DEFINE table == IF how = "SHUT_RD" THEN fds ELSE [fds EXCEPT ![fd].connected = FALSE]
<1>1. /\ table \in [Fd -> Socket_t] /\ table[g].status = fds[g].status
      /\ table[g].id = fds[g].id /\ table[g].epfd = fds[g].epfd
      /\ table[g].port = fds[g].port
  BY DEF TableTypes, Socket_t
<1>2. AfterShutdown(fd, how).fds \in {table, [table EXCEPT ![fd].epfd = -1]}
  BY DEF AfterShutdown, AfterDel
<1> HIDE DEF table
<1>3. CASE AfterShutdown(fd, how).fds = table
  BY <1>1, <1>3
<1>4. CASE AfterShutdown(fd, how).fds = [table EXCEPT ![fd].epfd = -1]
  BY <1>1, <1>4 DEF Socket_t
<1> QED
  BY <1>2, <1>3, <1>4

(* A socket leaves its epoll instance in shutdown. *)
Leaves(fd, how) ==
  /\ inst' = AfterShutdown(fd, how).inst
  /\ fds' = AfterShutdown(fd, how).fds
  /\ UNCHANGED << initialized, kind, multi, created >>

(* The tables stay in type. *)
LEMMA LeavesTypes ==
  ASSUME TableTypes, NEW fd \in Fd, NEW how, Leaves(fd, how)
  PROVE  TableTypes'
<1>1. InstType(inst')
  BY AfterDelInst DEF Leaves, AfterShutdown, TableTypes
<1>2. fds' \in [Fd -> Socket_t]
  BY ShutdownKeeps DEF Leaves
<1>3. \A g \in Fd : Bound(g)' => fds'[g].port \in Port
  BY ShutdownKeeps DEF Leaves, Bound, TableTypes
<1> QED
  BY <1>1, <1>2, <1>3 DEF Leaves, TableTypes, InstType

(* The calls on a descriptor keep the tables in type. *)
LEMMA CallOnTypes ==
  ASSUME TableTypes, NEW fd \in Fd, CallOn(fd)
  PROVE  TableTypes'
<1> USE DEF TableTypes
<1>1. fds[fd] \in Socket_t /\ fds \in [Fd -> Socket_t]
  OBVIOUS
<1>2. ASSUME NEW table \in [Fd -> Socket_t], NEW g \in Fd, NEW e \in Socket_t
      PROVE  [table EXCEPT ![g] = e] \in [Fd -> Socket_t]
  OBVIOUS
<1>4. CASE Connect(fd)
  BY <1>4 DEF Connect, histVars, Socket_t, Bound
<1>5. CASE SetMulticast(fd)
  BY <1>5 DEF SetMulticast, histVars, Socket_t, Bound
<1>6. ASSUME NEW how, Shutdown(fd, how) PROVE TableTypes'
  BY <1>6, LeavesTypes DEF Shutdown, Leaves, histVars
<1>7. CASE CloseSocket(fd)
  <2>1. InstType(inst')
    BY <1>7, AfterDelInst DEF CloseSocket, AfterShutdown
  <2>2. NoSocket \in Socket_t
    BY SocketsAssumption DEF NoSocket, Socket_t, Status, SocketId
  <2>3. fds' \in [Fd -> Socket_t] /\ \A g \in Fd : Bound(g)' => fds'[g].port \in Port
    <3> DEFINE after == AfterShutdown(fd, "SHUT_RDWR").fds
    <3>1. /\ after \in [Fd -> Socket_t]
          /\ \A g \in Fd : after[g].status = fds[g].status /\ after[g].port = fds[g].port
      BY ShutdownKeeps
    <3>2. fds' = [after EXCEPT ![fd] = NoSocket]
      BY <1>7 DEF CloseSocket, ReleasedEntry
    <3> HIDE DEF after
    <3>3. fds' \in [Fd -> Socket_t]
      BY <2>2, <3>1, <3>2
    <3>4. ASSUME NEW g \in Fd, Bound(g)' PROVE fds'[g].port \in Port
      <4>1. g # fd
        BY <3>1, <3>2, <3>4 DEF Bound, NoSocket
      <4>2. fds'[g].status = fds[g].status /\ fds'[g].port = fds[g].port
        BY <3>1, <3>2, <4>1
      <4> QED
        BY <3>4, <4>2 DEF Bound
    <3> QED
      BY <3>3, <3>4
  <2>4. kind' \in [Fd -> Kind]
    BY <1>7 DEF CloseSocket, Kind
  <2> QED
    BY <1>7, <2>1, <2>3, <2>4 DEF CloseSocket, histVars, InstType
<1>8. CASE CloseOther(fd)
  BY <1>8 DEF CloseOther, histVars, Kind, Bound
<1>9. ASSUME NEW ep \in Fd, EpollAdd(ep, fd) PROVE TableTypes'
  <2>1. [fd |-> fd, data |-> fds[fd].id] \in Entry /\ fds[fd].id \in SocketId
    BY DEF Socket_t, Entry
  <2>2. fds' \in [Fd -> Socket_t] /\ \A g \in Fd : Bound(g)' => fds'[g].port \in Port
    BY <1>9 DEF EpollAdd, Socket_t, Bound
  <2>3. InstType(inst')
    <3>1. /\ inst[ep] \in Seq(Entry) /\ Len(inst[ep]) < MAX_EPOLL_FDS
          /\ inst' = [inst EXCEPT ![ep] = Append(@, [fd |-> fd, data |-> fds[fd].id])]
      BY <1>9 DEF EpollAdd, Instance, Room, InstType
    <3>2. /\ Append(inst[ep], [fd |-> fd, data |-> fds[fd].id]) \in Seq(Entry)
          /\ Len(Append(inst[ep], [fd |-> fd, data |-> fds[fd].id])) <= MAX_EPOLL_FDS
      BY <2>1, <3>1, AppendProperties, SocketsAssumption
    <3> QED
      BY <3>1, <3>2 DEF InstType
  <2>4. multi' \subseteq SocketId
    BY <1>9, <2>1 DEF EpollAdd
  <2> QED
    BY <1>9, <2>2, <2>3, <2>4 DEF EpollAdd, histVars, InstType
<1>10. ASSUME NEW ep \in Fd, EpollDel(ep, fd) PROVE TableTypes'
  <2>1. InstType(inst')
    BY <1>10, AfterDelInst DEF EpollDel
  <2>2. fds' \in [Fd -> Socket_t] /\ \A g \in Fd : Bound(g)' => fds'[g].port \in Port
    BY <1>10 DEF EpollDel, AfterDel, Socket_t, Bound
  <2> QED
    BY <1>10, <2>1, <2>2 DEF EpollDel, histVars, InstType
<1> QED
  BY <1>4, <1>5, <1>6, <1>7, <1>8, <1>9, <1>10 DEF CallOn

(* The other calls that change the tables. *)
LEMMA TableStep ==
  ASSUME TableTypes, CallTypes, [Next]_vars
  PROVE  TableTypes'
<1>1. FreeFds # {} => Lowest \in Fd
  BY LowestFree DEF FreeFds
<1>2. NoSocket \in Socket_t /\ 0 \in SocketId
  BY SocketsAssumption DEF NoSocket, Socket_t, Status, SocketId
<1>3. InstType([fd \in Fd |-> None]) /\ << >> \in Seq(Entry) /\ Len(<< >>) = 0
  BY DEF InstType
<1>4. MAX_EPOLL_FDS \in Nat /\ MaxSockets \in Nat
  BY SocketsAssumption
<1>5. CASE LibInit
  <2>1. /\ kind' \in [Fd -> Kind] /\ initialized' \in BOOLEAN
        /\ UNCHANGED << inst, multi, created >>
    BY <1>1, <1>5 DEF LibInit, InitializeDevice, TableTypes, Kind, histVars
  <2>2. fds' \in [Fd -> Socket_t] /\ \A fd \in Fd : ~Bound(fd)'
    BY <1>5, SMTT(60) DEF LibInit, TableTypes, Socket_t, Status, Bound
  <2> QED
    BY <2>1, <2>2 DEF TableTypes, InstType
<1>6. CASE Socket
  <2>1. created' \in SocketId
    BY <1>4, <1>6 DEF Socket, TableTypes, SocketId
  <2>2. [NoSocket EXCEPT !.status = "INITIALIZED", !.id = created + 1] \in Socket_t
    BY <1>2, <1>6, <2>1 DEF Socket, Socket_t, Status, NoSocket
  <2>3. fds' \in [Fd -> Socket_t] /\ \A fd \in Fd : Bound(fd)' => fds'[fd].port \in Port
    BY <1>1, <1>6, <2>2 DEF Socket, FreeEntry, TableTypes, Bound, NoSocket
  <2>4. kind' \in [Fd -> Kind]
    BY <1>6 DEF Socket, TableTypes, Kind
  <2> QED
    BY <1>6, <2>1, <2>3, <2>4 DEF Socket, TableTypes, InstType
<1>7. CASE LeakFd
  BY <1>7 DEF LeakFd, TableTypes, Kind, histVars, Bound, InstType
<1>8. CASE EpollCreate
  <2>1. InstType(inst')
    BY <1>3, <1>4, <1>8 DEF EpollCreate, TableTypes, InstType
  <2> QED
    BY <1>8, <2>1 DEF EpollCreate, TableTypes, Kind, histVars, Bound, InstType
<1>9. ASSUME NEW fd \in Fd, CallOn(fd) PROVE TableTypes'
  BY <1>9, CallOnTypes
<1>10. ASSUME NEW t \in Threads, NEW fd \in Fd, NEW port \in Ports \cup {0},
              NEW next, BindTo(t, fd, port, next),
              UNCHANGED << initialized, kind, inst, multi, created >>
       PROVE  TableTypes'
  <2>1. /\ fds' \in [Fd -> Socket_t]
        /\ \A g \in Fd : Bound(g)' => fds'[g].port \in Port
    BY <1>10, BindToTypes
  <2> QED
    BY <1>10, <2>1 DEF TableTypes, InstType
<1>11. CASE ProcessEnds
  <2>1. kind' \in [Fd -> Kind]
    BY <1>11 DEF ProcessEnds, ProcessStart, Kind
  <2>2. fds' \in [Fd -> Socket_t] /\ \A fd \in Fd : ~Bound(fd)'
    BY <1>2, <1>11 DEF ProcessEnds, ProcessStart, NoSocket, Bound
  <2>3. initialized' \in BOOLEAN /\ inst' = [fd \in Fd |-> None] /\ multi' = {}
        /\ created' = created
    BY <1>11 DEF ProcessEnds, ProcessStart, histVars
  <2> QED
    BY <1>3, <2>1, <2>2, <2>3 DEF TableTypes, InstType
<1>12. CASE UNCHANGED << procVars, created >>
  BY <1>12 DEF procVars, TableTypes, Bound, InstType
<1>13. ASSUME NEW t \in Threads, StatusWrite(t) PROVE TableTypes'
  <2>1. call[t].fd \in Fd
    BY <1>13, CallFields DEF StatusWrite
  <2>2. CASE call[t].by = "SHUT_RD"
    BY <1>13, <2>1, <2>2, LeavesTypes DEF StatusWrite, Leaves, histVars
  <2>3. CASE call[t].by # "SHUT_RD"
    BY <1>12, <1>13, <2>3 DEF StatusWrite, procVars, histVars
  <2> QED
    BY <2>2, <2>3
<1>14. ASSUME NEW t \in Threads, Continue(t), ~StatusWrite(t), ~Fault(t)
       PROVE  UNCHANGED << procVars, created >>
  BY <1>14 DEF Continue, RecvFind, RecvRead, RecvClear, RecvSet, RecvWrite,
               RecvEnd, SendTry, EpollEntry, EpollStatus, EpollProbe,
               EpollRound, SelectReturn, histVars
<1>15. ASSUME NEW t \in Threads, NEW fd \in Fd,
              StatusCallOn(t, fd) \/ PollingCallOn(t, fd)
       PROVE  TableTypes'
  <2>1. ASSUME NEW p \in Ports \cup {0}, Bind(t, fd, p) PROVE TableTypes'
    BY <1>10, <2>1 DEF Bind, histVars
  <2>2. CASE ShutdownRead(t, fd)
    BY <1>12, <2>2 DEF ShutdownRead, histVars
  <2>3. CASE Recv(t, fd)
    BY <1>12, <2>3 DEF Recv, histVars
  <2>4. ASSUME NEW len, SendTo(t, fd, len) PROVE TableTypes'
    <3>1. CASE Bound(fd)
      BY <1>12, <2>4, <3>1 DEF SendTo, procVars, histVars
    <3>2. CASE ~Bound(fd)
      BY <1>10, <2>4, <3>2 DEF SendTo, histVars
    <3> QED
      BY <3>1, <3>2
  <2>5. ASSUME NEW forever, NEW max, EpollWait(t, fd, forever, max)
        PROVE  TableTypes'
    BY <1>12, <2>5 DEF EpollWait, histVars
  <2> QED
    BY <1>15, <2>1, <2>2, <2>3, <2>4, <2>5 DEF StatusCallOn, PollingCallOn, Send
<1>16. CASE Restart \/ \E t \in Threads : Fault(t)
  BY <1>11, <1>16 DEF Restart, Fault
<1>17. CASE \/ \E t \in Threads : Select(t)
            \/ \E p \in Port, empty \in BOOLEAN : Arrive(p, empty)
            \/ Transmit
            \/ OtherSend
            \/ UNCHANGED vars
  BY <1>12, <1>17 DEF Select, Arrive, Transmit, OtherSend, histVars, vars
<1>18. Pollers \subseteq Threads
  BY SocketsAssumption
<1>19. ASSUME NEW t \in Threads, Continue(t) PROVE TableTypes'
  BY <1>12, <1>13, <1>14, <1>16, <1>19
<1>20. CASE \/ \E t \in Threads, fd \in Fd : StatusCallOn(t, fd)
            \/ \E t \in Pollers : Select(t) \/ \E fd \in Fd : PollingCallOn(t, fd)
  BY <1>15, <1>17, <1>18, <1>20
<1>21. CASE UNCHANGED vars
  BY <1>17, <1>21
<1>22. CASE Next
  BY <1>5, <1>6, <1>7, <1>8, <1>9, <1>16, <1>17, <1>19, <1>20, <1>22 DEF Next
<1> QED
  BY <1>21, <1>22

(* The calls under way stay in type. *)
LEMMA CallStep ==
  ASSUME TableTypes, CallTypes, DeviceTypes, [Next]_vars
  PROVE  CallTypes'
<1>1. ASSUME NEW t \in Threads, NEW c, Enter(t, c), c \in Call \/ WaitCall(c)
      PROVE  CallTypes'
  BY <1>1, Entered DEF CallTypes
<1>2. CASE UNCHANGED call
  BY <1>2 DEF CallTypes
<1>3. Idle \in OtherCall /\ Idle \in Call
  BY DEF Idle, OtherCall, Call
<1>4. CASE ProcessEnds
  BY <1>3, <1>4 DEF ProcessEnds, CallTypes
<1>5. CASE EpollCreate
  <2>1. call' = [t \in Threads |-> Orphaned(call[t], Lowest)]
    BY <1>5 DEF EpollCreate
  <2>2. ASSUME NEW t \in Threads
        PROVE  call'[t] \in Call \/ WaitCall(call'[t])
    <3>1. CASE call'[t] = call[t]
      BY <3>1 DEF CallTypes
    <3>2. CASE call'[t] # call[t]
      <4>1. call[t].op = "epoll" /\ call'[t] = [call[t] EXCEPT !.kept = inst[Lowest]]
        BY <2>1, <3>2 DEF Orphaned
      <4>2. WaitCall(call[t])
        BY <4>1, CallFields
      <4> QED
        BY <4>1, <4>2 DEF WaitCall
    <3> QED
      BY <3>1, <3>2
  <2> QED
    BY <2>1, <2>2 DEF CallTypes
<1>6. ASSUME NEW t \in Threads, NEW p \in Port, NEW by \in {"bind", "SHUT_RD"},
             NEW fd \in Fd, NEW next \in SendCall \cup OtherCall,
             StatusRead(t, p, by, fd, next)
      PROVE  CallTypes'
  <2>1. pop[p] \in BOOLEAN
    BY DEF DeviceTypes
  <2>2. [op |-> "status", port |-> p, by |-> by, fd |-> fd, pop |-> pop[p],
         next |-> next] \in StatusCall
    BY <2>1 DEF StatusCall
  <2> QED
    BY <1>1, <1>6, <2>2 DEF StatusRead, Call
<1>7. ASSUME NEW t \in Threads, NEW fd \in Fd, NEW port \in Ports \cup {0},
             NEW next \in SendCall \cup OtherCall, BindTo(t, fd, port, next)
      PROVE  CallTypes'
  <2>1. (IF port = 0 THEN AutoPort(fd) ELSE port) \in Port
    BY DEF Port
  <2> QED
    BY <1>6, <1>7, <2>1 DEF BindTo
<1>8. ASSUME NEW t \in Threads, NEW fd \in Fd, StatusCallOn(t, fd)
      PROVE  CallTypes'
  <2>1. ASSUME NEW p \in Ports \cup {0}, Bind(t, fd, p) PROVE CallTypes'
    BY <1>3, <1>7, <2>1 DEF Bind
  <2>2. CASE ShutdownRead(t, fd)
    BY <1>3, <1>6, <2>2 DEF ShutdownRead, TableTypes
  <2> QED
    BY <1>8, <2>1, <2>2 DEF StatusCallOn
<1>9. ASSUME NEW t \in Threads, NEW fd \in Fd, PollingCallOn(t, fd)
      PROVE  CallTypes'
  <2>1. CASE Recv(t, fd)
    <3>1. [op |-> "recv", port |-> fds[fd].port] \in Call
      BY <2>1 DEF Recv, TableTypes, Call, ReceiveCall
    <3> QED
      BY <1>1, <2>1, <3>1 DEF Recv
  <2>2. ASSUME NEW len \in 0 .. 1, SendTo(t, fd, len) PROVE CallTypes'
    <3>1. [op |-> "send", len |-> len, sent |-> 0] \in SendCall
      BY DEF SendCall
    <3>2. PICK next \in SendCall \cup OtherCall :
            Enter(t, next) \/ BindTo(t, fd, 0, next)
      BY <1>3, <2>2, <3>1 DEF SendTo
    <3> QED
      BY <1>1, <1>7, <3>2 DEF Call
  <2>3. ASSUME NEW forever, NEW max, EpollWait(t, fd, forever, max)
        PROVE  CallTypes'
    <3>1. PICK c : /\ Enter(t, c)
                   /\ c = [op |-> "epoll", ep |-> fd, kept |-> None,
                           forever |-> forever, max |-> max, at |-> "entry",
                           i |-> 1, n |-> 0, fd |-> 0]
      BY <2>3 DEF EpollWait
    <3>2. WaitCall(c)
      BY <3>1 DEF WaitCall
    <3> QED
      BY <1>1, <3>1, <3>2
  <2> QED
    BY <1>9, <2>1, <2>2, <2>3 DEF PollingCallOn, Send
<1>10. ASSUME NEW t \in Threads, Continue(t) PROVE CallTypes'
  <2>1. CASE StatusWrite(t)
    <3>1. call[t].next \in Call
      <4>1. call[t] \in StatusCall
        BY <2>1, CallFields DEF StatusWrite
      <4> QED
        BY <4>1 DEF StatusCall, Call
    <3> QED
      BY <1>1, <2>1, <3>1 DEF StatusWrite
  <2>2. CASE RecvFind(t)
    <3>1. call[t].port \in Port
      BY <2>2, CallFields DEF RecvFind
    <3>2. PICK d \in Found(call[t].port) :
            Enter(t, [op |-> "pop", port |-> call[t].port, at |-> "read",
                      value |-> FALSE, dgram |-> d])
      BY <2>2 DEF RecvFind
    <3>3. d \in Datagram
      <4>1. rings[call[t].port] \in Seq(Datagram) /\ arrived \in 0 .. MaxDatagrams
        BY <3>1 DEF DeviceTypes
      <4>2. \A n \in 1 .. arrived : n \in DatagramId
        BY <4>1, SocketsAssumption DEF DatagramId
      <4>3. CASE d \in [id : 1 .. arrived, empty : BOOLEAN]
        BY <4>2, <4>3 DEF Datagram
      <4>4. CASE rings[call[t].port] # << >> /\ d = Head(rings[call[t].port])
        BY <4>1, <4>4
      <4> QED
        BY <3>2, <4>3, <4>4 DEF Found
    <3>4. [op |-> "pop", port |-> call[t].port, at |-> "read", value |-> FALSE,
           dgram |-> d] \in PopCall
      BY <3>1, <3>3 DEF PopCall
    <3> QED
      BY <1>1, <3>2, <3>4 DEF Call
  <2>3. ASSUME call[t].op = "pop", NEW value \in BOOLEAN,
               NEW at \in {"clear", "set", "end"},
               \/ Enter(t, [call[t] EXCEPT !.at = at])
               \/ Enter(t, [call[t] EXCEPT !.at = at, !.value = value])
        PROVE  CallTypes'
    <3>1. PICK c : c = call[t]
      OBVIOUS
    <3>2. c \in PopCall
      BY <2>3, <3>1, CallFields
    <3>3. [c EXCEPT !.at = at] \in PopCall /\ [c EXCEPT !.at = at, !.value = value] \in PopCall
      BY <3>2 DEF PopCall
    <3> QED
      BY <1>1, <2>3, <3>1, <3>3 DEF Call
  <2>4. CASE RecvRead(t)
    <3>1. open[call[t].port] \in BOOLEAN
      BY <2>4, CallFields DEF RecvRead, DeviceTypes
    <3> QED
      BY <2>3, <2>4, <3>1 DEF RecvRead
  <2>5. CASE RecvClear(t) \/ RecvSet(t)
    BY <2>3, <2>5 DEF RecvClear, RecvSet, RecvWrite
  <2>6. CASE RecvEnd(t)
    <3>1. call[t].port \in Port
      BY <2>6, CallFields DEF RecvEnd
    <3>2. [op |-> "recv", port |-> call[t].port] \in Call
      BY <3>1 DEF Call, ReceiveCall
    <3> QED
      BY <1>1, <1>3, <2>6, <3>2 DEF RecvEnd
  <2>7. CASE SendTry(t)
    <3>1. call[t] \in SendCall
      BY <2>7, CallFields DEF SendTry
    <3>2. \A n \in Int : n + 1 \in Int
      OBVIOUS
    <3>3. \A c \in SendCall : [c EXCEPT !.sent = c.sent + 1] \in SendCall
      BY <3>2 DEF SendCall
    <3>4. [call[t] EXCEPT !.sent = @ + 1] \in SendCall
      BY <3>1, <3>3
    <3> QED
      BY <1>1, <1>3, <2>7, <3>4 DEF SendTry, TxRoom, Call
  <2>8. ASSUME EpollEntry(t) \/ EpollStatus(t) \/ EpollProbe(t) \/ EpollRound(t)
        PROVE  CallTypes'
    <3>1. WaitCall(call[t])
      BY <2>8, CallFields DEF EpollEntry, EpollStatus, EpollProbe, EpollRound, Waiting
    <3>2. PICK c : c = call[t]
      OBVIOUS
    <3>3. WaitCall(c)
      BY <3>1, <3>2
    <3>4. /\ \A a, b, d : WaitCall([c EXCEPT !.at = a, !.i = b, !.n = d])
          /\ \A a, b : WaitCall([c EXCEPT !.at = a, !.fd = b])
          /\ \A a, b : WaitCall([c EXCEPT !.at = a, !.i = b])
          /\ \A a : WaitCall([c EXCEPT !.at = a])
          /\ \A a : WaitCall([c EXCEPT !.i = a])
      BY <3>3 DEF WaitCall
    <3>5. \E a, b, d : \/ Enter(t, [c EXCEPT !.at = a, !.i = b, !.n = d])
                       \/ Enter(t, [c EXCEPT !.at = a, !.fd = b])
                       \/ Enter(t, [c EXCEPT !.at = a, !.i = b])
                       \/ Enter(t, [c EXCEPT !.at = a])
                       \/ Enter(t, [c EXCEPT !.i = a])
                       \/ Enter(t, Idle)
      <4>1. CASE EpollEntry(t)
        BY <3>2, <4>1 DEF EpollEntry
      <4>2. CASE EpollStatus(t)
        BY <3>2, <4>2 DEF EpollStatus, Skipped
      <4>3. CASE EpollProbe(t)
        BY <3>2, <4>3 DEF EpollProbe
      <4>4. CASE EpollRound(t)
        BY <3>2, <4>4 DEF EpollRound
      <4> QED
        BY <2>8, <4>1, <4>2, <4>3, <4>4
    <3> QED
      BY <1>1, <1>3, <3>4, <3>5
  <2>9. CASE SelectReturn(t)
    BY <1>1, <1>3, <2>9 DEF SelectReturn
  <2>10. CASE Fault(t)
    BY <1>4, <2>10 DEF Fault
  <2> QED
    BY <1>10, <2>1, <2>2, <2>4, <2>5, <2>6, <2>7, <2>8, <2>9, <2>10 DEF Continue
<1>11. ASSUME NEW t \in Threads, Select(t) PROVE CallTypes'
  <2>1. [op |-> "select"] \in Call
    BY DEF Call, OtherCall
  <2> QED
    BY <1>1, <1>11, <2>1 DEF Select
<1>12. ASSUME NEW fd \in Fd, CallOn(fd) PROVE UNCHANGED call
  BY <1>12 DEF CallOn, Connect, SetMulticast, Shutdown, CloseSocket, CloseOther,
               EpollAdd, EpollDel
<1>13. CASE \/ LibInit \/ Socket \/ LeakFd \/ Transmit \/ OtherSend \/ UNCHANGED vars
            \/ \E p \in Port, empty \in BOOLEAN : Arrive(p, empty)
  BY <1>2, <1>13 DEF LibInit, Socket, LeakFd, Transmit, OtherSend, Arrive, vars
<1>14. Pollers \subseteq Threads
  BY SocketsAssumption
<1>15. CASE \E t \in Pollers : Select(t) \/ \E fd \in Fd : PollingCallOn(t, fd)
  BY <1>9, <1>11, <1>14, <1>15
<1>16. CASE Restart
  BY <1>4, <1>16 DEF Restart
<1>17. CASE Next
  BY <1>2, <1>5, <1>8, <1>10, <1>12, <1>13, <1>15, <1>16, <1>17 DEF Next
<1> QED
  BY <1>13, <1>17

(* A write of a register changes that port alone, and pops its ring at an  *)
(* edge alone.                                                             *)
LEMMA RegisterWritten ==
  ASSUME DeviceTypes, NEW p \in Port, NEW status \in BOOLEAN, NEW bit \in BOOLEAN,
         WriteReg(p, status, bit)
  PROVE  /\ open' \in [Port -> BOOLEAN] /\ open'[p] = status
         /\ pop' \in [Port -> BOOLEAN] /\ pop'[p] = bit
         /\ rings' \in [Port -> Seq(Datagram)]
         /\ underflow' \subseteq Port /\ underflow \subseteq underflow'
         /\ \A q \in Port : q # p =>
              /\ open'[q] = open[q] /\ pop'[q] = pop[q] /\ rings'[q] = rings[q]
              /\ q \in underflow' => q \in underflow
         /\ Edge(p, bit) /\ rings[p] # << >> => rings'[p] = Tail(rings[p])
         /\ Edge(p, bit) /\ rings[p] = << >> => p \in underflow'
         /\ ~(Edge(p, bit) /\ rings[p] = << >>) => underflow' = underflow
         /\ ~Edge(p, bit) => rings' = rings
<1>1. /\ open \in [Port -> BOOLEAN] /\ pop \in [Port -> BOOLEAN]
      /\ rings \in [Port -> Seq(Datagram)] /\ underflow \subseteq Port
  BY DEF DeviceTypes
<1>2. /\ Popped(rings[p]) \in Seq(Datagram)
      /\ rings[p] # << >> => Popped(rings[p]) = Tail(rings[p])
  BY <1>1, HeadTailProperties DEF Popped
<1>3. rings' = IF Edge(p, bit) THEN [rings EXCEPT ![p] = Popped(@)] ELSE rings
  BY DEF WriteReg
<1>4. /\ rings' \in [Port -> Seq(Datagram)]
      /\ Edge(p, bit) => rings'[p] = Popped(rings[p])
      /\ ~Edge(p, bit) => rings' = rings
      /\ \A q \in Port : q # p => rings'[q] = rings[q]
  BY <1>1, <1>2, <1>3
<1>5. /\ open' \in [Port -> BOOLEAN] /\ open'[p] = status
      /\ pop' \in [Port -> BOOLEAN] /\ pop'[p] = bit
      /\ \A q \in Port : q # p => open'[q] = open[q] /\ pop'[q] = pop[q]
  BY <1>1 DEF WriteReg
<1>6. /\ underflow' \subseteq Port /\ underflow \subseteq underflow'
      /\ \A q \in Port : q # p => (q \in underflow' => q \in underflow)
      /\ Edge(p, bit) /\ rings[p] = << >> => p \in underflow'
      /\ ~(Edge(p, bit) /\ rings[p] = << >>) => underflow' = underflow
  BY <1>1 DEF WriteReg
<1> QED
  BY <1>2, <1>4, <1>5, <1>6

(* The steps that touch the registers and rings of the ports, or a call    *)
(* that receives: the others leave them, but may note a request.           *)
Aside ==
  /\ UNCHANGED << rxVars, raced, initialized, got, arrived >>
  /\ asked' = asked \/ \E p \in Port : asked' = [asked EXCEPT ![p] = "SHUT_RDWR"]
  /\ \A t \in Threads : Receiving(t) \/ Receiving(t)' => call'[t] = call[t]

Receive(t) ==
  \/ RecvFind(t) \/ RecvRead(t) \/ RecvClear(t) \/ RecvSet(t) \/ RecvEnd(t)
  \/ \E fd \in Fd : Recv(t, fd)

(* The steps by their part in receiving. *)
LEMMA ReceiveSteps ==
  ASSUME TableTypes, CallTypes, DeviceTypes, [Next]_vars
  PROVE  \/ LibInit \/ ProcessEnds
         \/ \E t \in Threads : Receive(t) \/ StatusWrite(t)
         \/ \E p \in Port, empty \in BOOLEAN : Arrive(p, empty)
         \/ Aside
<1>0. \A t \in Threads : Free(t) => ~Receiving(t)
  BY DEF Free, Idle, Receiving
<1>1. \A fd \in Fd : Bound(fd) => fds[fd].port \in Port
  BY DEF TableTypes
<1>2. ASSUME UNCHANGED << rxVars, askVars, call, initialized, got, arrived >>
      PROVE  Aside
  BY <1>2 DEF askVars, Aside
<1>3. ASSUME NEW t \in Threads, ~Receiving(t),
             NEW c, Enter(t, c), c.op \notin {"recv", "pop"},
             UNCHANGED << rxVars, askVars, initialized, got, arrived >>
      PROVE  Aside
  BY <1>3, Entered DEF askVars, Aside, Receiving
<1>4. CASE EpollCreate
  <2>1. ASSUME NEW t \in Threads, Receiving(t) \/ Receiving(t)' PROVE call'[t] = call[t]
    <3>1. call'[t] = Orphaned(call[t], Lowest)
      BY <1>4 DEF EpollCreate
    <3>2. CASE call[t].op = "epoll"
      <4>1. WaitCall(call[t])
        BY <3>2, CallFields
      <4>2. call'[t].op = "epoll"
        BY <3>1, <3>2, <4>1 DEF WaitCall, Orphaned
      <4> QED
        BY <2>1, <3>2, <4>2 DEF Receiving
    <3>3. CASE call[t].op # "epoll"
      BY <3>1, <3>3 DEF Orphaned
    <3> QED
      BY <3>2, <3>3
  <2> QED
    BY <1>4, <2>1 DEF EpollCreate, devVars, askVars, histVars, Aside
<1>5. CASE Socket \/ LeakFd \/ Transmit \/ OtherSend \/ UNCHANGED vars
  BY <1>2, <1>5 DEF Socket, LeakFd, Transmit, OtherSend, devVars, histVars,
                    procVars, vars
<1>6. ASSUME NEW fd \in Fd, CallOn(fd) PROVE Aside
  <2>1. AskedBy(fd, "SHUT_RDWR") = asked \/
        \E p \in Port : AskedBy(fd, "SHUT_RDWR") = [asked EXCEPT ![p] = "SHUT_RDWR"]
    BY <1>1 DEF AskedBy
  <2>2. \A how : how # "SHUT_RDWR" => AskedBy(fd, how) = asked
    BY DEF AskedBy
  <2>3. ASSUME NEW how, Shutdown(fd, how) PROVE Aside
    BY <2>1, <2>2, <2>3 DEF Shutdown, histVars, Aside
  <2>4. CASE CloseSocket(fd)
    BY <2>1, <2>4 DEF CloseSocket, histVars, Aside
  <2>5. ASSUME UNCHANGED << initialized, call, devVars, histVars >> PROVE Aside
    <3>1. UNCHANGED << rxVars, askVars, got, arrived >>
      BY <2>5 DEF devVars, histVars
    <3> QED
      BY <1>2, <2>5, <3>1
  <2>6. CASE Connect(fd) \/ SetMulticast(fd) \/ CloseOther(fd)
    BY <2>5, <2>6 DEF Connect, SetMulticast, CloseOther
  <2>7. ASSUME NEW ep, EpollAdd(ep, fd) \/ EpollDel(ep, fd) PROVE Aside
    BY <2>5, <2>7 DEF EpollAdd, EpollDel
  <2> QED
    BY <1>6, <2>3, <2>4, <2>6, <2>7 DEF CallOn
<1>7. ASSUME NEW t \in Threads, ~Receiving(t),
             NEW fd, NEW p, NEW next, BindTo(t, fd, p, next),
             UNCHANGED << rxVars, askVars, initialized, got, arrived >>
      PROVE  Aside
  BY <1>3, <1>7 DEF BindTo, StatusRead
<1>8. ASSUME NEW t \in Threads, NEW fd \in Fd, StatusCallOn(t, fd) PROVE Aside
  <2>1. ASSUME NEW p, Bind(t, fd, p) PROVE Aside
    BY <1>0, <1>7, <2>1 DEF Bind, devVars, histVars
  <2>2. CASE ShutdownRead(t, fd)
    BY <1>0, <1>3, <2>2 DEF ShutdownRead, StatusRead, procVars, devVars, histVars
  <2> QED
    BY <1>8, <2>1, <2>2 DEF StatusCallOn
<1>9. ASSUME NEW t \in Threads, NEW fd \in Fd, PollingCallOn(t, fd)
      PROVE  Receive(t) \/ Aside
  <2>1. CASE Recv(t, fd)
    BY <2>1 DEF Receive
  <2>2. ASSUME NEW len, SendTo(t, fd, len) PROVE Aside
    <3>1. PICK next : /\ next \in {Idle, [op |-> "send", len |-> len, sent |-> 0]}
                      /\ Enter(t, next) \/ BindTo(t, fd, 0, next)
      BY <2>2 DEF SendTo
    <3>2. next.op \notin {"recv", "pop"}
      BY <3>1 DEF Idle
    <3> QED
      BY <1>0, <1>3, <1>7, <2>2, <3>1, <3>2 DEF SendTo, devVars, histVars
  <2>3. ASSUME NEW forever, NEW max, EpollWait(t, fd, forever, max) PROVE Aside
    BY <1>0, <1>3, <2>3 DEF EpollWait, procVars, devVars, histVars
  <2> QED
    BY <1>9, <2>1, <2>2, <2>3 DEF PollingCallOn, Send
<1>10. ASSUME NEW t \in Threads, Continue(t)
       PROVE  Receive(t) \/ StatusWrite(t) \/ Aside \/ ProcessEnds
  <2>1. CASE SendTry(t)
    <3>1. PICK c : c = call[t]
      OBVIOUS
    <3>2. c \in SendCall
      BY <2>1, <3>1, CallFields DEF SendTry
    <3>3. [c EXCEPT !.sent = @ + 1].op = "send" /\ Idle.op = "idle"
      BY <3>2 DEF SendCall, Idle
    <3> QED
      BY <1>3, <2>1, <3>1, <3>3 DEF SendTry, procVars, histVars, Receiving
  <2>2. CASE EpollEntry(t) \/ EpollStatus(t) \/ EpollProbe(t) \/ EpollRound(t)
    <3>1. PICK c : c = call[t]
      OBVIOUS
    <3>2. WaitCall(c)
      BY <2>2, <3>1, CallFields DEF EpollEntry, EpollStatus, EpollProbe, EpollRound,
                                    Waiting
    <3>3. /\ \A a, b, d : [c EXCEPT !.at = a, !.i = b, !.n = d].op = "epoll"
          /\ \A a, b : [c EXCEPT !.at = a, !.fd = b].op = "epoll"
          /\ \A a, b : [c EXCEPT !.at = a, !.i = b].op = "epoll"
          /\ \A a : [c EXCEPT !.at = a].op = "epoll"
          /\ \A a : [c EXCEPT !.i = a].op = "epoll"
          /\ Idle.op = "idle"
      BY <3>2 DEF WaitCall, Idle
    <3>4. UNCHANGED << procVars, devVars, histVars >>
      BY <2>2 DEF EpollEntry, EpollStatus, EpollProbe, EpollRound
    <3>5. UNCHANGED << rxVars, askVars, initialized, got, arrived >>
      BY <3>4 DEF procVars, devVars, histVars
    <3>6. ~Receiving(t)
      BY <3>1, <3>2 DEF WaitCall, Receiving
    <3>7. CASE EpollEntry(t)
      BY <1>3, <3>6, <3>1, <3>3, <3>5, <3>7 DEF EpollEntry
    <3>8. CASE EpollStatus(t)
      BY <1>3, <3>6, <3>1, <3>3, <3>5, <3>8 DEF EpollStatus, Skipped
    <3>9. CASE EpollProbe(t)
      BY <1>3, <3>6, <3>1, <3>3, <3>5, <3>9 DEF EpollProbe
    <3>10. CASE EpollRound(t)
      BY <1>3, <3>6, <3>1, <3>3, <3>5, <3>10 DEF EpollRound
    <3> QED
      BY <2>2, <3>7, <3>8, <3>9, <3>10
  <2>3. CASE SelectReturn(t)
    <3>1. Idle.op = "idle"
      BY DEF Idle
    <3> QED
      BY <1>3, <2>3, <3>1 DEF SelectReturn, procVars, devVars, histVars, Receiving
  <2>4. CASE Fault(t)
    BY <2>4 DEF Fault
  <2> QED
    BY <1>10, <2>1, <2>2, <2>3, <2>4 DEF Continue, Receive
<1>11. ASSUME NEW t \in Threads, Select(t) PROVE Aside
  BY <1>0, <1>3, <1>11 DEF Select, procVars, devVars, histVars
<1>12. Pollers \subseteq Threads
  BY SocketsAssumption
<1>13. CASE \E t \in Pollers : Select(t) \/ \E fd \in Fd : PollingCallOn(t, fd)
  BY <1>9, <1>11, <1>12, <1>13
<1>14. CASE Restart
  BY <1>14 DEF Restart
<1>15. CASE Next
  BY <1>4, <1>5, <1>6, <1>8, <1>10, <1>13, <1>14, <1>15 DEF Next
<1> QED
  BY <1>5, <1>15

(* The registers, the rings and the histories stay in type. *)
LEMMA DeviceStep ==
  ASSUME TableTypes, CallTypes, DeviceTypes, [Next]_vars
  PROVE  DeviceTypes'
<1>1. /\ open \in [Port -> BOOLEAN] /\ pop \in [Port -> BOOLEAN]
      /\ rings \in [Port -> Seq(Datagram)] /\ got \in [Port -> Seq(DatagramId)]
      /\ arrived \in 0 .. MaxDatagrams /\ asked \in [Port -> Asker]
      /\ underflow \subseteq Port /\ raced \subseteq Port /\ extra \subseteq Port
      /\ tx \in 0 .. TxLength
  BY DEF DeviceTypes
<1>2. TxLength \in Nat /\ MaxDatagrams \in Nat
  BY SocketsAssumption
<1>3. \A n \in Int : n < TxLength /\ n \in 0 .. TxLength => n + 1 \in 0 .. TxLength
  BY <1>2
<1>4. tx' \in 0 .. TxLength
  <2>1. ASSUME NEW t \in Threads, SendTry(t) PROVE tx' \in 0 .. TxLength
    BY <1>1, <1>3, <2>1 DEF SendTry, TxRoom
  <2>2. CASE OtherSend
    BY <1>1, <1>3, <2>2 DEF OtherSend, TxRoom
  <2>3. CASE Transmit
    BY <1>1, <1>2, <2>3 DEF Transmit
  <2>4. CASE LibInit
    BY <1>2, <2>4 DEF LibInit, InitializeDevice
  <2>5. CASE UNCHANGED tx
    BY <1>1, <2>5
  <2>6. CASE ProcessEnds \/ Socket \/ LeakFd \/ EpollCreate \/ UNCHANGED vars
             \/ \E p \in Port, empty \in BOOLEAN : Arrive(p, empty)
    BY <2>5, <2>6 DEF ProcessEnds, Socket, LeakFd, EpollCreate, Arrive, devVars, vars
  <2>7. ASSUME NEW fd \in Fd, CallOn(fd) PROVE UNCHANGED tx
    BY <2>7 DEF CallOn, Connect, SetMulticast, Shutdown, CloseSocket, CloseOther,
                EpollAdd, EpollDel, devVars
  <2>8. ASSUME NEW t, NEW fd, StatusCallOn(t, fd) \/ PollingCallOn(t, fd) \/ Select(t)
        PROVE  UNCHANGED tx
    BY <2>8 DEF StatusCallOn, PollingCallOn, Select, Bind, ShutdownRead, Recv,
                Send, SendTo, EpollWait, devVars
  <2>9. ASSUME NEW t \in Threads, Continue(t)
        PROVE  SendTry(t) \/ ProcessEnds \/ UNCHANGED tx
    BY <2>9 DEF Continue, StatusWrite, RecvFind, RecvRead, RecvClear, RecvSet,
                RecvWrite, RecvEnd, EpollEntry, EpollStatus, EpollProbe,
                EpollRound, SelectReturn, Fault, devVars
  <2>10. CASE \/ \E t \in Threads, fd \in Fd : StatusCallOn(t, fd)
              \/ \E t \in Pollers : Select(t) \/ \E fd \in Fd : PollingCallOn(t, fd)
    BY <2>5, <2>8, <2>10
  <2>11. CASE \E t \in Threads : Continue(t)
    BY <2>1, <2>5, <2>6, <2>9, <2>11
  <2>12. CASE Restart
    BY <2>6, <2>12 DEF Restart
  <2>13. CASE Next
    BY <2>2, <2>3, <2>4, <2>5, <2>6, <2>7, <2>10, <2>11, <2>12, <2>13 DEF Next
  <2> QED
    BY <2>6, <2>13
<1> DEFINE Ports_ == /\ open' \in [Port -> BOOLEAN] /\ pop' \in [Port -> BOOLEAN]
                     /\ rings' \in [Port -> Seq(Datagram)]
                     /\ underflow' \subseteq Port
           Histories == /\ got' \in [Port -> Seq(DatagramId)]
                        /\ arrived' \in 0 .. MaxDatagrams
           Requests == /\ asked' \in [Port -> Asker]
                       /\ raced' \subseteq Port /\ extra' \subseteq Port
<1>6. ASSUME NEW p \in Port, NEW status \in BOOLEAN, NEW bit \in BOOLEAN,
             WriteReg(p, status, bit)
      PROVE  Ports_
  BY <1>6, RegisterWritten
<1>7. UNCHANGED << got, arrived >> => Histories
  BY <1>1
<1>8. UNCHANGED << asked, raced, extra >> => Requests
  BY <1>1
<1>9. CASE LibInit
  <2>1. rings' \in [Port -> Seq(Datagram)] /\ open' \in [Port -> BOOLEAN]
        /\ pop' \in [Port -> BOOLEAN] /\ underflow' \subseteq Port
    BY <1>1, <1>9 DEF LibInit, InitializeDevice
  <2>2. asked' \in [Port -> Asker] /\ raced' \subseteq Port /\ extra' \subseteq Port
    BY <1>1, <1>9 DEF LibInit, InitializeDevice, Asker
  <2>3. Histories
    BY <1>7, <1>9 DEF LibInit, histVars
  <2> QED
    BY <1>4, <2>1, <2>2, <2>3 DEF DeviceTypes
<1>10. CASE ProcessEnds
  BY <1>1, <1>4, <1>10 DEF ProcessEnds, devVars, rxVars, askVars, histVars, DeviceTypes
<1>11. ASSUME NEW t \in Threads, Receive(t) PROVE DeviceTypes'
  <2>1. CASE RecvFind(t) \/ RecvRead(t) \/ \E fd \in Fd : Recv(t, fd)
    BY <1>1, <1>4, <2>1 DEF RecvFind, RecvRead, Recv, devVars, rxVars, askVars,
                            histVars, DeviceTypes
  <2>2. ASSUME RecvClear(t) \/ RecvSet(t) \/ RecvEnd(t) PROVE Ports_ /\ Requests
    <3>1. call[t] \in PopCall /\ call[t].port \in Port
      BY <2>2, CallFields DEF RecvClear, RecvSet, RecvEnd, RecvWrite
    <3>2. call[t].value \in BOOLEAN
      BY <3>1 DEF PopCall
    <3>3. \E bit \in BOOLEAN : WriteReg(call[t].port, call[t].value, bit)
      BY <2>2 DEF RecvClear, RecvSet, RecvEnd, RecvWrite
    <3> HIDE DEF Ports_, Requests
    <3>4. UNCHANGED << asked, raced, extra >>
      BY <2>2 DEF RecvClear, RecvSet, RecvEnd, RecvWrite, askVars
    <3> QED
      BY <1>6, <1>8, <3>1, <3>2, <3>3, <3>4
  <2>3. ASSUME RecvClear(t) \/ RecvSet(t) PROVE Histories
    BY <1>7, <2>3 DEF RecvClear, RecvSet, RecvWrite, histVars
  <2>4. ASSUME RecvEnd(t) PROVE Histories
    <3>1. call[t] \in PopCall /\ call[t].port \in Port
      BY <2>4, CallFields DEF RecvEnd
    <3>2. call[t].dgram.id \in DatagramId
      BY <3>1 DEF PopCall, Datagram
    <3>3. Append(got[call[t].port], call[t].dgram.id) \in Seq(DatagramId)
      BY <1>1, <3>1, <3>2, AppendProperties
    <3>4. got' = got
          \/ got' = [got EXCEPT ![call[t].port] = Append(@, call[t].dgram.id)]
      BY <2>4 DEF RecvEnd
    <3>5. arrived' = arrived
      BY <2>4 DEF RecvEnd
    <3> QED
      BY <1>1, <3>1, <3>3, <3>4, <3>5
  <2> HIDE DEF Histories
  <2>5. CASE RecvClear(t) \/ RecvSet(t) \/ RecvEnd(t)
    <3>1. Histories
      BY <2>3, <2>4, <2>5
    <3> QED
      BY <1>4, <2>2, <2>5, <3>1 DEF DeviceTypes, Histories
  <2> QED
    BY <1>11, <2>1, <2>5 DEF Receive
<1>12. ASSUME NEW t \in Threads, StatusWrite(t) PROVE DeviceTypes'
  <2>1. call[t] \in StatusCall /\ call[t].port \in Port
    BY <1>12, CallFields DEF StatusWrite
  <2>2. PICK p \in Port : p = call[t].port
    BY <2>1
  <2>3. call[t].pop \in BOOLEAN /\ OpenBit(call[t].by) \in BOOLEAN /\ call[t].by \in Asker
    BY <2>1 DEF StatusCall, OpenBit, Asker
  <2>4. Histories
    BY <1>7, <1>12 DEF StatusWrite, histVars
  <2>5. CASE InRange(p)
    <3>1. Ports_
      BY <1>6, <1>12, <2>2, <2>3, <2>5 DEF StatusWrite
    <3>2. /\ asked' = [asked EXCEPT ![p] = call[t].by]
          /\ raced' = IF Popping(p) THEN raced \cup {p} ELSE raced \ {p}
          /\ extra' = IF Edge(p, call[t].pop) THEN extra \cup {p} ELSE extra
      BY <1>12, <2>2, <2>5 DEF StatusWrite
    <3>3. Requests
      BY <1>1, <2>3, <3>2
    <3> QED
      BY <1>4, <2>4, <3>1, <3>3 DEF DeviceTypes
  <2>6. CASE ~InRange(p)
    BY <1>1, <1>4, <1>12, <2>2, <2>4, <2>6 DEF StatusWrite, rxVars, askVars, DeviceTypes
  <2> QED
    BY <2>5, <2>6
<1>13. ASSUME NEW p \in Port, NEW empty \in BOOLEAN, Arrive(p, empty)
       PROVE  DeviceTypes'
  <2>1. arrived' \in 0 .. MaxDatagrams /\ arrived + 1 \in DatagramId
    BY <1>1, <1>2, <1>13 DEF Arrive, DatagramId
  <2>2. [id |-> arrived + 1, empty |-> empty] \in Datagram
    BY <2>1 DEF Datagram
  <2>3. Append(rings[p], [id |-> arrived + 1, empty |-> empty]) \in Seq(Datagram)
    BY <1>1, <2>2, AppendProperties
  <2>4. rings' = rings
        \/ rings' = [rings EXCEPT ![p] = Append(@, [id |-> arrived + 1, empty |-> empty])]
    BY <1>13 DEF Arrive
  <2>5. rings' \in [Port -> Seq(Datagram)]
    BY <1>1, <2>3, <2>4
  <2> QED
    BY <1>1, <1>4, <1>13, <2>1, <2>5 DEF Arrive, askVars, DeviceTypes
<1>14. CASE Aside
  <2>1. asked' \in [Port -> Asker]
    BY <1>1, <1>14 DEF Aside, Asker
  <2> QED
    BY <1>1, <1>4, <1>14, <2>1 DEF Aside, rxVars, DeviceTypes
<1> QED
  BY <1>9, <1>10, <1>11, <1>12, <1>13, <1>14, ReceiveSteps

(* Receivers stay apart. *)
LEMMA ReceiversStep ==
  ASSUME TableTypes, CallTypes, DeviceTypes, Receivers,
         \A fd \in Fd : Assigned(fd) => initialized, [Next]_vars
  PROVE  Receivers'
<1>1. CASE LibInit
  BY <1>1 DEF LibInit, Receivers, Receiving
<1>2. CASE ProcessEnds
  BY <1>2 DEF ProcessEnds, Receivers, Receiving, Idle
<1>3. ASSUME NEW t \in Threads, NEW fd \in Fd, Recv(t, fd) PROVE Receivers'
  <2>1. /\ call'[t] = [op |-> "recv", port |-> fds[fd].port]
        /\ \A u \in Threads : u # t => call'[u] = call[u]
    BY <1>3, Entered DEF Recv
  <2>2. initialized' = initialized /\ initialized
    BY <1>3 DEF Recv, procVars, Bound, Assigned
  <2> QED
    BY <1>3, <2>1, <2>2 DEF Recv, Receivers, Receiving
<1>4. ASSUME NEW t \in Threads, Receiving(t), initialized' = initialized,
             NEW c, Enter(t, c), c.op \in {"recv", "pop"} => c.port = call[t].port
      PROVE  Receivers'
  <2>1. call'[t] = c /\ \A u \in Threads : u # t => call'[u] = call[u]
    BY <1>4, Entered
  <2> QED
    BY <1>4, <2>1 DEF Receivers, Receiving
<1>5. ASSUME NEW t \in Threads, RecvFind(t) PROVE Receivers'
  <2>1. PICK d : Enter(t, [op |-> "pop", port |-> call[t].port, at |-> "read",
                           value |-> FALSE, dgram |-> d])
    BY <1>5 DEF RecvFind
  <2> QED
    BY <1>4, <1>5, <2>1 DEF RecvFind, procVars, Receiving
<1>6. ASSUME NEW t \in Threads, RecvRead(t) \/ RecvClear(t) \/ RecvSet(t)
      PROVE  Receivers'
  <2>1. PICK c : c = call[t]
    OBVIOUS
  <2>2. c \in PopCall /\ c.op = "pop"
    BY <1>6, <2>1, CallFields DEF RecvRead, RecvClear, RecvSet, RecvWrite
  <2>3. \A at, value : /\ [c EXCEPT !.at = at].port = c.port
                       /\ [c EXCEPT !.at = at, !.value = value].port = c.port
    BY <2>2 DEF PopCall
  <2>4. PICK at, value : \/ Enter(t, [c EXCEPT !.at = at])
                         \/ Enter(t, [c EXCEPT !.at = at, !.value = value])
    BY <1>6, <2>1 DEF RecvRead, RecvClear, RecvSet, RecvWrite
  <2>5. PICK e : Enter(t, e) /\ e.port = call[t].port
    <3>1. CASE Enter(t, [c EXCEPT !.at = at])
      BY <2>1, <2>3, <3>1
    <3>2. CASE Enter(t, [c EXCEPT !.at = at, !.value = value])
      <4>1. PICK e : e = [c EXCEPT !.at = at, !.value = value]
        OBVIOUS
      <4>2. e.port = c.port
        BY <2>3, <4>1
      <4> QED
        BY <2>1, <3>2, <4>1, <4>2
    <3> QED
      BY <2>4, <3>1, <3>2
  <2>6. initialized' = initialized /\ Receiving(t)
    BY <1>6 DEF RecvRead, RecvClear, RecvSet, RecvWrite, procVars, Receiving
  <2> QED
    BY <1>4, <2>5, <2>6
<1>7. ASSUME NEW t \in Threads, RecvEnd(t) PROVE Receivers'
  <2>1. PICK c : Enter(t, c) /\ c \in {Idle, [op |-> "recv", port |-> call[t].port]}
    BY <1>7 DEF RecvEnd
  <2> QED
    BY <1>4, <1>7, <2>1 DEF RecvEnd, procVars, Receiving, Idle
<1>8. ASSUME NEW t \in Threads, StatusWrite(t) PROVE Receivers'
  <2>1. call[t] \in StatusCall
    BY <1>8, CallFields DEF StatusWrite
  <2>2. call[t].next.op \notin {"recv", "pop"}
    BY <2>1 DEF StatusCall, SendCall, OtherCall
  <2>3. call'[t] = call[t].next /\ \A u \in Threads : u # t => call'[u] = call[u]
    BY <1>8, Entered DEF StatusWrite
  <2> QED
    BY <1>8, <2>2, <2>3 DEF StatusWrite, Receivers, Receiving
<1>9. ASSUME NEW p \in Port, NEW empty \in BOOLEAN, Arrive(p, empty)
      PROVE  Receivers'
  BY <1>9 DEF Arrive, procVars, Receivers, Receiving
<1>10. CASE Aside
  BY <1>10 DEF Aside, Receivers, Receiving
<1> QED
  BY <1>1, <1>2, <1>3, <1>5, <1>6, <1>7, <1>8, <1>9, <1>10, ReceiveSteps DEF Receive

-----------------------------------------------------------------------------
(***************************************************************************)
(* The order of the datagrams.                                             *)
(***************************************************************************)

(* What was handed over is in order. *)
Handed(p) ==
  /\ \A i, j \in DOMAIN got[p] : i < j => got[p][i] < got[p][j]
  /\ \A i \in DOMAIN got[p] : got[p][i] <= arrived

(* Datagrams are numbered as they arrive, and what is in a ring is younger *)
(* than what was handed over.                                              *)
Numbered(p) ==
  /\ \A i, j \in DOMAIN rings[p] : i < j => rings[p][i].id < rings[p][j].id
  /\ \A i \in DOMAIN rings[p] : rings[p][i].id <= arrived
  /\ \A i \in DOMAIN got[p] : \A j \in DOMAIN rings[p] :
       got[p][i] < rings[p][j].id

(* The ring of the thread has been popped since it looked at the tail. *)
Gone(t) == call[t].at = "end" \/ (call[t].at = "set" /\ pop[call[t].port])

(* What a receiver holds comes behind what was handed over, and before all *)
(* that is left in the ring once that was popped.                          *)
Held(t) ==
  LET p == call[t].port
      n == call[t].dgram.id
  IN  /\ n <= arrived
      /\ \A i \in DOMAIN got[p] : got[p][i] < n
      /\ \A j \in DOMAIN rings[p] :
           n <= rings[p][j].id /\ (Gone(t) => n < rings[p][j].id)

Order ==
  /\ \A p \in Port : Handed(p) /\ (p \notin underflow => Numbered(p))
  /\ \A t \in Threads :
       call[t].op = "pop" /\ call[t].port \notin underflow => Held(t)

(* A pop takes the oldest datagram away, another write of the register     *)
(* takes none.                                                             *)
LEMMA RingPopped ==
  ASSUME DeviceTypes, NEW p \in Port, NEW status \in BOOLEAN, NEW bit \in BOOLEAN,
         WriteReg(p, status, bit), NEW q \in Port, q \notin underflow'
  PROVE  \E place \in [DOMAIN rings'[q] -> DOMAIN rings[q]] :
           /\ \A j \in DOMAIN rings'[q] : rings'[q][j] = rings[q][place[j]]
           /\ \A i, j \in DOMAIN rings'[q] : i < j => place[i] < place[j]
           /\ q = p /\ Edge(p, bit) =>
                \A j \in DOMAIN rings'[q] : 1 \in DOMAIN rings[q] /\ 1 < place[j]
<1>1. rings[q] \in Seq(Datagram)
  BY DEF DeviceTypes
<1>2. CASE q # p \/ ~Edge(p, bit)
  <2>1. rings'[q] = rings[q]
    BY <1>2, RegisterWritten
  <2>2. [j \in DOMAIN rings[q] |-> j] \in [DOMAIN rings'[q] -> DOMAIN rings[q]]
    BY <2>1
  <2> QED
    BY <1>2, <2>1, <2>2
<1>3. CASE q = p /\ Edge(p, bit)
  <2>1. rings[q] # << >> /\ rings'[q] = Tail(rings[q])
    BY <1>3, RegisterWritten
  <2>2. PICK s \in Seq(Datagram) : s = rings[q]
    BY <1>1
  <2>3. /\ Len(s) \in Nat /\ Len(s) >= 1 /\ DOMAIN s = 1 .. Len(s)
        /\ DOMAIN Tail(s) = 1 .. Len(s) - 1
        /\ \A j \in 1 .. Len(s) - 1 : Tail(s)[j] = s[j + 1]
    BY <2>1, <2>2, HeadTailProperties
  <2>4. PICK n \in Nat : n = Len(s) /\ n >= 1
    BY <2>3
  <2>5. \A j \in 1 .. n - 1 : j + 1 \in 1 .. n /\ 1 < j + 1 /\ 1 \in 1 .. n
    BY <2>4
  <2>6. \A i, j \in 1 .. n - 1 : i < j => i + 1 < j + 1
    BY <2>4
  <2>7. PICK place : place = [j \in 1 .. n - 1 |-> j + 1]
    OBVIOUS
  <2>8. /\ place \in [1 .. n - 1 -> 1 .. n]
        /\ \A j \in 1 .. n - 1 : place[j] = j + 1
    BY <2>5, <2>7
  <2>9. DOMAIN rings'[q] = 1 .. n - 1 /\ DOMAIN rings[q] = 1 .. n
    BY <2>1, <2>2, <2>3, <2>4
  <2>10. \A j \in 1 .. n - 1 : rings'[q][j] = rings[q][place[j]]
    BY <2>1, <2>2, <2>3, <2>4, <2>8
  <2>11. \A i, j \in 1 .. n - 1 : i < j => place[i] < place[j]
    BY <2>6, <2>8
  <2>12. \A j \in 1 .. n - 1 : 1 \in 1 .. n /\ 1 < place[j]
    BY <2>5, <2>8
  <2>13. PICK from, to : from = DOMAIN rings'[q] /\ to = DOMAIN rings[q]
    OBVIOUS
  <2>14. from = 1 .. n - 1 /\ to = 1 .. n
    BY <2>9, <2>13
  <2>15. /\ place \in [from -> to]
         /\ \A j \in from : rings'[q][j] = rings[q][place[j]]
         /\ \A i, j \in from : i < j => place[i] < place[j]
         /\ \A j \in from : 1 \in to /\ 1 < place[j]
    BY <2>8, <2>10, <2>11, <2>12, <2>14
  <2> QED
    BY ONLY <2>13, <2>15
<1> QED
  BY <1>2, <1>3

(* A write of a register keeps the order in the rings, and what a thread   *)
(* holds that does not write itself.                                       *)
LEMMA WriteOrder ==
  ASSUME CallTypes, DeviceTypes, Order, NEW p \in Port, NEW status \in BOOLEAN,
         NEW bit \in BOOLEAN, WriteReg(p, status, bit), UNCHANGED arrived
  PROVE  /\ \A q \in Port : q \notin underflow' /\ got'[q] = got[q] => Numbered(q)'
         /\ \A t \in Threads :
              /\ call[t].op = "pop" /\ call'[t] = call[t]
              /\ call[t].port \notin underflow'
              /\ got'[call[t].port] = got[call[t].port]
              => Held(t)'
<1>1. /\ \A q \in Port : rings[q] \in Seq(Datagram) /\ got[q] \in Seq(DatagramId)
      /\ underflow \subseteq underflow'
  BY RegisterWritten DEF DeviceTypes
<1>2. \A q \in Port : \A j \in DOMAIN rings[q] : rings[q][j].id \in Int
  <2>1. \A d \in Datagram : d.id \in Int
    BY DEF Datagram, DatagramId
  <2> QED
    BY <1>1, <2>1
<1>3. ASSUME NEW q \in Port, q \notin underflow', got'[q] = got[q]
      PROVE  Numbered(q)'
  <2>1. Numbered(q)
    BY <1>1, <1>3 DEF Order
  <2>2. PICK place \in [DOMAIN rings'[q] -> DOMAIN rings[q]] :
          /\ \A j \in DOMAIN rings'[q] : rings'[q][j] = rings[q][place[j]]
          /\ \A i, j \in DOMAIN rings'[q] : i < j => place[i] < place[j]
    BY <1>3, RingPopped
  <2> QED
    BY <1>3, <2>1, <2>2 DEF Numbered
<1>4. ASSUME NEW t \in Threads, call[t].op = "pop", call'[t] = call[t],
             call[t].port \notin underflow',
             got'[call[t].port] = got[call[t].port]
      PROVE  Held(t)'
  <2>1. PICK q \in Port : q = call[t].port
    BY <1>4, CallFields
  <2>2. PICK n \in Int : n = call[t].dgram.id
    BY <1>4, CallFields DEF PopCall, Datagram, DatagramId
  <2>3. Held(t) /\ Numbered(q)
    BY <1>1, <1>4, <2>1 DEF Order
  <2>4. PICK place \in [DOMAIN rings'[q] -> DOMAIN rings[q]] :
          /\ \A j \in DOMAIN rings'[q] : rings'[q][j] = rings[q][place[j]]
          /\ q = p /\ Edge(p, bit) =>
               \A j \in DOMAIN rings'[q] : 1 \in DOMAIN rings[q] /\ 1 < place[j]
    BY <1>4, <2>1, RingPopped
  <2>5. /\ n <= arrived'
        /\ \A i \in DOMAIN got'[q] : got'[q][i] < n
    BY <1>4, <2>1, <2>2, <2>3 DEF Held
  <2>6. ASSUME NEW j \in DOMAIN rings'[q]
        PROVE  n <= rings'[q][j].id /\ (Gone(t)' => n < rings'[q][j].id)
    <3>1. place[j] \in DOMAIN rings[q] /\ rings'[q][j] = rings[q][place[j]]
      BY <2>4
    <3>2. /\ n <= rings[q][place[j]].id
          /\ Gone(t) => n < rings[q][place[j]].id
      BY <2>1, <2>2, <2>3, <3>1 DEF Held
    <3>3. CASE q = p /\ Edge(p, bit)
      <4>1. 1 \in DOMAIN rings[q] /\ 1 < place[j]
        BY <2>4, <3>3
      <4>2. n <= rings[q][1].id /\ rings[q][1].id < rings[q][place[j]].id
        BY <2>1, <2>2, <2>3, <3>1, <4>1 DEF Held, Numbered
      <4>3. n < rings[q][place[j]].id
        BY <1>2, <2>2, <3>1, <4>1, <4>2
      <4> QED
        BY <3>1, <3>2, <4>3
    <3>4. CASE ~(q = p /\ Edge(p, bit))
      <4>1. pop'[q] => pop[q]
        BY <3>4, RegisterWritten DEF Edge
      <4>2. Gone(t)' => Gone(t)
        BY <1>4, <2>1, <4>1 DEF Gone
      <4> QED
        BY <3>1, <3>2, <4>2
    <3> QED
      BY <3>3, <3>4
  <2> QED
    BY <1>4, <2>1, <2>2, <2>5, <2>6 DEF Held
<1> QED
  BY <1>3, <1>4

(* An arrival goes behind everything, a pop takes the oldest along.        *)
LEMMA OrderStep ==
  ASSUME TableTypes, CallTypes, DeviceTypes, Receivers, Order, [Next]_vars
  PROVE  Order'
<1>1. /\ rings \in [Port -> Seq(Datagram)] /\ got \in [Port -> Seq(DatagramId)]
      /\ arrived \in Int
  BY DEF DeviceTypes
<1>2. \A p \in Port :
        /\ rings[p] \in Seq(Datagram) /\ DOMAIN rings[p] = 1 .. Len(rings[p])
        /\ got[p] \in Seq(DatagramId) /\ DOMAIN got[p] = 1 .. Len(got[p])
        /\ Len(rings[p]) \in Nat /\ Len(got[p]) \in Nat
  BY <1>1
<1>3. /\ \A p \in Port : \A i \in DOMAIN rings[p] : rings[p][i].id \in Int
      /\ \A p \in Port : \A i \in DOMAIN got[p] : got[p][i] \in Int
  <2>1. \A n \in DatagramId : n \in Int
    BY DEF DatagramId
  <2>2. \A d \in Datagram : d.id \in DatagramId
    BY DEF Datagram
  <2> QED
    BY <1>2, <2>1, <2>2
<1>4. \A t \in Threads : call[t].op = "pop" =>
        call[t].port \in Port /\ call[t].dgram.id \in Int
  BY CallFields DEF PopCall, Datagram, DatagramId
<1>5. ASSUME UNCHANGED << rings, got, arrived, pop, underflow >>,
             NEW t \in Threads, \A u \in Threads : u # t => call'[u] = call[u],
             call'[t].op = "pop" /\ call'[t].port \notin underflow => Held(t)'
      PROVE  Order'
  <2>1. ASSUME NEW u \in Threads, call'[u].op = "pop", call'[u].port \notin underflow
        PROVE  Held(u)'
    <3>1. CASE u = t
      BY <1>5, <2>1, <3>1
    <3>2. CASE u # t
      <4>1. call'[u] = call[u] /\ Held(u)
        BY <1>5, <2>1, <3>2 DEF Order
      <4> QED
        BY <1>5, <4>1 DEF Held, Gone
    <3> QED
      BY <3>1, <3>2
  <2> QED
    BY <1>5, <2>1 DEF Order, Handed, Numbered
<1>6. CASE LibInit
  <2>1. /\ got' = got /\ arrived' = arrived /\ call' = call
        /\ \A p \in Port : rings'[p] = << >>
    BY <1>6 DEF LibInit, InitializeDevice, histVars
  <2>2. \A t \in Threads : call[t].op # "pop"
    BY <1>6 DEF LibInit, Receivers, Receiving
  <2> QED
    BY <2>1, <2>2 DEF Order, Handed, Numbered
<1>7. CASE ProcessEnds
  <2>1. \A t \in Threads : call'[t].op # "pop"
    BY <1>7 DEF ProcessEnds, Idle
  <2>2. UNCHANGED << rings, got, arrived, underflow >>
    BY <1>7 DEF ProcessEnds, devVars, rxVars, histVars
  <2> QED
    BY <2>1, <2>2 DEF Order, Handed, Numbered
<1>8. ASSUME NEW t \in Threads, NEW fd \in Fd, Recv(t, fd) PROVE Order'
  <2>1. /\ call'[t].op = "recv"
        /\ \A u \in Threads : u # t => call'[u] = call[u]
    BY <1>8, Entered DEF Recv
  <2> QED
    BY <1>5, <1>8, <2>1 DEF Recv, devVars, rxVars, histVars
<1>9. ASSUME NEW t \in Threads, RecvFind(t) PROVE Order'
  <2>1. PICK p \in Port : p = call[t].port
    BY <1>9, CallFields DEF RecvFind
  <2>2. PICK d \in Found(p) :
          Enter(t, [op |-> "pop", port |-> p, at |-> "read", value |-> FALSE,
                    dgram |-> d])
    BY <1>9, <2>1 DEF RecvFind
  <2>3. /\ call'[t].port = p /\ call'[t].at = "read" /\ call'[t].dgram = d
        /\ \A u \in Threads : u # t => call'[u] = call[u]
    BY <2>2, Entered
  <2>4. UNCHANGED << rings, got, arrived, pop, underflow >>
    BY <1>9 DEF RecvFind, devVars, rxVars, histVars
  <2>5. ASSUME p \notin underflow PROVE Held(t)'
    <3>1. rings[p] # << >> /\ d = Head(rings[p])
      BY <2>2, <2>5 DEF Found
    <3>2. 1 \in DOMAIN rings[p] /\ d = rings[p][1]
      BY <1>2, <3>1
    <3>3. Numbered(p)
      BY <2>5 DEF Order
    <3>4. /\ d.id <= arrived
          /\ \A i \in DOMAIN got[p] : got[p][i] < d.id
      BY <3>2, <3>3 DEF Numbered
    <3>5. ASSUME NEW j \in DOMAIN rings[p] PROVE d.id <= rings[p][j].id
      <4>1. rings[p][1].id \in Int /\ rings[p][j].id \in Int
        BY <1>3, <3>2
      <4>2. j = 1 \/ 1 < j
        BY <1>2
      <4>3. 1 < j => rings[p][1].id < rings[p][j].id
        BY <3>2, <3>3 DEF Numbered
      <4> QED
        BY <3>2, <4>1, <4>2, <4>3
    <3> QED
      BY <2>3, <2>4, <3>4, <3>5 DEF Held, Gone
  <2> QED
    BY <1>5, <2>3, <2>4, <2>5
<1>10. ASSUME NEW t \in Threads, RecvRead(t) PROVE Order'
  <2>1. /\ call[t] \in PopCall /\ call[t].op = "pop"
        /\ Enter(t, [call[t] EXCEPT !.at = "clear", !.value = open[call[t].port]])
    BY <1>10, CallFields DEF RecvRead
  <2>2. PICK c : c = call[t]
    OBVIOUS
  <2>3. call'[t] = [c EXCEPT !.at = "clear", !.value = open[c.port]]
    BY <2>1, <2>2, Entered
  <2>4. /\ call'[t].port = call[t].port /\ call'[t].dgram = call[t].dgram
        /\ call'[t].at = "clear"
    BY <2>1, <2>2, <2>3 DEF PopCall
  <2>5. UNCHANGED << rings, got, arrived, pop, underflow >>
    BY <1>10 DEF RecvRead, devVars, rxVars, histVars
  <2>6. \A u \in Threads : u # t => call'[u] = call[u]
    BY <2>1, Entered
  <2>7. call[t].port \notin underflow => Held(t)'
    BY <2>1, <2>4, <2>5 DEF Order, Held, Gone
  <2> QED
    BY <1>5, <2>4, <2>5, <2>6, <2>7
<1>11. ASSUME NEW t \in Threads, NEW at, NEW bit \in BOOLEAN, NEW next,
              RecvWrite(t, at, bit, next),
              next \in {"set", "end"}, next = "set" => ~bit,
              next = "end" => bit /\ at = "set"
       PROVE  Order'
  <2>1. /\ call[t] \in PopCall /\ call[t].op = "pop" /\ call[t].at = at
        /\ Enter(t, [call[t] EXCEPT !.at = next])
        /\ WriteReg(call[t].port, call[t].value, bit)
        /\ UNCHANGED << got, arrived >>
    BY <1>11, CallFields DEF RecvWrite, histVars
  <2>2. PICK c : c = call[t]
    OBVIOUS
  <2>3. call'[t] = [c EXCEPT !.at = next]
    BY <2>1, <2>2, Entered
  <2>4. /\ call'[t].port = call[t].port /\ call'[t].dgram = call[t].dgram
        /\ call'[t].at = next
    BY <2>1, <2>2, <2>3 DEF PopCall
  <2>5. PICK p \in Port : p = call[t].port
    BY <2>1, <1>4
  <2>6. \A u \in Threads : u # t => call'[u] = call[u]
    BY <2>1, Entered
  <2>7. PICK value \in BOOLEAN : value = call[t].value
    BY <2>1 DEF PopCall
  <2>8. WriteReg(p, value, bit)
    BY <2>1, <2>5, <2>7
  <2>9. underflow \subseteq underflow'
    BY <2>8, RegisterWritten
  <2>10. /\ \A q \in Port : q \notin underflow' => Numbered(q)'
         /\ \A u \in Threads :
              u # t /\ call[u].op = "pop" /\ call[u].port \notin underflow' => Held(u)'
    BY <2>1, <2>6, <2>8, WriteOrder
  <2>11. ASSUME p \notin underflow' PROVE Held(t)'
    <3>1. Held(t) /\ Numbered(p)
      BY <2>1, <2>5, <2>9, <2>11 DEF Order
    <3>2. PICK n \in Int : n = call[t].dgram.id
      BY <1>4, <2>1
    <3>3. PICK place \in [DOMAIN rings'[p] -> DOMAIN rings[p]] :
            /\ \A j \in DOMAIN rings'[p] : rings'[p][j] = rings[p][place[j]]
            /\ Edge(p, bit) =>
                 \A j \in DOMAIN rings'[p] : 1 \in DOMAIN rings[p] /\ 1 < place[j]
      BY <2>8, <2>11, RingPopped
    <3>4. ASSUME NEW j \in DOMAIN rings'[p]
          PROVE  n <= rings'[p][j].id /\ (Gone(t)' => n < rings'[p][j].id)
      <4>1. place[j] \in DOMAIN rings[p] /\ rings'[p][j] = rings[p][place[j]]
        BY <3>3
      <4>2. /\ n <= rings[p][place[j]].id
            /\ Gone(t) => n < rings[p][place[j]].id
        BY <2>5, <3>1, <3>2, <4>1 DEF Held
      <4>3. CASE Edge(p, bit)
        <5>1. 1 \in DOMAIN rings[p] /\ 1 < place[j]
          BY <3>3, <4>3
        <5>2. n <= rings[p][1].id /\ rings[p][1].id < rings[p][place[j]].id
          BY <2>5, <3>1, <3>2, <4>1, <5>1 DEF Held, Numbered
        <5>3. n < rings[p][place[j]].id
          BY <1>3, <3>2, <4>1, <5>1, <5>2
        <5> QED
          BY <4>1, <4>2, <5>3
      <4>4. CASE ~Edge(p, bit)
        <5>1. CASE next = "set"
          <6>1. ~pop'[p]
            BY <1>11, <2>8, <5>1, RegisterWritten
          <6>2. ~Gone(t)'
            BY <2>4, <2>5, <5>1, <6>1 DEF Gone
          <6> QED
            BY <4>1, <4>2, <6>2
        <5>2. CASE next = "end"
          <6>1. pop[p] /\ call[t].at = "set"
            BY <1>11, <2>1, <4>4, <5>2 DEF Edge
          <6>2. Gone(t)
            BY <2>5, <6>1 DEF Gone
          <6> QED
            BY <4>1, <4>2, <6>2
        <5> QED
          BY <1>11, <5>1, <5>2
      <4> QED
        BY <4>3, <4>4
    <3>5. n <= arrived' /\ \A i \in DOMAIN got'[p] : got'[p][i] < n
      BY <2>1, <2>5, <3>1, <3>2 DEF Held
    <3> QED
      BY <2>4, <2>5, <3>2, <3>4, <3>5 DEF Held
  <2>12. \A q \in Port : Handed(q)'
    BY <2>1 DEF Order, Handed
  <2>13. ASSUME NEW u \in Threads, call'[u].op = "pop", call'[u].port \notin underflow'
         PROVE  Held(u)'
    <3>1. CASE u = t
      BY <2>4, <2>5, <2>11, <2>13, <3>1
    <3>2. CASE u # t
      BY <2>6, <2>10, <2>13, <3>2
    <3> QED
      BY <3>1, <3>2
  <2> QED
    BY <2>10, <2>12, <2>13 DEF Order
<1>12. ASSUME NEW t \in Threads, RecvEnd(t) PROVE Order'
  <2>1. /\ call[t] \in PopCall /\ call[t].op = "pop" /\ call[t].at = "end"
        /\ WriteReg(call[t].port, call[t].value, FALSE) /\ arrived' = arrived
    BY <1>12, CallFields DEF RecvEnd
  <2>2. PICK p \in Port : p = call[t].port
    BY <2>1, <1>4
  <2>3. PICK value \in BOOLEAN : value = call[t].value
    BY <2>1 DEF PopCall
  <2>4. WriteReg(p, value, FALSE) /\ ~Edge(p, FALSE)
    BY <2>1, <2>2, <2>3 DEF Edge
  <2>5. underflow' = underflow /\ rings' = rings
    BY <2>4, RegisterWritten
  <2>6. PICK n \in Int : n = call[t].dgram.id
    BY <1>4, <2>1
  <2>7. \/ got' = got
        \/ p \notin underflow /\ got' = [got EXCEPT ![p] = Append(@, n)]
    BY <1>12, <2>2, <2>6 DEF RecvEnd
  <2>8. /\ call'[t].op # "pop"
        /\ \A u \in Threads : u # t => call'[u] = call[u]
    <3>1. PICK c : Enter(t, c) /\ c \in {Idle, [op |-> "recv", port |-> call[t].port]}
      BY <1>12 DEF RecvEnd
    <3> QED
      BY <3>1, Entered DEF Idle
  <2>9. \A u \in Threads : u # t /\ call[u].op = "pop" => call[u].port # p
    BY <2>1, <2>2 DEF Receivers, Receiving
  <2>10. \A q \in Port : q # p => got'[q] = got[q]
    BY <1>1, <2>7
  <2>11. /\ \A q \in Port : q # p /\ q \notin underflow => Numbered(q)'
         /\ \A u \in Threads :
              u # t /\ call[u].op = "pop" /\ call[u].port \notin underflow => Held(u)'
    BY <1>4, <2>1, <2>4, <2>5, <2>8, <2>9, <2>10, WriteOrder
  <2>12. \A q \in Port : q # p => Handed(q)'
    BY <2>1, <2>10 DEF Order, Handed
  <2>13. Handed(p)' /\ (p \notin underflow => Numbered(p)')
    <3>1. CASE got' = got
      BY <2>1, <2>5, <3>1 DEF Order, Handed, Numbered
    <3>2. CASE p \notin underflow /\ got' = [got EXCEPT ![p] = Append(@, n)]
      <4>1. Handed(p) /\ Numbered(p) /\ Held(t)
        BY <2>1, <2>2, <3>2 DEF Order
      <4>2. PICK old \in Seq(DatagramId) : old = got[p]
        BY <1>1
      <4>3. PICK w : w = Append(old, n)
        OBVIOUS
      <4>4. got'[p] = w
        BY <1>1, <3>2, <4>2, <4>3
      <4>5. n \in DatagramId
        BY <2>1, <2>6 DEF PopCall, Datagram
      <4>6. /\ Len(old) \in Nat /\ DOMAIN old = 1 .. Len(old)
            /\ DOMAIN w = 1 .. Len(old) + 1 /\ w[Len(old) + 1] = n
            /\ \A i \in 1 .. Len(old) : w[i] = old[i]
        BY <4>3, <4>5, AppendProperties
      <4>7. PICK k \in Nat : k = Len(old)
        BY <4>6
      <4>8. /\ \A i \in DOMAIN w : i \in 1 .. k \/ i = k + 1
            /\ \A i \in 1 .. k : w[i] = old[i] /\ i \in DOMAIN old
            /\ w[k + 1] = n
        BY <4>6, <4>7
      <4>9. /\ \A i \in 1 .. k : w[i] \in Int /\ w[i] < n /\ w[i] <= arrived
            /\ \A i, j \in 1 .. k : i < j => w[i] < w[j]
            /\ n <= arrived
        BY <1>3, <2>2, <2>6, <4>1, <4>2, <4>8 DEF Handed, Held
      <4>10. ASSUME NEW i \in DOMAIN w, NEW j \in DOMAIN w, i < j PROVE w[i] < w[j]
        <5>1. i \in 1 .. k
          BY <4>6, <4>7, <4>10
        <5>2. CASE j \in 1 .. k
          BY <4>9, <4>10, <5>1, <5>2
        <5>3. CASE j = k + 1
          BY <4>8, <4>9, <5>1, <5>3
        <5> QED
          BY <4>8, <5>2, <5>3
      <4>11. \A i \in DOMAIN w : w[i] <= arrived
        BY <4>8, <4>9
      <4>12. Handed(p)'
        BY <2>1, <4>4, <4>10, <4>11 DEF Handed
      <4>13. \A j \in DOMAIN rings[p] : n < rings[p][j].id
        BY <2>1, <2>2, <2>6, <4>1 DEF Held, Gone
      <4>14. ASSUME NEW i \in DOMAIN w, NEW j \in DOMAIN rings[p]
             PROVE  w[i] < rings[p][j].id
        <5>1. CASE i \in 1 .. k
          <6>1. i \in DOMAIN got[p] /\ w[i] = got[p][i]
            BY <4>2, <4>8, <5>1
          <6> QED
            BY <4>1, <6>1 DEF Numbered
        <5>2. CASE i = k + 1
          BY <4>8, <4>13, <5>2
        <5> QED
          BY <4>8, <5>1, <5>2
      <4>15. Numbered(p)'
        BY <2>1, <2>5, <4>1, <4>4, <4>14 DEF Numbered
      <4> QED
        BY <4>12, <4>15
    <3> QED
      BY <2>7, <3>1, <3>2
  <2>14. ASSUME NEW u \in Threads, call'[u].op = "pop", call'[u].port \notin underflow'
         PROVE  Held(u)'
    <3>1. u # t /\ call'[u] = call[u]
      BY <2>8, <2>14
    <3> QED
      BY <2>5, <2>11, <2>14, <3>1
  <2> QED
    BY <2>5, <2>11, <2>12, <2>13, <2>14 DEF Order
<1>13. ASSUME NEW t \in Threads, StatusWrite(t) PROVE Order'
  <2>1. call[t] \in StatusCall /\ call[t].port \in Port
    BY <1>13, CallFields DEF StatusWrite
  <2>2. PICK p \in Port : p = call[t].port
    BY <2>1
  <2>3. PICK bit \in BOOLEAN, status \in BOOLEAN :
          bit = call[t].pop /\ status = OpenBit(call[t].by)
    BY <2>1 DEF StatusCall, OpenBit
  <2>4. /\ call'[t].op # "pop"
        /\ \A u \in Threads : u # t => call'[u] = call[u]
    <3>1. call[t].next.op # "pop"
      BY <2>1 DEF StatusCall, SendCall, OtherCall
    <3> QED
      BY <1>13, <3>1, Entered DEF StatusWrite
  <2>5. UNCHANGED << got, arrived >>
    BY <1>13 DEF StatusWrite, histVars
  <2>6. CASE InRange(p)
    <3>1. WriteReg(p, status, bit)
      BY <1>13, <2>2, <2>3, <2>6 DEF StatusWrite
    <3>2. underflow \subseteq underflow'
      BY <3>1, RegisterWritten
    <3>3. /\ \A q \in Port : q \notin underflow' => Numbered(q)'
          /\ \A u \in Threads :
               u # t /\ call[u].op = "pop" /\ call[u].port \notin underflow' => Held(u)'
      BY <2>4, <2>5, <3>1, WriteOrder
    <3>4. \A q \in Port : Handed(q)'
      BY <2>5 DEF Order, Handed
    <3>5. ASSUME NEW u \in Threads, call'[u].op = "pop", call'[u].port \notin underflow'
          PROVE  Held(u)'
      <4>1. u # t /\ call'[u] = call[u]
        BY <2>4, <3>5
      <4> QED
        BY <3>3, <3>5, <4>1
    <3> QED
      BY <3>3, <3>4, <3>5 DEF Order
  <2>7. CASE ~InRange(p)
    <3>1. UNCHANGED << rings, pop, underflow >>
      BY <1>13, <2>2, <2>7 DEF StatusWrite, rxVars
    <3> QED
      BY <1>5, <2>4, <2>5, <3>1
  <2> QED
    BY <2>6, <2>7
<1>14. ASSUME NEW p \in Port, NEW empty \in BOOLEAN, Arrive(p, empty)
       PROVE  Order'
  <2> DEFINE d == [id |-> arrived + 1, empty |-> empty]
             w == Append(rings[p], d)
  <2>1. /\ got' = got /\ arrived' = arrived + 1 /\ underflow' = underflow
        /\ call' = call /\ pop' = pop
        /\ rings' = IF p \in underflow THEN rings ELSE [rings EXCEPT ![p] = w]
    BY <1>14 DEF Arrive
  <2>2. /\ p \notin underflow => rings'[p] = w
        /\ \A q \in Port : q # p \/ p \in underflow => rings'[q] = rings[q]
    BY <1>1, <2>1
  <2>3. /\ DOMAIN w = 1 .. Len(rings[p]) + 1
        /\ w[Len(rings[p]) + 1].id = arrived + 1
        /\ \A i \in 1 .. Len(rings[p]) : w[i] = rings[p][i]
    <3>1. rings[p] \in Seq(Datagram \cup {d}) /\ d \in Datagram \cup {d}
      BY <1>2
    <3>2. /\ DOMAIN w = 1 .. Len(rings[p]) + 1
          /\ w[Len(rings[p]) + 1] = d
          /\ \A i \in 1 .. Len(rings[p]) : w[i] = rings[p][i]
      BY <3>1, AppendProperties
    <3> QED
      BY <3>2
  <2> HIDE DEF w
  <2>4. PICK k \in Nat : k = Len(rings[p])
    BY <1>2
  <2>5. PICK a \in Int : a = arrived
    BY <1>1
  <2>6. /\ \A i \in DOMAIN w : i \in 1 .. k \/ i = k + 1
        /\ \A i \in 1 .. k : w[i] = rings[p][i] /\ i \in DOMAIN rings[p]
                             /\ rings[p][i].id \in Int
        /\ w[k + 1].id = a + 1
        /\ DOMAIN w = 1 .. k + 1
    BY <1>2, <1>3, <2>3, <2>4, <2>5
  <2>7. \A n \in Int : n <= a => n <= a + 1 /\ n < a + 1
    OBVIOUS
  <2>8. ASSUME NEW q \in Port PROVE Handed(q)'
    <3>1. \A i \in DOMAIN got[q] : got[q][i] \in Int /\ got[q][i] <= a
      BY <1>3, <2>5 DEF Order, Handed
    <3>2. \A i \in DOMAIN got[q] : got[q][i] <= a + 1
      BY <2>7, <3>1
    <3> QED
      BY <2>1, <2>5, <3>2 DEF Order, Handed
  <2>9. ASSUME NEW q \in Port, q \notin underflow PROVE Numbered(q)'
    <3>1. Numbered(q) /\ Handed(q)
      BY <2>9 DEF Order
    <3>2. CASE q # p
      <4>1. \A i \in DOMAIN rings[q] : rings[q][i].id \in Int /\ rings[q][i].id <= a
        BY <1>3, <2>5, <3>1 DEF Numbered
      <4>2. \A i \in DOMAIN rings[q] : rings[q][i].id <= a + 1
        BY <2>7, <4>1
      <4> QED
        BY <2>1, <2>2, <2>5, <3>1, <3>2, <4>2 DEF Numbered
    <3>3. CASE q = p
      <4>1. /\ \A i \in 1 .. k : w[i].id \in Int /\ w[i].id <= a
            /\ \A i, j \in 1 .. k : i < j => w[i].id < w[j].id
        BY <2>5, <2>6, <3>1, <3>3 DEF Numbered
      <4>2. ASSUME NEW i \in DOMAIN w PROVE w[i].id <= a + 1
        <5>1. CASE i \in 1 .. k
          BY <2>7, <4>1, <5>1
        <5>2. CASE i = k + 1
          BY <2>5, <2>6, <5>2
        <5> QED
          BY <2>6, <5>1, <5>2
      <4>3. ASSUME NEW i \in DOMAIN w, NEW j \in DOMAIN w, i < j
            PROVE  w[i].id < w[j].id
        <5>1. i \in 1 .. k
          BY <2>6, <4>3
        <5>2. CASE j \in 1 .. k
          BY <4>1, <4>3, <5>1, <5>2
        <5>3. CASE j = k + 1
          BY <2>6, <2>7, <4>1, <5>1, <5>3
        <5> QED
          BY <2>6, <5>2, <5>3
      <4>4. ASSUME NEW i \in DOMAIN got[p], NEW j \in DOMAIN w
            PROVE  got[p][i] < w[j].id
        <5>1. got[p][i] \in Int /\ got[p][i] <= a
          BY <1>3, <2>5, <3>1, <3>3 DEF Handed
        <5>2. CASE j \in 1 .. k
          BY <2>6, <3>1, <3>3, <5>2 DEF Numbered
        <5>3. CASE j = k + 1
          BY <2>6, <2>7, <5>1, <5>3
        <5> QED
          BY <2>6, <5>2, <5>3
      <4> QED
        BY <2>1, <2>2, <2>5, <2>9, <3>3, <4>2, <4>3, <4>4 DEF Numbered
    <3> QED
      BY <3>2, <3>3
  <2>10. ASSUME NEW t \in Threads, call[t].op = "pop", call[t].port \notin underflow
         PROVE  Held(t)'
    <3>1. PICK q \in Port : q = call[t].port
      BY <1>4, <2>10
    <3>2. PICK n \in Int : n = call[t].dgram.id
      BY <1>4, <2>10
    <3>3. Held(t)
      BY <2>10 DEF Order
    <3>4. n <= a /\ n <= a + 1 /\ n < a + 1
      BY <2>5, <2>7, <3>2, <3>3 DEF Held
    <3>5. Gone(t)' <=> Gone(t)
      BY <2>1 DEF Gone
    <3>6. ASSUME NEW j \in DOMAIN rings'[q]
          PROVE  n <= rings'[q][j].id /\ (Gone(t) => n < rings'[q][j].id)
      <4>1. CASE j \in DOMAIN rings[q] /\ rings'[q][j] = rings[q][j]
        BY <3>1, <3>2, <3>3, <4>1 DEF Held
      <4>2. CASE rings'[q][j].id = a + 1
        BY <3>4, <4>2
      <4>3. CASE q # p
        BY <2>2, <4>1, <4>3
      <4>4. CASE q = p
        <5>1. rings'[q] = w
          BY <2>2, <2>10, <3>1, <4>4
        <5> QED
          BY <2>6, <4>1, <4>2, <4>4, <5>1
      <4> QED
        BY <4>3, <4>4
    <3> QED
      BY <2>1, <2>5, <3>1, <3>2, <3>3, <3>4, <3>5, <3>6 DEF Held
  <2> QED
    BY <2>1, <2>8, <2>9, <2>10 DEF Order
<1>15. CASE Aside
  <2>1. \A t \in Threads : call'[t].op = "pop" => call'[t] = call[t]
    BY <1>15 DEF Aside, Receiving
  <2> QED
    BY <1>15, <2>1 DEF Aside, rxVars, Order, Handed, Numbered, Held, Gone
<1>16. ASSUME NEW t \in Threads, Receive(t) PROVE Order'
  <2>1. CASE RecvClear(t)
    <3>1. PICK bit \in BOOLEAN : ~bit
      OBVIOUS
    <3>2. RecvWrite(t, "clear", bit, "set")
      BY <2>1, <3>1 DEF RecvClear
    <3> QED
      BY <1>11, <3>1, <3>2
  <2>2. CASE RecvSet(t)
    BY <1>11, <2>2 DEF RecvSet
  <2> QED
    BY <1>8, <1>9, <1>10, <1>12, <1>16, <2>1, <2>2 DEF Receive
<1> QED
  BY <1>6, <1>7, <1>13, <1>14, <1>15, <1>16, ReceiveSteps


-----------------------------------------------------------------------------
(***************************************************************************)
(* The status of the ports.                                                *)
(***************************************************************************)

(* The word a receiver has read is the one it will write back. *)
Remembered(t) ==
  LET p == call[t].port
  IN  /\ asked[p] = "bind" => call[t].value
      /\ asked[p] = "SHUT_RD" => ~call[t].value

(* The status of a port is what was last asked for, in the register and in *)
(* the hands of those that have read it, unless the two have raced.        *)
Statuses ==
  /\ StatusKept
  /\ \A p \in raced : InRange(p)
  /\ \A t \in Threads :
       call[t].op = "pop" /\ call[t].at # "read" /\ call[t].port \notin raced
         => Remembered(t)

(* The status of a port is kept by every step. *)
LEMMA StatusesStep ==
  ASSUME TableTypes, CallTypes, DeviceTypes, Receivers, Statuses, [Next]_vars
  PROVE  Statuses'
<1>1. /\ open \in [Port -> BOOLEAN] /\ asked \in [Port -> Asker]
      /\ raced \subseteq Port
  BY DEF DeviceTypes
<1>2. \A t \in Threads : call[t].op = "pop" => call[t] \in PopCall /\ call[t].port \in Port
  BY CallFields
<1>3. CASE LibInit
  <2>1. \A t \in Threads : call'[t].op # "pop"
    BY <1>3 DEF LibInit, Receivers, Receiving
  <2>2. raced' = {} /\ \A p \in raced : InRange(p)
    BY <1>3 DEF LibInit, InitializeDevice, Statuses
  <2>3. ASSUME NEW p \in Port
        PROVE  /\ asked'[p] = "bind" => open'[p]
               /\ asked'[p] = "SHUT_RD" => ~open'[p]
    <3>1. /\ asked'[p] = IF InRange(p) THEN "init" ELSE asked[p]
          /\ open'[p] = (open[p] /\ ~(InRange(p) /\ p < MAX_UDP_PORTS))
      BY <1>3 DEF LibInit, InitializeDevice
    <3>2. CASE InRange(p)
      BY <3>1, <3>2
    <3>3. CASE ~InRange(p)
      <4>1. p \notin raced
        BY <2>2, <3>3
      <4>2. open'[p] <=> open[p]
        BY <3>1, <3>3
      <4> QED
        BY <3>1, <3>3, <4>1, <4>2 DEF Statuses, StatusKept
    <3> QED
      BY <3>2, <3>3
  <2> QED
    BY <2>1, <2>2, <2>3 DEF Statuses, StatusKept
<1>4. CASE ProcessEnds
  <2>1. \A t \in Threads : call'[t].op # "pop"
    BY <1>4 DEF ProcessEnds, Idle
  <2>2. UNCHANGED << open, asked, raced >>
    BY <1>4 DEF ProcessEnds, devVars, rxVars, askVars
  <2> QED
    BY <2>1, <2>2 DEF Statuses, StatusKept, InRange
<1>5. ASSUME UNCHANGED << open, asked, raced >>,
             \A t \in Threads : call'[t].op = "pop" /\ call'[t].at # "read"
                                  => call'[t] = call[t]
      PROVE  Statuses'
  <2>1. StatusKept' /\ \A p \in raced' : InRange(p)
    BY <1>5 DEF Statuses, StatusKept
  <2>2. \A t \in Threads : call'[t].op = "pop" /\ call'[t].at # "read"
                           /\ call'[t].port \notin raced' => Remembered(t)'
    BY <1>5 DEF Statuses, Remembered
  <2> QED
    BY <2>1, <2>2 DEF Statuses, InRange
<1>6. ASSUME NEW t \in Threads, NEW fd \in Fd, Recv(t, fd) PROVE Statuses'
  <2>1. /\ call'[t].op = "recv"
        /\ \A u \in Threads : u # t => call'[u] = call[u]
    BY <1>6, Entered DEF Recv
  <2> QED
    BY <1>5, <1>6, <2>1 DEF Recv, devVars, rxVars, askVars
<1>7. ASSUME NEW t \in Threads, RecvFind(t) PROVE Statuses'
  <2>1. PICK d : Enter(t, [op |-> "pop", port |-> call[t].port, at |-> "read",
                           value |-> FALSE, dgram |-> d])
    BY <1>7 DEF RecvFind
  <2>2. /\ call'[t].at = "read"
        /\ \A u \in Threads : u # t => call'[u] = call[u]
    BY <2>1, Entered
  <2> QED
    BY <1>5, <1>7, <2>2 DEF RecvFind, devVars, rxVars, askVars
<1>8. ASSUME NEW t \in Threads, RecvRead(t) PROVE Statuses'
  <2>1. PICK c : c = call[t]
    OBVIOUS
  <2>2. c \in PopCall /\ c.port \in Port
    BY <1>2, <1>8, <2>1 DEF RecvRead
  <2>3. /\ call'[t] = [c EXCEPT !.at = "clear", !.value = open[c.port]]
        /\ \A u \in Threads : u # t => call'[u] = call[u]
    BY <1>8, <2>1, Entered DEF RecvRead
  <2>4. call'[t].port = c.port /\ call'[t].value = open[c.port]
    BY <2>2, <2>3 DEF PopCall
  <2>5. UNCHANGED << open, asked, raced >>
    BY <1>8 DEF RecvRead, devVars, rxVars, askVars
  <2>6. c.port \notin raced => Remembered(t)'
    BY <2>2, <2>4, <2>5 DEF Statuses, StatusKept, Remembered
  <2>7. ASSUME NEW u \in Threads, call'[u].op = "pop", call'[u].at # "read",
               call'[u].port \notin raced'
        PROVE  Remembered(u)'
    <3>1. CASE u = t
      BY <2>4, <2>5, <2>6, <2>7, <3>1
    <3>2. CASE u # t
      BY <2>3, <2>5, <2>7, <3>2 DEF Statuses, Remembered
    <3> QED
      BY <3>1, <3>2
  <2> QED
    BY <2>5, <2>7 DEF Statuses, StatusKept, InRange
<1>9. ASSUME NEW t \in Threads, NEW bit \in BOOLEAN, NEW c,
             call[t].op = "pop", call[t].at # "read",
             WriteReg(call[t].port, call[t].value, bit), UNCHANGED askVars,
             Enter(t, c),
             c.op = "pop" => c.port = call[t].port /\ c.value = call[t].value
      PROVE  Statuses'
  <2>1. PICK p \in Port : p = call[t].port
    BY <1>2, <1>9
  <2>2. PICK value \in BOOLEAN : value = call[t].value
    BY <1>2, <1>9 DEF PopCall
  <2>3. /\ open'[p] = value
        /\ \A q \in Port : q # p => open'[q] = open[q]
    BY <1>9, <2>1, <2>2, RegisterWritten
  <2>4. asked' = asked /\ raced' = raced
    BY <1>9 DEF askVars
  <2>5. p \notin raced => Remembered(t)
    BY <1>9, <2>1 DEF Statuses
  <2>6. ASSUME NEW q \in Port, q \notin raced
        PROVE  /\ asked[q] = "bind" => open'[q]
               /\ asked[q] = "SHUT_RD" => ~open'[q]
    <3>1. CASE q = p
      BY <2>1, <2>2, <2>3, <2>5, <2>6, <3>1 DEF Remembered
    <3>2. CASE q # p
      BY <2>3, <2>6, <3>2 DEF Statuses, StatusKept
    <3> QED
      BY <3>1, <3>2
  <2>7. ASSUME NEW u \in Threads, call'[u].op = "pop", call'[u].at # "read",
               call'[u].port \notin raced'
        PROVE  Remembered(u)'
    <3>1. CASE u = t
      <4>1. call'[t] = c
        BY <1>9, Entered
      <4>2. call'[t].port = p /\ call'[t].value = value
        BY <1>9, <2>1, <2>2, <2>7, <3>1, <4>1
      <4>3. /\ asked[p] = "bind" => value
            /\ asked[p] = "SHUT_RD" => ~value
        BY <2>1, <2>2, <2>4, <2>5, <2>7, <3>1, <4>2 DEF Remembered
      <4> QED
        BY <2>4, <3>1, <4>2, <4>3 DEF Remembered
    <3>2. CASE u # t
      <4>1. call'[u] = call[u]
        BY <1>9, <3>2, Entered
      <4> QED
        BY <2>4, <2>7, <4>1 DEF Statuses, Remembered
    <3> QED
      BY <3>1, <3>2
  <2> QED
    BY <2>4, <2>6, <2>7 DEF Statuses, StatusKept, InRange
<1>10. ASSUME NEW t \in Threads, NEW at \in {"clear", "set"}, NEW bit \in BOOLEAN,
              NEW next, RecvWrite(t, at, bit, next)
       PROVE  Statuses'
  <2>1. PICK c : c = call[t]
    OBVIOUS
  <2>2. /\ c \in PopCall /\ call[t].op = "pop" /\ call[t].at # "read"
        /\ WriteReg(call[t].port, call[t].value, bit)
        /\ Enter(t, [c EXCEPT !.at = next])
        /\ UNCHANGED askVars
    BY <1>2, <1>10, <2>1 DEF RecvWrite
  <2>3. PICK e : e = [c EXCEPT !.at = next]
    OBVIOUS
  <2>4. e.port = call[t].port /\ e.value = call[t].value
    BY <2>1, <2>2, <2>3 DEF PopCall
  <2> QED
    BY <1>9, <2>2, <2>3, <2>4
<1>11. ASSUME NEW t \in Threads, RecvEnd(t) PROVE Statuses'
  <2>1. PICK c : Enter(t, c) /\ c \in {Idle, [op |-> "recv", port |-> call[t].port]}
    BY <1>11 DEF RecvEnd
  <2>2. c.op # "pop"
    BY <2>1 DEF Idle
  <2>3. PICK bit \in BOOLEAN : ~bit
    OBVIOUS
  <2>4. /\ call[t].op = "pop" /\ call[t].at # "read" /\ UNCHANGED askVars
        /\ WriteReg(call[t].port, call[t].value, bit)
    BY <1>11, <2>3 DEF RecvEnd
  <2> QED
    BY <1>9, <2>1, <2>2, <2>4
<1>12. ASSUME NEW t \in Threads, StatusWrite(t) PROVE Statuses'
  <2>1. call[t] \in StatusCall /\ call[t].port \in Port
    BY <1>12, CallFields DEF StatusWrite
  <2>2. PICK p \in Port, bit \in BOOLEAN, by \in {"bind", "SHUT_RD"} :
          p = call[t].port /\ bit = call[t].pop /\ by = call[t].by
    BY <2>1 DEF StatusCall
  <2>3. /\ call'[t].op # "pop"
        /\ \A u \in Threads : u # t => call'[u] = call[u]
    <3>1. call[t].next.op # "pop"
      BY <2>1 DEF StatusCall, SendCall, OtherCall
    <3> QED
      BY <1>12, <3>1, Entered DEF StatusWrite
  <2>4. CASE ~InRange(p)
    BY <1>5, <1>12, <2>2, <2>3, <2>4 DEF StatusWrite, rxVars, askVars
  <2>5. CASE InRange(p)
    <3>1. /\ WriteReg(p, OpenBit(by), bit) /\ OpenBit(by) \in BOOLEAN
          /\ asked' = [asked EXCEPT ![p] = by]
          /\ raced' = IF Popping(p) THEN raced \cup {p} ELSE raced \ {p}
      BY <1>12, <2>2, <2>5 DEF StatusWrite, OpenBit
    <3>2. PICK status \in BOOLEAN : status = OpenBit(by)
      BY <3>1
    <3>3. /\ open'[p] = status
          /\ \A q \in Port : q # p => open'[q] = open[q]
      BY <3>1, <3>2, RegisterWritten
    <3>4. status <=> by = "bind"
      BY <3>2 DEF OpenBit
    <3>5. asked'[p] = by /\ \A q \in Port : q # p => asked'[q] = asked[q]
      BY <1>1, <3>1
    <3>6. \A q \in Port : q # p => (q \in raced' <=> q \in raced)
      BY <3>1
    <3>7. raced' \subseteq raced \cup {p}
      BY <3>1
    <3>8. StatusKept'
      <4>1. \A q \in Port : q # p /\ q \notin raced' =>
              /\ asked'[q] = "bind" => open'[q]
              /\ asked'[q] = "SHUT_RD" => ~open'[q]
        BY <3>3, <3>5, <3>6 DEF Statuses, StatusKept
      <4>2. /\ asked'[p] = "bind" => open'[p]
            /\ asked'[p] = "SHUT_RD" => ~open'[p]
        BY <3>3, <3>4, <3>5
      <4> QED
        BY <4>1, <4>2 DEF StatusKept
    <3>9. ASSUME NEW u \in Threads, call'[u].op = "pop", call'[u].at # "read",
                 call'[u].port \notin raced'
          PROVE  Remembered(u)'
      <4>1. u # t /\ call'[u] = call[u] /\ call[u].port \in Port
        BY <1>2, <2>3, <3>9
      <4>2. call[u].port # p
        <5>1. p \notin raced' => ~Popping(p)
          BY <3>1
        <5> QED
          BY <3>9, <4>1, <5>1 DEF Popping
      <4> QED
        BY <3>5, <3>6, <3>9, <4>1, <4>2 DEF Statuses, Remembered
    <3> QED
      BY <2>5, <3>7, <3>8, <3>9 DEF Statuses, InRange
  <2> QED
    BY <2>4, <2>5
<1>13. ASSUME NEW p \in Port, NEW empty \in BOOLEAN, Arrive(p, empty)
       PROVE  Statuses'
  BY <1>5, <1>13 DEF Arrive, askVars
<1>14. CASE Aside
  <2>1. UNCHANGED << open, raced >>
    BY <1>14 DEF Aside, rxVars
  <2>2. \A p \in Port : \/ asked'[p] = asked[p]
                        \/ asked'[p] = "SHUT_RDWR"
    BY <1>1, <1>14 DEF Aside
  <2>3. \A t \in Threads : call'[t].op = "pop" => call'[t] = call[t]
    BY <1>14 DEF Aside, Receiving
  <2>4. StatusKept'
    BY <2>1, <2>2 DEF Statuses, StatusKept
  <2>5. ASSUME NEW t \in Threads, call'[t].op = "pop", call'[t].at # "read",
               call'[t].port \notin raced'
        PROVE  Remembered(t)'
    <3>1. call'[t] = call[t] /\ call[t].port \in Port /\ Remembered(t)
      BY <1>2, <2>1, <2>3, <2>5 DEF Statuses
    <3> QED
      BY <2>2, <3>1 DEF Remembered
  <2> QED
    BY <2>1, <2>4, <2>5 DEF Statuses, InRange
<1>15. ASSUME NEW t \in Threads, Receive(t) PROVE Statuses'
  <2>1. CASE RecvClear(t)
    <3>1. PICK bit \in BOOLEAN : ~bit
      OBVIOUS
    <3>2. RecvWrite(t, "clear", bit, "set")
      BY <2>1, <3>1 DEF RecvClear
    <3> QED
      BY <1>10, <3>2
  <2>2. CASE RecvSet(t)
    BY <1>10, <2>2 DEF RecvSet
  <2> QED
    BY <1>6, <1>7, <1>8, <1>11, <1>15, <2>1, <2>2 DEF Receive
<1> QED
  BY <1>3, <1>4, <1>12, <1>13, <1>14, <1>15, ReceiveSteps

-----------------------------------------------------------------------------
(***************************************************************************)
(* The pulses of the pop bits.                                             *)
(***************************************************************************)

(* A receiver is between the write that sets the pop bit and the last one. *)
Pulsed(p) ==
  \E t \in Threads : call[t].op = "pop" /\ call[t].port = p /\ call[t].at = "end"

(* But for the ports popped by a write of their status: the pop bit is set *)
(* by receivers alone, and a receiver that has found a datagram has it     *)
(* until it pops the ring.                                                 *)
Pulses ==
  /\ PoppedOnce
  /\ initialized => \A p \in Port \ extra : pop[p] => Pulsed(p)
  /\ \A t \in Threads :
       call[t].op = "pop" /\ call[t].at # "end" /\ call[t].port \notin extra
         => rings[call[t].port] # << >>

(* The pulses stay so in every step. *)
LEMMA PulsesStep ==
  ASSUME TableTypes, CallTypes, DeviceTypes, Receivers, Pulses, [Next]_vars
  PROVE  Pulses'
<1>1. /\ pop \in [Port -> BOOLEAN] /\ rings \in [Port -> Seq(Datagram)]
      /\ underflow \subseteq Port /\ extra \subseteq Port
  BY DEF DeviceTypes
<1>2. \A t \in Threads : call[t].op = "pop" => call[t] \in PopCall /\ call[t].port \in Port
  BY CallFields
<1>3. CASE LibInit
  <2>1. \A t \in Threads : call'[t].op # "pop"
    BY <1>3 DEF LibInit, Receivers, Receiving
  <2>2. underflow' = {} /\ \A p \in Port : ~pop'[p]
    BY <1>3 DEF LibInit, InitializeDevice
  <2> QED
    BY <2>1, <2>2 DEF Pulses, PoppedOnce
<1>4. CASE ProcessEnds
  <2>1. \A t \in Threads : call'[t].op # "pop"
    BY <1>4 DEF ProcessEnds, Idle
  <2>2. UNCHANGED << underflow, extra >> /\ ~initialized'
    BY <1>4 DEF ProcessEnds, ProcessStart, devVars, rxVars
  <2> QED
    BY <2>1, <2>2 DEF Pulses, PoppedOnce
<1>5. ASSUME UNCHANGED << pop, underflow, extra, initialized >>,
             \A t \in Threads :
               call[t].op = "pop" /\ call[t].at = "end" => call'[t] = call[t],
             \A t \in Threads :
               call'[t].op = "pop" /\ call'[t].at # "end" /\ call'[t].port \notin extra
                 => rings'[call'[t].port] # << >>
      PROVE  Pulses'
  <2>1. \A p \in Port : Pulsed(p) => Pulsed(p)'
    BY <1>5 DEF Pulsed
  <2>2. PoppedOnce'
    BY <1>5 DEF Pulses, PoppedOnce
  <2>3. initialized' => \A p \in Port \ extra' : pop'[p] => Pulsed(p)'
    BY <1>5, <2>1 DEF Pulses
  <2> QED
    BY <1>5, <2>2, <2>3 DEF Pulses
<1>6. ASSUME UNCHANGED << pop, rings, underflow, extra, initialized >>,
             NEW t \in Threads, NEW c, Enter(t, c),
             call[t].op = "pop" => call[t].at # "end",
             c.op = "pop" /\ c.at # "end" /\ c.port \notin extra
               => rings[c.port] # << >>
      PROVE  Pulses'
  <2>1. call'[t] = c /\ \A u \in Threads : u # t => call'[u] = call[u]
    BY <1>6, Entered
  <2>2. \A u \in Threads :
          call[u].op = "pop" /\ call[u].at = "end" => call'[u] = call[u]
    BY <1>6, <2>1
  <2>3. \A u \in Threads :
          call'[u].op = "pop" /\ call'[u].at # "end" /\ call'[u].port \notin extra
            => rings'[call'[u].port] # << >>
    BY <1>6, <2>1 DEF Pulses
  <2> QED
    BY <1>5, <1>6, <2>2, <2>3
<1>7. ASSUME NEW t \in Threads, NEW fd \in Fd, Recv(t, fd) PROVE Pulses'
  <2>1. PICK c : Enter(t, c) /\ c.op # "pop"
    BY <1>7 DEF Recv
  <2>2. call[t].op # "pop"
    BY <1>7 DEF Recv, Free, Idle
  <2>3. UNCHANGED << pop, rings, underflow, extra, initialized >>
    BY <1>7 DEF Recv, devVars, rxVars, procVars
  <2> QED
    BY <1>6, <2>1, <2>2, <2>3
<1>8. ASSUME NEW t \in Threads, RecvFind(t) PROVE Pulses'
  <2>1. PICK d \in Found(call[t].port) :
          Enter(t, [op |-> "pop", port |-> call[t].port, at |-> "read",
                    value |-> FALSE, dgram |-> d])
    BY <1>8 DEF RecvFind
  <2>2. call[t].op = "recv"
    BY <1>8 DEF RecvFind
  <2>3. call[t].port \notin extra => rings[call[t].port] # << >>
    BY <2>1 DEF Found, Pulses, PoppedOnce
  <2>4. UNCHANGED << pop, rings, underflow, extra, initialized >>
    BY <1>8 DEF RecvFind, devVars, rxVars, procVars
  <2> QED
    BY <1>6, <2>1, <2>2, <2>3, <2>4
<1>9. ASSUME NEW t \in Threads, RecvRead(t) PROVE Pulses'
  <2>1. PICK c : c = call[t]
    OBVIOUS
  <2>2. c \in PopCall /\ call[t].op = "pop" /\ call[t].at = "read"
    BY <1>2, <1>9, <2>1 DEF RecvRead
  <2>3. PICK e : e = [c EXCEPT !.at = "clear", !.value = open[c.port]]
    OBVIOUS
  <2>4. Enter(t, e) /\ e.port = call[t].port
    BY <1>9, <2>1, <2>2, <2>3 DEF RecvRead, PopCall
  <2>5. UNCHANGED << pop, rings, underflow, extra, initialized >>
    BY <1>9 DEF RecvRead, devVars, rxVars, procVars
  <2>6. call[t].port \notin extra => rings[call[t].port] # << >>
    BY <2>2 DEF Pulses
  <2> QED
    BY <1>6, <2>2, <2>4, <2>5, <2>6
<1>10. ASSUME NEW t \in Threads, NEW bit \in BOOLEAN, NEW c, call[t].op = "pop",
              WriteReg(call[t].port, call[t].value, bit),
              UNCHANGED << extra, initialized >>, Enter(t, c),
              bit => /\ call[t].at # "end"
                     /\ c.op = "pop" /\ c.port = call[t].port /\ c.at = "end",
              ~bit /\ c.op = "pop" => c.port = call[t].port /\ call[t].at # "end"
       PROVE  Pulses'
  <2>1. PICK p \in Port : p = call[t].port
    BY <1>2, <1>10
  <2>2. PICK value \in BOOLEAN : value = call[t].value
    BY <1>2, <1>10 DEF PopCall
  <2>3. WriteReg(p, value, bit)
    BY <1>10, <2>1, <2>2
  <2>4. /\ pop'[p] = bit
        /\ \A q \in Port : q # p => pop'[q] = pop[q] /\ rings'[q] = rings[q]
        /\ \A q \in Port : q # p => (q \in underflow' => q \in underflow)
        /\ underflow' \subseteq Port
        /\ ~bit => rings' = rings /\ underflow' = underflow
        /\ rings[p] # << >> => underflow' = underflow
    BY <2>3, RegisterWritten DEF Edge
  <2>5. call'[t] = c /\ \A u \in Threads : u # t => call'[u] = call[u]
    BY <1>10, Entered
  <2>6. \A u \in Threads : u # t /\ call[u].op = "pop" => call[u].port # p
    BY <1>10, <2>1 DEF Receivers, Receiving
  <2>7. PoppedOnce'
    <3>1. p \notin extra => underflow' = underflow
      BY <1>10, <2>1, <2>4 DEF Pulses
    <3> QED
      BY <1>10, <2>4, <3>1 DEF Pulses, PoppedOnce
  <2>8. ASSUME initialized', NEW q \in Port, q \notin extra', pop'[q] PROVE Pulsed(q)'
    <3>1. CASE q = p
      <4>1. bit
        BY <2>4, <2>8, <3>1
      <4> QED
        BY <1>10, <2>1, <2>5, <3>1, <4>1 DEF Pulsed
    <3>2. CASE q # p
      <4>1. PICK u \in Threads : call[u].op = "pop" /\ call[u].port = q
                                 /\ call[u].at = "end"
        BY <1>10, <2>4, <2>8, <3>2 DEF Pulses, Pulsed
      <4>2. call'[u] = call[u]
        BY <2>1, <2>5, <3>2, <4>1
      <4> QED
        BY <4>1, <4>2 DEF Pulsed
    <3> QED
      BY <3>1, <3>2
  <2>9. ASSUME NEW u \in Threads, call'[u].op = "pop", call'[u].at # "end",
               call'[u].port \notin extra'
        PROVE  rings'[call'[u].port] # << >>
    <3>1. CASE u = t
      <4>1. ~bit /\ c.op = "pop" /\ c.port = p /\ call[t].at # "end"
        BY <1>10, <2>1, <2>5, <2>9, <3>1
      <4>2. p \notin extra
        BY <1>10, <2>5, <2>9, <3>1, <4>1
      <4>3. rings[p] # << >>
        BY <1>10, <2>1, <4>1, <4>2 DEF Pulses
      <4> QED
        BY <2>4, <2>5, <3>1, <4>1, <4>3
    <3>2. CASE u # t
      <4>1. call'[u] = call[u] /\ call[u].port # p /\ call[u].port \in Port
        BY <1>2, <2>5, <2>6, <2>9, <3>2
      <4> QED
        BY <1>10, <2>4, <2>9, <4>1 DEF Pulses
    <3> QED
      BY <3>1, <3>2
  <2> QED
    BY <2>7, <2>8, <2>9 DEF Pulses
<1>11. ASSUME NEW t \in Threads, NEW at, NEW bit \in BOOLEAN, NEW next,
              RecvWrite(t, at, bit, next), at # "end", bit => next = "end"
       PROVE  Pulses'
  <2>1. PICK c : c = call[t]
    OBVIOUS
  <2>2. /\ c \in PopCall /\ call[t].op = "pop" /\ call[t].at # "end"
        /\ WriteReg(call[t].port, call[t].value, bit)
        /\ Enter(t, [c EXCEPT !.at = next])
        /\ UNCHANGED << extra, initialized >>
    BY <1>2, <1>11, <2>1 DEF RecvWrite, procVars
  <2>3. PICK e : e = [c EXCEPT !.at = next]
    OBVIOUS
  <2>4. e.op = "pop" /\ e.port = call[t].port /\ e.at = next
    BY <2>1, <2>2, <2>3 DEF PopCall
  <2> QED
    BY <1>10, <1>11, <2>2, <2>3, <2>4
<1>12. ASSUME NEW t \in Threads, RecvEnd(t) PROVE Pulses'
  <2>1. PICK c : Enter(t, c) /\ c \in {Idle, [op |-> "recv", port |-> call[t].port]}
    BY <1>12 DEF RecvEnd
  <2>2. c.op # "pop"
    BY <2>1 DEF Idle
  <2>3. PICK bit \in BOOLEAN : ~bit
    OBVIOUS
  <2>4. /\ call[t].op = "pop" /\ UNCHANGED << extra, initialized >>
        /\ WriteReg(call[t].port, call[t].value, bit)
    BY <1>12, <2>3 DEF RecvEnd, procVars
  <2> QED
    BY <1>10, <2>1, <2>2, <2>3, <2>4
<1>13. ASSUME NEW t \in Threads, StatusWrite(t) PROVE Pulses'
  <2>1. call[t] \in StatusCall /\ call[t].port \in Port
    BY <1>13, CallFields DEF StatusWrite
  <2>2. PICK p \in Port, bit \in BOOLEAN : p = call[t].port /\ bit = call[t].pop
    BY <2>1 DEF StatusCall
  <2>3. call[t].op = "status" /\ initialized' = initialized
    BY <1>13 DEF StatusWrite
  <2>4. /\ call'[t].op # "pop"
        /\ \A u \in Threads : u # t => call'[u] = call[u]
    <3>1. call[t].next.op # "pop"
      BY <2>1 DEF StatusCall, SendCall, OtherCall
    <3> QED
      BY <1>13, <3>1, Entered DEF StatusWrite
  <2>5. /\ \A u \in Threads : call[u].op = "pop" => call'[u] = call[u]
        /\ \A u \in Threads : call'[u].op = "pop" => call'[u] = call[u]
    BY <2>3, <2>4
  <2>6. CASE ~InRange(p)
    <3>1. UNCHANGED << pop, rings, underflow, extra >>
      BY <1>13, <2>2, <2>6 DEF StatusWrite, rxVars
    <3>2. \A u \in Threads :
            call'[u].op = "pop" /\ call'[u].at # "end" /\ call'[u].port \notin extra
              => rings'[call'[u].port] # << >>
      BY <2>5, <3>1 DEF Pulses
    <3> QED
      BY <1>5, <2>3, <2>5, <3>1, <3>2
  <2>7. CASE InRange(p)
    <3>1. PICK status \in BOOLEAN : status = OpenBit(call[t].by)
      BY DEF OpenBit
    <3>2. /\ WriteReg(p, status, bit)
          /\ extra' = IF Edge(p, bit) THEN extra \cup {p} ELSE extra
      BY <1>13, <2>2, <2>7, <3>1 DEF StatusWrite
    <3>3. /\ pop'[p] = bit
          /\ \A q \in Port : q # p => pop'[q] = pop[q] /\ rings'[q] = rings[q]
          /\ \A q \in Port : q # p => (q \in underflow' => q \in underflow)
          /\ underflow' \subseteq Port
          /\ ~Edge(p, bit) => rings' = rings /\ underflow' = underflow
      BY <3>2, RegisterWritten
    <3>4. PoppedOnce'
      BY <3>2, <3>3 DEF Pulses, PoppedOnce
    <3>5. \A q \in Port : Pulsed(q) => Pulsed(q)'
      BY <2>5 DEF Pulsed
    <3>6. ASSUME initialized', NEW q \in Port, q \notin extra', pop'[q] PROVE Pulsed(q)'
      <4>1. q \notin extra
        BY <3>2, <3>6
      <4>2. pop[q]
        <5>1. CASE q = p
          <6>1. ~Edge(p, bit)
            BY <3>2, <3>6, <5>1
          <6> QED
            BY <3>3, <3>6, <5>1, <6>1 DEF Edge
        <5>2. CASE q # p
          BY <3>3, <3>6, <5>2
        <5> QED
          BY <5>1, <5>2
      <4> QED
        BY <2>3, <3>5, <3>6, <4>1, <4>2 DEF Pulses
    <3>7. ASSUME NEW u \in Threads, call'[u].op = "pop", call'[u].at # "end",
                 call'[u].port \notin extra'
          PROVE  rings'[call'[u].port] # << >>
      <4>1. call'[u] = call[u] /\ call[u].port \in Port
        BY <1>2, <2>5, <3>7
      <4>2. call[u].port \notin extra /\ (call[u].port = p => ~Edge(p, bit))
        BY <3>2, <3>7, <4>1
      <4>3. rings'[call[u].port] = rings[call[u].port]
        BY <3>3, <4>1, <4>2
      <4> QED
        BY <3>7, <4>1, <4>2, <4>3 DEF Pulses
    <3> QED
      BY <3>4, <3>6, <3>7 DEF Pulses
  <2> QED
    BY <2>6, <2>7
<1>14. ASSUME NEW p \in Port, NEW empty \in BOOLEAN, Arrive(p, empty) PROVE Pulses'
  <2>1. UNCHANGED << pop, underflow, extra, initialized, call >>
    BY <1>14 DEF Arrive, procVars
  <2>2. \A q \in Port : rings[q] # << >> => rings'[q] # << >>
    <3>1. Append(rings[p], [id |-> arrived + 1, empty |-> empty]) # << >>
      <4>1. PICK s \in Seq(Datagram) : s = rings[p]
        BY <1>1
      <4>2. PICK d : d = [id |-> arrived + 1, empty |-> empty]
        OBVIOUS
      <4>3. s \in Seq(Datagram \cup {d}) /\ d \in Datagram \cup {d}
        OBVIOUS
      <4>4. Append(s, d) # << >>
        BY <4>3, AppendProperties
      <4> QED
        BY <4>1, <4>2, <4>4
    <3>2. rings' = rings
          \/ rings' = [rings EXCEPT ![p] =
                         Append(rings[p], [id |-> arrived + 1, empty |-> empty])]
      BY <1>14 DEF Arrive
    <3> QED
      BY <1>1, <3>1, <3>2
  <2>3. \A u \in Threads :
          call'[u].op = "pop" /\ call'[u].at # "end" /\ call'[u].port \notin extra
            => rings'[call'[u].port] # << >>
    BY <1>2, <2>1, <2>2 DEF Pulses
  <2> QED
    BY <1>5, <2>1, <2>3
<1>15. CASE Aside
  <2>1. UNCHANGED << pop, rings, underflow, extra, initialized >>
    BY <1>15 DEF Aside, rxVars
  <2>2. /\ \A t \in Threads : call[t].op = "pop" => call'[t] = call[t]
        /\ \A t \in Threads : call'[t].op = "pop" => call'[t] = call[t]
    BY <1>15 DEF Aside, Receiving
  <2>3. \A t \in Threads :
          call'[t].op = "pop" /\ call'[t].at # "end" /\ call'[t].port \notin extra
            => rings'[call'[t].port] # << >>
    BY <2>1, <2>2 DEF Pulses
  <2> QED
    BY <1>5, <2>1, <2>2, <2>3
<1>16. ASSUME NEW t \in Threads, Receive(t) PROVE Pulses'
  <2>1. CASE RecvClear(t)
    <3>1. PICK bit \in BOOLEAN : ~bit
      OBVIOUS
    <3>2. RecvWrite(t, "clear", bit, "set")
      BY <2>1, <3>1 DEF RecvClear
    <3> QED
      BY <1>11, <3>1, <3>2
  <2>2. CASE RecvSet(t)
    BY <1>11, <2>2 DEF RecvSet
  <2> QED
    BY <1>7, <1>8, <1>9, <1>12, <1>16, <2>1, <2>2 DEF Receive
<1> QED
  BY <1>3, <1>4, <1>13, <1>14, <1>15, <1>16, ReceiveSteps

-----------------------------------------------------------------------------
(***************************************************************************)
(* The book-keeping of the descriptors.                                    *)
(***************************************************************************)

(* An entry of socket_fds is in use exactly while the kernel has the dummy *)
(* descriptor of the socket; every socket that was created has a number of *)
(* its own, and before lib_init there are none.                            *)
Assigning ==
  /\ \A fd \in Fd : Assigned(fd) <=> kind[fd] = "sock"
  /\ \A fd \in Fd : Assigned(fd) => fds[fd].id \in 1 .. created
  /\ \A fd \in Fd : ~Assigned(fd) => fds[fd].id = 0
  /\ \A fd, g \in Fd :
       Assigned(fd) /\ Assigned(g) /\ fds[fd].id = fds[g].id => fd = g
  /\ ~initialized => \A fd \in Fd : ~Assigned(fd)

(* The step leaves the descriptor the socket it has, or without one. *)
Keeps(fd) ==
  /\ Assigned(fd)' <=> Assigned(fd)
  /\ fds'[fd].id = fds[fd].id
  /\ kind'[fd] = "sock" <=> kind[fd] = "sock"

(* The step leaves all sockets and the epoll instances as they are. *)
KeepsAll ==
  /\ \A fd \in Fd : Keeps(fd) /\ fds'[fd].epfd = fds[fd].epfd
  /\ initialized => initialized'
  /\ UNCHANGED << inst, multi, created >>

(* The steps that do something to them. *)
Effect ==
  \/ KeepsAll
  \/ Socket
  \/ EpollCreate
  \/ \E ep, fd \in Fd : EpollAdd(ep, fd)
  \/ \E ep, fd \in Fd : EpollDel(ep, fd)
  \/ \E fd \in Fd, how \in {"SHUT_RD", "SHUT_WR", "SHUT_RDWR"} : Leaves(fd, how)
  \/ \E fd \in Fd : CloseSocket(fd)
  \/ ProcessEnds

(* bind, connect, setsockopt, a send, lib_init, the polling calls and      *)
(* the device leave every socket where it is.                              *)
LEMMA StepEffect ==
  ASSUME TableTypes, CallTypes, Assigning, [Next]_vars
  PROVE  Effect
<1> USE DEF Keeps
<1>1. FreeFds # {} => Lowest \in Fd /\ kind[Lowest] = "free"
  BY LowestFree DEF FreeFds
<1>2. fds \in [Fd -> Socket_t] /\ kind \in [Fd -> Kind] /\ initialized \in BOOLEAN
  BY DEF TableTypes
<1>3. CASE UNCHANGED << procVars, created >>
  BY <1>3 DEF procVars, KeepsAll, Effect, Assigned
<1>4. CASE LibInit
  <2>1. \A fd \in Fd : ~Assigned(fd)
    BY <1>4 DEF LibInit, Assigning
  <2>2. \A fd \in Fd : ~Assigned(fd)' /\ fds'[fd].id = fds[fd].id
                          /\ fds'[fd].epfd = fds[fd].epfd
    BY <1>2, <1>4 DEF LibInit, Assigned, Socket_t
  <2>3. \A fd \in Fd : kind'[fd] = "sock" <=> kind[fd] = "sock"
    BY <1>1, <1>2, <1>4 DEF LibInit, InitializeDevice
  <2> QED
    BY <1>4, <2>1, <2>2, <2>3 DEF LibInit, KeepsAll, Effect, histVars
<1>5. CASE LeakFd
  <2>1. \A fd \in Fd : kind'[fd] = "sock" <=> kind[fd] = "sock"
    BY <1>1, <1>2, <1>5 DEF LeakFd
  <2> QED
    BY <1>5, <2>1 DEF LeakFd, KeepsAll, Effect, histVars, Assigned
<1>6. ASSUME NEW t, NEW fd \in Fd, NEW p \in Ports \cup {0}, NEW next, Assigned(fd),
             BindTo(t, fd, p, next),
             UNCHANGED << initialized, kind, inst, multi, created >>
      PROVE  Effect
  BY <1>6, BindToTypes DEF KeepsAll, Effect
<1>7. ASSUME NEW fd \in Fd, CallOn(fd) PROVE Effect
  <2>1. ASSUME NEW how \in {"SHUT_RD", "SHUT_WR", "SHUT_RDWR"}, Shutdown(fd, how)
        PROVE  Effect
    BY <2>1 DEF Shutdown, Leaves, Effect, histVars
  <2>2. CASE Connect(fd)
    BY <1>2, <2>2 DEF Connect, KeepsAll, Effect, histVars, Assigned, Socket_t
  <2>3. CASE SetMulticast(fd)
    BY <1>2, <2>3 DEF SetMulticast, KeepsAll, Effect, histVars, Assigned, Socket_t
  <2>4. CASE CloseOther(fd)
    <3>1. \A g \in Fd : kind'[g] = "sock" <=> kind[g] = "sock"
      BY <1>2, <2>4 DEF CloseOther
    <3> QED
      BY <2>4, <3>1 DEF CloseOther, KeepsAll, Effect, histVars, Assigned
  <2>5. ASSUME NEW ep \in Fd, EpollAdd(ep, fd) \/ EpollDel(ep, fd) PROVE Effect
    BY <2>5 DEF Effect
  <2>6. CASE CloseSocket(fd)
    BY <2>6 DEF Effect
  <2> QED
    BY <1>7, <2>1, <2>2, <2>3, <2>4, <2>5, <2>6 DEF CallOn
<1>8. ASSUME NEW t \in Threads, NEW fd \in Fd,
             StatusCallOn(t, fd) \/ PollingCallOn(t, fd)
      PROVE  Effect
  <2>1. ASSUME NEW p \in Ports \cup {0}, Bind(t, fd, p) PROVE Effect
    BY <1>6, <2>1 DEF Bind, Assigned, histVars
  <2>2. CASE ShutdownRead(t, fd) \/ Recv(t, fd)
    BY <1>3, <2>2 DEF ShutdownRead, Recv, histVars
  <2>3. ASSUME NEW len, SendTo(t, fd, len) PROVE Effect
    <3>1. Assigned(fd) /\ UNCHANGED << initialized, kind, inst, multi, created >>
      BY <2>3 DEF SendTo, histVars
    <3>2. UNCHANGED fds \/ \E next : BindTo(t, fd, 0, next)
      BY <2>3 DEF SendTo
    <3> QED
      BY <1>3, <1>6, <3>1, <3>2 DEF procVars
  <2>4. ASSUME NEW forever, NEW max, EpollWait(t, fd, forever, max) PROVE Effect
    BY <1>3, <2>4 DEF EpollWait, histVars
  <2> QED
    BY <1>8, <2>1, <2>2, <2>3, <2>4 DEF StatusCallOn, PollingCallOn, Send
<1>9. ASSUME NEW t \in Threads, Continue(t) PROVE Effect
  <2>1. CASE StatusWrite(t)
    <3>1. call[t].fd \in Fd
      BY <2>1, CallFields DEF StatusWrite
    <3>2. CASE call[t].by = "SHUT_RD"
      <4>1. Leaves(call[t].fd, "SHUT_RD")
        BY <2>1, <3>2 DEF StatusWrite, Leaves, histVars
      <4> QED
        BY <3>1, <4>1 DEF Effect
    <3>3. CASE call[t].by # "SHUT_RD"
      BY <1>3, <2>1, <3>3 DEF StatusWrite, procVars, histVars
    <3> QED
      BY <3>2, <3>3
  <2>2. CASE Fault(t)
    BY <2>2 DEF Fault, Effect
  <2>3. CASE ~StatusWrite(t) /\ ~Fault(t)
    <3>1. UNCHANGED << procVars, created >>
      BY <1>9, <2>3 DEF Continue, RecvFind, RecvRead, RecvClear, RecvSet, RecvWrite,
                        RecvEnd, SendTry, EpollEntry, EpollStatus, EpollProbe,
                        EpollRound, SelectReturn, histVars
    <3> QED
      BY <1>3, <3>1
  <2> QED
    BY <2>1, <2>2, <2>3
<1>10. CASE Socket \/ EpollCreate
  BY <1>10 DEF Effect
<1>11. CASE Restart
  BY <1>11 DEF Restart, Effect
<1>12. ASSUME NEW t, Select(t) PROVE Effect
  BY <1>3, <1>12 DEF Select, histVars
<1>13. Pollers \subseteq Threads
  BY SocketsAssumption
<1>14. CASE \E t \in Pollers : Select(t) \/ \E fd \in Fd : PollingCallOn(t, fd)
  BY <1>8, <1>12, <1>13, <1>14
<1>15. CASE UNCHANGED vars \/ Transmit \/ OtherSend
            \/ \E p \in Port, empty \in BOOLEAN : Arrive(p, empty)
  BY <1>3, <1>15 DEF vars, Transmit, OtherSend, Arrive, procVars, histVars
<1>16. CASE Next
  BY <1>4, <1>5, <1>7, <1>8, <1>9, <1>10, <1>11, <1>14, <1>15, <1>16 DEF Next
<1> QED
  BY <1>15, <1>16

(* The book-keeping is kept by every step. *)
LEMMA AssigningStep ==
  ASSUME TableTypes, CallTypes, Assigning, [Next]_vars
  PROVE  Assigning'
<1>1. /\ fds \in [Fd -> Socket_t] /\ kind \in [Fd -> Kind] /\ initialized \in BOOLEAN
      /\ created \in Nat
  BY SocketsAssumption DEF TableTypes, SocketId
<1>2. ASSUME \A fd \in Fd : Keeps(fd), initialized => initialized',
             UNCHANGED created
      PROVE  Assigning'
  <2>1. \A fd \in Fd : Assigned(fd)' <=> Assigned(fd)
    BY <1>2 DEF Keeps
  <2> QED
    BY <1>2, <2>1 DEF Keeps, Assigning
<1>3. CASE KeepsAll
  BY <1>2, <1>3 DEF KeepsAll
<1>4. CASE Socket
  <2>1. Lowest \in Fd /\ ~Assigned(Lowest)
    BY <1>4, LowestFree DEF Socket, FreeEntry, FreeFds
  <2> DEFINE low == Lowest
  <2>2. /\ created' = created + 1 /\ initialized' = initialized /\ initialized
        /\ kind' = [kind EXCEPT ![low] = "sock"]
        /\ fds' = [fds EXCEPT ![low] =
                     [NoSocket EXCEPT !.status = "INITIALIZED", !.id = created + 1]]
    BY <1>4 DEF Socket, Uses
  <2>3. PICK n \in Fd : n = low
    BY <2>1
  <2>4. kind'[n] = "sock" /\ fds'[n].id = created + 1 /\ fds'[n].status = "INITIALIZED"
    BY <1>1, <2>2, <2>3 DEF NoSocket
  <2>5. \A g \in Fd : g # n => kind'[g] = kind[g] /\ fds'[g] = fds[g]
    BY <1>1, <2>2, <2>3
  <2>6. Assigned(n)' /\ \A g \in Fd : g # n => (Assigned(g)' <=> Assigned(g))
    BY <2>4, <2>5 DEF Assigned
  <2> HIDE DEF low
  <2>7. ASSUME NEW g \in Fd
        PROVE  /\ Assigned(g)' <=> kind'[g] = "sock"
               /\ Assigned(g)' => fds'[g].id \in 1 .. created'
               /\ ~Assigned(g)' => fds'[g].id = 0
    <3>1. CASE g = n
      BY <1>1, <2>2, <2>4, <2>6, <3>1
    <3>2. CASE g # n
      BY <1>1, <2>2, <2>5, <2>6, <3>2 DEF Assigning
    <3> QED
      BY <3>1, <3>2
  <2>8. ASSUME NEW g \in Fd, NEW h \in Fd, Assigned(g)', Assigned(h)',
               fds'[g].id = fds'[h].id
        PROVE  g = h
    <3>1. ASSUME NEW k \in Fd, k # n, Assigned(k)' PROVE fds'[k].id # fds'[n].id
      BY <1>1, <2>4, <2>5, <2>6, <3>1 DEF Assigning
    <3> QED
      BY <2>5, <2>6, <2>8, <3>1 DEF Assigning
  <2> QED
    BY <2>2, <2>7, <2>8 DEF Assigning
<1>5. CASE EpollCreate
  <2>1. Lowest \in Fd /\ kind[Lowest] = "free"
    BY <1>5, LowestFree DEF EpollCreate, FreeEntry, FreeFds
  <2>2. \A g \in Fd : Keeps(g)
    BY <1>1, <1>5, <2>1 DEF EpollCreate, Keeps, Assigned
  <2> QED
    BY <1>2, <1>5, <2>2 DEF EpollCreate, histVars
<1>6. ASSUME NEW ep \in Fd, NEW fd \in Fd, EpollAdd(ep, fd) PROVE Assigning'
  <2>1. \A g \in Fd : Keeps(g)
    BY <1>1, <1>6 DEF EpollAdd, Keeps, Assigned, Socket_t
  <2> QED
    BY <1>2, <1>6, <2>1 DEF EpollAdd, histVars
<1>7. ASSUME NEW ep \in Fd, NEW fd \in Fd, EpollDel(ep, fd) PROVE Assigning'
  <2>1. \A g \in Fd : Keeps(g)
    BY <1>1, <1>7 DEF EpollDel, AfterDel, Keeps, Assigned, Socket_t
  <2> QED
    BY <1>2, <1>7, <2>1 DEF EpollDel, histVars
<1>8. ASSUME NEW fd \in Fd, NEW how, Leaves(fd, how) PROVE Assigning'
  <2>1. \A g \in Fd : Keeps(g)
    BY <1>8, ShutdownKeeps DEF Leaves, Keeps, Assigned
  <2> QED
    BY <1>2, <1>8, <2>1 DEF Leaves
<1>9. ASSUME NEW fd \in Fd, CloseSocket(fd) PROVE Assigning'
  <2> DEFINE after == AfterShutdown(fd, "SHUT_RDWR").fds
  <2>1. /\ after \in [Fd -> Socket_t]
        /\ \A g \in Fd : after[g].status = fds[g].status /\ after[g].id = fds[g].id
    BY ShutdownKeeps
  <2>2. /\ fds' = [after EXCEPT ![fd] = NoSocket]
        /\ kind' = [kind EXCEPT ![fd] = "free"]
        /\ UNCHANGED << initialized, created >> /\ Assigned(fd)
    BY <1>9 DEF CloseSocket, ReleasedEntry, histVars
  <2> HIDE DEF after
  <2>3. ~Assigned(fd)' /\ fds'[fd].id = 0 /\ kind'[fd] # "sock"
    BY <1>1, <2>1, <2>2 DEF Assigned, NoSocket
  <2>4. \A g \in Fd : g # fd => Keeps(g)
    BY <1>1, <2>1, <2>2 DEF Keeps, Assigned
  <2>5. initialized
    BY <2>2 DEF Assigning
  <2>6. \A g \in Fd : g # fd => /\ Assigned(g)' <=> Assigned(g)
                                /\ fds'[g].id = fds[g].id
                                /\ kind'[g] = "sock" <=> kind[g] = "sock"
    BY <2>4 DEF Keeps
  <2> QED
    BY <2>2, <2>3, <2>5, <2>6 DEF Assigning
<1>10. CASE ProcessEnds
  <2>1. /\ \A fd \in Fd : ~Assigned(fd)' /\ fds'[fd].id = 0
        /\ \A fd \in Fd : kind'[fd] # "sock"
    BY <1>10 DEF ProcessEnds, ProcessStart, NoSocket, Assigned
  <2> QED
    BY <2>1 DEF Assigning
<1> QED
  BY <1>3, <1>4, <1>5, <1>6, <1>7, <1>8, <1>9, <1>10, StepEffect DEF Effect

-----------------------------------------------------------------------------
(***************************************************************************)
(* The entries of the epoll instances.                                     *)
(***************************************************************************)

Has(ep, fd) == inst[ep] # None /\ Member(ep, fd)

(* The descriptor has the socket of that number, whose epfd names ep, and  *)
(* is in no other instance.                                                *)
Linked(ep, fd, data) ==
  /\ Assigned(fd)
  /\ fds[fd].id = data
  /\ fds[fd].epfd = ep
  /\ \A other \in Fd : Has(other, fd) => other = ep

EntryOK(ep, e) ==
  /\ e.data <= created
  /\ e.data # 0 /\ e.data \notin multi => Linked(ep, e.fd, e.data)

(* An instance has a descriptor once, and what it has of a socket that was *)
(* added to no second instance is known to the socket.                     *)
Entries ==
  \A ep \in Fd : inst[ep] # None =>
    /\ ep < MAX_EPOLL_FDS
    /\ \A i, j \in DOMAIN inst[ep] : inst[ep][i].fd = inst[ep][j].fd => i = j
    /\ \A i \in DOMAIN inst[ep] : EntryOK(ep, inst[ep][i])

(* What an entry of an instance is, and that its descriptor is a member.   *)
LEMMA EntryFacts ==
  ASSUME InstType(inst), NEW ep \in Fd, inst[ep] # None,
         NEW i \in DOMAIN inst[ep]
  PROVE  /\ inst[ep][i] \in Entry
         /\ Has(ep, inst[ep][i].fd)
<1>1. inst[ep] \in Seq(Entry)
  BY DEF InstType
<1> QED
  BY <1>1 DEF Has, Member

(* A step that adds no entry and leaves the linked sockets of the entries  *)
(* that remain as they are.  from: the place an entry had before.          *)
LEMMA EntriesRemain ==
  ASSUME TableTypes, Entries, TableTypes',
         created <= created', multi \subseteq multi',
         \A ep \in Fd : inst'[ep] # None =>
           \/ inst'[ep] = << >> /\ ep < MAX_EPOLL_FDS
           \/ /\ inst[ep] # None
              /\ \E from \in [DOMAIN inst'[ep] -> DOMAIN inst[ep]] :
                   /\ \A i \in DOMAIN inst'[ep] : inst'[ep][i] = inst[ep][from[i]]
                   /\ \A i, j \in DOMAIN inst'[ep] : from[i] = from[j] => i = j,
         \A ep, fd \in Fd : Has(ep, fd)' /\ Linked(ep, fd, fds[fd].id) =>
           Assigned(fd)' /\ fds'[fd].id = fds[fd].id /\ fds'[fd].epfd = fds[fd].epfd
  PROVE  Entries'
<1>1. InstType(inst) /\ InstType(inst') /\ created \in Nat /\ created' \in Nat
  BY SocketsAssumption DEF TableTypes, SocketId
<1>2. ASSUME NEW ep \in Fd, NEW fd \in Fd, Has(ep, fd)'
      PROVE  Has(ep, fd)
  <2>1. inst'[ep] # None /\ \E i \in DOMAIN inst'[ep] : inst'[ep][i].fd = fd
    BY <1>2 DEF Has, Member
  <2>2. PICK i \in DOMAIN inst'[ep] : inst'[ep][i].fd = fd
    BY <2>1
  <2>3. inst'[ep] # << >>
    BY <2>2
  <2>4. PICK from \in [DOMAIN inst'[ep] -> DOMAIN inst[ep]] :
          \A j \in DOMAIN inst'[ep] : inst'[ep][j] = inst[ep][from[j]]
    BY <2>1, <2>3
  <2>5. inst[ep] # None /\ from[i] \in DOMAIN inst[ep] /\ inst[ep][from[i]].fd = fd
    BY <2>1, <2>2, <2>3, <2>4
  <2> QED
    BY <2>5 DEF Has, Member
<1>3. ASSUME NEW ep \in Fd, inst'[ep] # None
      PROVE  /\ ep < MAX_EPOLL_FDS
             /\ \A i, j \in DOMAIN inst'[ep] : inst'[ep][i].fd = inst'[ep][j].fd => i = j
             /\ \A i \in DOMAIN inst'[ep] : EntryOK(ep, inst[ep][i])'
  <2>1. CASE inst'[ep] = << >> /\ ep < MAX_EPOLL_FDS
    BY <2>1
  <2>2. CASE inst'[ep] # << >> \/ ~(ep < MAX_EPOLL_FDS)
    <3>1. inst[ep] # None
      BY <1>3, <2>2
    <3>2. PICK from \in [DOMAIN inst'[ep] -> DOMAIN inst[ep]] :
            /\ \A i \in DOMAIN inst'[ep] : inst'[ep][i] = inst[ep][from[i]]
            /\ \A i, j \in DOMAIN inst'[ep] : from[i] = from[j] => i = j
      BY <1>3, <2>2
    <3>3. /\ ep < MAX_EPOLL_FDS
          /\ \A i, j \in DOMAIN inst[ep] : inst[ep][i].fd = inst[ep][j].fd => i = j
          /\ \A i \in DOMAIN inst[ep] : EntryOK(ep, inst[ep][i])
      BY <3>1 DEF Entries
    <3>4. \A i, j \in DOMAIN inst'[ep] : inst'[ep][i].fd = inst'[ep][j].fd => i = j
      BY <3>2, <3>3
    <3>5. ASSUME NEW i \in DOMAIN inst'[ep]
          PROVE  EntryOK(ep, inst[ep][i])'
      <4>1. PICK e : e = inst'[ep][i]
        OBVIOUS
      <4>2. e \in Entry /\ Has(ep, e.fd)' /\ EntryOK(ep, e)
        <5>1. e = inst[ep][from[i]] /\ from[i] \in DOMAIN inst[ep]
          BY <3>2, <4>1
        <5>2. e \in Entry /\ EntryOK(ep, e)
          BY <1>1, <3>1, <3>3, <5>1, EntryFacts
        <5>3. Has(ep, e.fd)'
          BY <1>3, <4>1 DEF Has, Member
        <5> QED
          BY <5>2, <5>3
      <4>3. e.fd \in Fd /\ e.data \in Nat
        BY <4>2, SocketsAssumption DEF Entry, SocketId
      <4>4. e.data <= created'
        BY <1>1, <4>2, <4>3 DEF EntryOK
      <4>5. ASSUME e.data # 0, e.data \notin multi'
            PROVE  Linked(ep, e.fd, e.data)'
        <5>1. Linked(ep, e.fd, e.data)
          BY <4>2, <4>5 DEF EntryOK
        <5>2. fds[e.fd].id = e.data
          BY <5>1 DEF Linked
        <5>3. /\ Assigned(e.fd)' /\ fds'[e.fd].id = fds[e.fd].id
              /\ fds'[e.fd].epfd = fds[e.fd].epfd
          BY <4>2, <4>3, <5>1, <5>2
        <5> QED
          BY <1>2, <4>3, <5>1, <5>3 DEF Linked
      <4> QED
        BY <4>1, <4>4, <4>5 DEF EntryOK
    <3> QED
      BY <3>3, <3>4, <3>5
  <2> QED
    BY <2>1, <2>2
<1> QED
  BY <1>3 DEF Entries

(* A step that takes a descriptor out of the instance its socket names, or *)
(* out of the one it is a member of, and leaves the other sockets alone.   *)
LEMMA EntriesWithout ==
  ASSUME TableTypes, Entries, TableTypes', UNCHANGED << multi, created >>,
         NEW ep, NEW fd \in Fd,
         inst' = IF Instance(ep) /\ Member(ep, fd)
                 THEN [inst EXCEPT ![ep] = Without(@, fd)] ELSE inst,
         fds[fd].epfd = ep \/ (ep \in Fd /\ Has(ep, fd)),
         \A g \in Fd : g # fd =>
           /\ Assigned(g)' <=> Assigned(g)
           /\ fds'[g].id = fds[g].id /\ fds'[g].epfd = fds[g].epfd
  PROVE  Entries'
<1>1. InstType(inst) /\ InstType(inst') /\ created \in Nat
  BY SocketsAssumption DEF TableTypes, SocketId
<1> DEFINE Remain(q) ==
      \E from \in [DOMAIN inst'[q] -> DOMAIN inst[q]] :
        /\ \A i \in DOMAIN inst'[q] : inst'[q][i] = inst[q][from[i]]
        /\ \A i, j \in DOMAIN inst'[q] : from[i] = from[j] => i = j
<1>2. ASSUME NEW q \in Fd, inst'[q] = inst[q]
      PROVE  Remain(q)
  <2>1. [i \in DOMAIN inst[q] |-> i] \in [DOMAIN inst'[q] -> DOMAIN inst[q]]
    BY <1>2
  <2> QED
    BY <1>2, <2>1
<1>3. CASE Instance(ep) /\ Member(ep, fd)
  <2>1. /\ ep \in Fd /\ inst[ep] # None /\ inst[ep] \in Seq(Entry)
        /\ \E i \in DOMAIN inst[ep] : inst[ep][i].fd = fd
        /\ \A i, j \in DOMAIN inst[ep] : inst[ep][i].fd = inst[ep][j].fd => i = j
    BY <1>1, <1>3 DEF Instance, Member, Entries, InstType
  <2>2. /\ inst'[ep] = Without(inst[ep], fd)
        /\ \A q \in Fd : q # ep => inst'[q] = inst[q]
    BY <1>1, <1>3, <2>1 DEF InstType
  <2>3. PICK place \in [DOMAIN inst'[ep] -> DOMAIN inst[ep]] :
          /\ \A i \in DOMAIN inst'[ep] : inst'[ep][i] = inst[ep][place[i]]
          /\ \A i, j \in DOMAIN inst'[ep] : place[i] = place[j] => i = j
          /\ \A i \in DOMAIN inst'[ep] : inst[ep][place[i]].fd # fd
    <3>1. PICK s \in Seq(Entry) : s = inst[ep]
      BY <2>1
    <3>2. \E i \in DOMAIN s : s[i].fd = fd
      BY <2>1, <3>1
    <3>3. PICK place \in [DOMAIN Without(s, fd) -> DOMAIN s] :
            /\ \A i \in DOMAIN Without(s, fd) : Without(s, fd)[i] = s[place[i]]
            /\ \A i, j \in DOMAIN Without(s, fd) : place[i] = place[j] => i = j
            /\ (\A i, j \in DOMAIN s : s[i].fd = s[j].fd => i = j)
                 => \A i \in DOMAIN Without(s, fd) : s[place[i]].fd # fd
      BY <3>2, WithoutFacts
    <3> QED
      BY <2>1, <2>2, <3>1, <3>3
  <2>4. Remain(ep)
    BY <2>3
  <2>5. ASSUME NEW q \in Fd, inst'[q] # None
        PROVE  inst[q] # None /\ Remain(q)
    <3> HIDE DEF Remain
    <3>1. CASE q = ep
      BY <2>1, <2>4, <3>1
    <3>2. CASE q # ep
      BY <1>2, <2>2, <2>5, <3>2
    <3> QED
      BY <3>1, <3>2
  <2>6. ~Has(ep, fd)'
    BY <2>3 DEF Has, Member
  <2>7. ASSUME NEW q \in Fd, NEW g \in Fd, Has(q, g)', Linked(q, g, fds[g].id)
        PROVE  g # fd
    <3>1. CASE g = fd
      <4>1. fds[fd].epfd = q /\ (Has(ep, fd) => ep = q)
        BY <2>1, <2>7, <3>1 DEF Linked
      <4>2. Has(ep, fd)
        BY <1>3, <2>1 DEF Has
      <4> QED
        BY <2>6, <2>7, <3>1, <4>1, <4>2
    <3> QED
      BY <3>1
  <2>8. ASSUME NEW q \in Fd, NEW g \in Fd, Has(q, g)', Linked(q, g, fds[g].id)
        PROVE  Assigned(g)' /\ fds'[g].id = fds[g].id /\ fds'[g].epfd = fds[g].epfd
    BY <2>7, <2>8 DEF Linked
  <2> HIDE DEF Remain
  <2> QED
    BY <1>1, <2>5, <2>8, EntriesRemain DEF Remain
<1>4. CASE ~(Instance(ep) /\ Member(ep, fd))
  <2>1. inst' = inst
    BY <1>4
  <2>2. ASSUME NEW q \in Fd, NEW g \in Fd, Has(q, g)', Linked(q, g, fds[g].id)
        PROVE  g # fd
    <3>1. CASE g = fd
      <4>1. Has(q, fd)
        BY <2>1, <2>2, <3>1 DEF Has, Member
      <4>2. fds[fd].epfd = q /\ (ep \in Fd /\ Has(ep, fd) => ep = q)
        BY <2>2, <3>1 DEF Linked
      <4>3. ep = q
        BY <4>2
      <4>4. Instance(q) /\ Member(q, fd)
        BY <4>1 DEF Has, Instance, Entries
      <4> QED
        BY <1>4, <4>3, <4>4
    <3> QED
      BY <3>1
  <2>3. ASSUME NEW q \in Fd, NEW g \in Fd, Has(q, g)', Linked(q, g, fds[g].id)
        PROVE  Assigned(g)' /\ fds'[g].id = fds[g].id /\ fds'[g].epfd = fds[g].epfd
    BY <2>2, <2>3 DEF Linked
  <2>4. \A q \in Fd : inst'[q] # None => inst[q] # None /\ Remain(q)
    BY <1>2, <2>1
  <2> HIDE DEF Remain
  <2> QED
    BY <1>1, <2>3, <2>4, EntriesRemain DEF Remain
<1> QED
  BY <1>3, <1>4

(* A new entry: the socket now names the instance it was added to, unless  *)
(* it was in another one already and the number goes to multi.             *)
LEMMA EntriesAdd ==
  ASSUME TableTypes, Assigning, Entries, TableTypes',
         NEW ep \in Fd, NEW fd \in Fd, EpollAdd(ep, fd)
  PROVE  Entries'
<1> DEFINE new == [fd |-> fd, data |-> fds[fd].id]
<1>1. /\ inst[ep] # None /\ inst[ep] \in Seq(Entry) /\ ep < MAX_EPOLL_FDS
      /\ \A i \in DOMAIN inst[ep] : inst[ep][i].fd # fd
      /\ inst' = [inst EXCEPT ![ep] = Append(@, new)]
      /\ created' = created /\ created \in Nat /\ DOMAIN inst = Fd
      /\ fds' = IF Assigned(fd) THEN [fds EXCEPT ![fd].epfd = ep] ELSE fds
      /\ multi' = IF \E e \in Fd : inst[e] # None /\ Member(e, fd)
                  THEN multi \cup {fds[fd].id} ELSE multi
      /\ fds \in [Fd -> Socket_t]
  BY SocketsAssumption DEF EpollAdd, Instance, Member, TableTypes, InstType,
                           SocketId, histVars
<1>2. new \in Entry /\ new.fd = fd /\ new.data = fds[fd].id
  BY <1>1 DEF Entry, Socket_t
<1> DEFINE n == Len(inst[ep]) + 1
<1>3. /\ n \in Nat /\ DOMAIN inst'[ep] = 1 .. n
      /\ DOMAIN inst[ep] = 1 .. n - 1 /\ inst'[ep][n] = new
      /\ \A i \in 1 .. n - 1 : inst'[ep][i] = inst[ep][i]
      /\ \A q \in Fd : q # ep => inst'[q] = inst[q]
  <2>1. inst'[ep] = Append(inst[ep], new)
    BY <1>1
  <2> HIDE DEF new
  <2>2. /\ Len(Append(inst[ep], new)) = n /\ Append(inst[ep], new)[n] = new
        /\ \A i \in 1 .. Len(inst[ep]) : Append(inst[ep], new)[i] = inst[ep][i]
        /\ Append(inst[ep], new) \in Seq(Entry)
    BY <1>1, <1>2, AppendProperties
  <2>3. n - 1 = Len(inst[ep]) /\ Len(inst[ep]) \in Nat
    BY <1>1
  <2> QED
    BY <1>1, <2>1, <2>2, <2>3
<1> HIDE DEF new, n
<1>4. \A q, g \in Fd : Has(q, g)' => Has(q, g) \/ (q = ep /\ g = fd)
  <2>1. ASSUME NEW g \in Fd, Has(ep, g)', g # fd
        PROVE  Has(ep, g)
    <3>1. PICK i \in 1 .. n : inst'[ep][i].fd = g
      BY <1>3, <2>1 DEF Has, Member
    <3>2. i \in 1 .. n - 1
      BY <1>2, <1>3, <2>1, <3>1
    <3> QED
      BY <1>1, <1>3, <3>1, <3>2 DEF Has, Member
  <2>2. \A q, g \in Fd : q # ep /\ Has(q, g)' => Has(q, g)
    BY <1>3 DEF Has, Member
  <2> QED
    BY <2>1, <2>2
<1>5. ASSUME NEW g \in Fd
      PROVE  /\ Assigned(g)' <=> Assigned(g)
             /\ fds'[g].id = fds[g].id
             /\ g # fd => fds'[g].epfd = fds[g].epfd
             /\ g = fd /\ Assigned(fd) => fds'[g].epfd = ep
  BY <1>1 DEF Assigned, Socket_t
<1>6. ASSUME NEW q \in Fd, NEW e \in Entry, Has(q, e.fd), EntryOK(q, e)
      PROVE  EntryOK(q, e)'
  <2>1. e.fd \in Fd
    BY DEF Entry
  <2>2. ASSUME e.data # 0, e.data \notin multi'
        PROVE  Linked(q, e.fd, e.data)'
    <3>1. Linked(q, e.fd, e.data)
      BY <1>1, <1>6, <2>2 DEF EntryOK
    <3>2. e.fd # fd
      <4>1. CASE e.fd = fd
        <5>1. inst[q] # None /\ Member(q, fd) /\ fds[fd].id = e.data
          BY <1>6, <3>1, <4>1 DEF Has, Linked
        <5>2. e.data \in multi'
          BY <1>1, <5>1
        <5> QED
          BY <2>2, <5>2
      <4> QED
        BY <4>1
    <3> QED
      BY <1>4, <1>5, <2>1, <3>1, <3>2 DEF Linked
  <2> QED
    BY <1>1, <1>6, <2>2 DEF EntryOK
<1>7. ASSUME NEW e, e = new
      PROVE  EntryOK(ep, e)'
  <2>1. e.fd = fd /\ e.data = fds[fd].id
    BY <1>2, <1>7
  <2>2. Assigned(fd) => fds[fd].id \in 1 .. created
    BY DEF Assigning
  <2>3. ~Assigned(fd) => fds[fd].id = 0
    BY DEF Assigning
  <2>4. fds[fd].id <= created
    BY <1>1, <2>2, <2>3
  <2>5. ASSUME fds[fd].id # 0, fds[fd].id \notin multi'
        PROVE  Linked(ep, fd, fds[fd].id)'
    <3>1. Assigned(fd)
      BY <2>3, <2>5
    <3>2. \A q \in Fd : ~Has(q, fd)
      BY <1>1, <2>5 DEF Has
    <3> QED
      BY <1>4, <1>5, <3>1, <3>2 DEF Linked
  <2> QED
    BY <1>1, <1>2, <1>5, <2>1, <2>4, <2>5 DEF EntryOK
<1>8. ASSUME NEW q \in Fd, inst'[q] # None
      PROVE  /\ q < MAX_EPOLL_FDS
             /\ \A i, j \in DOMAIN inst'[q] : inst'[q][i].fd = inst'[q][j].fd => i = j
             /\ \A i \in DOMAIN inst'[q] : EntryOK(q, inst[q][i])'
  <2>1. inst[q] # None /\ q < MAX_EPOLL_FDS
    <3>1. CASE q = ep
      BY <1>1, <3>1
    <3>2. CASE q # ep
      BY <1>3, <1>8, <3>2 DEF Entries
    <3> QED
      BY <3>1, <3>2
  <2>2. /\ \A i, j \in DOMAIN inst[q] : inst[q][i].fd = inst[q][j].fd => i = j
        /\ \A i \in DOMAIN inst[q] : EntryOK(q, inst[q][i])
    BY <2>1 DEF Entries
  <2>3. \A i, j \in DOMAIN inst'[q] : inst'[q][i].fd = inst'[q][j].fd => i = j
    <3>1. CASE q = ep
      BY <1>1, <1>2, <1>3, <2>2, <3>1
    <3>2. CASE q # ep
      BY <1>3, <2>2, <3>2
    <3> QED
      BY <3>1, <3>2
  <2>4. ASSUME NEW i \in DOMAIN inst[q], inst'[q][i] = inst[q][i]
        PROVE  EntryOK(q, inst[q][i])'
    <3>1. PICK e : e = inst[q][i]
      OBVIOUS
    <3>2. e \in Entry /\ Has(q, e.fd) /\ EntryOK(q, e)
      BY <2>1, <2>2, <3>1, EntryFacts DEF TableTypes
    <3>3. EntryOK(q, e)'
      BY <1>6, <3>2
    <3> QED
      BY <2>4, <3>1, <3>3 DEF EntryOK
  <2>5. \A i \in DOMAIN inst'[q] : EntryOK(q, inst[q][i])'
    <3>1. CASE q = ep
      <4>1. PICK e : e = new
        OBVIOUS
      <4>2. PICK last : last = n
        OBVIOUS
      <4>3. EntryOK(ep, e)' /\ inst'[ep][last] = e
        BY <1>3, <1>7, <4>1, <4>2
      <4>4. EntryOK(ep, inst[ep][last])'
        BY <4>3 DEF EntryOK
      <4>5. \A i \in DOMAIN inst'[ep] : i = last \/ i \in DOMAIN inst[ep]
        BY <1>3, <4>2
      <4> QED
        BY <1>3, <2>4, <3>1, <4>2, <4>4, <4>5
    <3>2. CASE q # ep
      BY <1>3, <2>4, <3>2
    <3> QED
      BY <3>1, <3>2
  <2> QED
    BY <2>1, <2>3, <2>5
<1> QED
  BY <1>8 DEF Entries

(* The entries are kept by every step. *)
LEMMA EntriesStep ==
  ASSUME TableTypes, CallTypes, Assigning, Entries, [Next]_vars
  PROVE  Entries'
<1>1. TableTypes'
  BY TableStep
<1>2. /\ InstType(inst) /\ fds \in [Fd -> Socket_t] /\ created \in Nat
      /\ DOMAIN inst = Fd
  BY SocketsAssumption DEF TableTypes, SocketId, InstType
<1> DEFINE Remain(q) ==
      \E from \in [DOMAIN inst'[q] -> DOMAIN inst[q]] :
        /\ \A i \in DOMAIN inst'[q] : inst'[q][i] = inst[q][from[i]]
        /\ \A i, j \in DOMAIN inst'[q] : from[i] = from[j] => i = j
<1>3. ASSUME NEW q \in Fd, inst'[q] = inst[q]
      PROVE  Remain(q)
  <2>1. [i \in DOMAIN inst[q] |-> i] \in [DOMAIN inst'[q] -> DOMAIN inst[q]]
    BY <1>3
  <2> QED
    BY <1>3, <2>1
<1> HIDE DEF Remain
<1>4. ASSUME created <= created', UNCHANGED multi,
             \A q \in Fd : inst'[q] = inst[q] \/ (inst'[q] = << >> /\ q < MAX_EPOLL_FDS),
             \A fd \in Fd : Assigned(fd) =>
               Assigned(fd)' /\ fds'[fd].id = fds[fd].id /\ fds'[fd].epfd = fds[fd].epfd
      PROVE  Entries'
  <2>1. \A q \in Fd : inst'[q] # None =>
          (inst'[q] = << >> /\ q < MAX_EPOLL_FDS) \/ (inst[q] # None /\ Remain(q))
    BY <1>3, <1>4
  <2>2. \A q, fd \in Fd : Has(q, fd)' /\ Linked(q, fd, fds[fd].id) =>
          Assigned(fd)' /\ fds'[fd].id = fds[fd].id /\ fds'[fd].epfd = fds[fd].epfd
    BY <1>4 DEF Linked
  <2> QED
    BY <1>1, <1>4, <2>1, <2>2, EntriesRemain DEF Remain
<1>5. CASE KeepsAll
  BY <1>2, <1>4, <1>5 DEF KeepsAll, Keeps, TableTypes
<1>6. CASE Socket
  <2>1. PICK n \in Fd : n = Lowest /\ ~Assigned(n)
    BY <1>6, LowestFree DEF Socket, FreeEntry, FreeFds
  <2>2. \A g \in Fd : g # n => fds'[g] = fds[g]
    BY <1>2, <1>6, <2>1 DEF Socket
  <2>3. \A g \in Fd : Assigned(g) => fds'[g] = fds[g] /\ Assigned(g)'
    BY <2>1, <2>2 DEF Assigned
  <2>4. inst' = inst /\ multi' = multi /\ created' = created + 1
    BY <1>6 DEF Socket
  <2>5. created <= created'
    BY <1>2, <2>4
  <2> QED
    BY <1>4, <2>3, <2>4, <2>5
<1>7. CASE EpollCreate
  <2>1. PICK n \in Fd : n = Lowest /\ n < MAX_EPOLL_FDS
    BY <1>7, LowestFree DEF EpollCreate, FreeEntry, FreeFds
  <2>2. \A q \in Fd : inst'[q] = inst[q] \/ (inst'[q] = << >> /\ q < MAX_EPOLL_FDS)
    BY <1>2, <1>7, <2>1 DEF EpollCreate
  <2> QED
    BY <1>2, <1>4, <1>7, <2>2 DEF EpollCreate, histVars, Assigned
<1>8. ASSUME NEW ep \in Fd, NEW fd \in Fd, EpollAdd(ep, fd) PROVE Entries'
  BY <1>1, <1>8, EntriesAdd
<1>9. ASSUME NEW ep \in Fd, NEW fd \in Fd, EpollDel(ep, fd) PROVE Entries'
  <2>1. /\ UNCHANGED << multi, created >>
        /\ Has(ep, fd)
        /\ inst' = IF Instance(ep) /\ Member(ep, fd)
                   THEN [inst EXCEPT ![ep] = Without(@, fd)] ELSE inst
    BY <1>9 DEF EpollDel, AfterDel, histVars, Has, Instance
  <2>2. \A g \in Fd : g # fd => fds'[g] = fds[g]
    BY <1>2, <1>9 DEF EpollDel, AfterDel
  <2> QED
    BY <1>1, <2>1, <2>2, EntriesWithout DEF Assigned
<1>10. ASSUME NEW fd \in Fd, NEW how, Leaves(fd, how) PROVE Entries'
  <2>1. PICK ep : ep = fds[fd].epfd
    OBVIOUS
  <2>2. /\ UNCHANGED << multi, created >>
        /\ inst' = IF Instance(ep) /\ Member(ep, fd)
                   THEN [inst EXCEPT ![ep] = Without(@, fd)] ELSE inst
    BY <1>10, <2>1 DEF Leaves, AfterShutdown, AfterDel
  <2>3. \A g \in Fd : g # fd =>
          /\ Assigned(g)' <=> Assigned(g)
          /\ fds'[g].id = fds[g].id /\ fds'[g].epfd = fds[g].epfd
    BY <1>10, ShutdownKeeps DEF Leaves, Assigned
  <2> QED
    BY <1>1, <2>1, <2>2, <2>3, EntriesWithout
<1>11. ASSUME NEW fd \in Fd, CloseSocket(fd) PROVE Entries'
  <2>1. PICK ep : ep = fds[fd].epfd
    OBVIOUS
  <2>2. /\ UNCHANGED << multi, created >>
        /\ inst' = IF Instance(ep) /\ Member(ep, fd)
                   THEN [inst EXCEPT ![ep] = Without(@, fd)] ELSE inst
    BY <1>11, <2>1 DEF CloseSocket, AfterShutdown, AfterDel, histVars
  <2> DEFINE after == AfterShutdown(fd, "SHUT_RDWR").fds
  <2>3. /\ after \in [Fd -> Socket_t]
        /\ \A g \in Fd : g # fd => /\ after[g].status = fds[g].status
                                   /\ after[g].id = fds[g].id
                                   /\ after[g].epfd = fds[g].epfd
    <3>1. after \in [Fd -> Socket_t]
      BY ShutdownKeeps
    <3>2. ASSUME NEW g \in Fd, g # fd
          PROVE  /\ after[g].status = fds[g].status /\ after[g].id = fds[g].id
                 /\ after[g].epfd = fds[g].epfd
      BY <3>2, ShutdownKeeps
    <3> QED
      BY <3>1, <3>2
  <2>4. fds' = [after EXCEPT ![fd] = NoSocket]
    BY <1>11 DEF CloseSocket, ReleasedEntry
  <2> HIDE DEF after
  <2>5. \A g \in Fd : g # fd =>
          /\ Assigned(g)' <=> Assigned(g)
          /\ fds'[g].id = fds[g].id /\ fds'[g].epfd = fds[g].epfd
    BY <2>3, <2>4 DEF Assigned
  <2> QED
    BY <1>1, <2>1, <2>2, <2>5, EntriesWithout
<1>12. CASE ProcessEnds
  BY <1>12 DEF ProcessEnds, ProcessStart, Entries
<1> QED
  BY <1>5, <1>6, <1>7, <1>8, <1>9, <1>10, <1>11, <1>12, StepEffect DEF Effect

-----------------------------------------------------------------------------
(***************************************************************************)
(* The invariant and the theorems.                                         *)
(***************************************************************************)

SocketsInv ==
  /\ TableTypes /\ CallTypes /\ DeviceTypes
  /\ Assigning /\ Entries
  /\ Receivers /\ Order /\ Statuses /\ Pulses

(* It holds when the process starts ... *)
LEMMA SocketsInit ==
  ASSUME Init
  PROVE  SocketsInv
<1> USE DEF Init, ProcessStart
<1>1. /\ NoSocket \in Socket_t /\ NoSocket.status = "NOT_ASSIGNED"
      /\ NoSocket.id = 0 /\ 0 \in SocketId
  BY SocketsAssumption DEF NoSocket, Socket_t, Status, SocketId
<1>2. \A fd \in Fd : fds[fd] = NoSocket /\ inst[fd] = None /\ kind[fd] \in {"file", "free"}
  OBVIOUS
<1>3. \A fd \in Fd : ~Assigned(fd) /\ ~Bound(fd)
  BY <1>1, <1>2 DEF Assigned, Bound
<1>4. TableTypes
  <2>1. fds \in [Fd -> Socket_t] /\ kind \in [Fd -> Kind] /\ DOMAIN inst = Fd
    BY <1>1 DEF Kind
  <2> QED
    BY <1>1, <1>2, <1>3, <2>1 DEF TableTypes, InstType
<1>5. \A t \in Threads : call[t].op = "idle"
  BY DEF Idle
<1>6. CallTypes
  BY DEF CallTypes, Idle, Call, OtherCall
<1>7. DeviceTypes
  <2>1. 0 \in 0 .. MaxDatagrams /\ 0 \in 0 .. TxLength
    BY SocketsAssumption
  <2>2. << >> \in Seq(Datagram) /\ << >> \in Seq(DatagramId)
    OBVIOUS
  <2>3. rings \in [Port -> Seq(Datagram)] /\ got \in [Port -> Seq(DatagramId)]
    BY <2>2
  <2>4. open \in [Port -> BOOLEAN] /\ pop \in [Port -> BOOLEAN]
    OBVIOUS
  <2>5. asked \in [Port -> Asker]
    BY DEF Asker
  <2> QED
    BY <2>1, <2>3, <2>4, <2>5 DEF DeviceTypes
<1>8. Assigning
  BY <1>1, <1>2, <1>3 DEF Assigning
<1>9. Entries
  BY <1>2 DEF Entries
<1>10. Receivers
  BY <1>5 DEF Receivers, Receiving
<1>11. Order
  <2>1. \A p \in Port : rings[p] = << >> /\ got[p] = << >>
    OBVIOUS
  <2> QED
    BY <1>5, <2>1 DEF Order, Handed, Numbered
<1>12. Statuses
  BY <1>5 DEF Statuses, StatusKept
<1>13. Pulses
  BY <1>5 DEF Pulses, PoppedOnce
<1> QED
  BY <1>4, <1>6, <1>7, <1>8, <1>9, <1>10, <1>11, <1>12, <1>13 DEF SocketsInv

(* ... and after every step. *)
LEMMA SocketsStep ==
  ASSUME SocketsInv, [Next]_vars
  PROVE  SocketsInv'
<1>1. /\ TableTypes /\ CallTypes /\ DeviceTypes /\ Assigning /\ Entries
      /\ Receivers /\ Order /\ Statuses /\ Pulses
  BY DEF SocketsInv
<1>2. \A fd \in Fd : Assigned(fd) => initialized
  BY <1>1 DEF Assigning
<1>3. TableTypes' /\ CallTypes' /\ DeviceTypes'
  BY <1>1, TableStep, CallStep, DeviceStep
<1>4. Assigning' /\ Entries'
  BY <1>1, AssigningStep, EntriesStep
<1>5. Receivers'
  BY <1>1, <1>2, ReceiversStep
<1>6. Order' /\ Statuses' /\ Pulses'
  BY <1>1, OrderStep, StatusesStep, PulsesStep
<1> QED
  BY <1>3, <1>4, <1>5, <1>6 DEF SocketsInv

(* The invariant of the socket layer, whatever applications run in it, end *)
(* and start again.                                                        *)
THEOREM SocketsInvariant == Spec => []SocketsInv
BY SocketsInit, SocketsStep, PTL DEF Spec

(* Every table entry, call and history holds a value of its kind. *)
THEOREM SocketsTypeCorrect == Spec => []TypeOK
<1>1. SocketsInv => TypeOK
  <2> SUFFICES ASSUME SocketsInv PROVE TypeOK
    OBVIOUS
  <2>1. ASSUME NEW t \in Threads
        PROVE  call[t].op \in {"idle", "status", "recv", "pop", "send", "epoll", "select"}
    <3>1. call[t] \in Call \/ WaitCall(call[t])
      BY DEF SocketsInv, CallTypes
    <3> QED
      BY <3>1 DEF Call, ReceiveCall, PopCall, SendCall, StatusCall, OtherCall, WaitCall
  <2>2. /\ initialized \in BOOLEAN /\ kind \in [Fd -> Kind] /\ multi \subseteq SocketId
        /\ fds \in [Fd -> Socket_t] /\ InstType(inst)
    BY DEF SocketsInv, TableTypes
  <2>3. /\ open \in [Port -> BOOLEAN] /\ pop \in [Port -> BOOLEAN]
        /\ asked \in [Port -> Asker] /\ tx \in 0 .. TxLength
        /\ underflow \subseteq Port /\ raced \subseteq Port /\ extra \subseteq Port
    BY DEF SocketsInv, DeviceTypes
  <2>4. /\ \A ep \in Fd : inst[ep] # None =>
             /\ inst[ep] \in Seq([fd : Fd, data : 0 .. MaxSockets])
             /\ Len(inst[ep]) <= MAX_EPOLL_FDS
        /\ multi \subseteq 0 .. MaxSockets
    BY <2>2 DEF InstType, Entry, SocketId
  <2>5. fds \in [Fd -> [status : {"NOT_ASSIGNED", "INITIALIZED", "BOUND"},
                        epfd : Fd \cup {-1}, id : 0 .. MaxSockets,
                        port : Port \cup {0}, connected : BOOLEAN,
                        multicast : BOOLEAN]]
    BY <2>2 DEF Socket_t, Status, SocketId
  <2> QED
    BY <2>1, <2>2, <2>3, <2>4, <2>5 DEF TypeOK, Asker
<1> QED
  BY <1>1, SocketsInvariant, PTL

(* An entry of the table is in use exactly while the kernel has its        *)
(* descriptor booked, and no two entries share a socket.                   *)
THEOREM BookkeptCorrect == Spec => []Bookkept
<1>1. SocketsInv => Bookkept
  BY DEF SocketsInv, Assigning, Bookkept
<1> QED
  BY <1>1, SocketsInvariant, PTL

(* shutdown and close take the entry of a socket out of the epoll instance *)
(* it is in, unless there is a second one.                                 *)
THEOREM NoStaleEntryCorrect == Spec => []NoStaleEntry
<1>1. SocketsInv => NoStaleEntry
  BY DEF SocketsInv, Entries, EntryOK, Linked, NoStaleEntry
<1> QED
  BY <1>1, SocketsInvariant, PTL

(* The open bit of a port stays what bind or SHUT_RD made it, whatever is  *)
(* received meanwhile, unless it was written in the middle of a pop.       *)
THEOREM StatusKeptCorrect == Spec => []StatusKept
<1>1. SocketsInv => StatusKept
  BY DEF SocketsInv, Statuses
<1> QED
  BY <1>1, SocketsInvariant, PTL

(* Each pulse of a pop bit takes a datagram that was there, but for those  *)
(* made by a status that was written back with the bit set.                *)
THEOREM PoppedOnceCorrect == Spec => []PoppedOnce
<1>1. SocketsInv => PoppedOnce
  BY DEF SocketsInv, Pulses
<1> QED
  BY <1>1, SocketsInvariant, PTL

(* The datagrams of a port are handed over in the order of arrival, none   *)
(* of them twice, whatever sockets come, go and share the port.            *)
THEOREM InOrderOnceCorrect == Spec => []InOrderOnce
<1>1. SocketsInv => InOrderOnce
  BY DEF SocketsInv, Order, Handed, InOrderOnce
<1> QED
  BY <1>1, SocketsInvariant, PTL
=============================================================================
