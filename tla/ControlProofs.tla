--------------------------- MODULE ControlProofs ---------------------------
(***************************************************************************)
(* Proofs about Control for any number of bindings, rings, slots and calls *)
(* and any usage: what probe and remove hold at each of their steps, which *)
(* calls are served when, and that remove leaves nothing behind; then,     *)
(* from the place of every call in its list of accesses, that the          *)
(* registers in force are those of the last parameters, that an interface  *)
(* that is up has its memory, and that the open bits are the listed ones.  *)
(***************************************************************************)
EXTENDS Control, SequenceTheorems, TLAPS

(* What is held when probe has passed the allocation of the interrupt. *)
Lower == {"devlink", "map", "region", "irq"}

(* Each step of a probe so far successful: exactly the earlier ones have   *)
(* been made.                                                              *)
ProbeInv ==
  /\ pc = "unbound" => held = {} /\ ~drvdata
  /\ pc = "devlink" => held = {} /\ ~drvdata /\ ~failed
  /\ pc = "drvdata" =>
       held = {"devlink"} /\ ~drvdata /\ ndev = "null" /\ ~failed
  /\ pc = "devmem" =>
       held = {"devlink"} /\ drvdata /\ ndev = "null" /\ ~failed
  /\ pc = "region" =>
       held = {"devlink", "map"} /\ drvdata /\ ndev = "null" /\ ~failed
  /\ pc = "irq" =>
       /\ held = {"devlink", "map", "region"}
       /\ drvdata /\ ndev = "null" /\ ~failed
  /\ pc = "alloc" =>
       /\ held = Lower /\ irqn = "number"
       /\ drvdata /\ ndev = "null" /\ ~failed
  /\ pc = "register" =>
       /\ held = Lower /\ irqn = "number"
       /\ drvdata /\ ndev = "live" /\ ~failed
  /\ pc = "notifier" =>
       /\ held = Lower \cup {"netdev"} /\ irqn = "number"
       /\ drvdata /\ ndev = "live" /\ ~failed
  /\ pc = "napi" =>
       /\ held = Lower \cup {"netdev", "notifier"} /\ irqn = "number"
       /\ drvdata /\ ndev = "live" /\ ~failed
  /\ pc = "bound" =>
       /\ held = Resources /\ irqn = "number"
       /\ drvdata /\ ndev = "live" /\ ~failed

(* Each step of remove, for a device that was bound, and for one whose     *)
(* probe failed: there ndev is not live, and remove ends with its use.     *)
RemoveInv ==
  /\ pc = "rm_notifier" /\ ~failed =>
       /\ held = Resources /\ irqn = "number" /\ drvdata /\ ndev = "live"
  /\ pc = "rm_notifier" /\ failed =>
       /\ ndev # "live" \/ ~drvdata
       /\ ~drvdata => held = {}
  /\ pc = "rm_napi" /\ ~failed =>
       /\ held = Lower \cup {"netdev", "napi"} /\ irqn = "number"
       /\ drvdata /\ ndev = "live"
  /\ pc = "rm_napi" /\ failed => ndev # "live"
  /\ pc = "rm_netdev" /\ ~failed =>
       /\ held = Lower \cup {"netdev"} /\ irqn = "number"
       /\ drvdata /\ ndev = "live"
  /\ pc = "rm_netdev" /\ failed => oops
  /\ pc = "rm_irq" =>
       /\ held = Lower /\ irqn = "number" /\ drvdata /\ ~failed
  /\ pc = "rm_devlink" =>
       /\ held = {"devlink", "map", "region"} /\ drvdata /\ ~failed
  /\ oops => failed

Steps ==
  {"unbound", "devlink", "drvdata", "devmem", "region", "irq", "alloc",
   "register", "notifier", "napi", "bound", "rm_notifier", "rm_napi",
   "rm_netdev", "rm_irq", "rm_devlink"}

LifeInv ==
  /\ pc \in Steps
  /\ drvdata \in BOOLEAN /\ oops \in BOOLEAN /\ failed \in BOOLEAN
  /\ ProbeInv
  /\ RemoveInv

(* The steps of probe and remove by themselves. *)
LifeNext ==
  \/ Bind
  \/ \E ok \in BOOLEAN : DevlinkInit(ok)
  \/ SetDrvdata
  \/ \E ok \in BOOLEAN : DevmemInit(ok)
  \/ \E ok \in BOOLEAN : InitRegion(ok)
  \/ \E outcome \in {"none", "number", "negative"} : IrqInit(outcome)
  \/ \E ok \in BOOLEAN : NetdevAlloc(ok)
  \/ \E ok \in BOOLEAN : NetdevRegister(ok)
  \/ NotifierRegister
  \/ NapiAdd
  \/ Unbind
  \/ RemoveNothing
  \/ NotifierUnregister
  \/ NapiDel
  \/ NetdevUnregister
  \/ IrqDeinit
  \/ DevlinkDeinit

-----------------------------------------------------------------------------
(* Whatever the calls do, a step of Control is a step of probe or remove   *)
(* or leaves them alone.                                                   *)
LEMMA LifeStays ==
  ASSUME [Next]_vars
  PROVE  ProbeStep \/ RemoveStep \/ UNCHANGED lifeVars
<1>1. ASSUME NEW start \in BOOLEAN, NEW done \in BOOLEAN, Clock(start, done)
      PROVE  UNCHANGED lifeVars
  BY <1>1 DEF Clock, idleVars
<1>2. CASE Open \/ Stop \/ AddressUp \/ AddressDown \/ CloseByRemove
  BY <1>2 DEF Open, Stop, AddressUp, AddressDown, CloseByRemove, idleVars
<1>3. CASE SetRange \/ SetGateway \/ SetSockets
  BY <1>3 DEF SetRange, SetGateway, SetSockets, Notify, idleVars
<1>4. CASE SetMac
  BY <1>4 DEF SetMac, idleVars
<1>5. ASSUME NEW c \in Ctx,
             \/ WriteRes(c)
             \/ WriteConfig(c)
             \/ ReadRing(c)
             \/ EndOfList(c)
             \/ WriteRing(c)
             \/ Alloc(c)
             \/ OutOfMemory(c)
             \/ Free(c)
             \/ UpDown(c)
      PROVE  UNCHANGED lifeVars
  BY <1>5 DEF WriteRes, WriteConfig, ReadRing, EndOfList, WriteRing, Alloc,
              OutOfMemory, Free, UpDown, idleVars
<1>6. ASSUME NEW b \in Buffers, PopRead(b)
      PROVE  UNCHANGED lifeVars
  BY <1>6 DEF PopRead, idleVars
<1>7. CASE PopWrite
  BY <1>7 DEF PopWrite, idleVars
<1>8. CASE UNCHANGED vars
  BY <1>8 DEF vars
<1> QED
  BY <1>1, <1>2, <1>3, <1>4, <1>5, <1>6, <1>7, <1>8 DEF Next

(* Every step is one of probe and remove, or leaves what they keep as it   *)
(* is.                                                                     *)
LEMMA StepIsLifeStep == [Next]_vars => LifeNext \/ UNCHANGED lifeVars
BY LifeStays DEF ProbeStep, RemoveStep, LifeNext

(* A step of probe keeps the account of what it has made, and hands a      *)
(* failed probe over to remove with an ndev that is not live.              *)
LEMMA ProbeStepInv ==
  ASSUME LifeInv,
         \/ Bind
         \/ \E ok \in BOOLEAN : DevlinkInit(ok)
         \/ SetDrvdata
         \/ \E ok \in BOOLEAN : DevmemInit(ok)
         \/ \E ok \in BOOLEAN : InitRegion(ok)
         \/ \E outcome \in {"none", "number", "negative"} : IrqInit(outcome)
         \/ \E ok \in BOOLEAN : NetdevAlloc(ok)
         \/ \E ok \in BOOLEAN : NetdevRegister(ok)
         \/ NotifierRegister
         \/ NapiAdd
  PROVE  LifeInv'
<1> USE DEF LifeInv, ProbeInv, RemoveInv, Steps, At, Lower
<1>1. CASE Bind
  BY <1>1 DEF Bind
<1>2. ASSUME NEW ok \in BOOLEAN, DevlinkInit(ok) PROVE LifeInv'
  BY <1>2 DEF DevlinkInit, Acquire
<1>3. CASE SetDrvdata
  BY <1>3 DEF SetDrvdata
<1>4. ASSUME NEW ok \in BOOLEAN, DevmemInit(ok) PROVE LifeInv'
  BY <1>4 DEF DevmemInit, Acquire
<1>5. ASSUME NEW ok \in BOOLEAN, InitRegion(ok) PROVE LifeInv'
  BY <1>5 DEF InitRegion, Acquire
<1>6. ASSUME NEW outcome \in {"none", "number", "negative"}, IrqInit(outcome)
      PROVE  LifeInv'
  BY <1>6 DEF IrqInit, Acquire
<1>7. ASSUME NEW ok \in BOOLEAN, NetdevAlloc(ok) PROVE LifeInv'
  BY <1>7 DEF NetdevAlloc
<1>8. ASSUME NEW ok \in BOOLEAN, NetdevRegister(ok) PROVE LifeInv'
  BY <1>8 DEF NetdevRegister, Acquire
<1>9. CASE NotifierRegister
  BY <1>9 DEF NotifierRegister
<1>10. CASE NapiAdd
  BY <1>10 DEF NapiAdd, Resources
<1> QED
  BY <1>1, <1>2, <1>3, <1>4, <1>5, <1>6, <1>7, <1>8, <1>9, <1>10

(* A step of remove takes away what it names; after a failed probe none    *)
(* follows the use of ndev.                                                *)
LEMMA RemoveStepInv ==
  ASSUME LifeInv,
         \/ Unbind
         \/ RemoveNothing
         \/ NotifierUnregister
         \/ NapiDel
         \/ NetdevUnregister
         \/ IrqDeinit
         \/ DevlinkDeinit
  PROVE  LifeInv'
<1> USE DEF LifeInv, ProbeInv, RemoveInv, Steps, At, Lower, Release
<1>1. CASE Unbind
  BY <1>1 DEF Unbind
<1>2. CASE RemoveNothing
  BY <1>2 DEF RemoveNothing
<1>3. CASE NotifierUnregister
  BY <1>3 DEF NotifierUnregister, Resources
<1>4. CASE NapiDel
  BY <1>4 DEF NapiDel
<1>5. CASE NetdevUnregister
  BY <1>5 DEF NetdevUnregister
<1>6. CASE IrqDeinit
  BY <1>6 DEF IrqDeinit, FreedIrq
<1>7. CASE DevlinkDeinit
  BY <1>7 DEF DevlinkDeinit
<1> QED
  BY <1>1, <1>2, <1>3, <1>4, <1>5, <1>6, <1>7

(* The account of probe and remove holds throughout. *)
LEMMA LifeInvariant == Spec => []LifeInv
<1>1. Init => LifeInv
  BY DEF Init, InitLife, LifeInv, ProbeInv, RemoveInv, Steps
<1>2. LifeInv /\ [Next]_vars => LifeInv'
  <2> SUFFICES ASSUME LifeInv, [Next]_vars PROVE LifeInv'
    OBVIOUS
  <2>1. CASE UNCHANGED lifeVars
    BY <2>1 DEF lifeVars, LifeInv, ProbeInv, RemoveInv
  <2>2. CASE LifeNext
    BY <2>2, ProbeStepInv, RemoveStepInv DEF LifeNext
  <2> QED
    BY <2>1, <2>2, StepIsLifeStep
<1> QED
  BY <1>1, <1>2, PTL DEF Spec

-----------------------------------------------------------------------------
(* Remove uses no missing object unless it runs for a failed probe, and    *)
(* leaves nothing acquired or registered behind: udp_core_remove undoes    *)
(* exactly what udp_core_probe did.                                        *)
THEOREM CleanRemoveCorrect == Spec => []CleanRemove
<1>1. LifeInv => CleanRemove
  BY DEF LifeInv, ProbeInv, RemoveInv, CleanRemove
<1> QED
  BY <1>1, LifeInvariant, PTL

(* The calls of the kernel into the driver are served whenever they can be *)
(* made, except during the named steps of probe and remove and on the way  *)
(* out of a failed probe.                                                  *)
THEOREM CallsServedCorrect == Spec => []CallsServed
<1>1. LifeInv => CallsServed
  <2> SUFFICES ASSUME LifeInv, NEW c \in Calls, Reachable(c), ~Served(c),
                      ~failed
               PROVE  pc \in Window[c]
    BY DEF CallsServed
  <2> USE DEF LifeInv, ProbeInv, RemoveInv, Steps, Lower, Resources
  <2>1. CASE c = "param"
    <3>1. "devlink" \in held
      BY <2>1 DEF Reachable, Registration, Calls
    <3>2. ~(ndev = "live" /\ drvdata /\ "map" \in held)
      BY <2>1 DEF Served
    <3>3. Window[c] = {"drvdata", "devmem", "region", "irq", "alloc",
                       "rm_irq", "rm_devlink"}
      BY <2>1 DEF Window, Calls
    <3> QED
      BY <3>1, <3>2, <3>3
  <2>2. CASE c = "interrupt"
    <3>1. "irq" \in held
      BY <2>2 DEF Reachable, Registration, Calls
    <3>2. ~(ndev = "live" /\ drvdata /\ "map" \in held /\ "napi" \in held)
      BY <2>2 DEF Served
    <3>3. Window[c] = {"alloc", "register", "notifier", "napi",
                       "rm_netdev", "rm_irq"}
      BY <2>2 DEF Window, Calls
    <3> QED
      BY <3>1, <3>2, <3>3
  <2>3. CASE c = "netdev op"
    <3>1. "netdev" \in held
      BY <2>3 DEF Reachable, Registration, Calls
    <3>2. ~(ndev = "live" /\ drvdata /\ "map" \in held /\ "napi" \in held)
      BY <2>3 DEF Served
    <3>3. Window[c] = {"notifier", "napi", "rm_netdev"}
      BY <2>3 DEF Window, Calls
    <3> QED
      BY <3>1, <3>2, <3>3
  <2>4. CASE c = "address event"
    <3>1. "notifier" \in held
      BY <2>4 DEF Reachable, Registration, Calls
    <3>2. ndev # "live"
      BY <2>4 DEF Served
    <3> QED
      BY <3>1, <3>2
  <2> QED
    BY <2>1, <2>2, <2>3, <2>4 DEF Calls
<1> QED
  BY <1>1, LifeInvariant, PTL

-----------------------------------------------------------------------------
(***************************************************************************)
(* What a context still has to do, as an access and the rest.              *)
(***************************************************************************)

Then(a, rest) == << a >> \o rest

(* The loop `name` goes on with ring b, or else the call with rest. *)
Onward(name, b, rest) ==
  IF b > LastBuffer THEN rest ELSE Then(<<name, b>>, rest)

(* An access in front of the rest. *)
LEMMA ThenFacts ==
  ASSUME NEW a \in Access, NEW rest \in Seq(Access)
  PROVE  /\ Then(a, rest) \in Seq(Access) /\ Then(a, rest) # << >>
         /\ Head(Then(a, rest)) = a /\ Tail(Then(a, rest)) = rest
<1> DEFINE s == Then(a, rest)
<1>1. /\ s \in Seq(Access) /\ Len(s) = 1 + Len(rest) /\ s[1] = a
      /\ \A i \in 1 .. Len(rest) : s[i + 1] = rest[i]
  <2>1. /\ s \in Seq(Access) /\ Len(s) = Len(<< a >>) + Len(rest)
        /\ \A i \in 1 .. Len(<< a >>) + Len(rest) :
             s[i] = IF i <= Len(<< a >>) THEN << a >>[i] ELSE rest[i - Len(<< a >>)]
    BY ConcatProperties DEF Then
  <2>2. Len(<< a >>) = 1 /\ << a >>[1] = a /\ Len(rest) \in Nat
    OBVIOUS
  <2> HIDE DEF s
  <2>3. \A i \in 1 .. Len(rest) : i + 1 \in 1 .. 1 + Len(rest) /\ i + 1 - 1 = i
    BY <2>2
  <2> QED
    BY <2>1, <2>2, <2>3
<1> HIDE DEF s
<1>2. s # << >> /\ Head(s) = a
  BY <1>1
<1>3. Tail(s) = rest
  <2>1. /\ Tail(s) \in Seq(Access) /\ Len(Tail(s)) = Len(s) - 1
        /\ \A i \in 1 .. Len(Tail(s)) : Tail(s)[i] = s[i + 1]
    BY <1>1, <1>2, HeadTailProperties
  <2>2. Len(Tail(s)) = Len(rest)
    BY <1>1, <2>1
  <2> QED
    BY <1>1, <2>1, <2>2, SeqEqual
<1> QED
  BY <1>1, <1>2, <1>3 DEF s

(* What a loop puts in front of the rest of the call. *)
LEMMA MoreThen ==
  ASSUME NEW rest \in Seq(Access), NEW a \in Access, NEW b \in Access,
         NEW name \in {"empty", "close"}, NEW k \in Nat
  PROVE  /\ << >> \o rest = rest
         /\ << a >> \o rest = Then(a, rest)
         /\ << a, b >> \o rest = Then(a, Then(b, rest))
         /\ From(name, k) \o rest = Onward(name, k, rest)
         /\ (<< a >> \o From(name, k)) \o rest = Then(a, Onward(name, k, rest))
         /\ Onward(name, k, rest) \in Seq(Access)
<1> DEFINE more == From(name, k)
           onward == Onward(name, k, rest)
<1>1. << >> \o rest = rest
  BY ConcatEmptySeq
<1>2. ASSUME NEW s \in Seq(Access), NEW t \in Seq(Access)
      PROVE  (s \o t) \o rest = s \o (t \o rest) /\ s \o t \in Seq(Access)
  BY ConcatAssociative, ConcatProperties
<1>3. << a >> \in Seq(Access) /\ << b >> \in Seq(Access)
  OBVIOUS
<1>4. << a, b >> = << a >> \o << b >>
  <2>1. << a, b >> \in Seq(Access) /\ Len(<< a, b >>) = 2
    OBVIOUS
  <2>2. /\ << a >> \o << b >> \in Seq(Access) /\ Len(<< a >> \o << b >>) = 2
        /\ (<< a >> \o << b >>)[1] = a /\ (<< a >> \o << b >>)[2] = b
    BY <1>3, ConcatProperties
  <2>3. \A i \in 1 .. Len(<< a, b >>) : << a, b >>[i] = (<< a >> \o << b >>)[i]
    BY <2>1, <2>2
  <2> QED
    BY <2>1, <2>2, <2>3, SeqEqual
<1>5. << a, b >> \o rest = Then(a, Then(b, rest))
  BY <1>2, <1>3, <1>4 DEF Then
<1>6. <<name, k>> \in Access
  BY DEF Access
<1>7. more \in Seq(Access) /\ more \o rest = onward
  BY <1>1, <1>6 DEF From, Onward, Then
<1>8. onward \in Seq(Access)
  <2>1. CASE k > LastBuffer
    BY <2>1 DEF Onward
  <2>2. CASE ~(k > LastBuffer)
    BY <1>6, <2>2, ThenFacts DEF Onward
  <2> QED
    BY <2>1, <2>2
<1> HIDE DEF more, onward
<1>9. (<< a >> \o more) \o rest = Then(a, onward)
  <2>1. (<< a >> \o more) \o rest = << a >> \o (more \o rest)
    BY <1>2, <1>3, <1>7
  <2> QED
    BY <1>7, <2>1 DEF Then
<1> QED
  BY <1>1, <1>5, <1>7, <1>8, <1>9 DEF Then, more, onward

-----------------------------------------------------------------------------
(***************************************************************************)
(* Types.                                                                  *)
(***************************************************************************)

Fields == {"shmem", "range", "ip", "gw", "mac"}

ConfigType(bound) ==
  [range : 0 .. bound, gw : 0 .. bound, num : 1 .. Slots,
   ports : [1 .. Slots -> Buffers]]

(* The driver. *)
DriverTypes ==
  /\ calls \in Nat /\ allocated \in Nat
  /\ cfg \in ConfigType(calls)
  /\ todo \in [Ctx -> Seq(Access)]
  /\ value \in [Ctx -> BOOLEAN]
  /\ pop = << >> \/ pop \in Buffers \X BOOLEAN
  /\ up \in BOOLEAN /\ overlap \in BOOLEAN /\ shown \in BOOLEAN
  /\ mem \in 0 .. allocated
  /\ undone \subseteq Buffers

(* The device. *)
DeviceTypes ==
  /\ clocked \in BOOLEAN
  /\ res \in 0 .. 1
  /\ regs \in [Fields -> Nat]
  /\ open \in [Buffers -> BOOLEAN]
  /\ hw \in [requested : BOOLEAN, enable : BOOLEAN, rst : BOOLEAN,
             busy : BOOLEAN, latched : [Fields -> Nat]]

(* What probe and remove hold. *)
LifeTypes == held \subseteq Resources /\ ndev \in {"null", "live", "freed"}

(* Every step keeps what probe and remove hold among the resources there   *)
(* are.                                                                    *)
LEMMA LifeTypesStep ==
  ASSUME LifeTypes, [Next]_vars
  PROVE  LifeTypes'
<1>1. CASE UNCHANGED lifeVars
  BY <1>1 DEF lifeVars, LifeTypes
<1>2. CASE LifeNext
  BY <1>2 DEF LifeNext, LifeTypes, Resources, Bind, DevlinkInit, SetDrvdata,
              DevmemInit, InitRegion, IrqInit, NetdevAlloc, NetdevRegister,
              NotifierRegister, NapiAdd, Unbind, RemoveNothing,
              NotifierUnregister, NapiDel, NetdevUnregister, IrqDeinit,
              DevlinkDeinit, Acquire, Release
<1> QED
  BY <1>1, <1>2, StepIsLifeStep

(* The calls, from each of their accesses on that is not in a loop. *)
OpenEnd == Then(<<"res", 0>>, Then(<<"up", 0>>, << >>))
OpenList == Then(<<"listed", 1>>, OpenEnd)
OpenRange == Then(<<"range", 0>>, Then(<<"empty", 0>>, OpenList))
OpenMem == Then(<<"shmem", 0>>, OpenRange)
OpenAlloc == Then(<<"alloc", 0>>, OpenMem)

StopEnd == Then(<<"res", 0>>, Then(<<"down", 0>>, << >>))
StopMem == Then(<<"shmem", 0>>, Then(<<"empty", 0>>, StopEnd))
StopFree == Then(<<"free", 0>>, StopMem)

NotifyGw == Then(<<"own_gw", 0>>, Then(<<"res", 0>>, << >>))
NotifyEnd == Then(<<"range", 0>>, NotifyGw)
NotifyList == Then(<<"listed", 1>>, NotifyEnd)

UpEnd == Then(<<"res", 0>>, << >>)

(* A list is its elements, one after the other. *)
LEMMA OneIsThen ==
  ASSUME NEW a
  PROVE  << a >> = Then(a, << >>)
BY ConcatEmptySeq, << a >> \in Seq({a}) DEF Then

(* Two of them. *)
LEMMA TwoIsThen ==
  ASSUME NEW a, NEW b
  PROVE  << a, b >> = Then(a, << b >>)
<1> DEFINE S == {a, b}
<1>1. /\ << a, b >> \in Seq(S) /\ Len(<< a, b >>) = 2
      /\ << a >> \in Seq(S) /\ << b >> \in Seq(S)
  OBVIOUS
<1>2. /\ << a >> \o << b >> \in Seq(S) /\ Len(<< a >> \o << b >>) = 2
      /\ (<< a >> \o << b >>)[1] = a /\ (<< a >> \o << b >>)[2] = b
  BY <1>1, ConcatProperties
<1>3. \A i \in 1 .. Len(<< a, b >>) : << a, b >>[i] = (<< a >> \o << b >>)[i]
  BY <1>1, <1>2
<1> QED
  BY <1>1, <1>2, <1>3, SeqEqual DEF Then

(* The length of an address event. *)
LEMMA FourIsThen ==
  ASSUME NEW a, NEW b, NEW c, NEW d
  PROVE  << a, b, c, d >> =
           Then(a, Then(b, Then(c, Then(d, << >>))))
<1>1. << d >> = Then(d, << >>)
  BY OneIsThen
<1>2. << c, d >> = Then(c, << d >>)
  BY TwoIsThen
<1>3. << b, c, d >> = Then(b, << c, d >>)
  BY DEF Then
<1>4. << a, b, c, d >> = Then(a, << b, c, d >>)
  BY DEF Then
<1> QED
  BY <1>1, <1>2, <1>3, <1>4

(* The length of stop and of notify_change. *)
LEMMA SixIsThen ==
  ASSUME NEW a, NEW b, NEW c, NEW d, NEW e, NEW f
  PROVE  << a, b, c, d, e, f >> =
           Then(a, Then(b, Then(c, Then(d, Then(e, Then(f, << >>))))))
<1>1. << f >> = Then(f, << >>)
  BY OneIsThen
<1>2. << e, f >> = Then(e, << f >>)
  BY TwoIsThen
<1>3. << d, e, f >> = Then(d, << e, f >>)
  BY DEF Then
<1>4. << c, d, e, f >> = Then(c, << d, e, f >>)
  BY DEF Then
<1>5. << b, c, d, e, f >> = Then(b, << c, d, e, f >>)
  BY DEF Then
<1>6. << a, b, c, d, e, f >> = Then(a, << b, c, d, e, f >>)
  BY DEF Then
<1> QED
  BY <1>1, <1>2, <1>3, <1>4, <1>5, <1>6

(* The length of open. *)
LEMMA EightIsThen ==
  ASSUME NEW a, NEW b, NEW c, NEW d, NEW e, NEW f, NEW g, NEW h
  PROVE  << a, b, c, d, e, f, g, h >> =
           Then(a, Then(b, Then(c, Then(d, Then(e, Then(f, Then(g, Then(h, << >>))))))))
<1>1. << h >> = Then(h, << >>)
  BY OneIsThen
<1>2. << g, h >> = Then(g, << h >>)
  BY TwoIsThen
<1>3. << f, g, h >> = Then(f, << g, h >>)
  BY DEF Then
<1>4. << e, f, g, h >> = Then(e, << f, g, h >>)
  BY DEF Then
<1>5. << d, e, f, g, h >> = Then(d, << e, f, g, h >>)
  BY DEF Then
<1>6. << c, d, e, f, g, h >> = Then(c, << d, e, f, g, h >>)
  BY DEF Then
<1>7. << b, c, d, e, f, g, h >> = Then(b, << c, d, e, f, g, h >>)
  BY DEF Then
<1>8. << a, b, c, d, e, f, g, h >> = Then(a, << b, c, d, e, f, g, h >>)
  BY DEF Then
<1> QED
  BY <1>1, <1>2, <1>3, <1>4, <1>5, <1>6, <1>7, <1>8

(* The calls are lists of accesses, and what each begins with. *)
LEMMA CallsSpelled ==
  /\ OpenCall = Then(<<"res", 1>>, OpenAlloc)
  /\ StopCall = Then(<<"res", 1>>, StopFree)
  /\ NotifyCall = Then(<<"res", 1>>, Then(<<"close", 0>>, NotifyList))
  /\ DownCall = Then(<<"res", 1>>, << >>)
  /\ \A v, w \in Nat :
       UpCall(v, w)
         = Then(<<"res", 1>>, Then(<<"ip", v>>, Then(<<"gw", w>>, UpEnd)))
<1>1. OpenCall = Then(<<"res", 1>>, OpenAlloc)
  BY EightIsThen DEF OpenCall, OpenAlloc, OpenMem, OpenRange, OpenList, OpenEnd
<1>2. StopCall = Then(<<"res", 1>>, StopFree)
  BY SixIsThen DEF StopCall, StopFree, StopMem, StopEnd
<1>3. NotifyCall = Then(<<"res", 1>>, Then(<<"close", 0>>, NotifyList))
  <2>1. << <<"res", 1>>, <<"close", 0>>, <<"listed", 1>>, <<"range", 0>>,
           <<"own_gw", 0>>, <<"res", 0>> >>
          = Then(<<"res", 1>>, Then(<<"close", 0>>, Then(<<"listed", 1>>,
              Then(<<"range", 0>>, Then(<<"own_gw", 0>>,
                Then(<<"res", 0>>, << >>))))))
    BY SixIsThen
  <2> QED
    BY <2>1 DEF NotifyCall, NotifyList, NotifyEnd, NotifyGw
<1>4. DownCall = Then(<<"res", 1>>, << >>)
  BY OneIsThen DEF DownCall
<1>5. ASSUME NEW v \in Nat, NEW w \in Nat
      PROVE  UpCall(v, w)
               = Then(<<"res", 1>>, Then(<<"ip", v>>, Then(<<"gw", w>>, UpEnd)))
  BY FourIsThen DEF UpCall, UpEnd
<1> QED
  BY <1>1, <1>2, <1>3, <1>4, <1>5

(* The list as the parser leaves it. *)
LEMMA ParsedTyped ==
  ASSUME NEW bound \in Nat, cfg \in ConfigType(bound),
         NEW list \in Lists, NEW good \in 0 .. Len(list)
  PROVE  Parsed(list, good) \in ConfigType(bound)
<1>1. PICK n \in 1 .. Slots + 1 : list \in [1 .. n -> Buffers]
  BY DEF Lists
<1>2. Slots \in Nat \ {0} /\ n \in Nat
  BY <1>1, ControlAssumption
<1>3. Len(list) = n
  <2>1. list \in Seq(Buffers)
    BY <1>1, <1>2
  <2> QED
    BY <1>1, <1>2, <2>1
<1>4. Overwritten(cfg.ports, list, good) \in [1 .. Slots -> Buffers]
  BY <1>1, <1>2, <1>3 DEF Overwritten, ConfigType
<1> DEFINE num == IF good < Least(Len(list), Slots) THEN cfg.num ELSE Least(good, Slots)
<1>5. num \in 1 .. Slots
  BY <1>1, <1>2, <1>3 DEF Least, ConfigType
<1>6. Parsed(list, good) = [cfg EXCEPT !.ports = Overwritten(cfg.ports, list, good),
                                       !.num = num]
  BY DEF Parsed, ConfigType
<1> HIDE DEF num
<1> QED
  BY <1>4, <1>5, <1>6 DEF ConfigType

(* Another call is counted: the values it brings are in type. *)
LEMMA ConfigGrows ==
  ASSUME NEW bound \in Nat, NEW c \in ConfigType(bound)
  PROVE  /\ c \in ConfigType(bound + 1)
         /\ [c EXCEPT !.range = bound + 1] \in ConfigType(bound + 1)
         /\ [c EXCEPT !.gw = bound + 1] \in ConfigType(bound + 1)
BY DEF ConfigType

(* The parameters a probe starts from have their types.                    *)
LEMMA DefaultsTyped == \A bound \in Nat : Defaults \in ConfigType(bound)
BY ControlAssumption DEF Defaults, ConfigType, Buffers

(* A call is a list of accesses. *)
LEMMA CallsTyped ==
  /\ OpenCall \in Seq(Access) /\ StopCall \in Seq(Access)
  /\ NotifyCall \in Seq(Access) /\ DownCall \in Seq(Access)
  /\ \A v, w \in Nat : UpCall(v, w) \in Seq(Access)
<1>1. \A a \in Access : \A rest \in Seq(Access) : Then(a, rest) \in Seq(Access)
  BY ThenFacts
<1>2. << >> \in Seq(Access)
  OBVIOUS
<1>3. \A v \in Nat :
        /\ <<"res", v>> \in Access /\ <<"alloc", v>> \in Access
        /\ <<"free", v>> \in Access /\ <<"shmem", v>> \in Access
        /\ <<"range", v>> \in Access /\ <<"ip", v>> \in Access
        /\ <<"gw", v>> \in Access /\ <<"own_gw", v>> \in Access
        /\ <<"empty", v>> \in Access /\ <<"close", v>> \in Access
        /\ <<"listed", v>> \in Access /\ <<"up", v>> \in Access
        /\ <<"down", v>> \in Access
  BY DEF Access
<1>4. OpenEnd \in Seq(Access)
  BY <1>1, <1>2, <1>3 DEF OpenEnd
<1>5. OpenMem \in Seq(Access)
  BY <1>1, <1>3, <1>4 DEF OpenMem, OpenRange, OpenList
<1>6. OpenCall \in Seq(Access)
  BY <1>1, <1>3, <1>5, CallsSpelled DEF OpenAlloc
<1>7. StopCall \in Seq(Access)
  BY <1>1, <1>2, <1>3, CallsSpelled DEF StopFree, StopMem, StopEnd
<1>8. NotifyCall \in Seq(Access)
  BY <1>1, <1>2, <1>3, CallsSpelled DEF NotifyList, NotifyEnd, NotifyGw
<1>9. DownCall \in Seq(Access)
  BY <1>1, <1>2, <1>3, CallsSpelled
<1>10. ASSUME NEW v \in Nat, NEW w \in Nat PROVE UpCall(v, w) \in Seq(Access)
  <2>1. UpEnd \in Seq(Access)
    BY <1>1, <1>2, <1>3 DEF UpEnd
  <2>2. /\ <<"res", 1>> \in Access /\ <<"ip", v>> \in Access
        /\ <<"gw", w>> \in Access
    BY <1>3
  <2>3. Then(<<"ip", v>>, Then(<<"gw", w>>, UpEnd)) \in Seq(Access)
    BY <1>1, <2>1, <2>2
  <2> QED
    BY <1>1, <2>2, <2>3, CallsSpelled
<1> QED
  BY <1>6, <1>7, <1>8, <1>9, <1>10

(* An access made leaves a list of accesses. *)
LEMMA DoesTyped ==
  ASSUME todo \in [Ctx -> Seq(Access)],
         NEW c \in Ctx, NEW a, NEW more \in Seq(Access), Does(c, a, more)
  PROVE  todo' \in [Ctx -> Seq(Access)]
<1>1. todo[c] \in Seq(Access) /\ todo[c] # << >>
  BY DEF Does
<1>2. Tail(todo[c]) \in Seq(Access)
  BY <1>1, HeadTailProperties
<1>3. more \o Tail(todo[c]) \in Seq(Access)
  BY <1>2, ConcatProperties
<1> QED
  BY <1>3 DEF Does

(* What the read of a ring puts in front is a list of accesses. *)
LEMMA RingAccessesTyped ==
  ASSUME NEW b \in Buffers, NEW i \in Nat
  PROVE  /\ << >> \in Seq(Access)
         /\ << <<"write_back", b>>, <<"close_only", b>> >>
              \o From("empty", b + 1) \in Seq(Access)
         /\ << <<"clear", b>> >> \in Seq(Access)
         /\ << <<"clear", b>> >> \o From("close", b + 1) \in Seq(Access)
         /\ << <<"set", b>>, <<"listed", i + 1>> >> \in Seq(Access)
<1>1. b \in Nat /\ b + 1 \in Nat /\ i + 1 \in Nat
  BY DEF Buffers
<1>2. /\ <<"write_back", b>> \in Access /\ <<"close_only", b>> \in Access
      /\ <<"clear", b>> \in Access /\ <<"set", b>> \in Access
      /\ <<"listed", i + 1>> \in Access
      /\ <<"empty", b + 1>> \in Access /\ <<"close", b + 1>> \in Access
  BY <1>1 DEF Access
<1>3. \A x, y \in Access : << x >> \in Seq(Access) /\ << x, y >> \in Seq(Access)
  OBVIOUS
<1>4. \A s, t \in Seq(Access) : s \o t \in Seq(Access)
  BY ConcatProperties
<1>5. From("empty", b + 1) \in Seq(Access) /\ From("close", b + 1) \in Seq(Access)
  BY <1>2, <1>3 DEF From
<1> QED
  BY <1>2, <1>3, <1>4, <1>5

(* A call that begins is counted. *)
LEMMA BeginTyped ==
  ASSUME DriverTypes, NEW c \in Ctx, NEW accesses \in Seq(Access),
         NEW whole \in BOOLEAN, Begin(c, accesses, whole)
  PROVE  /\ todo' \in [Ctx -> Seq(Access)] /\ overlap' \in BOOLEAN
         /\ calls \in Nat /\ calls' = calls + 1
BY DEF DriverTypes, Begin

(* The steps that begin a call. *)
LEMMA CallTypes ==
  ASSUME DriverTypes, DeviceTypes,
         \/ Open \/ Stop \/ AddressUp \/ AddressDown
         \/ SetRange \/ SetGateway \/ SetSockets
  PROVE  DriverTypes' /\ DeviceTypes'
<1>1. /\ calls \in Nat /\ calls + 1 \in Nat /\ cfg \in ConfigType(calls)
      /\ cfg \in ConfigType(calls + 1) /\ cfg.gw \in Nat
      /\ [cfg EXCEPT !.range = calls + 1] \in ConfigType(calls + 1)
      /\ [cfg EXCEPT !.gw = calls + 1] \in ConfigType(calls + 1)
  <2>1. calls \in Nat /\ calls + 1 \in Nat /\ cfg \in ConfigType(calls)
    BY DEF DriverTypes
  <2>2. cfg.gw \in Nat
    BY <2>1 DEF ConfigType
  <2> QED
    BY <2>1, <2>2, ConfigGrows
<1>2. CASE Open
  <2>1. Begin("rtnl", OpenCall, TRUE)
    BY <1>2 DEF Open
  <2> QED
    BY <1>1, <1>2, <2>1, BeginTyped, CallsTyped
    DEF Open, DriverTypes, DeviceTypes, deviceVars, Ctx
<1>3. CASE Stop
  <2>1. Begin("rtnl", StopCall, TRUE)
    BY <1>3 DEF Stop
  <2> QED
    BY <1>1, <1>3, <2>1, BeginTyped, CallsTyped
    DEF Stop, DriverTypes, DeviceTypes, deviceVars, Ctx
<1>4. CASE AddressUp
  <2>1. PICK gw \in {New, cfg.gw} : Begin("rtnl", UpCall(New, gw), FALSE)
    BY <1>4 DEF AddressUp
  <2>2. UpCall(New, gw) \in Seq(Access)
    BY <1>1, <2>1, CallsTyped DEF New
  <2> QED
    BY <1>1, <1>4, <2>1, <2>2, BeginTyped
    DEF AddressUp, DriverTypes, DeviceTypes, deviceVars, Ctx
<1>5. CASE AddressDown
  <2>1. Begin("rtnl", DownCall, FALSE)
    BY <1>5 DEF AddressDown
  <2> QED
    BY <1>1, <1>5, <2>1, BeginTyped, CallsTyped
    DEF AddressDown, DriverTypes, DeviceTypes, deviceVars, Ctx
<1>6. ASSUME Notify, cfg' \in ConfigType(calls + 1)
      PROVE  DriverTypes' /\ DeviceTypes'
  <2>1. Begin("devlink", NotifyCall, TRUE)
    BY <1>6 DEF Notify
  <2> QED
    BY <1>1, <1>6, <2>1, BeginTyped, CallsTyped
    DEF Notify, DriverTypes, DeviceTypes, deviceVars, Ctx
<1>7. CASE SetRange
  BY <1>1, <1>6, <1>7 DEF SetRange, New
<1>8. CASE SetGateway
  BY <1>1, <1>6, <1>8 DEF SetGateway, New
<1>9. CASE SetSockets
  <2>0. PICK list \in Lists :
          \E good \in 0 .. Len(list) : cfg' = Parsed(list, good)
    BY <1>9 DEF SetSockets
  <2>1. PICK good \in 0 .. Len(list) : cfg' = Parsed(list, good)
    BY <2>0
  <2>2. cfg' \in ConfigType(calls)
    BY <1>1, <2>1, ParsedTyped
  <2>3. cfg' \in ConfigType(calls + 1)
    BY <1>1, <2>2, ConfigGrows
  <2> QED
    BY <1>6, <1>9, <2>3 DEF SetSockets
<1> QED
  BY <1>2, <1>3, <1>4, <1>5, <1>7, <1>8, <1>9

(* An access of the call in context c. *)
AccessStep(c) ==
  \/ WriteRes(c) \/ WriteConfig(c) \/ ReadRing(c) \/ EndOfList(c)
  \/ WriteRing(c) \/ Alloc(c) \/ OutOfMemory(c) \/ Free(c) \/ UpDown(c)

(* The steps that make an access. *)
LEMMA AccessTypes ==
  ASSUME DriverTypes, DeviceTypes, NEW c \in Ctx, AccessStep(c)
  PROVE  DriverTypes' /\ DeviceTypes'
<1>0. /\ todo \in [Ctx -> Seq(Access)] /\ << >> \in Seq(Access)
      /\ calls \in Nat /\ allocated \in Nat /\ mem \in Nat /\ mem \in 0 .. allocated
      /\ cfg \in ConfigType(calls) /\ regs \in [Fields -> Nat]
  BY DEF DriverTypes, DeviceTypes
<1>1. CASE WriteRes(c)
  <2>1. todo' \in [Ctx -> Seq(Access)] /\ res' \in 0 .. 1
    BY <1>0, <1>1, DoesTyped DEF WriteRes
  <2> QED
    BY <1>1, <2>1
    DEF WriteRes, Written, DriverTypes, DeviceTypes, countVars
<1>2. CASE WriteConfig(c)
  <2>1. todo' \in [Ctx -> Seq(Access)]
    BY <1>0, <1>2, DoesTyped DEF WriteConfig
  <2>2. cfg.range \in Nat /\ cfg.gw \in Nat
    BY <1>0 DEF ConfigType
  <2>3. \A v \in 0 .. calls : v \in Nat
    BY <1>0
  <2>4. regs' \in [Fields -> Nat]
    BY <1>0, <1>2, <2>2, <2>3 DEF WriteConfig
  <2> QED
    BY <1>2, <2>1, <2>4
    DEF WriteConfig, Written, DriverTypes, DeviceTypes, countVars
<1>3. CASE ReadRing(c)
  <2>1. PICK b \in Buffers :
          /\ value' = [value EXCEPT ![c] = open[b]]
          /\ \/ Does(c, <<"empty", b>>,
                      << <<"write_back", b>>, <<"close_only", b>> >>
                        \o From("empty", b + 1))
             \/ Does(c, <<"close_only", b>>, << <<"clear", b>> >>)
             \/ Does(c, <<"close", b>>,
                      << <<"clear", b>> >> \o From("close", b + 1))
             \/ \E i \in 1 .. cfg.num :
                  Does(c, <<"listed", i>>,
                       << <<"set", b>>, <<"listed", i + 1>> >>)
    BY <1>3 DEF ReadRing
  <2>2. 0 \in Nat /\ \A i \in 1 .. cfg.num : i \in Nat
    BY <1>0 DEF ConfigType
  <2>3. todo' \in [Ctx -> Seq(Access)]
    BY <1>0, <2>1, <2>2, DoesTyped, RingAccessesTyped
  <2>4. value' \in [Ctx -> BOOLEAN]
    BY <2>1 DEF DriverTypes, DeviceTypes
  <2> QED
    BY <1>3, <2>3, <2>4
    DEF ReadRing, DriverTypes, DeviceTypes, deviceVars, countVars
<1>4. CASE EndOfList(c)
  <2>1. todo' \in [Ctx -> Seq(Access)]
    BY <1>0, <1>4, DoesTyped DEF EndOfList
  <2> QED
    BY <1>4, <2>1 DEF EndOfList, DriverTypes, DeviceTypes, deviceVars, countVars
<1>5. CASE WriteRing(c)
  <2>1. PICK b \in Buffers :
          /\ \E bit \in BOOLEAN :
               /\ open' = [open EXCEPT ![b] = bit]
               /\ \/ Does(c, <<"write_back", b>>, << >>)
                  \/ Does(c, <<"clear", b>>, << >>)
                  \/ Does(c, <<"set", b>>, << >>)
          /\ undone' = undone \ {b}
    BY <1>5 DEF WriteRing
  <2>2. todo' \in [Ctx -> Seq(Access)]
    BY <1>0, <2>1, DoesTyped
  <2>3. open' \in [Buffers -> BOOLEAN] /\ undone' \subseteq Buffers
    BY <2>1 DEF DriverTypes, DeviceTypes
  <2> QED
    BY <1>5, <2>2, <2>3 DEF WriteRing, Written, DriverTypes, DeviceTypes
<1>6. CASE Alloc(c)
  <2>1. todo' \in [Ctx -> Seq(Access)]
    BY <1>0, <1>6, DoesTyped DEF Alloc
  <2> QED
    BY <1>6, <2>1 DEF Alloc, DriverTypes, DeviceTypes, deviceVars
<1>7. CASE OutOfMemory(c)
  BY <1>0, <1>7 DEF OutOfMemory, DriverTypes, DeviceTypes, deviceVars
<1>8. CASE Free(c)
  <2>1. todo' \in [Ctx -> Seq(Access)]
    BY <1>0, <1>8, DoesTyped DEF Free
  <2> QED
    BY <1>8, <2>1 DEF Free, DriverTypes, DeviceTypes, deviceVars, countVars
<1>9. CASE UpDown(c)
  <2>1. todo' \in [Ctx -> Seq(Access)]
    BY <1>0, <1>9, DoesTyped DEF UpDown
  <2> QED
    BY <1>9, <2>1 DEF UpDown, DriverTypes, DeviceTypes, deviceVars
<1> QED
  BY <1>1, <1>2, <1>3, <1>4, <1>5, <1>6, <1>7, <1>8, <1>9 DEF AccessStep

(* What probe and remove do to the driver and the device: nothing, but     *)
(* when the defaults or the MAC address are set.                           *)
NewDefaults ==
  /\ At("devlink") /\ cfg' = Defaults /\ shown' = FALSE
  /\ undone' = undone \cup { b \in Buffers : open[b] }
  /\ UNCHANGED << usage, todo, value, pop, up, mem, deviceVars, clocked, calls,
                  allocated, overlap >>

NewMac ==
  /\ regs' = [regs EXCEPT !.mac = 1] /\ Written
  /\ UNCHANGED << usage, driverVars, res, open, hw, countVars >>

LifeOnly == UNCHANGED << usage, driverVars, deviceVars, clocked, countVars >>

(* Besides what they hold, a step of probe or remove writes the default    *)
(* parameters, or the mac address of the first of them, or nothing.        *)
LEMMA ProbeOrRemove ==
  ASSUME ProbeStep \/ RemoveStep
  PROVE  NewDefaults \/ NewMac \/ LifeOnly
BY DEF ProbeStep, RemoveStep, NewDefaults, NewMac, LifeOnly, DevlinkInit

(* The other steps. *)
LEMMA OtherTypes ==
  ASSUME DriverTypes, DeviceTypes,
         \/ \E start, done \in BOOLEAN : Clock(start, done)
         \/ CloseByRemove
         \/ SetMac
         \/ \E b \in Buffers : PopRead(b)
         \/ PopWrite
         \/ ProbeStep
         \/ RemoveStep
         \/ UNCHANGED vars
  PROVE  DriverTypes' /\ DeviceTypes'
<1>1. ASSUME NEW start \in BOOLEAN, NEW done \in BOOLEAN, Clock(start, done)
      PROVE  DriverTypes' /\ DeviceTypes'
  <2>1. hw.latched \in [Fields -> Nat] /\ regs \in [Fields -> Nat]
    BY DEF DeviceTypes
  <2>2. Requested(hw) \in BOOLEAN
    BY DEF Requested
  <2>3. (hw.enable \/ hw.requested) \in BOOLEAN
    OBVIOUS
  <2>4. Rst(hw) \in BOOLEAN
    BY DEF Rst
  <2>5. (~hw.rst /\ (start \/ (hw.busy /\ ~done))) \in BOOLEAN
    OBVIOUS
  <2>6. (IF hw.rst THEN regs ELSE hw.latched) \in [Fields -> Nat]
    BY <2>1
  <2>7. hw' \in [requested : BOOLEAN, enable : BOOLEAN, rst : BOOLEAN,
                 busy : BOOLEAN, latched : [Fields -> Nat]]
    BY <1>1, <2>2, <2>3, <2>4, <2>5, <2>6 DEF Clock
  <2> QED
    BY <1>1, <2>7 DEF Clock, DriverTypes, DeviceTypes, driverVars, countVars
<1>2. CASE CloseByRemove
  <2>1. todo' \in [Ctx -> Seq(Access)]
    BY <1>2, CallsTyped DEF CloseByRemove, DriverTypes
  <2> QED
    BY <1>2, <2>1 DEF CloseByRemove, DriverTypes, DeviceTypes, deviceVars
<1>3. CASE SetMac
  BY <1>3 DEF SetMac, DriverTypes, DeviceTypes, driverVars, countVars
<1>4. ASSUME NEW b \in Buffers, PopRead(b) PROVE DriverTypes' /\ DeviceTypes'
  <2>1. pop' \in Buffers \X BOOLEAN
    BY <1>4 DEF PopRead, DeviceTypes
  <2> QED
    BY <1>4, <2>1 DEF PopRead, DriverTypes, DeviceTypes, deviceVars, countVars
<1>5. CASE PopWrite
  <2>1. pop \in Buffers \X BOOLEAN
    BY <1>5 DEF PopWrite, DriverTypes
  <2>2. pop[1] \in Buffers /\ pop[2] \in BOOLEAN
    BY <2>1
  <2>3. open' \in [Buffers -> BOOLEAN] /\ undone' \subseteq Buffers
    BY <1>5, <2>2 DEF PopWrite, DriverTypes, DeviceTypes
  <2> QED
    BY <1>5, <2>3 DEF PopWrite, Written, DriverTypes, DeviceTypes
<1>6. CASE NewDefaults
  <2>1. cfg' \in ConfigType(calls)
    BY <1>6, DefaultsTyped DEF NewDefaults, DriverTypes
  <2> QED
    BY <1>6, <2>1 DEF NewDefaults, DriverTypes, DeviceTypes, deviceVars
<1>7. CASE NewMac
  BY <1>7 DEF NewMac, Written, DriverTypes, DeviceTypes, driverVars, countVars
<1>8. CASE LifeOnly
  BY <1>8 DEF LifeOnly, DriverTypes, DeviceTypes, driverVars, deviceVars,
              countVars
<1>9. CASE UNCHANGED vars
  BY <1>9 DEF vars, DriverTypes, DeviceTypes, driverVars, deviceVars, countVars
<1> QED
  BY <1>1, <1>2, <1>3, <1>4, <1>5, <1>6, <1>7, <1>8, <1>9, ProbeOrRemove

(* Every variable keeps its type. *)
LEMMA TypesStep ==
  ASSUME DriverTypes, DeviceTypes, [Next]_vars
  PROVE  DriverTypes' /\ DeviceTypes'
BY CallTypes, AccessTypes, OtherTypes DEF Next, AccessStep

(* The types are kept by every step of the driver.                         *)
LEMMA TypesInvariant == Spec => [](DriverTypes /\ DeviceTypes /\ LifeTypes)
<1>1. Init => DriverTypes /\ DeviceTypes /\ LifeTypes
  <2> SUFFICES ASSUME Init PROVE DriverTypes /\ DeviceTypes /\ LifeTypes
    OBVIOUS
  <2>1. Registers \in [Fields -> Nat]
    BY DEF Registers, Fields
  <2>2. DeviceTypes
    BY <2>1 DEF Init, DeviceTypes
  <2>3. DriverTypes
    <3>1. << >> \in Seq(Access)
      OBVIOUS
    <3>2. cfg \in ConfigType(calls)
      BY DefaultsTyped DEF Init
    <3>3. todo \in [Ctx -> Seq(Access)]
      BY <3>1 DEF Init
    <3>4. calls \in Nat /\ allocated \in Nat /\ mem \in 0 .. allocated
      BY DEF Init
    <3>5. /\ value \in [Ctx -> BOOLEAN] /\ pop = << >> /\ up \in BOOLEAN
          /\ overlap \in BOOLEAN /\ shown \in BOOLEAN /\ undone \subseteq Buffers
      BY DEF Init
    <3> QED
      BY <3>2, <3>3, <3>4, <3>5 DEF DriverTypes
  <2>4. LifeTypes
    BY DEF Init, InitLife, LifeTypes
  <2> QED
    BY <2>2, <2>3, <2>4
<1>2. DriverTypes /\ DeviceTypes /\ LifeTypes /\ [Next]_vars
        => (DriverTypes /\ DeviceTypes /\ LifeTypes)'
  BY TypesStep, LifeTypesStep
<1> QED
  BY <1>1, <1>2, PTL DEF Spec

(* Every variable of the driver and of the device holds a value of its     *)
(* kind, and the parser's list fits its slots, whatever the calls bring.   *)
THEOREM ControlTypeCorrect == Spec => []TypeOK
<1>1. DriverTypes /\ DeviceTypes /\ LifeTypes => TypeOK
  <2>1. DOMAIN Registers = Fields
    BY DEF Registers, Fields
  <2> QED
    BY <2>1 DEF TypeOK, DriverTypes, DeviceTypes, LifeTypes, ConfigType
<1> QED
  BY <1>1, TypesInvariant, PTL

-----------------------------------------------------------------------------
(***************************************************************************)
(* What an access does, known from the head of what is to be done.         *)
(***************************************************************************)

Types == DriverTypes /\ DeviceTypes

Goes(c, rest) == todo' = [todo EXCEPT ![c] = rest]

(* The access made is the head, and the call goes on behind it. *)
LEMMA HeadIs ==
  ASSUME Types, NEW c \in Ctx, NEW a \in Access, NEW rest \in Seq(Access),
         todo[c] = Then(a, rest), NEW x, NEW more, Does(c, x, more)
  PROVE  x = a /\ Goes(c, more \o rest)
BY ThenFacts DEF Does, Goes

(* The head tells which of the steps is made. *)
LEMMA StepOfHead ==
  ASSUME Types, NEW c \in Ctx, NEW name, NEW v, <<name, v>> \in Access,
         NEW rest \in Seq(Access), todo[c] = Then(<<name, v>>, rest)
  PROVE  /\ WriteRes(c) => name = "res"
         /\ WriteConfig(c) => name \in {"shmem", "range", "own_gw", "gw", "ip"}
         /\ ReadRing(c) => name \in {"empty", "close_only", "close", "listed"}
         /\ EndOfList(c) => name = "listed"
         /\ WriteRing(c) => name \in {"write_back", "clear", "set"}
         /\ Alloc(c) => name = "alloc"
         /\ OutOfMemory(c) => name = "alloc"
         /\ Free(c) => name = "free"
         /\ UpDown(c) => name \in {"up", "down"}
<1>1. \A n, w, more : Does(c, <<n, w>>, more) => n = name /\ w = v
  BY HeadIs
<1>2. Head(todo[c]) = <<name, v>>
  BY ThenFacts
<1>3. WriteRes(c) => name = "res"
  BY <1>1 DEF WriteRes
<1>4. WriteConfig(c) => name \in {"shmem", "range", "own_gw", "gw", "ip"}
  BY <1>1 DEF WriteConfig
<1>5. ReadRing(c) => name \in {"empty", "close_only", "close", "listed"}
  BY <1>1 DEF ReadRing
<1>6. EndOfList(c) => name = "listed"
  BY <1>1 DEF EndOfList
<1>7. WriteRing(c) => name \in {"write_back", "clear", "set"}
  BY <1>1 DEF WriteRing
<1>8. Alloc(c) => name = "alloc"
  BY <1>1 DEF Alloc
<1>9. OutOfMemory(c) => name = "alloc"
  BY <1>2 DEF OutOfMemory
<1>10. Free(c) => name = "free"
  BY <1>1 DEF Free
<1>11. UpDown(c) => name \in {"up", "down"}
  BY <1>1 DEF UpDown
<1> QED
  BY <1>3, <1>4, <1>5, <1>6, <1>7, <1>8, <1>9, <1>10, <1>11

(* RES is written. *)
LEMMA ResEffect ==
  ASSUME Types, NEW c \in Ctx, NEW v \in Nat, NEW rest \in Seq(Access),
         todo[c] = Then(<<"res", v>>, rest), AccessStep(c)
  PROVE  /\ Goes(c, rest) /\ res' = v /\ clocked
         /\ UNCHANGED << cfg, up, mem, regs, open, hw, overlap, undone, shown >>
<1>1. <<"res", v>> \in Access
  BY DEF Access
<1>2. WriteRes(c)
  BY <1>1, StepOfHead DEF AccessStep
<1>3. PICK w \in 0 .. 1 : Does(c, <<"res", w>>, << >>) /\ res' = w
  BY <1>2 DEF WriteRes
<1>4. <<"res", w>> = <<"res", v>> /\ Goes(c, << >> \o rest)
  BY <1>1, <1>3, HeadIs
<1>5. << >> \o rest = rest
  BY ConcatEmptySeq
<1> QED
  BY <1>2, <1>3, <1>4, <1>5 DEF WriteRes, Written, countVars

(* A register of the configuration is written. *)
LEMMA ConfigEffect ==
  ASSUME Types, NEW c \in Ctx, NEW name \in {"shmem", "range", "own_gw", "gw", "ip"},
         NEW v \in Nat, NEW rest \in Seq(Access),
         todo[c] = Then(<<name, v>>, rest), AccessStep(c)
  PROVE  /\ Goes(c, rest)
         /\ name = "shmem" => regs'.shmem = mem
         /\ name # "shmem" => regs'.shmem = regs.shmem
         /\ UNCHANGED << cfg, up, mem, res, open, hw, overlap, undone, shown >>
<1>1. <<name, v>> \in Access
  BY DEF Access
<1>2. WriteConfig(c)
  BY <1>1, StepOfHead DEF AccessStep
<1>3. \A n, w : Does(c, <<n, w>>, << >>) => n = name /\ Goes(c, rest)
  <2> SUFFICES ASSUME NEW n, NEW w, Does(c, <<n, w>>, << >>)
               PROVE  n = name /\ Goes(c, rest)
    OBVIOUS
  <2>1. <<n, w>> = <<name, v>> /\ Goes(c, << >> \o rest)
    BY <1>1, HeadIs
  <2>2. << >> \o rest = rest
    BY ConcatEmptySeq
  <2> QED
    BY <2>1, <2>2
<1>4. regs \in [Fields -> Nat]
  BY DEF Types, DeviceTypes
<1>5. /\ Goes(c, rest)
      /\ name = "shmem" => regs'.shmem = mem
      /\ name # "shmem" => regs'.shmem = regs.shmem
  BY <1>2, <1>3, <1>4 DEF WriteConfig, Fields
<1> QED
  BY <1>2, <1>5 DEF WriteConfig, countVars

(* What reading a ring, or the end of the list, leaves alone. *)
Still ==
  UNCHANGED << cfg, up, mem, res, regs, open, hw, overlap, undone, shown >>

(* What the read of a ring puts in front of the rest of the call. *)
EmptyMore(b) ==
  << <<"write_back", b>>, <<"close_only", b>> >> \o From("empty", b + 1)
CloseOnlyMore(b) == << <<"clear", b>> >>
CloseMore(b) == << <<"clear", b>> >> \o From("close", b + 1)
ListedMore(i, b) == << <<"set", b>>, <<"listed", i + 1>> >>

(* What emptying, closing and listing a buffer put in front of a call, as  *)
(* an access followed by the rest of the call.                             *)
LEMMA MoreIs ==
  ASSUME NEW b \in Buffers, NEW i \in Nat, NEW rest \in Seq(Access)
  PROVE  /\ EmptyMore(b) \o rest
              = Then(<<"write_back", b>>,
                     Then(<<"close_only", b>>, Onward("empty", b + 1, rest)))
         /\ CloseOnlyMore(b) \o rest = Then(<<"clear", b>>, rest)
         /\ CloseMore(b) \o rest
              = Then(<<"clear", b>>, Onward("close", b + 1, rest))
         /\ ListedMore(i, b) \o rest
              = Then(<<"set", b>>, Then(<<"listed", i + 1>>, rest))
<1>1. b \in Nat /\ b + 1 \in Nat /\ i + 1 \in Nat
  BY DEF Buffers
<1>2. /\ <<"write_back", b>> \in Access /\ <<"close_only", b>> \in Access
      /\ <<"clear", b>> \in Access /\ <<"set", b>> \in Access
      /\ <<"listed", i + 1>> \in Access
  BY <1>1 DEF Access
<1>3. ASSUME NEW y \in Access, NEW z \in Access
      PROVE  /\ (<< y, z >> \o From("empty", b + 1)) \o rest
                  = Then(y, Then(z, Onward("empty", b + 1, rest)))
             /\ (<< y >> \o From("close", b + 1)) \o rest
                  = Then(y, Onward("close", b + 1, rest))
             /\ << y >> \o rest = Then(y, rest)
             /\ << y, z >> \o rest = Then(y, Then(z, rest))
  <2> DEFINE k == b + 1
  <2>1. k \in Nat
    BY <1>1
  <2> HIDE DEF k
  <2>2. "empty" \in {"empty", "close"} /\ "close" \in {"empty", "close"}
    OBVIOUS
  <2>3. (<< y, z >> \o From("empty", k)) \o rest
          = Then(y, Then(z, Onward("empty", k, rest)))
    <3> DEFINE f == From("empty", k)
               g == << z >> \o f
    <3>1. << y >> \in Seq(Access) /\ << z >> \in Seq(Access)
      OBVIOUS
    <3>2. f \in Seq(Access)
      <4>1. <<"empty", k>> \in Access
        BY <2>1 DEF Access
      <4> QED
        BY <4>1 DEF From
    <3>3. << y, z >> \o f = << y >> \o g /\ g \in Seq(Access)
      BY <3>1, <3>2, TwoIsThen, ConcatAssociative, ConcatProperties DEF Then
    <3>4. g \o rest = Then(z, Onward("empty", k, rest))
      BY <2>1, <2>2, MoreThen, ZenonT(60)
    <3> HIDE DEF f, g
    <3>5. (<< y >> \o g) \o rest = << y >> \o (g \o rest)
      BY <3>1, <3>3, ConcatAssociative
    <3> QED
      BY <3>3, <3>4, <3>5 DEF Then, f
  <2>4. (<< y >> \o From("close", k)) \o rest = Then(y, Onward("close", k, rest))
    BY <2>1, <2>2, MoreThen, ZenonT(60)
  <2>5. << y >> \o rest = Then(y, rest) /\ << y, z >> \o rest = Then(y, Then(z, rest))
    BY <2>1, <2>2, MoreThen, ZenonT(60)
  <2> QED
    BY <2>3, <2>4, <2>5 DEF k
<1>4. EmptyMore(b) \o rest
        = Then(<<"write_back", b>>,
               Then(<<"close_only", b>>, Onward("empty", b + 1, rest)))
  <2> DEFINE y == <<"write_back", b>>
             z == <<"close_only", b>>
  <2>1. EmptyMore(b) = << y, z >> \o From("empty", b + 1)
    BY DEF EmptyMore
  <2>2. y \in Access /\ z \in Access
    BY <1>2
  <2> HIDE DEF y, z
  <2>3. EmptyMore(b) \o rest = Then(y, Then(z, Onward("empty", b + 1, rest)))
    BY <1>3, <2>1, <2>2
  <2> QED
    BY <2>3 DEF y, z
<1>5. CloseOnlyMore(b) \o rest = Then(<<"clear", b>>, rest)
  BY <1>2, <1>3 DEF CloseOnlyMore
<1>6. CloseMore(b) \o rest = Then(<<"clear", b>>, Onward("close", b + 1, rest))
  BY <1>2, <1>3 DEF CloseMore
<1>7. ListedMore(i, b) \o rest
        = Then(<<"set", b>>, Then(<<"listed", i + 1>>, rest))
  BY <1>2, <1>3 DEF ListedMore
<1> QED
  BY <1>4, <1>5, <1>6, <1>7

(* The read of a ring is one of four accesses. *)
LEMMA ReadCases ==
  ASSUME NEW c \in Ctx, ReadRing(c)
  PROVE  /\ Still
         /\ \E x \in Buffers :
              \/ Does(c, <<"empty", x>>, EmptyMore(x))
              \/ Does(c, <<"close_only", x>>, CloseOnlyMore(x))
              \/ Does(c, <<"close", x>>, CloseMore(x))
              \/ \E k \in 1 .. cfg.num :
                   x = cfg.ports[k] /\ Does(c, <<"listed", k>>, ListedMore(k, x))
BY DEF ReadRing, Still, deviceVars, countVars, EmptyMore, CloseOnlyMore,
       CloseMore, ListedMore

(* Which one the head tells. *)
LEMMA ReadOfHead ==
  ASSUME Types, NEW c \in Ctx, NEW name, NEW v, <<name, v>> \in Access,
         NEW rest \in Seq(Access), todo[c] = Then(<<name, v>>, rest), ReadRing(c)
  PROVE  /\ Still
         /\ \E x \in Buffers :
              \/ name = "empty" /\ x = v /\ Goes(c, EmptyMore(x) \o rest)
              \/ name = "close_only" /\ x = v /\ Goes(c, CloseOnlyMore(x) \o rest)
              \/ name = "close" /\ x = v /\ Goes(c, CloseMore(x) \o rest)
              \/ /\ name = "listed" /\ v \in 1 .. cfg.num /\ x = cfg.ports[v]
                 /\ Goes(c, ListedMore(v, x) \o rest)
<1>1. PICK x \in Buffers :
        \/ Does(c, <<"empty", x>>, EmptyMore(x))
        \/ Does(c, <<"close_only", x>>, CloseOnlyMore(x))
        \/ Does(c, <<"close", x>>, CloseMore(x))
        \/ \E k \in 1 .. cfg.num :
             x = cfg.ports[k] /\ Does(c, <<"listed", k>>, ListedMore(k, x))
  BY ReadCases
<1>2. ASSUME NEW n, NEW w, NEW more, Does(c, <<n, w>>, more)
      PROVE  name = n /\ w = v /\ Goes(c, more \o rest)
  <2>1. <<n, w>> = <<name, v>> /\ Goes(c, more \o rest)
    BY <1>2, HeadIs
  <2> QED
    BY <2>1
<1>3. CASE Does(c, <<"empty", x>>, EmptyMore(x))
  BY <1>2, <1>3, ReadCases
<1>4. CASE Does(c, <<"close_only", x>>, CloseOnlyMore(x))
  BY <1>2, <1>4, ReadCases
<1>5. CASE Does(c, <<"close", x>>, CloseMore(x))
  BY <1>2, <1>5, ReadCases
<1>6. ASSUME NEW k \in 1 .. cfg.num, x = cfg.ports[k],
             Does(c, <<"listed", k>>, ListedMore(k, x))
      PROVE  /\ name = "listed" /\ v \in 1 .. cfg.num /\ x = cfg.ports[v]
             /\ Goes(c, ListedMore(v, x) \o rest)
  BY <1>2, <1>6
<1> QED
  BY <1>1, <1>3, <1>4, <1>5, <1>6, ReadCases

(* Ring b is read in the loop of open and stop. *)
LEMMA EmptyEffect ==
  ASSUME Types, NEW c \in Ctx, NEW b \in Nat, NEW rest \in Seq(Access),
         todo[c] = Then(<<"empty", b>>, rest), AccessStep(c)
  PROVE  /\ b \in Buffers
         /\ Goes(c, Then(<<"write_back", b>>,
                         Then(<<"close_only", b>>, Onward("empty", b + 1, rest))))
         /\ Still
<1>1. <<"empty", b>> \in Access /\ 0 \in Nat
  BY DEF Access
<1>2. ReadRing(c)
  BY <1>1, StepOfHead DEF AccessStep
<1>3. Still /\ b \in Buffers /\ Goes(c, EmptyMore(b) \o rest)
  BY <1>1, <1>2, ReadOfHead
<1> QED
  BY <1>1, <1>3, MoreIs

(* Ring b is read to be closed. *)
LEMMA CloseOnlyEffect ==
  ASSUME Types, NEW c \in Ctx, NEW b \in Nat, NEW rest \in Seq(Access),
         todo[c] = Then(<<"close_only", b>>, rest), AccessStep(c)
  PROVE  Goes(c, Then(<<"clear", b>>, rest)) /\ Still
<1>1. <<"close_only", b>> \in Access /\ 0 \in Nat
  BY DEF Access
<1>2. ReadRing(c)
  BY <1>1, StepOfHead DEF AccessStep
<1>3. Still /\ b \in Buffers /\ Goes(c, CloseOnlyMore(b) \o rest)
  BY <1>1, <1>2, ReadOfHead
<1> QED
  BY <1>1, <1>3, MoreIs

(* Ring b is read in the loop of notify_change. *)
LEMMA CloseEffect ==
  ASSUME Types, NEW c \in Ctx, NEW b \in Nat, NEW rest \in Seq(Access),
         todo[c] = Then(<<"close", b>>, rest), AccessStep(c)
  PROVE  /\ b \in Buffers
         /\ Goes(c, Then(<<"clear", b>>, Onward("close", b + 1, rest)))
         /\ Still
<1>1. <<"close", b>> \in Access /\ 0 \in Nat
  BY DEF Access
<1>2. ReadRing(c)
  BY <1>1, StepOfHead DEF AccessStep
<1>3. Still /\ b \in Buffers /\ Goes(c, CloseMore(b) \o rest)
  BY <1>1, <1>2, ReadOfHead
<1> QED
  BY <1>1, <1>3, MoreIs

(* The i-th number of the list is due: its ring is read, or the list is    *)
(* done.                                                                   *)
LEMMA ListedEffect ==
  ASSUME Types, NEW c \in Ctx, NEW i \in Nat, NEW rest \in Seq(Access),
         todo[c] = Then(<<"listed", i>>, rest), AccessStep(c)
  PROVE  /\ Still
         /\ \/ i > cfg.num /\ Goes(c, rest)
            \/ /\ i \in 1 .. cfg.num /\ cfg.ports[i] \in Buffers
               /\ Goes(c, Then(<<"set", cfg.ports[i]>>,
                               Then(<<"listed", i + 1>>, rest)))
<1>1. <<"listed", i>> \in Access
  BY DEF Access
<1>2. ReadRing(c) \/ EndOfList(c)
  BY <1>1, StepOfHead DEF AccessStep
<1>3. CASE EndOfList(c)
  <2>1. PICK k \in 1 .. Slots + 1 : k > cfg.num /\ Does(c, <<"listed", k>>, << >>)
    BY <1>3 DEF EndOfList
  <2>2. <<"listed", k>> = <<"listed", i>> /\ Goes(c, << >> \o rest)
    BY <1>1, <2>1, HeadIs
  <2>3. << >> \o rest = rest
    BY ConcatEmptySeq
  <2> QED
    BY <1>3, <2>1, <2>2, <2>3 DEF EndOfList, Still, deviceVars, countVars
<1>4. CASE ReadRing(c)
  <2>1. /\ Still /\ i \in 1 .. cfg.num /\ cfg.ports[i] \in Buffers
        /\ Goes(c, ListedMore(i, cfg.ports[i]) \o rest)
    BY <1>1, <1>4, ReadOfHead
  <2> QED
    BY <2>1, MoreIs
<1> QED
  BY <1>2, <1>3, <1>4

(* The register of ring b is written. *)
LEMMA RingEffect ==
  ASSUME Types, NEW c \in Ctx, NEW name \in {"write_back", "clear", "set"},
         NEW b \in Nat, NEW rest \in Seq(Access),
         todo[c] = Then(<<name, b>>, rest), AccessStep(c)
  PROVE  /\ Goes(c, rest) /\ undone' = undone \ {b}
         /\ \E bit \in BOOLEAN :
              /\ open' = [open EXCEPT ![b] = bit]
              /\ (name = "clear" => ~bit) /\ (name = "set" => bit)
         /\ UNCHANGED << cfg, up, mem, res, regs, hw, overlap, shown >>
<1>1. <<name, b>> \in Access
  BY DEF Access
<1>2. WriteRing(c)
  BY <1>1, StepOfHead DEF AccessStep
<1>3. PICK x \in Buffers :
        /\ \E bit \in BOOLEAN :
             /\ open' = [open EXCEPT ![x] = bit]
             /\ \/ Does(c, <<"write_back", x>>, << >>)
                \/ Does(c, <<"clear", x>>, << >>) /\ ~bit
                \/ Does(c, <<"set", x>>, << >>) /\ bit
        /\ undone' = undone \ {x}
  BY <1>2 DEF WriteRing
<1>4. \A n, w : Does(c, <<n, w>>, << >>) => n = name /\ w = b /\ Goes(c, rest)
  <2> SUFFICES ASSUME NEW n, NEW w, Does(c, <<n, w>>, << >>)
               PROVE  n = name /\ w = b /\ Goes(c, rest)
    OBVIOUS
  <2>1. <<n, w>> = <<name, b>> /\ Goes(c, << >> \o rest)
    BY <1>1, HeadIs
  <2>2. << >> \o rest = rest
    BY ConcatEmptySeq
  <2> QED
    BY <2>1, <2>2
<1>5. x = b /\ Goes(c, rest)
  BY <1>3, <1>4
<1>6. \E bit \in BOOLEAN :
        /\ open' = [open EXCEPT ![b] = bit]
        /\ (name = "clear" => ~bit) /\ (name = "set" => bit)
  <2>1. PICK bit \in BOOLEAN :
          /\ open' = [open EXCEPT ![x] = bit]
          /\ \/ Does(c, <<"write_back", x>>, << >>)
             \/ Does(c, <<"clear", x>>, << >>) /\ ~bit
             \/ Does(c, <<"set", x>>, << >>) /\ bit
    BY <1>3
  <2>2. (name = "clear" => ~bit) /\ (name = "set" => bit)
    BY <1>4, <2>1
  <2> QED
    BY <1>5, <2>1, <2>2
<1> QED
  BY <1>2, <1>3, <1>5, <1>6 DEF WriteRing

(* Memory is allocated, or open returns without. *)
LEMMA AllocEffect ==
  ASSUME Types, NEW c \in Ctx, NEW rest \in Seq(Access),
         todo[c] = Then(<<"alloc", 0>>, rest), AccessStep(c)
  PROVE  /\ UNCHANGED << cfg, up, res, regs, open, hw, undone, shown >>
         /\ \/ Goes(c, rest) /\ mem' # 0 /\ overlap' = overlap
            \/ Goes(c, << >>) /\ mem' = mem /\ overlap'
<1>1. <<"alloc", 0>> \in Access
  BY DEF Access
<1>2. Alloc(c) \/ OutOfMemory(c)
  BY <1>1, StepOfHead DEF AccessStep
<1>3. CASE Alloc(c)
  <2>1. Goes(c, << >> \o rest)
    BY <1>1, <1>3, HeadIs DEF Alloc
  <2>2. << >> \o rest = rest
    BY ConcatEmptySeq
  <2>3. mem' # 0
    BY <1>3 DEF Alloc, Types, DriverTypes
  <2> QED
    BY <1>3, <2>1, <2>2, <2>3 DEF Alloc, deviceVars
<1>4. CASE OutOfMemory(c)
  BY <1>4 DEF OutOfMemory, Goes, deviceVars
<1> QED
  BY <1>2, <1>3, <1>4

(* Memory is freed. *)
LEMMA FreeEffect ==
  ASSUME Types, NEW c \in Ctx, NEW rest \in Seq(Access),
         todo[c] = Then(<<"free", 0>>, rest), AccessStep(c)
  PROVE  /\ Goes(c, rest) /\ mem' = 0
         /\ UNCHANGED << cfg, up, res, regs, open, hw, overlap, undone, shown >>
<1>1. <<"free", 0>> \in Access
  BY DEF Access
<1>2. Free(c)
  BY <1>1, StepOfHead DEF AccessStep
<1>3. Goes(c, << >> \o rest)
  BY <1>1, <1>2, HeadIs DEF Free
<1>4. << >> \o rest = rest
  BY ConcatEmptySeq
<1> QED
  BY <1>2, <1>3, <1>4 DEF Free, deviceVars, countVars

(* Open and stop end. *)
LEMMA UpDownEffect ==
  ASSUME Types, NEW c \in Ctx, NEW name \in {"up", "down"},
         todo[c] = Then(<<name, 0>>, << >>), AccessStep(c)
  PROVE  /\ Goes(c, << >>)
         /\ name = "up" => up' = TRUE /\ shown' = TRUE
         /\ name = "down" => up' = FALSE /\ shown' = shown
         /\ UNCHANGED << cfg, mem, res, regs, open, hw, overlap, undone >>
<1>1. <<name, 0>> \in Access /\ << >> \in Seq(Access)
  BY DEF Access
<1>2. UpDown(c)
  BY <1>1, StepOfHead DEF AccessStep
<1>3. \A n : Does(c, <<n, 0>>, << >>) => n = name /\ Goes(c, << >>)
  <2> SUFFICES ASSUME NEW n, Does(c, <<n, 0>>, << >>)
               PROVE  n = name /\ Goes(c, << >>)
    OBVIOUS
  <2>1. <<n, 0>> = <<name, 0>> /\ Goes(c, << >> \o << >>)
    BY <1>1, HeadIs
  <2>2. << >> \o << >> = << >>
    BY <1>1, ConcatEmptySeq
  <2> QED
    BY <2>1, <2>2
<1> QED
  BY <1>2, <1>3 DEF UpDown, deviceVars

-----------------------------------------------------------------------------
(***************************************************************************)
(* The invariant of the calls.  Its parts about the reset, the open bits   *)
(* and the registers are for calls that run alone (~overlap); those about  *)
(* the memory hold whatever overlaps.                                      *)
(***************************************************************************)

(* No reset is due and what the registers hold has been taken over. *)
Sync ==
  res = 0 /\ ~hw.requested =>
    \A r \in DOMAIN Registers \ {"mac"} : hw.latched[r] = regs[r]

(* The open bits are those of the rings in S; below k there are none. *)
Bits(S) == \A b \in Buffers \ undone : open[b] <=> b \in S
ClosedBelow(k) == \A b \in Buffers \ undone : b < k => ~open[b]

(* The first n numbers of the list. *)
Ports(n) == { cfg.ports[j] : j \in 1 .. n }

Target == IF shown THEN Listed ELSE {}

(* A call that runs alone is between its two accesses to RES. *)
InReset == ~overlap => res = 1

(* The loop of open and stop, at ring b. *)
Emptying(s, b, rest) ==
  /\ \/ s = Then(<<"empty", b>>, rest)
     \/ s = Then(<<"write_back", b>>,
                 Then(<<"close_only", b>>, Onward("empty", b + 1, rest)))
     \/ s = Then(<<"close_only", b>>, Onward("empty", b + 1, rest))
     \/ s = Then(<<"clear", b>>, Onward("empty", b + 1, rest))
  /\ InReset /\ (~overlap => ClosedBelow(b))

(* The loop of notify_change, at ring b. *)
Closing(s, b, rest) ==
  /\ \/ s = Then(<<"close", b>>, rest)
     \/ s = Then(<<"clear", b>>, Onward("close", b + 1, rest))
  /\ InReset /\ (~overlap => ClosedBelow(b))

(* The loop over the list: the rings before the i-th number are open, or   *)
(* all but the last of them, which is being opened.                        *)
Listing(s, i, rest) ==
  \/ /\ s = Then(<<"listed", i>>, rest)
     /\ InReset
     /\ ~overlap => i \in 1 .. cfg.num + 1 /\ Bits(Ports(i - 1))
  \/ \E b \in Buffers :
       /\ s = Then(<<"set", b>>, Then(<<"listed", i>>, rest))
       /\ InReset
       /\ ~overlap =>
            /\ i \in 2 .. cfg.num + 1 /\ b = cfg.ports[i - 1]
            /\ \A x \in Buffers \ undone :
                 x # b => (open[x] <=> x \in Ports(i - 1))

(* The driver's memory is the one the device is told, and the interface is *)
(* up just when there is one.                                              *)
Settled == regs.shmem = mem /\ (up <=> mem # 0)
Given == ~up /\ mem # 0 /\ regs.shmem = mem
Taken == up /\ mem = 0 /\ regs.shmem = mem

Opening(s) ==
  \/ s = OpenCall /\ Settled /\ ~up
  \/ s = OpenAlloc /\ Settled /\ ~up /\ InReset
  \/ s = OpenMem /\ ~up /\ mem # 0 /\ InReset
  \/ s = OpenRange /\ Given /\ InReset
  \/ \E b \in Buffers : Emptying(s, b, OpenList) /\ Given
  \/ \E i \in 1 .. Slots + 1 : Listing(s, i, OpenEnd) /\ Given
  \/ s = OpenEnd /\ Given /\ InReset /\ (~overlap => Bits(Listed))
  \/ s = Then(<<"up", 0>>, << >>) /\ Given /\ (~overlap => Sync /\ Bits(Listed))

Stopping(s) ==
  /\ ~overlap => ~shown
  /\ \/ s = StopCall /\ Settled /\ up
     \/ s = StopFree /\ Settled /\ up /\ InReset
     \/ s = StopMem /\ up /\ mem = 0 /\ InReset
     \/ \E b \in Buffers : Emptying(s, b, StopEnd) /\ Taken
     \/ s = StopEnd /\ Taken /\ InReset /\ (~overlap => Bits({}))
     \/ s = Then(<<"down", 0>>, << >>) /\ Taken /\ (~overlap => Sync /\ Bits({}))

Changing(s) ==
  /\ Settled /\ (~overlap => Bits(Target))
  /\ \/ s = DownCall /\ (~overlap => Sync)
     \/ \E v, w \in Nat : s = UpCall(v, w) /\ (~overlap => Sync)
     \/ \E v, w \in Nat : s = Then(<<"ip", v>>, Then(<<"gw", w>>, UpEnd)) /\ InReset
     \/ \E w \in Nat : s = Then(<<"gw", w>>, UpEnd) /\ InReset
     \/ s = UpEnd /\ InReset

Notifying(s) ==
  /\ ~overlap => shown
  /\ \/ s = NotifyCall
     \/ \E b \in Buffers : Closing(s, b, NotifyList)
     \/ \E i \in 1 .. Slots + 1 : Listing(s, i, NotifyEnd)
     \/ s = NotifyEnd /\ InReset /\ (~overlap => Bits(Listed))
     \/ s = NotifyGw /\ InReset /\ (~overlap => Bits(Listed))
     \/ s = Then(<<"res", 0>>, << >>) /\ InReset /\ (~overlap => Bits(Listed))

RtnlState(s) ==
  \/ s = << >> /\ Settled
  \/ s # << >> /\ (Opening(s) \/ Stopping(s) \/ Changing(s))
DevlinkState(s) == s = << >> \/ (s # << >> /\ Notifying(s))

Rtnl == RtnlState(todo["rtnl"])
Devlink == DevlinkState(todo["devlink"])

(* Calls that do not overlap are made one at a time, and when there is     *)
(* none, the list is applied and no register waits for a reset.            *)
Alone ==
  /\ ~overlap => todo["rtnl"] = << >> \/ todo["devlink"] = << >>
  /\ ~overlap /\ NoCall => Sync /\ Bits(Target)

(* A request the device has seen a clock of is pending. *)
Seen == res = 1 /\ clocked => hw.requested

(* Before the interface can be called and after it is gone nothing is      *)
(* under way.                                                              *)
QuietSteps ==
  {"unbound", "devlink", "drvdata", "devmem", "region", "irq", "alloc",
   "rm_irq", "rm_devlink"}

Quiet ==
  /\ pc \in QuietSteps \/ (pc = "rm_notifier" /\ ~drvdata) => NoCall /\ ~up
  /\ pc \in {"rm_irq", "rm_devlink"} => ndev # "live"

CallInv == Rtnl /\ Devlink /\ Alone /\ Seen /\ Quiet

(* A call under way, as what is left of it. *)
UnderWay(s) == s \in Seq(Access) /\ s # << >>

(* Every list a call passes through is a call that is not over.            *)
LEMMA TailsUnderWay ==
  /\ UnderWay(OpenCall) /\ UnderWay(OpenAlloc) /\ UnderWay(OpenMem)
  /\ UnderWay(OpenRange) /\ UnderWay(Then(<<"empty", 0>>, OpenList))
  /\ UnderWay(OpenList) /\ UnderWay(OpenEnd) /\ UnderWay(Then(<<"up", 0>>, << >>))
  /\ UnderWay(StopCall) /\ UnderWay(StopFree) /\ UnderWay(StopMem)
  /\ UnderWay(Then(<<"empty", 0>>, StopEnd)) /\ UnderWay(StopEnd)
  /\ UnderWay(Then(<<"down", 0>>, << >>))
  /\ UnderWay(NotifyCall) /\ UnderWay(Then(<<"close", 0>>, NotifyList))
  /\ UnderWay(NotifyList) /\ UnderWay(NotifyEnd) /\ UnderWay(NotifyGw)
  /\ UnderWay(UpEnd) /\ UnderWay(DownCall)
  /\ \A v, w \in Nat :
       /\ UnderWay(UpCall(v, w)) /\ UnderWay(Then(<<"gw", w>>, UpEnd))
       /\ UnderWay(Then(<<"ip", v>>, Then(<<"gw", w>>, UpEnd)))
<1>1. \A a \in Access : \A rest \in Seq(Access) : UnderWay(Then(a, rest))
  BY ThenFacts DEF UnderWay
<1>2. \A s : UnderWay(s) => s \in Seq(Access)
  BY DEF UnderWay
<1>3. << >> \in Seq(Access)
  OBVIOUS
<1>4. /\ <<"res", 0>> \in Access /\ <<"res", 1>> \in Access
      /\ <<"alloc", 0>> \in Access /\ <<"free", 0>> \in Access
      /\ <<"shmem", 0>> \in Access /\ <<"range", 0>> \in Access
      /\ <<"own_gw", 0>> \in Access /\ <<"empty", 0>> \in Access
      /\ <<"close", 0>> \in Access /\ <<"listed", 1>> \in Access
      /\ <<"up", 0>> \in Access /\ <<"down", 0>> \in Access
  BY DEF Access
<1>5. UnderWay(Then(<<"up", 0>>, << >>)) /\ UnderWay(OpenEnd)
  BY <1>1, <1>2, <1>3, <1>4 DEF OpenEnd
<1>6. UnderWay(OpenList) /\ UnderWay(Then(<<"empty", 0>>, OpenList))
  BY <1>1, <1>2, <1>4, <1>5 DEF OpenList
<1>7. UnderWay(OpenRange) /\ UnderWay(OpenMem)
  BY <1>1, <1>2, <1>4, <1>6 DEF OpenRange, OpenMem
<1>8. UnderWay(OpenAlloc) /\ UnderWay(OpenCall)
  BY <1>1, <1>2, <1>4, <1>7, CallsSpelled DEF OpenAlloc
<1>9. UnderWay(Then(<<"down", 0>>, << >>)) /\ UnderWay(StopEnd)
  BY <1>1, <1>2, <1>3, <1>4 DEF StopEnd
<1>10. UnderWay(Then(<<"empty", 0>>, StopEnd)) /\ UnderWay(StopMem)
  BY <1>1, <1>2, <1>4, <1>9 DEF StopMem
<1>11. UnderWay(StopFree) /\ UnderWay(StopCall)
  BY <1>1, <1>2, <1>4, <1>10, CallsSpelled DEF StopFree
<1>12. UnderWay(UpEnd) /\ UnderWay(NotifyGw) /\ UnderWay(DownCall)
  BY <1>1, <1>2, <1>3, <1>4, CallsSpelled DEF UpEnd, NotifyGw
<1>13. UnderWay(NotifyEnd) /\ UnderWay(NotifyList)
  BY <1>1, <1>2, <1>4, <1>12 DEF NotifyEnd, NotifyList
<1>14. UnderWay(Then(<<"close", 0>>, NotifyList)) /\ UnderWay(NotifyCall)
  BY <1>1, <1>2, <1>4, <1>13, CallsSpelled
<1>15. ASSUME NEW v \in Nat, NEW w \in Nat
       PROVE  /\ UnderWay(UpCall(v, w)) /\ UnderWay(Then(<<"gw", w>>, UpEnd))
              /\ UnderWay(Then(<<"ip", v>>, Then(<<"gw", w>>, UpEnd)))
  <2>1. <<"ip", v>> \in Access /\ <<"gw", w>> \in Access
    BY DEF Access
  <2>2. UnderWay(Then(<<"gw", w>>, UpEnd))
    BY <1>1, <1>2, <1>12, <2>1
  <2>3. UnderWay(Then(<<"ip", v>>, Then(<<"gw", w>>, UpEnd)))
    BY <1>1, <1>2, <2>1, <2>2
  <2>4. UnderWay(UpCall(v, w))
    BY <1>1, <1>2, <1>4, <2>3, CallsSpelled
  <2> QED
    BY <2>2, <2>3, <2>4
<1> QED
  BY <1>5, <1>6, <1>7, <1>8, <1>9, <1>10, <1>11, <1>12, <1>13, <1>14, <1>15

-----------------------------------------------------------------------------
(***************************************************************************)
(* The loops.                                                              *)
(***************************************************************************)

(* What a loop over the rings leaves alone: all but the open bits. *)
RingsOnly == UNCHANGED << cfg, up, mem, res, regs, hw, overlap, shown >>

(* A written ring is one the list decides on again. *)
LEMMA RingWritten ==
  ASSUME Types, NEW b \in Buffers, NEW bit \in BOOLEAN,
         open' = [open EXCEPT ![b] = bit], undone' = undone \ {b}
  PROVE  /\ open'[b] = bit
         /\ \A x \in Buffers \ undone' : x # b => x \notin undone /\ open'[x] = open[x]
         /\ ClosedBelow(b) => ClosedBelow(b)'
         /\ ClosedBelow(b) /\ ~bit => ClosedBelow(b + 1)'
         /\ ClosedBelow(b) /\ ~bit /\ b + 1 > LastBuffer => Bits({})'
<1>1. open \in [Buffers -> BOOLEAN]
  BY DEF Types, DeviceTypes
<1>2. open'[b] = bit
  BY <1>1
<1>3. ASSUME NEW x \in Buffers \ undone', x # b
      PROVE  x \notin undone /\ open'[x] = open[x]
  BY <1>1, <1>3
<1>4. b \in Nat /\ LastBuffer \in Nat /\ \A x \in Buffers : x \in Nat /\ x <= LastBuffer
  BY ControlAssumption DEF Buffers
<1>5. ClosedBelow(b) => ClosedBelow(b)'
  BY <1>3, <1>4 DEF ClosedBelow
<1>6. ClosedBelow(b) /\ ~bit => ClosedBelow(b + 1)'
  BY <1>2, <1>3, <1>4 DEF ClosedBelow
<1>7. ClosedBelow(b) /\ ~bit /\ b + 1 > LastBuffer => Bits({})'
  BY <1>2, <1>3, <1>4 DEF ClosedBelow, Bits
<1> QED
  BY <1>2, <1>3, <1>5, <1>6, <1>7

(* An access in the loop of open and stop: the loop goes on, or the rings  *)
(* are all closed and the call goes on with rest.                          *)
LEMMA EmptyingStep ==
  ASSUME Types, NEW c \in Ctx, NEW b \in Buffers, NEW rest \in Seq(Access),
         Emptying(todo[c], b, rest), AccessStep(c)
  PROVE  /\ RingsOnly
         /\ \E s : /\ Goes(c, s)
                   /\ \/ s # << >> /\ \E k \in Buffers : Emptying(s, k, rest)'
                      \/ s = rest /\ InReset' /\ (~overlap' => Bits({})')
<1> DEFINE next == Onward("empty", b + 1, rest)
<1>1. /\ b \in Nat /\ b + 1 \in Nat /\ "empty" \in {"empty", "close"}
      /\ b + 1 <= LastBuffer => b + 1 \in Buffers
  BY ControlAssumption DEF Buffers
<1>2. /\ <<"empty", b + 1>> \in Access /\ <<"write_back", b>> \in Access
      /\ <<"close_only", b>> \in Access /\ <<"clear", b>> \in Access
  BY <1>1 DEF Access
<1>3. next \in Seq(Access)
  BY <1>1, <1>2, MoreThen
<1>4. /\ b + 1 > LastBuffer => next = rest
      /\ b + 1 <= LastBuffer => next = Then(<<"empty", b + 1>>, rest)
  BY <1>1, ControlAssumption DEF Onward
<1> HIDE DEF next
<1>5. /\ Then(<<"close_only", b>>, next) \in Seq(Access)
      /\ Then(<<"close_only", b>>, next) # << >> /\ Then(<<"clear", b>>, next) # << >>
      /\ Then(<<"write_back", b>>, Then(<<"close_only", b>>, next)) # << >>
      /\ Then(<<"empty", b + 1>>, rest) # << >>
  BY <1>2, <1>3, ThenFacts
<1>6. CASE todo[c] = Then(<<"empty", b>>, rest)
  <2> DEFINE s == Then(<<"write_back", b>>, Then(<<"close_only", b>>, next))
  <2>1. Goes(c, s) /\ Still
    BY <1>1, <1>6, EmptyEffect DEF next
  <2>2. Emptying(s, b, rest)'
    BY <2>1 DEF Emptying, InReset, ClosedBelow, Still, next
  <2> QED
    BY <1>5, <2>1, <2>2 DEF Still, RingsOnly
<1>7. CASE todo[c] = Then(<<"write_back", b>>, Then(<<"close_only", b>>, next))
  <2> DEFINE s == Then(<<"close_only", b>>, next)
  <2>1. PICK bit \in BOOLEAN : open' = [open EXCEPT ![b] = bit]
    BY <1>1, <1>5, <1>7, RingEffect
  <2>2. Goes(c, s) /\ undone' = undone \ {b} /\ RingsOnly
    BY <1>1, <1>5, <1>7, RingEffect DEF RingsOnly
  <2>3. Emptying(s, b, rest)'
    BY <2>1, <2>2, RingWritten DEF Emptying, InReset, RingsOnly, next
  <2> QED
    BY <1>5, <2>2, <2>3
<1>8. CASE todo[c] = Then(<<"close_only", b>>, next)
  <2> DEFINE s == Then(<<"clear", b>>, next)
  <2>1. Goes(c, s) /\ Still
    BY <1>1, <1>3, <1>8, CloseOnlyEffect
  <2>2. Emptying(s, b, rest)'
    BY <2>1 DEF Emptying, InReset, ClosedBelow, Still, next
  <2> QED
    BY <1>5, <2>1, <2>2 DEF Still, RingsOnly
<1>9. CASE todo[c] = Then(<<"clear", b>>, next)
  <2>1. PICK bit \in BOOLEAN : open' = [open EXCEPT ![b] = bit] /\ ~bit
    BY <1>1, <1>3, <1>9, RingEffect
  <2>2. Goes(c, next) /\ undone' = undone \ {b} /\ RingsOnly
    BY <1>1, <1>3, <1>9, RingEffect DEF RingsOnly
  <2>3. /\ ~overlap' => ClosedBelow(b + 1)'
        /\ ~overlap' /\ b + 1 > LastBuffer => Bits({})'
        /\ InReset'
    BY <2>1, <2>2, RingWritten DEF Emptying, InReset, RingsOnly
  <2>4. CASE b + 1 > LastBuffer
    BY <1>4, <2>2, <2>3, <2>4
  <2>5. CASE b + 1 <= LastBuffer
    <3>1. Emptying(next, b + 1, rest)' /\ b + 1 \in Buffers
      BY <1>1, <1>4, <2>3, <2>5 DEF Emptying
    <3> QED
      BY <1>4, <1>5, <2>2, <2>5, <3>1
  <2> QED
    BY <1>1, <2>4, <2>5, ControlAssumption
<1> QED
  BY <1>6, <1>7, <1>8, <1>9 DEF Emptying, next

(* The same for the loop of notify_change. *)
LEMMA ClosingStep ==
  ASSUME Types, NEW c \in Ctx, NEW b \in Buffers, NEW rest \in Seq(Access),
         Closing(todo[c], b, rest), AccessStep(c)
  PROVE  /\ RingsOnly
         /\ \E s : /\ Goes(c, s)
                   /\ \/ s # << >> /\ \E k \in Buffers : Closing(s, k, rest)'
                      \/ s = rest /\ InReset' /\ (~overlap' => Bits({})')
<1> DEFINE next == Onward("close", b + 1, rest)
<1>1. /\ b \in Nat /\ b + 1 \in Nat /\ "close" \in {"empty", "close"}
      /\ b + 1 <= LastBuffer => b + 1 \in Buffers
  BY ControlAssumption DEF Buffers
<1>2. <<"close", b + 1>> \in Access /\ <<"clear", b>> \in Access
  BY <1>1 DEF Access
<1>3. next \in Seq(Access)
  BY <1>1, <1>2, MoreThen
<1>4. /\ b + 1 > LastBuffer => next = rest
      /\ b + 1 <= LastBuffer => next = Then(<<"close", b + 1>>, rest)
  BY <1>1, ControlAssumption DEF Onward
<1> HIDE DEF next
<1>5. Then(<<"clear", b>>, next) # << >> /\ Then(<<"close", b + 1>>, rest) # << >>
  BY <1>2, <1>3, ThenFacts
<1>6. CASE todo[c] = Then(<<"close", b>>, rest)
  <2> DEFINE s == Then(<<"clear", b>>, next)
  <2>1. Goes(c, s) /\ Still
    BY <1>1, <1>6, CloseEffect DEF next
  <2>2. Closing(s, b, rest)'
    BY <2>1 DEF Closing, InReset, ClosedBelow, Still, next
  <2> QED
    BY <1>5, <2>1, <2>2 DEF Still, RingsOnly
<1>7. CASE todo[c] = Then(<<"clear", b>>, next)
  <2>1. PICK bit \in BOOLEAN : open' = [open EXCEPT ![b] = bit] /\ ~bit
    BY <1>1, <1>3, <1>7, RingEffect
  <2>2. Goes(c, next) /\ undone' = undone \ {b} /\ RingsOnly
    BY <1>1, <1>3, <1>7, RingEffect DEF RingsOnly
  <2>3. /\ ~overlap' => ClosedBelow(b + 1)'
        /\ ~overlap' /\ b + 1 > LastBuffer => Bits({})'
        /\ InReset'
    BY <2>1, <2>2, RingWritten DEF Closing, InReset, RingsOnly
  <2>4. CASE b + 1 > LastBuffer
    BY <1>4, <2>2, <2>3, <2>4
  <2>5. CASE b + 1 <= LastBuffer
    <3>1. Closing(next, b + 1, rest)' /\ b + 1 \in Buffers
      BY <1>1, <1>4, <2>3, <2>5 DEF Closing
    <3> QED
      BY <1>4, <1>5, <2>2, <2>5, <3>1
  <2> QED
    BY <1>1, <2>4, <2>5, ControlAssumption
<1> QED
  BY <1>6, <1>7 DEF Closing, next

(* The rings of the list grow by the next number, and are those of the     *)
(* whole list at its end.                                                  *)
LEMMA PortsGrow ==
  ASSUME Types, NEW i \in 1 .. cfg.num
  PROVE  /\ Ports(i) = Ports(i - 1) \cup {cfg.ports[i]}
         /\ Ports(cfg.num) = Listed /\ Ports(0) = {}
<1>1. cfg.num \in Nat /\ i \in Nat /\ i - 1 + 1 = i
  BY DEF Types, DriverTypes, ConfigType
<1>2. 1 .. i = (1 .. i - 1) \cup {i} /\ 1 .. 0 = {}
  BY <1>1
<1> QED
  BY <1>1, <1>2 DEF Ports, Listed

(* An access in the loop over the list: the loop goes on, or the list is   *)
(* applied and the call goes on with rest.                                 *)
LEMMA ListingStep ==
  ASSUME Types, NEW c \in Ctx, NEW i \in 1 .. Slots + 1, NEW rest \in Seq(Access),
         Listing(todo[c], i, rest), AccessStep(c)
  PROVE  /\ RingsOnly
         /\ \E s : /\ Goes(c, s)
                   /\ \/ s # << >> /\ \E k \in 1 .. Slots + 1 : Listing(s, k, rest)'
                      \/ s = rest /\ InReset' /\ (~overlap' => Bits(Listed)')
<1>1. Slots \in Nat /\ i \in Nat /\ i + 1 \in Nat /\ i + 1 - 1 = i
  BY ControlAssumption
<1>2. cfg.num \in Nat /\ cfg.num \in 1 .. Slots
  BY DEF Types, DriverTypes, ConfigType
<1>3. <<"listed", i>> \in Access /\ <<"listed", i + 1>> \in Access
  BY <1>1 DEF Access
<1>4. /\ Then(<<"listed", i>>, rest) \in Seq(Access)
      /\ Then(<<"listed", i>>, rest) # << >>
      /\ Then(<<"listed", i + 1>>, rest) \in Seq(Access)
  BY <1>3, ThenFacts
<1>5. CASE /\ todo[c] = Then(<<"listed", i>>, rest)
           /\ InReset
           /\ ~overlap => i \in 1 .. cfg.num + 1 /\ Bits(Ports(i - 1))
  <2>1. Still
    BY <1>1, <1>5, ListedEffect
  <2>2. InReset'
    BY <1>5, <2>1 DEF InReset, Still
  <2>3. CASE i > cfg.num /\ Goes(c, rest)
    <3>1. ASSUME ~overlap PROVE Bits(Listed)'
      <4>1. i - 1 = cfg.num /\ cfg.num \in 1 .. cfg.num
        BY <1>2, <1>5, <2>3, <3>1
      <4>2. Bits(Listed)
        BY <1>5, <3>1, <4>1, PortsGrow
      <4> QED
        BY <2>1, <4>2 DEF Bits, Listed, Still
    <3> QED
      BY <2>1, <2>2, <2>3, <3>1 DEF Still, RingsOnly
  <2>4. CASE /\ i \in 1 .. cfg.num /\ cfg.ports[i] \in Buffers
             /\ Goes(c, Then(<<"set", cfg.ports[i]>>,
                             Then(<<"listed", i + 1>>, rest)))
    <3>1. PICK b \in Buffers : b = cfg.ports[i]
      BY <2>4
    <3> DEFINE s == Then(<<"set", b>>, Then(<<"listed", i + 1>>, rest))
    <3>2. i \in 1 .. cfg.num /\ Goes(c, s)
      BY <2>4, <3>1
    <3>3. i + 1 \in 1 .. Slots + 1
      BY <1>1, <1>2, <3>2
    <3>4. ASSUME ~overlap
          PROVE  /\ i + 1 \in 2 .. cfg.num + 1
                 /\ \A x \in Buffers \ undone : x # b => (open[x] <=> x \in Ports(i))
      <4>1. Bits(Ports(i - 1)) /\ Ports(i) = Ports(i - 1) \cup {b}
        BY <1>5, <3>1, <3>4, <3>2, PortsGrow
      <4> QED
        BY <1>2, <3>2, <4>1 DEF Bits
    <3>5. Listing(s, i + 1, rest)'
      <4>1. cfg' = cfg /\ open' = open /\ undone' = undone /\ overlap' = overlap
        BY <2>1 DEF Still
      <4>2. ~overlap' => /\ i + 1 \in 2 .. cfg'.num + 1 /\ b = cfg'.ports[i + 1 - 1]
                         /\ \A x \in Buffers \ undone' :
                              x # b => (open'[x] <=> x \in Ports(i + 1 - 1)')
        BY <1>1, <3>1, <3>4, <4>1 DEF Ports
      <4> QED
        BY <2>2, <4>2 DEF Listing
    <3>6. s # << >>
      <4>1. <<"set", b>> \in Access
        BY DEF Access, Buffers
      <4> QED
        BY <1>4, <4>1, ThenFacts
    <3> QED
      BY <2>1, <3>3, <3>5, <3>6, <3>2 DEF Still, RingsOnly
  <2> QED
    BY <1>1, <1>5, <2>3, <2>4, ListedEffect
<1>6. ASSUME NEW b \in Buffers,
             todo[c] = Then(<<"set", b>>, Then(<<"listed", i>>, rest)),
             InReset,
             ~overlap =>
               /\ i \in 2 .. cfg.num + 1 /\ b = cfg.ports[i - 1]
               /\ \A x \in Buffers \ undone :
                    x # b => (open[x] <=> x \in Ports(i - 1))
      PROVE  /\ RingsOnly
             /\ \E s : Goes(c, s) /\ s # << >> /\ Listing(s, i, rest)'
  <2> DEFINE s == Then(<<"listed", i>>, rest)
  <2>1. b \in Nat
    BY DEF Buffers
  <2>2. PICK bit \in BOOLEAN : open' = [open EXCEPT ![b] = bit] /\ bit
    BY <1>4, <1>6, <2>1, RingEffect
  <2>3. Goes(c, s) /\ undone' = undone \ {b} /\ RingsOnly
    BY <1>4, <1>6, <2>1, RingEffect DEF RingsOnly
  <2>4. ASSUME ~overlap PROVE i \in 1 .. cfg.num + 1 /\ Bits(Ports(i - 1))'
    <3>1. i \in 2 .. cfg.num + 1 /\ b = cfg.ports[i - 1]
      BY <1>6, <2>4
    <3>2. b \in Ports(i - 1) /\ i \in 1 .. cfg.num + 1
      <4>1. i - 1 \in 1 .. i - 1
        BY <1>2, <3>1
      <4> QED
        BY <1>2, <3>1, <4>1 DEF Ports
    <3>3. open'[b] /\ \A x \in Buffers \ undone' :
                        x # b => x \notin undone /\ open'[x] = open[x]
      BY <2>2, <2>3, RingWritten
    <3>4. \A x \in Buffers \ undone' : open'[x] <=> x \in Ports(i - 1)
      BY <1>6, <2>4, <3>2, <3>3
    <3> QED
      BY <2>3, <3>2, <3>4 DEF Bits, Ports, RingsOnly
  <2>5. Listing(s, i, rest)'
    BY <1>6, <2>3, <2>4 DEF Listing, InReset, RingsOnly
  <2> QED
    BY <1>4, <2>3, <2>5
<1> QED
  BY <1>5, <1>6 DEF Listing

-----------------------------------------------------------------------------
(***************************************************************************)
(* The calls, access by access.                                            *)
(***************************************************************************)

(* A call that ends alone leaves the list applied and no write behind that *)
(* no reset follows.                                                       *)
Ends(s) == s = << >> /\ ~overlap => Sync /\ Bits(Target)

(* After the last write of RES a reset is due. *)
LEMMA ResetDue ==
  ASSUME Types, NEW c \in Ctx, NEW rest \in Seq(Access), Seen, InReset,
         todo[c] = Then(<<"res", 0>>, rest), AccessStep(c)
  PROVE  /\ Goes(c, rest) /\ (~overlap' => Sync')
         /\ UNCHANGED << cfg, up, mem, regs, open, hw, overlap, undone, shown >>
<1>1. /\ Goes(c, rest) /\ res' = 0 /\ clocked
      /\ UNCHANGED << cfg, up, mem, regs, open, hw, overlap, undone, shown >>
  BY ResEffect
<1>2. ~overlap => hw.requested
  BY <1>1 DEF InReset, Seen
<1> QED
  BY <1>1, <1>2 DEF Sync

(* An access of open. *)
LEMMA OpeningStep ==
  ASSUME Types, Seen, Opening(todo["rtnl"]), AccessStep("rtnl")
  PROVE  /\ overlap => overlap'
         /\ \E s : Goes("rtnl", s) /\ RtnlState(s)' /\ Ends(s)'
<1> DEFINE c == "rtnl"
<1>0. c \in Ctx /\ 0 \in Nat /\ 1 \in Nat /\ 0 \in Buffers /\ 1 \in 1 .. Slots + 1
      /\ << >> \in Seq(Access) /\ cfg.num \in Nat
  BY ControlAssumption DEF Ctx, Buffers, Types, DriverTypes, ConfigType
<1> HIDE DEF c
<1>1. CASE todo[c] = OpenCall /\ Settled /\ ~up
  <2>1. OpenAlloc \in Seq(Access) /\ OpenAlloc # << >>
    BY TailsUnderWay DEF UnderWay
  <2>2. /\ Goes(c, OpenAlloc) /\ res' = 1
        /\ UNCHANGED << cfg, up, mem, regs, open, hw, overlap, undone, shown >>
    BY <1>0, <1>1, <2>1, CallsSpelled, ResEffect DEF c
  <2>3. Opening(OpenAlloc)'
    BY <1>1, <2>2 DEF Opening, Settled, InReset
  <2> QED
    BY <2>1, <2>2, <2>3 DEF RtnlState, Ends, c
<1>2. CASE todo[c] = OpenAlloc /\ Settled /\ ~up /\ InReset
  <2>1. OpenMem \in Seq(Access) /\ OpenMem # << >>
    BY TailsUnderWay DEF UnderWay
  <2>2. /\ UNCHANGED << cfg, up, res, regs, open, hw, undone, shown >>
        /\ \/ Goes(c, OpenMem) /\ mem' # 0 /\ overlap' = overlap
           \/ Goes(c, << >>) /\ mem' = mem /\ overlap'
    BY <1>0, <1>2, <2>1, AllocEffect DEF OpenAlloc, c
  <2>3. CASE Goes(c, OpenMem) /\ mem' # 0 /\ overlap' = overlap
    <3>1. Opening(OpenMem)'
      BY <1>2, <2>2, <2>3 DEF Opening, InReset
    <3> QED
      BY <2>1, <2>3, <3>1 DEF RtnlState, Ends, c
  <2>4. CASE Goes(c, << >>) /\ mem' = mem /\ overlap'
    BY <1>2, <2>2, <2>4 DEF RtnlState, Ends, Settled, c
  <2> QED
    BY <2>2, <2>3, <2>4
<1>3. CASE todo[c] = OpenMem /\ ~up /\ mem # 0 /\ InReset
  <2>1. OpenRange \in Seq(Access) /\ OpenRange # << >>
    BY TailsUnderWay DEF UnderWay
  <2>2. /\ Goes(c, OpenRange) /\ regs'.shmem = mem
        /\ UNCHANGED << cfg, up, mem, res, open, hw, overlap, undone, shown >>
    BY <1>0, <1>3, <2>1, ConfigEffect DEF OpenMem, c
  <2>3. Opening(OpenRange)'
    BY <1>3, <2>2 DEF Opening, Given, InReset
  <2> QED
    BY <2>1, <2>2, <2>3 DEF RtnlState, Ends, c
<1>4. CASE todo[c] = OpenRange /\ Given /\ InReset
  <2> DEFINE s == Then(<<"empty", 0>>, OpenList)
  <2>1. s \in Seq(Access) /\ s # << >>
    BY TailsUnderWay DEF UnderWay
  <2>2. /\ Goes(c, s) /\ regs'.shmem = regs.shmem
        /\ UNCHANGED << cfg, up, mem, res, open, hw, overlap, undone, shown >>
    BY <1>0, <1>4, <2>1, ConfigEffect DEF OpenRange, c
  <2>3. Emptying(s, 0, OpenList)'
    BY <1>4, <2>2 DEF Emptying, InReset, ClosedBelow, Buffers
  <2>4. Given'
    BY <1>4, <2>2 DEF Given
  <2> HIDE DEF s
  <2>5. Opening(s)'
    BY <1>0, <2>3, <2>4 DEF Opening
  <2> QED
    BY <2>1, <2>2, <2>5 DEF RtnlState, Ends, c
<1>5. ASSUME NEW b \in Buffers, Emptying(todo[c], b, OpenList), Given
      PROVE  /\ overlap => overlap'
             /\ \E s : Goes("rtnl", s) /\ RtnlState(s)' /\ Ends(s)'
  <2>1. OpenList \in Seq(Access) /\ OpenList # << >>
    BY TailsUnderWay DEF UnderWay
  <2>2. RingsOnly
    BY <1>0, <1>5, <2>1, EmptyingStep DEF c
  <2>3. PICK s : /\ Goes(c, s)
                 /\ \/ s # << >> /\ \E k \in Buffers : Emptying(s, k, OpenList)'
                    \/ s = OpenList /\ InReset' /\ (~overlap' => Bits({})')
    BY <1>0, <1>5, <2>1, EmptyingStep DEF c
  <2>4. Given'
    BY <1>5, <2>2 DEF RingsOnly, Given
  <2>5. CASE s = OpenList /\ InReset' /\ (~overlap' => Bits({})')
    <3>1. Ports(0)' = {} /\ 1 - 1 = 0 /\ 1 \in 1 .. cfg'.num + 1
      BY <1>0, <2>2 DEF Ports, RingsOnly
    <3>2. Listing(s, 1, OpenEnd)'
      BY <2>5, <3>1 DEF Listing, OpenList, Bits
    <3>3. Opening(s)'
      BY <1>0, <2>4, <3>2 DEF Opening
    <3> QED
      BY <2>1, <2>2, <2>3, <2>5, <3>3 DEF RtnlState, Ends, RingsOnly, c
  <2>6. CASE s # << >> /\ \E k \in Buffers : Emptying(s, k, OpenList)'
    <3>1. Opening(s)'
      BY <2>4, <2>6 DEF Opening
    <3> QED
      BY <2>2, <2>3, <2>6, <3>1 DEF RtnlState, Ends, RingsOnly, c
  <2> QED
    BY <2>3, <2>5, <2>6
<1>6. ASSUME NEW i \in 1 .. Slots + 1, Listing(todo[c], i, OpenEnd), Given
      PROVE  /\ overlap => overlap'
             /\ \E s : Goes("rtnl", s) /\ RtnlState(s)' /\ Ends(s)'
  <2>1. OpenEnd \in Seq(Access) /\ OpenEnd # << >>
    BY TailsUnderWay DEF UnderWay
  <2>2. RingsOnly
    BY <1>0, <1>6, <2>1, ListingStep DEF c
  <2>3. PICK s : /\ Goes(c, s)
                 /\ \/ s # << >> /\ \E k \in 1 .. Slots + 1 : Listing(s, k, OpenEnd)'
                    \/ s = OpenEnd /\ InReset' /\ (~overlap' => Bits(Listed)')
    BY <1>0, <1>6, <2>1, ListingStep DEF c
  <2>4. Given'
    BY <1>6, <2>2 DEF RingsOnly, Given
  <2>5. Opening(s)' /\ s # << >>
    BY <2>1, <2>3, <2>4 DEF Opening
  <2> QED
    BY <2>2, <2>3, <2>5 DEF RtnlState, Ends, RingsOnly, c
<1>7. CASE todo[c] = OpenEnd /\ Given /\ InReset /\ (~overlap => Bits(Listed))
  <2> DEFINE s == Then(<<"up", 0>>, << >>)
  <2>1. s \in Seq(Access) /\ s # << >>
    BY TailsUnderWay DEF UnderWay
  <2>2. /\ Goes(c, s) /\ (~overlap' => Sync')
        /\ UNCHANGED << cfg, up, mem, regs, open, hw, overlap, undone, shown >>
    BY <1>0, <1>7, <2>1, ResetDue DEF OpenEnd, c
  <2>3. Opening(s)'
    BY <1>7, <2>2 DEF Opening, Given, Bits, Listed
  <2> HIDE DEF s
  <2> QED
    BY <2>1, <2>2, <2>3 DEF RtnlState, Ends, c
<1>8. CASE /\ todo[c] = Then(<<"up", 0>>, << >>) /\ Given
           /\ ~overlap => Sync /\ Bits(Listed)
  <2>1. /\ Goes(c, << >>) /\ up' = TRUE /\ shown' = TRUE
        /\ UNCHANGED << cfg, mem, res, regs, open, hw, overlap, undone >>
    BY <1>0, <1>8, UpDownEffect DEF c
  <2>2. RtnlState(<< >>)'
    BY <1>8, <2>1 DEF RtnlState, Given, Settled
  <2>3. Ends(<< >>)'
    BY <1>8, <2>1 DEF Ends, Sync, Bits, Target, Listed
  <2> QED
    BY <2>1, <2>2, <2>3 DEF c
<1> QED
  BY <1>1, <1>2, <1>3, <1>4, <1>5, <1>6, <1>7, <1>8 DEF Opening, c

(* An access of stop. *)
LEMMA StoppingStep ==
  ASSUME Types, Seen, Stopping(todo["rtnl"]), AccessStep("rtnl")
  PROVE  /\ overlap => overlap'
         /\ \E s : Goes("rtnl", s) /\ RtnlState(s)' /\ Ends(s)'
<1> DEFINE c == "rtnl"
<1>0. /\ c \in Ctx /\ 0 \in Nat /\ 1 \in Nat /\ 0 \in Buffers /\ << >> \in Seq(Access)
      /\ ~overlap => ~shown
  BY ControlAssumption DEF Ctx, Buffers, Stopping
<1> HIDE DEF c
<1>1. CASE todo[c] = StopCall /\ Settled /\ up
  <2>1. StopFree \in Seq(Access) /\ StopFree # << >>
    BY TailsUnderWay DEF UnderWay
  <2>2. /\ Goes(c, StopFree) /\ res' = 1
        /\ UNCHANGED << cfg, up, mem, regs, open, hw, overlap, undone, shown >>
    BY <1>0, <1>1, <2>1, CallsSpelled, ResEffect DEF c
  <2>3. Stopping(StopFree)'
    BY <1>0, <1>1, <2>2 DEF Stopping, Settled, InReset
  <2> QED
    BY <2>1, <2>2, <2>3 DEF RtnlState, Ends, c
<1>2. CASE todo[c] = StopFree /\ Settled /\ up /\ InReset
  <2>1. StopMem \in Seq(Access) /\ StopMem # << >>
    BY TailsUnderWay DEF UnderWay
  <2>2. /\ Goes(c, StopMem) /\ mem' = 0
        /\ UNCHANGED << cfg, up, res, regs, open, hw, overlap, undone, shown >>
    BY <1>0, <1>2, <2>1, FreeEffect DEF StopFree, c
  <2>3. Stopping(StopMem)'
    BY <1>0, <1>2, <2>2 DEF Stopping, InReset
  <2> QED
    BY <2>1, <2>2, <2>3 DEF RtnlState, Ends, c
<1>3. CASE todo[c] = StopMem /\ up /\ mem = 0 /\ InReset
  <2> DEFINE s == Then(<<"empty", 0>>, StopEnd)
  <2>1. s \in Seq(Access) /\ s # << >>
    BY TailsUnderWay DEF UnderWay
  <2>2. /\ Goes(c, s) /\ regs'.shmem = mem
        /\ UNCHANGED << cfg, up, mem, res, open, hw, overlap, undone, shown >>
    BY <1>0, <1>3, <2>1, ConfigEffect DEF StopMem, c
  <2>3. Emptying(s, 0, StopEnd)'
    BY <1>3, <2>2 DEF Emptying, InReset, ClosedBelow, Buffers
  <2>4. Taken'
    BY <1>3, <2>2 DEF Taken
  <2> HIDE DEF s
  <2>5. Stopping(s)'
    BY <1>0, <2>2, <2>3, <2>4 DEF Stopping
  <2> QED
    BY <2>1, <2>2, <2>5 DEF RtnlState, Ends, c
<1>4. ASSUME NEW b \in Buffers, Emptying(todo[c], b, StopEnd), Taken
      PROVE  /\ overlap => overlap'
             /\ \E s : Goes("rtnl", s) /\ RtnlState(s)' /\ Ends(s)'
  <2>1. StopEnd \in Seq(Access) /\ StopEnd # << >>
    BY TailsUnderWay DEF UnderWay
  <2>2. RingsOnly
    BY <1>0, <1>4, <2>1, EmptyingStep DEF c
  <2>3. PICK s : /\ Goes(c, s)
                 /\ \/ s # << >> /\ \E k \in Buffers : Emptying(s, k, StopEnd)'
                    \/ s = StopEnd /\ InReset' /\ (~overlap' => Bits({})')
    BY <1>0, <1>4, <2>1, EmptyingStep DEF c
  <2>4. Taken' /\ (~overlap' => ~shown')
    BY <1>0, <1>4, <2>2 DEF RingsOnly, Taken
  <2>5. Stopping(s)' /\ s # << >>
    BY <2>1, <2>3, <2>4 DEF Stopping
  <2> QED
    BY <2>2, <2>3, <2>5 DEF RtnlState, Ends, RingsOnly, c
<1>5. CASE todo[c] = StopEnd /\ Taken /\ InReset /\ (~overlap => Bits({}))
  <2> DEFINE s == Then(<<"down", 0>>, << >>)
  <2>1. s \in Seq(Access) /\ s # << >>
    BY TailsUnderWay DEF UnderWay
  <2>2. /\ Goes(c, s) /\ (~overlap' => Sync')
        /\ UNCHANGED << cfg, up, mem, regs, open, hw, overlap, undone, shown >>
    BY <1>0, <1>5, <2>1, ResetDue DEF StopEnd, c
  <2>3. Stopping(s)'
    BY <1>0, <1>5, <2>2 DEF Stopping, Taken, Bits
  <2> HIDE DEF s
  <2> QED
    BY <2>1, <2>2, <2>3 DEF RtnlState, Ends, c
<1>6. CASE /\ todo[c] = Then(<<"down", 0>>, << >>) /\ Taken
           /\ ~overlap => Sync /\ Bits({})
  <2>1. /\ Goes(c, << >>) /\ up' = FALSE /\ shown' = shown
        /\ UNCHANGED << cfg, mem, res, regs, open, hw, overlap, undone >>
    BY <1>0, <1>6, UpDownEffect DEF c
  <2>2. RtnlState(<< >>)'
    BY <1>6, <2>1 DEF RtnlState, Taken, Settled
  <2>3. Ends(<< >>)'
    BY <1>0, <1>6, <2>1 DEF Ends, Sync, Bits, Target
  <2> QED
    BY <2>1, <2>2, <2>3 DEF c
<1> QED
  BY <1>1, <1>2, <1>3, <1>4, <1>5, <1>6 DEF Stopping, c

(* An access of an address event. *)
LEMMA ChangingStep ==
  ASSUME Types, Seen, Changing(todo["rtnl"]), AccessStep("rtnl")
  PROVE  /\ overlap => overlap'
         /\ \E s : Goes("rtnl", s) /\ RtnlState(s)' /\ Ends(s)'
<1> DEFINE c == "rtnl"
<1>0. /\ c \in Ctx /\ 0 \in Nat /\ 1 \in Nat /\ << >> \in Seq(Access)
      /\ Settled /\ (~overlap => Bits(Target))
  BY DEF Ctx, Changing
<1> HIDE DEF c
<1>1. CASE todo[c] = DownCall
  <2>1. /\ Goes(c, << >>) /\ res' = 1
        /\ UNCHANGED << cfg, up, mem, regs, open, hw, overlap, undone, shown >>
    BY <1>0, <1>1, CallsSpelled, ResEffect DEF c
  <2>2. RtnlState(<< >>)' /\ Ends(<< >>)'
    BY <1>0, <2>1 DEF RtnlState, Settled, Ends, Sync, Bits, Target, Listed
  <2> QED
    BY <2>1, <2>2 DEF c
<1>2. ASSUME NEW v \in Nat, NEW w \in Nat, todo[c] = UpCall(v, w)
      PROVE  /\ overlap => overlap'
             /\ \E s : Goes("rtnl", s) /\ RtnlState(s)' /\ Ends(s)'
  <2> DEFINE s == Then(<<"ip", v>>, Then(<<"gw", w>>, UpEnd))
  <2>1. s \in Seq(Access) /\ s # << >>
    BY TailsUnderWay DEF UnderWay
  <2>2. /\ Goes(c, s) /\ res' = 1
        /\ UNCHANGED << cfg, up, mem, regs, open, hw, overlap, undone, shown >>
    BY <1>0, <1>2, <2>1, CallsSpelled, ResEffect DEF c
  <2>3. Changing(s)'
    BY <1>0, <2>2 DEF Changing, Settled, Bits, Target, Listed, InReset
  <2> HIDE DEF s
  <2> QED
    BY <2>1, <2>2, <2>3 DEF RtnlState, Ends, c
<1>3. ASSUME NEW v \in Nat, NEW w \in Nat, InReset,
             todo[c] = Then(<<"ip", v>>, Then(<<"gw", w>>, UpEnd))
      PROVE  /\ overlap => overlap'
             /\ \E s : Goes("rtnl", s) /\ RtnlState(s)' /\ Ends(s)'
  <2> DEFINE s == Then(<<"gw", w>>, UpEnd)
  <2>1. s \in Seq(Access) /\ s # << >>
    BY TailsUnderWay DEF UnderWay
  <2>2. /\ Goes(c, s) /\ regs'.shmem = regs.shmem
        /\ UNCHANGED << cfg, up, mem, res, open, hw, overlap, undone, shown >>
    BY <1>0, <1>3, <2>1, ConfigEffect DEF c
  <2>3. Changing(s)'
    BY <1>0, <1>3, <2>2 DEF Changing, Settled, Bits, Target, Listed, InReset
  <2> HIDE DEF s
  <2> QED
    BY <2>1, <2>2, <2>3 DEF RtnlState, Ends, c
<1>4. ASSUME NEW w \in Nat, InReset, todo[c] = Then(<<"gw", w>>, UpEnd)
      PROVE  /\ overlap => overlap'
             /\ \E s : Goes("rtnl", s) /\ RtnlState(s)' /\ Ends(s)'
  <2>1. UpEnd \in Seq(Access) /\ UpEnd # << >>
    BY TailsUnderWay DEF UnderWay
  <2>2. /\ Goes(c, UpEnd) /\ regs'.shmem = regs.shmem
        /\ UNCHANGED << cfg, up, mem, res, open, hw, overlap, undone, shown >>
    BY <1>0, <1>4, <2>1, ConfigEffect DEF c
  <2>3. Changing(UpEnd)'
    BY <1>0, <1>4, <2>2 DEF Changing, Settled, Bits, Target, Listed, InReset
  <2> QED
    BY <2>1, <2>2, <2>3 DEF RtnlState, Ends, c
<1>5. CASE todo[c] = UpEnd /\ InReset
  <2>1. /\ Goes(c, << >>) /\ (~overlap' => Sync')
        /\ UNCHANGED << cfg, up, mem, regs, open, hw, overlap, undone, shown >>
    BY <1>0, <1>5, ResetDue DEF UpEnd, c
  <2>2. RtnlState(<< >>)' /\ Ends(<< >>)'
    BY <1>0, <2>1 DEF RtnlState, Settled, Ends, Bits, Target, Listed
  <2> QED
    BY <2>1, <2>2 DEF c
<1> QED
  BY <1>1, <1>2, <1>3, <1>4, <1>5 DEF Changing, c

(* An access of notify_change: it leaves alone what the calls of the other *)
(* context say of the memory.                                              *)
LEMMA NotifyingStep ==
  ASSUME Types, Seen, Notifying(todo["devlink"]), AccessStep("devlink")
  PROVE  /\ UNCHANGED << overlap, up, mem >> /\ regs'.shmem = regs.shmem
         /\ \E s : Goes("devlink", s) /\ DevlinkState(s)' /\ Ends(s)'
<1> DEFINE c == "devlink"
<1>0. /\ c \in Ctx /\ 0 \in Nat /\ 1 \in Nat /\ 0 \in Buffers
      /\ 1 \in 1 .. Slots + 1 /\ << >> \in Seq(Access)
      /\ cfg.num \in Nat /\ (~overlap => shown)
  BY ControlAssumption DEF Ctx, Buffers, Notifying, Types, DriverTypes, ConfigType
<1> HIDE DEF c
<1>1. CASE todo[c] = NotifyCall
  <2> DEFINE s == Then(<<"close", 0>>, NotifyList)
  <2>1. s \in Seq(Access) /\ s # << >>
    BY TailsUnderWay DEF UnderWay
  <2>2. /\ Goes(c, s) /\ res' = 1
        /\ UNCHANGED << cfg, up, mem, regs, open, hw, overlap, undone, shown >>
    BY <1>0, <1>1, <2>1, CallsSpelled, ResEffect DEF c
  <2>3. Closing(s, 0, NotifyList)'
    BY <2>2 DEF Closing, InReset, ClosedBelow, Buffers
  <2> HIDE DEF s
  <2>4. Notifying(s)'
    BY <1>0, <2>2, <2>3 DEF Notifying
  <2> QED
    BY <2>1, <2>2, <2>4 DEF DevlinkState, Ends, c
<1>2. ASSUME NEW b \in Buffers, Closing(todo[c], b, NotifyList)
      PROVE  /\ UNCHANGED << overlap, up, mem >> /\ regs'.shmem = regs.shmem
             /\ \E s : Goes("devlink", s) /\ DevlinkState(s)' /\ Ends(s)'
  <2>1. NotifyList \in Seq(Access) /\ NotifyList # << >>
    BY TailsUnderWay DEF UnderWay
  <2>2. RingsOnly
    BY <1>0, <1>2, <2>1, ClosingStep DEF c
  <2>3. PICK s : /\ Goes(c, s)
                 /\ \/ s # << >> /\ \E k \in Buffers : Closing(s, k, NotifyList)'
                    \/ s = NotifyList /\ InReset' /\ (~overlap' => Bits({})')
    BY <1>0, <1>2, <2>1, ClosingStep DEF c
  <2>4. ~overlap' => shown'
    BY <1>0, <2>2 DEF RingsOnly
  <2>5. CASE s = NotifyList /\ InReset' /\ (~overlap' => Bits({})')
    <3>1. Ports(0)' = {} /\ 1 - 1 = 0 /\ 1 \in 1 .. cfg'.num + 1
      BY <1>0, <2>2 DEF Ports, RingsOnly
    <3>2. Listing(s, 1, NotifyEnd)'
      BY <2>5, <3>1 DEF Listing, NotifyList, Bits
    <3>3. Notifying(s)'
      BY <1>0, <2>4, <3>2 DEF Notifying
    <3> QED
      BY <2>1, <2>2, <2>3, <2>5, <3>3 DEF DevlinkState, Ends, RingsOnly, c
  <2>6. CASE s # << >> /\ \E k \in Buffers : Closing(s, k, NotifyList)'
    <3>1. Notifying(s)'
      BY <2>4, <2>6 DEF Notifying
    <3> QED
      BY <2>2, <2>3, <2>6, <3>1 DEF DevlinkState, Ends, RingsOnly, c
  <2> QED
    BY <2>3, <2>5, <2>6
<1>3. ASSUME NEW i \in 1 .. Slots + 1, Listing(todo[c], i, NotifyEnd)
      PROVE  /\ UNCHANGED << overlap, up, mem >> /\ regs'.shmem = regs.shmem
             /\ \E s : Goes("devlink", s) /\ DevlinkState(s)' /\ Ends(s)'
  <2>1. NotifyEnd \in Seq(Access) /\ NotifyEnd # << >>
    BY TailsUnderWay DEF UnderWay
  <2>2. RingsOnly
    BY <1>0, <1>3, <2>1, ListingStep DEF c
  <2>3. PICK s : /\ Goes(c, s)
                 /\ \/ s # << >> /\ \E k \in 1 .. Slots + 1 : Listing(s, k, NotifyEnd)'
                    \/ s = NotifyEnd /\ InReset' /\ (~overlap' => Bits(Listed)')
    BY <1>0, <1>3, <2>1, ListingStep DEF c
  <2>4. ~overlap' => shown'
    BY <1>0, <2>2 DEF RingsOnly
  <2>5. Notifying(s)' /\ s # << >>
    BY <2>1, <2>3, <2>4 DEF Notifying
  <2> QED
    BY <2>2, <2>3, <2>5 DEF DevlinkState, Ends, RingsOnly, c
<1>4. CASE todo[c] = NotifyEnd /\ InReset /\ (~overlap => Bits(Listed))
  <2>1. NotifyGw \in Seq(Access) /\ NotifyGw # << >>
    BY TailsUnderWay DEF UnderWay
  <2>2. /\ Goes(c, NotifyGw) /\ regs'.shmem = regs.shmem
        /\ UNCHANGED << cfg, up, mem, res, open, hw, overlap, undone, shown >>
    BY <1>0, <1>4, <2>1, ConfigEffect DEF NotifyEnd, c
  <2>3. Notifying(NotifyGw)'
    BY <1>0, <1>4, <2>2 DEF Notifying, InReset, Bits, Listed
  <2> QED
    BY <2>1, <2>2, <2>3 DEF DevlinkState, Ends, c
<1>5. CASE todo[c] = NotifyGw /\ InReset /\ (~overlap => Bits(Listed))
  <2> DEFINE s == Then(<<"res", 0>>, << >>)
  <2>1. s \in Seq(Access) /\ s # << >>
    BY TailsUnderWay DEF UnderWay, UpEnd
  <2>2. /\ Goes(c, s) /\ regs'.shmem = regs.shmem
        /\ UNCHANGED << cfg, up, mem, res, open, hw, overlap, undone, shown >>
    BY <1>0, <1>5, <2>1, ConfigEffect DEF NotifyGw, c
  <2>3. Notifying(s)'
    BY <1>0, <1>5, <2>2 DEF Notifying, InReset, Bits, Listed
  <2> HIDE DEF s
  <2> QED
    BY <2>1, <2>2, <2>3 DEF DevlinkState, Ends, c
<1>6. CASE /\ todo[c] = Then(<<"res", 0>>, << >>)
           /\ InReset /\ (~overlap => Bits(Listed))
  <2>1. /\ Goes(c, << >>) /\ (~overlap' => Sync')
        /\ UNCHANGED << cfg, up, mem, regs, open, hw, overlap, undone, shown >>
    BY <1>0, <1>6, ResetDue DEF c
  <2>2. DevlinkState(<< >>)' /\ Ends(<< >>)'
    BY <1>0, <1>6, <2>1 DEF DevlinkState, Ends, Bits, Target, Listed
  <2> QED
    BY <2>1, <2>2 DEF c
<1> QED
  BY <1>1, <1>2, <1>3, <1>4, <1>5, <1>6 DEF Notifying, c

-----------------------------------------------------------------------------
(***************************************************************************)
(* What a step leaves of a call it is not part of.                         *)
(***************************************************************************)

(* The list, the reset and the open bits are as they were, but for rings   *)
(* given up.                                                               *)
Kept ==
  /\ UNCHANGED << cfg, res, shown, overlap >>
  /\ Sync => Sync'
  /\ undone \subseteq undone'
  /\ \A b \in Buffers \ undone' : open'[b] = open[b]

(* The memory is, and the calls overlap or nothing else happened either.   *)
Frame ==
  /\ up' = up /\ mem' = mem /\ regs'.shmem = regs.shmem
  /\ overlap' \/ Kept

(* A step that leaves the open bits and the reset alone keeps what is said *)
(* of them.                                                                *)
LEMMA BitsKept ==
  ASSUME Kept
  PROVE  /\ InReset => InReset'
         /\ \A S : Bits(S) => Bits(S)'
         /\ \A k : ClosedBelow(k) => ClosedBelow(k)'
         /\ Bits(Listed) => Bits(Listed)'
         /\ Bits(Target) => Bits(Target)'
BY DEF Kept, InReset, Bits, ClosedBelow, Listed, Target

(* Such a step keeps the three loops over the buffers where they are.      *)
LEMMA LoopsFrame ==
  ASSUME overlap' \/ Kept, NEW s, NEW b, NEW rest
  PROVE  /\ Emptying(s, b, rest) => Emptying(s, b, rest)'
         /\ Closing(s, b, rest) => Closing(s, b, rest)'
         /\ Listing(s, b, rest) => Listing(s, b, rest)'
<1>1. CASE overlap'
  BY <1>1 DEF Emptying, Closing, Listing, InReset
<1>2. CASE Kept
  <2>1. Emptying(s, b, rest) => Emptying(s, b, rest)'
    BY <1>2, BitsKept DEF Emptying, Kept
  <2>2. Closing(s, b, rest) => Closing(s, b, rest)'
    BY <1>2, BitsKept DEF Closing, Kept
  <2>3. Listing(s, b, rest) => Listing(s, b, rest)'
    <3>1. /\ overlap' = overlap /\ cfg' = cfg /\ (InReset => InReset')
          /\ \A x \in Buffers \ undone' : x \in Buffers \ undone /\ open'[x] = open[x]
      BY <1>2, BitsKept DEF Kept
    <3>2. Ports(b - 1)' = Ports(b - 1)
      BY <3>1 DEF Ports
    <3>3. ASSUME s = Then(<<"listed", b>>, rest), InReset,
                 ~overlap => b \in 1 .. cfg.num + 1 /\ Bits(Ports(b - 1))
          PROVE  Listing(s, b, rest)'
      <4>1. Bits(Ports(b - 1)) => Bits(Ports(b - 1))'
        BY <3>1, <3>2 DEF Bits
      <4> QED
        BY <3>1, <3>3, <4>1 DEF Listing
    <3>4. ASSUME NEW x \in Buffers,
                 s = Then(<<"set", x>>, Then(<<"listed", b>>, rest)), InReset,
                 ~overlap => /\ b \in 2 .. cfg.num + 1 /\ x = cfg.ports[b - 1]
                             /\ \A y \in Buffers \ undone :
                                  y # x => (open[y] <=> y \in Ports(b - 1))
          PROVE  Listing(s, b, rest)'
      <4>1. ~overlap' => /\ b \in 2 .. cfg'.num + 1 /\ x = cfg'.ports[b - 1]
                         /\ \A y \in Buffers \ undone' :
                              y # x => (open'[y] <=> y \in Ports(b - 1)')
        BY <3>1, <3>2, <3>4
      <4> QED
        BY <3>1, <3>4, <4>1 DEF Listing
    <3> QED
      BY <3>3, <3>4 DEF Listing
  <2> QED
    BY <2>1, <2>2, <2>3
<1> QED
  BY <1>1, <1>2

(* What is known at a point of a call under rtnl outlasts every step of    *)
(* another context: it writes nothing the call relies on, unless the calls *)
(* overlap and nothing is promised.                                        *)
LEMMA RtnlFrame ==
  ASSUME Frame, NEW s, RtnlState(s)
  PROVE  RtnlState(s)'
<1>1. /\ Settled => Settled'
      /\ Given => Given'
      /\ Taken => Taken'
      /\ up' = up /\ mem' = mem
  BY DEF Frame, Settled, Given, Taken
<1>2. /\ InReset => InReset'
      /\ (~overlap => Sync) => (~overlap' => Sync')
      /\ (~overlap => ~shown) => (~overlap' => ~shown')
      /\ (~overlap => Bits({})) => (~overlap' => Bits({})')
      /\ (~overlap => Bits(Listed)) => (~overlap' => Bits(Listed)')
      /\ (~overlap => Bits(Target)) => (~overlap' => Bits(Target)')
  <2>1. CASE overlap'
    BY <2>1 DEF InReset
  <2>2. CASE Kept
    BY <2>2, BitsKept DEF Kept
  <2> QED
    BY <2>1, <2>2 DEF Frame
<1>3. \A b, rest : Emptying(s, b, rest) => Emptying(s, b, rest)'
  BY LoopsFrame DEF Frame
<1>4. \A b, rest : Listing(s, b, rest) => Listing(s, b, rest)'
  BY LoopsFrame DEF Frame
<1>5. CASE s = << >> /\ Settled
  BY <1>1, <1>5 DEF RtnlState
<1>6. CASE s # << >> /\ Opening(s)
  <2>1. Opening(s)'
    BY <1>1, <1>2, <1>3, <1>4, <1>6 DEF Opening
  <2> QED
    BY <1>6, <2>1 DEF RtnlState
<1>7. CASE s # << >> /\ Stopping(s)
  <2>1. Stopping(s)'
    BY <1>1, <1>2, <1>3, <1>7 DEF Stopping
  <2> QED
    BY <1>7, <2>1 DEF RtnlState
<1>8. CASE s # << >> /\ Changing(s)
  <2>1. Changing(s)'
    BY <1>1, <1>2, <1>8 DEF Changing
  <2> QED
    BY <1>8, <2>1 DEF RtnlState
<1> QED
  BY <1>5, <1>6, <1>7, <1>8 DEF RtnlState

(* The same of a call of devlink.                                          *)
LEMMA DevlinkFrame ==
  ASSUME overlap' \/ Kept, NEW s, DevlinkState(s)
  PROVE  DevlinkState(s)'
<1>1. /\ InReset => InReset'
      /\ (~overlap => shown) => (~overlap' => shown')
      /\ (~overlap => Bits(Listed)) => (~overlap' => Bits(Listed)')
  <2>1. CASE overlap'
    BY <2>1 DEF InReset
  <2>2. CASE Kept
    BY <2>2, BitsKept DEF Kept
  <2> QED
    BY <2>1, <2>2
<1>2. \A b, rest : Closing(s, b, rest) => Closing(s, b, rest)'
  BY LoopsFrame
<1>3. \A b, rest : Listing(s, b, rest) => Listing(s, b, rest)'
  BY LoopsFrame
<1>4. CASE s = << >>
  BY <1>4 DEF DevlinkState
<1>5. CASE s # << >> /\ Notifying(s)
  <2>1. Notifying(s)'
    BY <1>1, <1>2, <1>3, <1>5 DEF Notifying
  <2> QED
    BY <1>5, <2>1 DEF DevlinkState
<1> QED
  BY <1>4, <1>5 DEF DevlinkState

-----------------------------------------------------------------------------
(***************************************************************************)
(* Every step keeps the invariant.                                         *)
(***************************************************************************)

(* An access of either context keeps the place of its own call, by the     *)
(* lemmas on that access, and of the call of the other context, by the     *)
(* frame.                                                                  *)
LEMMA AccessCalls ==
  ASSUME Types, Rtnl, Devlink, Alone, Seen, NEW c \in Ctx, AccessStep(c)
  PROVE  Rtnl' /\ Devlink' /\ Alone'
<1>1. todo[c] # << >>
  BY DEF AccessStep, WriteRes, WriteConfig, ReadRing, EndOfList, WriteRing,
         Alloc, OutOfMemory, Free, UpDown, Does
<1>2. todo \in [Ctx -> Seq(Access)] /\ "rtnl" \in Ctx /\ "devlink" \in Ctx
  BY DEF Types, DriverTypes, Ctx
<1>3. CASE c = "rtnl"
  <2>1. PICK s : Goes("rtnl", s) /\ RtnlState(s)' /\ Ends(s)'
    BY <1>1, <1>3, OpeningStep, StoppingStep, ChangingStep DEF Rtnl, RtnlState
  <2>2. overlap => overlap'
    BY <1>1, <1>3, OpeningStep, StoppingStep, ChangingStep DEF Rtnl, RtnlState
  <2>3. todo'["rtnl"] = s /\ todo'["devlink"] = todo["devlink"]
    BY <1>2, <2>1 DEF Goes
  <2>4. PICK t : t = todo["devlink"]
    OBVIOUS
  <2>5. ~overlap => t = << >>
    BY <1>1, <1>3, <2>4 DEF Alone
  <2>6. DevlinkState(t)'
    <3>1. CASE overlap'
      BY <2>4, <3>1, DevlinkFrame DEF Devlink
    <3>2. CASE ~overlap'
      BY <2>2, <2>5, <3>2 DEF DevlinkState
    <3> QED
      BY <3>1, <3>2
  <2>7. Alone'
    BY <1>2, <2>1, <2>2, <2>3, <2>4, <2>5 DEF Alone, Ends, NoCall
  <2> QED
    BY <2>1, <2>3, <2>4, <2>6, <2>7 DEF Rtnl, Devlink
<1>4. CASE c = "devlink"
  <2>1. PICK s : Goes("devlink", s) /\ DevlinkState(s)' /\ Ends(s)'
    BY <1>1, <1>4, NotifyingStep DEF Devlink, DevlinkState
  <2>2. UNCHANGED << overlap, up, mem >> /\ regs'.shmem = regs.shmem
    BY <1>1, <1>4, NotifyingStep DEF Devlink, DevlinkState
  <2>3. todo'["devlink"] = s /\ todo'["rtnl"] = todo["rtnl"]
    BY <1>2, <2>1 DEF Goes
  <2>4. PICK t : t = todo["rtnl"]
    OBVIOUS
  <2>5. ~overlap => t = << >>
    BY <1>1, <1>4, <2>4 DEF Alone
  <2>6. RtnlState(t)'
    <3>1. CASE overlap'
      BY <2>2, <2>4, <3>1, RtnlFrame DEF Rtnl, Frame
    <3>2. CASE ~overlap'
      <4>1. t = << >> /\ Settled
        BY <2>2, <2>4, <2>5, <3>2 DEF Rtnl, RtnlState
      <4> QED
        BY <2>2, <4>1 DEF RtnlState, Settled
    <3> QED
      BY <3>1, <3>2
  <2>7. Alone'
    BY <1>2, <2>1, <2>2, <2>3, <2>4, <2>5 DEF Alone, Ends, NoCall
  <2> QED
    BY <2>1, <2>3, <2>4, <2>6, <2>7 DEF Rtnl, Devlink
<1> QED
  BY <1>3, <1>4 DEF Ctx

(* A call that begins while another is under way overlaps it; alone, it    *)
(* finds the list applied, or is one that writes everything anew.          *)
LEMMA BeginsAlone ==
  ASSUME Types, Alone, NEW c \in Ctx, NEW accesses, UnderWay(accesses),
         NEW whole \in BOOLEAN, Begin(c, accesses, whole)
  PROVE  /\ todo[c] = << >> /\ todo'[c] = accesses
         /\ \A d \in Ctx \ {c} : todo'[d] = todo[d]
         /\ ~overlap' => \A d \in Ctx : todo[d] = << >>
         /\ ~overlap' /\ ~whole => ~overlap /\ Sync /\ Bits(Target)
         /\ Alone'
<1>1. todo \in [Ctx -> Seq(Access)]
  BY DEF Types, DriverTypes
<1>2. /\ todo[c] = << >> /\ todo'[c] = accesses /\ accesses # << >>
      /\ \A d \in Ctx \ {c} : todo'[d] = todo[d]
  BY <1>1 DEF Begin, UnderWay
<1>3. ~overlap' => \A d \in Ctx : todo[d] = << >>
  BY DEF Begin
<1>4. ~overlap' /\ ~whole => ~overlap
  BY DEF Begin
<1>5. ~overlap' /\ ~whole => Sync /\ Bits(Target)
  BY <1>3, <1>4 DEF Alone, NoCall
<1>6. Alone'
  BY <1>2, <1>3 DEF Alone, NoCall, Ctx
<1> QED
  BY <1>2, <1>3, <1>4, <1>5, <1>6

(* A call of the rtnl context begins. *)
LEMMA RtnlBegins ==
  ASSUME Types, Devlink, todo' \in [Ctx -> Seq(Access)],
         NEW accesses, accesses # << >>,
         todo'["rtnl"] = accesses, todo'["devlink"] = todo["devlink"],
         ~overlap' => todo["devlink"] = << >>,
         (Opening(accesses) \/ Stopping(accesses) \/ Changing(accesses))'
  PROVE  Rtnl' /\ Devlink'
<1>1. PICK t : t = todo["devlink"]
  OBVIOUS
<1>2. DevlinkState(t)'
  <2>1. CASE overlap'
    BY <1>1, <2>1, DevlinkFrame DEF Devlink
  <2>2. CASE ~overlap'
    BY <1>1, <2>2 DEF DevlinkState
  <2> QED
    BY <2>1, <2>2
<1>3. RtnlState(accesses)'
  BY DEF RtnlState
<1> QED
  BY <1>1, <1>2, <1>3 DEF Rtnl, Devlink

(* A call begins. *)
LEMMA CallsBegin ==
  ASSUME Types, Types', Rtnl, Devlink, Alone,
         \/ Open \/ Stop \/ AddressUp \/ AddressDown \/ CloseByRemove
         \/ SetRange \/ SetGateway \/ SetSockets
  PROVE  Rtnl' /\ Devlink' /\ Alone'
<1>1. /\ todo' \in [Ctx -> Seq(Access)] /\ todo \in [Ctx -> Seq(Access)]
      /\ "rtnl" \in Ctx /\ "devlink" \in Ctx /\ "devlink" \in Ctx \ {"rtnl"}
      /\ "rtnl" \in Ctx \ {"devlink"}
  BY DEF Types, DriverTypes, Ctx
<1>2. todo["rtnl"] = << >> => Settled
  BY DEF Rtnl, RtnlState
<1>3. CASE Open
  <2>1. Begin("rtnl", OpenCall, TRUE) /\ UnderWay(OpenCall)
    BY <1>3, TailsUnderWay DEF Open
  <2>2. /\ todo["rtnl"] = << >> /\ todo'["rtnl"] = OpenCall
        /\ todo'["devlink"] = todo["devlink"]
        /\ ~overlap' => todo["devlink"] = << >>
        /\ Alone'
    BY <1>1, <2>1, BeginsAlone
  <2>3. Opening(OpenCall)'
    BY <1>2, <1>3, <2>2 DEF Open, Opening, Settled, deviceVars
  <2> QED
    BY <1>1, <2>1, <2>2, <2>3, RtnlBegins DEF UnderWay
<1>4. CASE Stop
  <2>1. Begin("rtnl", StopCall, TRUE) /\ UnderWay(StopCall)
    BY <1>4, TailsUnderWay DEF Stop
  <2>2. /\ todo["rtnl"] = << >> /\ todo'["rtnl"] = StopCall
        /\ todo'["devlink"] = todo["devlink"]
        /\ ~overlap' => todo["devlink"] = << >>
        /\ Alone'
    BY <1>1, <2>1, BeginsAlone
  <2>3. Stopping(StopCall)'
    BY <1>2, <1>4, <2>2 DEF Stop, Stopping, Settled, deviceVars
  <2> QED
    BY <1>1, <2>1, <2>2, <2>3, RtnlBegins DEF UnderWay
<1>5. CASE CloseByRemove
  <2>1. UnderWay(StopCall)
    BY TailsUnderWay
  <2>2. /\ todo["rtnl"] = << >> /\ todo'["rtnl"] = StopCall
        /\ todo'["devlink"] = todo["devlink"]
        /\ ~overlap' => todo["devlink"] = << >>
    BY <1>1, <1>5 DEF CloseByRemove
  <2>3. Stopping(StopCall)'
    BY <1>2, <1>5, <2>2 DEF CloseByRemove, Stopping, Settled, deviceVars
  <2>4. Alone'
    BY <1>1, <2>1, <2>2 DEF Alone, NoCall, UnderWay
  <2> QED
    BY <1>1, <2>1, <2>2, <2>3, <2>4, RtnlBegins DEF UnderWay
<1>6. CASE AddressUp
  <2>1. PICK gw \in {New, cfg.gw} : Begin("rtnl", UpCall(New, gw), FALSE)
    BY <1>6 DEF AddressUp
  <2>2. New \in Nat /\ gw \in Nat
    BY <2>1 DEF New, Types, DriverTypes, ConfigType
  <2>3. PICK v \in Nat : v = New
    BY <2>2
  <2>4. UnderWay(UpCall(v, gw)) /\ Begin("rtnl", UpCall(v, gw), FALSE)
    BY <2>1, <2>2, <2>3, TailsUnderWay
  <2>5. /\ todo["rtnl"] = << >> /\ todo'["rtnl"] = UpCall(v, gw)
        /\ todo'["devlink"] = todo["devlink"]
        /\ ~overlap' => todo["devlink"] = << >>
        /\ ~overlap' => ~overlap /\ Sync /\ Bits(Target)
        /\ Alone'
    BY <1>1, <2>4, BeginsAlone
  <2>6. Changing(UpCall(v, gw))'
    <3>1. Settled' /\ (~overlap' => Sync') /\ (~overlap' => Bits(Target)')
      BY <1>2, <1>6, <2>5
      DEF AddressUp, Settled, Sync, Bits, Target, Listed, deviceVars
    <3> QED
      BY <2>2, <3>1 DEF Changing
  <2> QED
    BY <1>1, <2>4, <2>5, <2>6, RtnlBegins DEF UnderWay
<1>7. CASE AddressDown
  <2>1. Begin("rtnl", DownCall, FALSE) /\ UnderWay(DownCall)
    BY <1>7, TailsUnderWay DEF AddressDown
  <2>2. /\ todo["rtnl"] = << >> /\ todo'["rtnl"] = DownCall
        /\ todo'["devlink"] = todo["devlink"]
        /\ ~overlap' => todo["devlink"] = << >>
        /\ ~overlap' => ~overlap /\ Sync /\ Bits(Target)
        /\ Alone'
    BY <1>1, <2>1, BeginsAlone
  <2>3. Changing(DownCall)'
    <3>1. Settled' /\ (~overlap' => Sync') /\ (~overlap' => Bits(Target)')
      BY <1>2, <1>7, <2>2
      DEF AddressDown, Settled, Sync, Bits, Target, Listed, deviceVars
    <3> QED
      BY <3>1 DEF Changing
  <2> QED
    BY <1>1, <2>1, <2>2, <2>3, RtnlBegins DEF UnderWay
<1>8. CASE SetRange \/ SetGateway \/ SetSockets
  <2>1. Notify
    BY <1>8 DEF SetRange, SetGateway, SetSockets
  <2>2. Begin("devlink", NotifyCall, TRUE) /\ UnderWay(NotifyCall)
    BY <2>1, TailsUnderWay DEF Notify
  <2>3. /\ todo["devlink"] = << >> /\ todo'["devlink"] = NotifyCall
        /\ todo'["rtnl"] = todo["rtnl"]
        /\ ~overlap' => todo["rtnl"] = << >>
        /\ Alone'
    BY <1>1, <2>2, BeginsAlone
  <2>4. DevlinkState(NotifyCall)'
    BY <2>1, <2>2 DEF Notify, DevlinkState, Notifying, UnderWay
  <2>5. PICK t : t = todo["rtnl"]
    OBVIOUS
  <2>6. up' = up /\ mem' = mem /\ regs' = regs
    BY <2>1 DEF Notify, deviceVars
  <2>7. RtnlState(t)'
    <3>1. CASE overlap'
      BY <2>5, <2>6, <3>1, RtnlFrame DEF Rtnl, Frame
    <3>2. CASE ~overlap'
      BY <1>2, <2>3, <2>5, <2>6, <3>2 DEF RtnlState, Settled
    <3> QED
      BY <3>1, <3>2
  <2> QED
    BY <2>3, <2>4, <2>5, <2>7 DEF Rtnl, Devlink
<1> QED
  BY <1>3, <1>4, <1>5, <1>6, <1>7, <1>8

(* A step that makes no access for a call leaves the calls as they are. *)
LEMMA CallsKept ==
  ASSUME Rtnl, Devlink, Alone, Frame, Kept, todo' = todo
  PROVE  Rtnl' /\ Devlink' /\ Alone'
<1>1. PICK s, t : s = todo["rtnl"] /\ t = todo["devlink"]
  OBVIOUS
<1>2. RtnlState(s)' /\ DevlinkState(t)'
  BY <1>1, RtnlFrame, DevlinkFrame DEF Rtnl, Devlink
<1>3. Alone'
  BY BitsKept DEF Alone, Kept, NoCall
<1> QED
  BY <1>1, <1>2, <1>3 DEF Rtnl, Devlink

(* The clock takes the registers over in a reset, and forgets no request   *)
(* before there is one.                                                    *)
LEMMA ClockKeeps ==
  ASSUME Types, NEW start \in BOOLEAN, NEW done \in BOOLEAN, Clock(start, done)
  PROVE  Kept /\ Frame /\ todo' = todo
<1>1. /\ hw'.requested <=> Requested(hw)
      /\ hw'.latched = IF hw.rst THEN regs ELSE hw.latched
      /\ UNCHANGED << res, regs, open, driverVars, countVars >>
  BY DEF Clock
<1>2. ASSUME Sync, res = 0, ~hw'.requested,
             NEW r \in DOMAIN Registers \ {"mac"}
      PROVE  hw'.latched[r] = regs[r]
  <2>1. CASE hw.rst
    BY <1>1, <2>1
  <2>2. CASE ~hw.rst
    <3>1. ~hw.requested
      BY <1>1, <1>2, <2>2 DEF Requested
    <3> QED
      BY <1>1, <1>2, <2>2, <3>1 DEF Sync
  <2> QED
    BY <2>1, <2>2
<1>3. Sync => Sync'
  BY <1>1, <1>2 DEF Sync
<1> QED
  BY <1>1, <1>3 DEF Kept, Frame, driverVars, countVars

(* The MAC address, the poll and what only probe and remove see. *)
LEMMA OthersKeep ==
  ASSUME Types,
         \/ SetMac \/ NewMac \/ LifeOnly \/ PopWrite
         \/ \E b \in Buffers : PopRead(b)
         \/ UNCHANGED vars
  PROVE  Kept /\ Frame /\ todo' = todo
<1>1. regs \in [Fields -> Nat] /\ open \in [Buffers -> BOOLEAN]
  BY DEF Types, DeviceTypes
<1>2. ASSUME NEW v, regs' = [regs EXCEPT !.mac = v], UNCHANGED << res, hw >>
      PROVE  (Sync => Sync') /\ regs'.shmem = regs.shmem
  <2>1. \A r \in Fields \ {"mac"} : regs'[r] = regs[r]
    BY <1>1, <1>2
  <2>2. DOMAIN Registers = Fields
    BY DEF Registers, Fields
  <2> QED
    BY <1>2, <2>1, <2>2 DEF Sync, Fields
<1>3. CASE SetMac
  <2>1. regs' = [regs EXCEPT !.mac = 2]
    BY <1>3 DEF SetMac
  <2> QED
    BY <1>2, <1>3, <2>1 DEF SetMac, Kept, Frame, driverVars, countVars
<1>4. CASE NewMac
  <2>1. regs' = [regs EXCEPT !.mac = 1]
    BY <1>4 DEF NewMac
  <2> QED
    BY <1>2, <1>4, <2>1 DEF NewMac, Kept, Frame, driverVars, countVars
<1>5. CASE LifeOnly \/ UNCHANGED vars
  BY <1>5 DEF LifeOnly, vars, Kept, Frame, Sync, driverVars, deviceVars,
              countVars
<1>6. CASE PopWrite
  <2>1. \A b \in Buffers \ undone' : open'[b] = open[b]
    BY <1>1, <1>6 DEF PopWrite
  <2>2. undone \subseteq undone'
    BY <1>6 DEF PopWrite
  <2> QED
    BY <1>6, <2>1, <2>2 DEF PopWrite, Kept, Frame, Sync
<1>7. ASSUME NEW b \in Buffers, PopRead(b)
      PROVE  Kept /\ Frame /\ todo' = todo
  BY <1>7 DEF PopRead, Kept, Frame, Sync, deviceVars, countVars
<1> QED
  BY <1>3, <1>4, <1>5, <1>6, <1>7

(* A new binding finds no call, and rings that were left open count as     *)
(* undone.                                                                 *)
LEMMA NewDefaultsCalls ==
  ASSUME Rtnl, Devlink, Alone, Quiet, NewDefaults
  PROVE  Rtnl' /\ Devlink' /\ Alone'
<1>1. NoCall /\ todo' = todo
  BY DEF Quiet, QuietSteps, NewDefaults, At
<1>2. todo["rtnl"] = << >> /\ todo["devlink"] = << >>
  BY <1>1 DEF NoCall, Ctx
<1>3. Settled'
  BY <1>2 DEF Rtnl, RtnlState, Settled, NewDefaults, deviceVars
<1>4. ~overlap' => Sync' /\ Bits(Target)'
  BY <1>1 DEF Alone, NewDefaults, Sync, Bits, Target, deviceVars
<1> QED
  BY <1>1, <1>2, <1>3, <1>4 DEF Rtnl, Devlink, RtnlState, DevlinkState, Alone

(* RES is written after a clock, and the next write waits for one. *)
LEMMA SeenStep ==
  ASSUME Types, Seen, [Next]_vars
  PROVE  Seen'
<1>1. ASSUME NEW start \in BOOLEAN, NEW done \in BOOLEAN, Clock(start, done)
      PROVE  Seen'
  BY <1>1 DEF Clock, Seen, Requested
<1>2. CASE \/ Open \/ Stop \/ AddressUp \/ AddressDown \/ CloseByRemove
  BY <1>2 DEF Open, Stop, AddressUp, AddressDown, CloseByRemove, Seen, deviceVars
<1>3. CASE SetRange \/ SetGateway \/ SetSockets
  BY <1>3 DEF SetRange, SetGateway, SetSockets, Notify, Seen, deviceVars
<1>4. CASE SetMac \/ PopWrite \/ NewMac
  BY <1>4 DEF SetMac, PopWrite, NewMac, Written, Seen
<1>5. ASSUME NEW c \in Ctx, AccessStep(c) PROVE Seen'
  BY <1>5 DEF AccessStep, WriteRes, WriteConfig, ReadRing, EndOfList, WriteRing,
              Alloc, OutOfMemory, Free, UpDown, Written, Seen, deviceVars
<1>6. ASSUME NEW b \in Buffers, PopRead(b) PROVE Seen'
  BY <1>6 DEF PopRead, Seen, deviceVars
<1>7. CASE NewDefaults \/ LifeOnly \/ UNCHANGED vars
  BY <1>7 DEF NewDefaults, LifeOnly, vars, Seen, deviceVars
<1> QED
  BY <1>1, <1>2, <1>3, <1>4, <1>5, <1>6, <1>7, ProbeOrRemove
  DEF Next, AccessStep

(* Where nothing is under way nothing can begin. *)
LEMMA QuietCalls ==
  ASSUME LifeInv, Quiet, pc \in QuietSteps \/ (pc = "rm_notifier" /\ ~drvdata)
  PROVE  ~NetdevOp /\ ~AddressEvent /\ ~Param
<1>1. NetdevOp => "netdev" \in held /\ ndev = "live"
  BY DEF NetdevOp, Reachable, Registration, Calls, Served
<1>2. AddressEvent => "notifier" \in held /\ ndev = "live"
  BY DEF AddressEvent, Reachable, Registration, Calls, Served
<1>3. Param => "devlink" \in held /\ ndev = "live" /\ drvdata
  BY DEF Param, Reachable, Registration, Calls, Served
<1>4. ("netdev" \notin held /\ "notifier" \notin held) \/ ndev # "live"
  BY DEF LifeInv, ProbeInv, RemoveInv, QuietSteps, Quiet, Lower
<1>5. "devlink" \notin held \/ ndev # "live" \/ ~drvdata
  BY DEF LifeInv, ProbeInv, RemoveInv, QuietSteps, Quiet, Lower
<1> QED
  BY <1>1, <1>2, <1>3, <1>4, <1>5

(* No call is under way, and the interface is down, wherever probe or      *)
(* remove has not set up or has already undone what calls are served from. *)
LEMMA QuietStep ==
  ASSUME LifeInv, LifeInv', Types, Quiet, [Next]_vars
  PROVE  Quiet'
<1> DEFINE Resting == pc \in QuietSteps \/ (pc = "rm_notifier" /\ ~drvdata)
<1>1. CASE UNCHANGED lifeVars /\ ~Resting
  BY <1>1 DEF Quiet, lifeVars, QuietSteps
<1>2. ASSUME UNCHANGED lifeVars, todo' = todo, up' = up
      PROVE  Quiet'
  BY <1>2 DEF Quiet, lifeVars, QuietSteps, NoCall
<1>3. CASE ProbeStep \/ RemoveStep
  <2>1. todo' = todo /\ up' = up
    BY <1>3, ProbeOrRemove DEF NewDefaults, NewMac, LifeOnly, driverVars
  <2>2. Resting' => Resting \/ (NoCall /\ ~up)
    BY <1>3 DEF ProbeStep, RemoveStep, QuietSteps, LifeInv, ProbeInv, RemoveInv,
                Bind, DevlinkInit, SetDrvdata, DevmemInit, InitRegion, IrqInit,
                NetdevAlloc, NetdevRegister, NotifierRegister, NapiAdd, Unbind,
                RemoveNothing, NotifierUnregister, NapiDel, NetdevUnregister,
                IrqDeinit, DevlinkDeinit, Acquire, Release, At, NoCall
  <2>3. pc' \in {"rm_irq", "rm_devlink"} => ndev' # "live"
    BY <1>3 DEF Quiet, ProbeStep, RemoveStep, QuietSteps,
                Bind, DevlinkInit, SetDrvdata, DevmemInit, InitRegion, IrqInit,
                NetdevAlloc, NetdevRegister, NotifierRegister, NapiAdd, Unbind,
                RemoveNothing, NotifierUnregister, NapiDel, NetdevUnregister,
                IrqDeinit, DevlinkDeinit, Acquire, Release, At
  <2> QED
    BY <2>1, <2>2, <2>3 DEF Quiet, NoCall
<1>4. ASSUME Resting, ~(ProbeStep \/ RemoveStep)
      PROVE  Quiet'
  <2>1. NoCall /\ ~up /\ ~NetdevOp /\ ~AddressEvent /\ ~Param
    BY <1>4, QuietCalls DEF Quiet
  <2>2. ~Open /\ ~Stop /\ ~AddressUp /\ ~AddressDown /\ ~SetMac /\ ~CloseByRemove
    BY <1>4, <2>1 DEF Open, Stop, AddressUp, AddressDown, SetMac, CloseByRemove
  <2>3. ~SetRange /\ ~SetGateway /\ ~SetSockets
    BY <2>1 DEF SetRange, SetGateway, SetSockets, Notify
  <2>4. \A c \in Ctx : ~AccessStep(c)
    <3>1. ASSUME NEW c \in Ctx PROVE todo[c] = << >>
      BY <2>1 DEF NoCall
    <3>2. \A c \in Ctx : \A x, more : ~Does(c, x, more)
      BY <3>1 DEF Does
    <3> QED
      BY <3>1, <3>2 DEF AccessStep, WriteRes, WriteConfig, ReadRing, EndOfList,
                        WriteRing, Alloc, OutOfMemory, Free, UpDown
  <2>5. CASE \E start, done \in BOOLEAN : Clock(start, done)
    BY <1>2, <2>5 DEF Clock, idleVars, driverVars
  <2>6. CASE PopWrite \/ \E b \in Buffers : PopRead(b)
    BY <1>2, <2>6 DEF PopWrite, PopRead, idleVars
  <2>7. CASE UNCHANGED vars
    BY <1>2, <2>7 DEF vars, driverVars
  <2> QED
    BY <1>4, <2>2, <2>3, <2>4, <2>5, <2>6, <2>7 DEF Next, AccessStep
<1> QED
  BY <1>1, <1>3, <1>4, LifeStays

(* Every step of the driver keeps the invariant.                           *)
LEMMA CallStep ==
  ASSUME Types, Types', LifeInv, LifeInv', CallInv, [Next]_vars
  PROVE  CallInv'
<1>1. Rtnl /\ Devlink /\ Alone /\ Seen /\ Quiet
  BY DEF CallInv
<1>2. Seen' /\ Quiet'
  BY <1>1, SeenStep, QuietStep
<1>3. Rtnl' /\ Devlink' /\ Alone'
  <2>1. ASSUME NEW start \in BOOLEAN, NEW done \in BOOLEAN, Clock(start, done)
        PROVE  Rtnl' /\ Devlink' /\ Alone'
    BY <1>1, <2>1, ClockKeeps, CallsKept
  <2>2. CASE \/ Open \/ Stop \/ AddressUp \/ AddressDown \/ CloseByRemove
             \/ SetRange \/ SetGateway \/ SetSockets
    BY <1>1, <2>2, CallsBegin
  <2>3. ASSUME NEW c \in Ctx, AccessStep(c)
        PROVE  Rtnl' /\ Devlink' /\ Alone'
    BY <1>1, <2>3, AccessCalls
  <2>4. CASE \/ SetMac \/ PopWrite \/ UNCHANGED vars
             \/ \E b \in Buffers : PopRead(b)
    BY <1>1, <2>4, OthersKeep, CallsKept
  <2>5. CASE ProbeStep \/ RemoveStep
    <3>1. CASE NewDefaults
      BY <1>1, <3>1, NewDefaultsCalls
    <3>2. CASE NewMac \/ LifeOnly
      BY <1>1, <3>2, OthersKeep, CallsKept
    <3> QED
      BY <2>5, <3>1, <3>2, ProbeOrRemove
  <2> QED
    BY <2>1, <2>2, <2>3, <2>4, <2>5 DEF Next, AccessStep
<1> QED
  BY <1>2, <1>3 DEF CallInv

(* The invariant of the calls holds with the types in every state.         *)
LEMMA CallInvariant == Spec => [](CallInv /\ Types)
<1>1. Init => CallInv
  <2> SUFFICES ASSUME Init PROVE CallInv
    OBVIOUS
  <2>1. todo["rtnl"] = << >> /\ todo["devlink"] = << >> /\ NoCall
    BY DEF Init, Ctx, NoCall
  <2>2. Settled
    BY DEF Init, Settled, Registers
  <2>3. Sync /\ Bits(Target)
    BY DEF Init, Sync, Bits, Target
  <2>4. Seen /\ Quiet
    BY <2>1 DEF Init, InitLife, Seen, Quiet
  <2> QED
    BY <2>1, <2>2, <2>3, <2>4
    DEF CallInv, Rtnl, RtnlState, Devlink, DevlinkState, Alone
<1>2. /\ CallInv /\ LifeInv /\ DriverTypes /\ DeviceTypes
      /\ LifeInv' /\ DriverTypes' /\ DeviceTypes'
      /\ [Next]_vars
      => CallInv'
  BY CallStep DEF Types
<1>3. DriverTypes /\ DeviceTypes => Types
  BY DEF Types
<1> QED
  BY <1>1, <1>2, <1>3, TypesInvariant, LifeInvariant, PTL DEF Spec

-----------------------------------------------------------------------------
(* What the calls wrote is in force once the device works again, although  *)
(* the reset of udp_core_reset_deassert may come long after the write that *)
(* ends the pulse on RES: the write waits for a clock that has seen it.    *)
THEOREM InForceCorrect == Spec => []InForce
<1>1. CallInv /\ Types => InForce
  <2>1. Types => DOMAIN regs = DOMAIN Registers
    BY DEF Types, DeviceTypes, Registers, Fields
  <2> QED
    BY <2>1 DEF CallInv, Alone, InForce, Works, Sync
<1> QED
  BY <1>1, CallInvariant, PTL

(* While the interface is up and the device works, it reads and writes the *)
(* memory of the last udp_core_ndo_open, and a closed interface holds none.*)
THEOREM MemorySafeCorrect == Spec => []MemorySafe
<1>1. CallInv => MemorySafe
  <2> SUFFICES ASSUME CallInv PROVE MemorySafe
    OBVIOUS
  <2>1. todo["rtnl"] = << >> => Settled
    BY DEF CallInv, Rtnl, RtnlState
  <2>2. NoCall => todo["rtnl"] = << >>
    BY DEF NoCall, Ctx
  <2>3. NoCall /\ Works /\ ~overlap => hw.latched.shmem = regs.shmem
    BY DEF CallInv, Alone, Works, Sync, Registers
  <2> QED
    BY <2>1, <2>2, <2>3 DEF MemorySafe, Settled
<1> QED
  BY <1>1, CallInvariant, PTL

(* After any sequence of calls the sockets open in the device are those of *)
(* open_ports, or none after udp_core_ndo_stop; exempt are the rings whose *)
(* bit the poll wrote back or that an earlier binding left open.           *)
THEOREM OpenAsListedCorrect == Spec => []OpenAsListed
<1>1. CallInv => OpenAsListed
  BY DEF CallInv, Alone, OpenAsListed, Bits, Target
<1> QED
  BY <1>1, CallInvariant, PTL
=============================================================================
