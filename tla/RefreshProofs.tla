--------------------------- MODULE RefreshProofs ---------------------------
(***************************************************************************)
(* Refresh on every computer: MonitoringKept, ProbesClean, OwnValues and   *)
(* TypeOK.  The inductive invariant is RefreshInv, one part for each of    *)
(* the counters of gpu_monitoring() (MonInv, Bounded), the probes          *)
(* (ProbeInv), the CPU page (CpuInv), the order of the calls (Order), the  *)
(* cards themselves (Wiring), the connection and the cards' records        *)
(* (CardInv).                                                              *)
(***************************************************************************)
EXTENDS Refresh, WellFoundedInduction, TLAPS

MonType == [index : Int, failed : Int, init_done : BOOLEAN, dri : Int, registered : Int]

\* The counters of gpu_monitoring(): after the first refresh no failure is counted, and a
\* computer without cards is given up by it.
MonInv ==
    /\ machine.cards \in Nat
    /\ mon \in MonType
    /\ mon.init_done => mon.failed = 0 \/ mon.index = 0
    /\ machine.cards = 0 => mon.failed = 0
    /\ mon.index # 0 => mon.registered = 0
    /\ mon.init_done /\ machine.cards = 0 => mon.registered = 1 /\ mon.index = 0

\* The steps that leave the computer and the monitoring alone.
MonIdle == machine' = machine /\ mon' = mon

LEMMA CardsAreCounted == ASSUME machine \in Machines PROVE machine.cards \in Nat
<1>1. GpuMachineOK(machine)
    BY GpuAssumption
<1> QED BY <1>1 DEF GpuMachineOK

LEMMA MonStart == Init => MonInv
<1> SUFFICES ASSUME Init PROVE MonInv
    OBVIOUS
<1>1. GpuInit /\ machine \in Machines
    BY DEF Init, GpuInit
<1>2. machine.cards \in Nat
    BY <1>1, CardsAreCounted
<1>3. mon = [index |-> 0, failed |-> 0, init_done |-> FALSE, dri |-> 1, registered |-> 0]
    BY <1>1 DEF GpuInit
<1> QED BY <1>2, <1>3 DEF MonInv, MonType

\* The updates of mon, and what they keep.
SetCard(m, i, a, f) == [m EXCEPT !.index = i, !.dri = a, !.failed = f]
SetStart(m, i, f)   == [m EXCEPT !.index = i, !.failed = f]
SetEnd(m, i, r)     == [m EXCEPT !.index = i, !.init_done = TRUE, !.registered = r]

LEMMA UpdateCard ==
    ASSUME NEW m \in MonType, NEW i \in Int, NEW f \in Int, NEW a \in Int,
           NEW n, n = SetCard(m, i, a, f)
    PROVE  n \in MonType /\ n.init_done = m.init_done /\ n.registered = m.registered
           /\ n.failed = f /\ n.index = i /\ n.dri = a
<1>1. [m EXCEPT !.index = i, !.dri = a, !.failed = f] \in MonType
    BY DEF MonType
<1> QED BY <1>1 DEF MonType, SetCard

LEMMA UpdateIndex ==
    ASSUME NEW m \in MonType, NEW i \in Int, NEW n, n = [m EXCEPT !.index = i]
    PROVE  n \in MonType /\ n.init_done = m.init_done /\ n.registered = m.registered
           /\ n.failed = m.failed /\ n.index = i /\ n.dri = m.dri
<1>1. [m EXCEPT !.index = i] \in MonType
    BY DEF MonType
<1> QED BY <1>1 DEF MonType

LEMMA UpdateStart ==
    ASSUME NEW m \in MonType, NEW i \in Int, NEW f \in Int,
           NEW n, n = SetStart(m, i, f)
    PROVE  n \in MonType /\ n.init_done = m.init_done /\ n.registered = m.registered
           /\ n.failed = f /\ n.index = i /\ n.dri = m.dri
<1>1. [m EXCEPT !.index = i, !.failed = f] \in MonType
    BY DEF MonType
<1> QED BY <1>1 DEF MonType, SetStart

LEMMA UpdateEnd ==
    ASSUME NEW m \in MonType, NEW i \in Int, NEW r \in Int, NEW n, n = SetEnd(m, i, r)
    PROVE  n \in MonType /\ n.registered = r /\ n.index = i /\ n.failed = m.failed /\ n.dri = m.dri
<1>1. ASSUME NEW d \in BOOLEAN
      PROVE  [m EXCEPT !.index = i, !.init_done = d, !.registered = r] \in MonType
    BY DEF MonType
<1>2. [m EXCEPT !.index = i, !.init_done = TRUE, !.registered = r] \in MonType
    BY <1>1, Zenon
<1> QED BY <1>2 DEF MonType, SetEnd

LEMMA MonIdleSteps == Next /\ ~GraphicsPage => MonIdle
BY DEF Next, Program, Environment, FindDevices, Fill, do_refresh, CpuPage, Keep, CpuRest,
       Probe, NextDevice, Pipe, Fork, ChildWrites, ChildExits, ChildDies, Reap, GpuRest,
       call_libcpuid_dynamic, call_libcpuid_msr_dynamic, cputab_temp_fallback,
       cputab_volt_fallback, cputab_freq_fallback, set_cpu_multiplier, Hardware, PowerOff,
       PowerOn, Rebind, ClockChanges, DaemonDies, SelectCore, ModuleLoaded, Rest, gpuVars,
       MonIdle

LEMMA MonGraphics == MonInv /\ GraphicsPage => MonInv' /\ (mon'.registered # mon.registered => ~mon.init_done)
<1> SUFFICES ASSUME MonInv, GraphicsPage
             PROVE MonInv' /\ (mon'.registered # mon.registered => ~mon.init_done)
    OBVIOUS
<1>0. mon \in MonType /\ machine.cards \in Nat
    BY DEF MonInv
<1>1. CASE gpu_monitoring
    <2>1. /\ mon.index = 0 /\ mon.registered = 0 /\ machine' = machine
          /\ mon' = SetStart(mon, 1, 0)
        BY <1>1 DEF gpu_monitoring, SetStart
    <2>2. /\ mon' \in MonType /\ mon'.failed = 0 /\ mon'.index = 1
          /\ mon'.init_done = mon.init_done /\ mon'.registered = mon.registered
        BY <1>0, <2>1, UpdateStart
    <2> QED BY <2>1, <2>2 DEF MonInv
<1>2. CASE MonitorCard
    <2>1. machine' = machine /\ mon.index \in Cards
        BY <1>2 DEF MonitorCard
    <2>2. mon.index \in Int /\ mon.failed \in Int /\ mon.index # 0 /\ machine.cards # 0
        BY <1>0, <2>1 DEF MonType, Cards
    <2> DEFINE Kept == /\ mon' \in MonType /\ mon'.init_done = mon.init_done
                       /\ mon'.registered = mon.registered
                       /\ mon.init_done => mon'.failed = mon.failed
    <2>3. ASSUME mon' = [mon EXCEPT !.index = mon.index + 1] PROVE Kept
        <3>1. mon.index + 1 \in Int
            BY <2>2
        <3> QED BY <1>0, <2>3, <3>1, UpdateIndex
    <2>4. ASSUME NEW a \in {-2, -1, 0, 1}, NEW v,
                 mon' = [mon EXCEPT !.index = mon.index + 1, !.dri = a,
                                    !.failed = mon.failed + (IF Failed(v) THEN 1 ELSE 0)]
          PROVE  Kept
        <3> DEFINE f == mon.failed + (IF Failed(v) THEN 1 ELSE 0)
        <3>1. mon.index + 1 \in Int /\ a \in Int /\ f \in Int
            BY <2>2
        <3>2. mon.init_done => f = mon.failed
            BY <2>2 DEF Failed
        <3>3. mon' = SetCard(mon, mon.index + 1, a, f)
            BY <2>4 DEF SetCard
        <3> HIDE DEF f
        <3>4. /\ mon' \in MonType /\ mon'.init_done = mon.init_done
              /\ mon'.registered = mon.registered /\ mon'.failed = f
            BY <1>0, <3>1, <3>3, UpdateCard
        <3> QED BY <3>2, <3>4
    <2>5. Kept
        BY <1>2, <2>3, <2>4 DEF MonitorCard, Skip
    <2> QED BY <2>1, <2>2, <2>5 DEF MonInv
<1>3. CASE MonitoringReturns
    <2> DEFINE i == 0
               r == IF mon.failed = machine.cards THEN 1 ELSE 0
    <2>1. /\ mon.index = machine.cards + 1 /\ machine' = machine
          /\ mon' = SetEnd(mon, i, r)
        BY <1>3 DEF MonitoringReturns, SetEnd
    <2>2. /\ mon.failed = machine.cards => r = 1
          /\ mon.failed # machine.cards => r = 0
        OBVIOUS
    <2>7. i \in Int /\ r \in Int
        OBVIOUS
    <2>9. i = 0
        OBVIOUS
    <2> HIDE DEF i, r
    <2>3. mon' \in MonType /\ mon'.registered = r /\ mon'.index = i /\ mon'.failed = mon.failed
        BY <1>0, <2>1, <2>7, UpdateEnd
    <2>4. mon.index # 0
        BY <1>0, <2>1
    <2>5. /\ mon.init_done => mon.failed = 0 /\ machine.cards # 0
          /\ machine.cards = 0 => mon.failed = 0
          /\ mon.registered = 0
        BY <2>4 DEF MonInv
    <2>6. MonInv'
        BY <1>0, <2>1, <2>2, <2>3, <2>5, <2>9 DEF MonInv
    <2> QED BY <2>2, <2>3, <2>4, <2>5, <2>6
<1>4. CASE UNCHANGED gpuVars
    BY <1>4 DEF gpuVars, MonInv
<1> QED BY <1>1, <1>2, <1>3, <1>4 DEF GraphicsPage

LEMMA MonStep == MonInv /\ [Next]_vars => MonInv' /\ (mon'.registered # mon.registered => ~mon.init_done)
<1>1. MonInv /\ MonIdle => MonInv' /\ (mon'.registered # mon.registered => ~mon.init_done)
    BY DEF MonInv, MonIdle
<1>2. UNCHANGED vars => MonIdle
    BY DEF vars, gpuVars, MonIdle
<1> QED BY <1>1, <1>2, MonIdleSteps, MonGraphics

\* On every computer, whatever its cards do, err_func() gives gpu_monitoring() up after the first
\* refresh or never (core.cpp:48-57, libpci.cpp:826-833).
THEOREM KeepsMonitoring == Spec => MonitoringKept
<1>1. MonInv /\ [Next]_vars => [mon'.registered # mon.registered => ~mon.init_done]_vars
    BY MonStep
<1> QED BY MonStart, MonStep, <1>1, PTL DEF Spec, MonitoringKept

-----------------------------------------------------------------------------
(* The constants, and least elements.                                      *)

Less == {pair \in Nat \X Nat : pair[1] < pair[2]}

LEMMA LessWellFounded == IsWellFoundedOn(Less, Nat)
BY NatLessThanWellFounded DEF OpToRel, Less

LEMMA Least ==
    ASSUME NEW T, T \subseteq Nat, T # {}
    PROVE  \E x \in T : \A y \in T : x <= y
<1>1. PICK x \in T : \A y \in T : <<y, x>> \notin Less
    BY LessWellFounded, WFMin
<1>2. ASSUME NEW y \in T PROVE x <= y
    <2>1. <<y, x>> \notin Less
        BY <1>1
    <2>2. x \in Nat /\ y \in Nat
        OBVIOUS
    <2> QED BY <2>1, <2>2 DEF Less
<1> QED BY <1>2

LEMMA Greatest ==
    ASSUME NEW n \in Nat, NEW T, T \subseteq 1..n, T # {}
    PROVE  \E x \in T : \A y \in T : y <= x
<1> DEFINE U == {i \in Nat : n - i \in T}
<1>1. \A x \in T : n - x \in U
    OBVIOUS
<1>2. PICK u \in U : \A v \in U : u <= v
    BY <1>1, Least
<1>3. n - u \in T /\ \A y \in T : y <= n - u
    BY <1>1, <1>2
<1> QED BY <1>3

LEMMA Elements ==
    ASSUME NEW S, NEW q \in Seq(S)
    PROVE  Len(q) \in Nat /\ DOMAIN q = 1..Len(q) /\ \A i \in DOMAIN q : q[i] \in S
OBVIOUS

\* What the probes know of a computer's cards.
LEMMA Graphics ==
    ASSUME NEW m \in Machines
    PROVE  /\ m.cards \in Nat /\ m.switches \in Nat /\ None \notin Nat
           /\ m.driver \in [1..m.cards -> Drivers]
           /\ m.daemon \in BOOLEAN /\ m.debug \in BOOLEAN
           /\ \A i \in DOMAIN m.egl : m.egl[i] \in 1..m.cards
           /\ Len(m.vk) \in Nat /\ DOMAIN m.vk = 1..Len(m.vk)
           /\ \A i \in DOMAIN m.vk : m.vk[i].card \in 1..m.cards
           /\ Len(m.cl) \in Nat /\ DOMAIN m.cl = 1..Len(m.cl)
           /\ \A i \in DOMAIN m.cl : m.cl[i].card \in 1..m.cards
           /\ Len(m.egl) \in Nat /\ DOMAIN m.egl = 1..Len(m.egl)
<1>1. GpuMachineOK(m) /\ None \notin Nat
    BY GpuAssumption
<1>2. /\ m.cards \in Nat /\ m.switches \in Nat
      /\ m.driver \in [1..m.cards -> Drivers]
      /\ m.daemon \in BOOLEAN /\ m.debug \in BOOLEAN
      /\ m.egl \in Seq(1..m.cards)
      /\ m.vk \in Seq([card : 1..m.cards, pci : BOOLEAN])
      /\ m.cl \in Seq([card : 1..m.cards, topology : BOOLEAN])
    BY <1>1, Zenon DEF GpuMachineOK
<1>3. Len(m.egl) \in Nat /\ DOMAIN m.egl = 1..Len(m.egl) /\ \A i \in DOMAIN m.egl : m.egl[i] \in 1..m.cards
    BY <1>2
<1>4. /\ Len(m.vk) \in Nat /\ DOMAIN m.vk = 1..Len(m.vk)
      /\ \A i \in DOMAIN m.vk : m.vk[i] \in [card : 1..m.cards, pci : BOOLEAN]
    BY <1>2, Elements
<1>5. /\ Len(m.cl) \in Nat /\ DOMAIN m.cl = 1..Len(m.cl)
      /\ \A i \in DOMAIN m.cl : m.cl[i] \in [card : 1..m.cards, topology : BOOLEAN]
    BY <1>2, Elements
<1> QED BY <1>1, <1>2, <1>3, <1>4, <1>5

-----------------------------------------------------------------------------
(* What the child of a probe finds.                                        *)

\* The pair of a probe for the card c of the computer m.
Finds(m, c, api, v) ==
    /\ v[1] \in Owner /\ v[2] \in Owner
    /\ api \in {"gl", "vk"} => v[1] = v[2]
    /\ api = "vk" => v[2] \in {None, c} \/ \E i \in DOMAIN m.vk : ~m.vk[i].pci
    /\ api = "cl" => /\ v[1] = None => v[2] = None
                     /\ v[2] \in {None, c} \/ m.vendor[c] = "Intel"

LEMMA NothingFound ==
    ASSUME NEW m, NEW c, NEW api
    PROVE  Finds(m, c, api, <<None, None>>)
BY DEF Finds, Owner

LEMMA OpenGL ==
    ASSUME machine \in Machines, NEW c \in Cards
    PROVE  Finds(machine, c, "gl", set_gpu_opengl_version(c))
<1> DEFINE T == {j \in DOMAIN machine.egl : SameVendor(machine.egl[j], c)}
           i == First(machine.egl, LAMBDA j : SameVendor(machine.egl[j], c))
<1>1. T \subseteq Nat /\ \A j \in DOMAIN machine.egl : machine.egl[j] \in Nat
    BY Graphics
<1>2. i = IF \E j \in DOMAIN machine.egl : SameVendor(machine.egl[j], c)
          THEN CHOOSE j \in DOMAIN machine.egl :
                  SameVendor(machine.egl[j], c) /\ \A k \in 1..(j - 1) : ~SameVendor(machine.egl[k], c)
          ELSE 0
    BY DEF First
<1>3. i # 0 => i \in DOMAIN machine.egl
    <2>1. CASE T = {}
        BY <1>2, <2>1
    <2>2. CASE T # {}
        <3>1. PICK x \in T : \A y \in T : x <= y
            BY <1>1, <2>2, Least
        <3>2. \A k \in 1..(x - 1) : ~SameVendor(machine.egl[k], c)
            <4>1. \A k \in 1..(x - 1) : k \in DOMAIN machine.egl /\ ~(x <= k)
                BY <1>1, Graphics
            <4> QED BY <3>1, <4>1
        <3> HIDE DEF i
        <3> QED BY <1>2, <3>1, <3>2
    <2> QED BY <2>1, <2>2
<1>4. set_gpu_opengl_version(c) = IF i = 0 THEN <<None, None>> ELSE <<machine.egl[i], machine.egl[i]>>
    BY DEF set_gpu_opengl_version
<1> HIDE DEF i
<1> QED BY <1>1, <1>3, <1>4, NothingFound DEF Finds, Owner

LEMMA Vulkan ==
    ASSUME machine \in Machines, NEW c \in Cards
    PROVE  Finds(machine, c, "vk", set_gpu_vulkan_version(c))
<1> DEFINE T == {j \in DOMAIN machine.vk : VulkanMatch(j, c)}
           i == First(machine.vk, LAMBDA j : VulkanMatch(j, c))
<1>1. T \subseteq Nat /\ \A j \in DOMAIN machine.vk : machine.vk[j].card \in Nat
    BY Graphics
<1>2. i = IF \E j \in DOMAIN machine.vk : VulkanMatch(j, c)
          THEN CHOOSE j \in DOMAIN machine.vk : VulkanMatch(j, c) /\ \A k \in 1..(j - 1) : ~VulkanMatch(k, c)
          ELSE 0
    BY DEF First
<1>3. i # 0 => i \in DOMAIN machine.vk /\ VulkanMatch(i, c)
    <2>1. CASE T = {}
        BY <1>2, <2>1
    <2>2. CASE T # {}
        <3>1. PICK x \in T : \A y \in T : x <= y
            BY <1>1, <2>2, Least
        <3>2. \A k \in 1..(x - 1) : ~VulkanMatch(k, c)
            <4>1. \A k \in 1..(x - 1) : k \in DOMAIN machine.vk /\ ~(x <= k)
                BY <1>1, Graphics
            <4> QED BY <3>1, <4>1
        <3> HIDE DEF i
        <3> QED BY <1>2, <3>1, <3>2
    <2> QED BY <2>1, <2>2
<1>4. set_gpu_vulkan_version(c)
      = IF i = 0 THEN <<None, None>> ELSE <<machine.vk[i].card, machine.vk[i].card>>
    BY DEF set_gpu_vulkan_version
<1> HIDE DEF i
<1>5. CASE i = 0
    BY <1>4, <1>5, NothingFound
<1>6. CASE i # 0
    <2>1. machine.vk[i].card \in Nat
        BY <1>1, <1>3, <1>6
    <2>2. machine.vk[i].card = c \/ \E j \in DOMAIN machine.vk : ~machine.vk[j].pci
        <3>1. \A j \in 1..i : j \in DOMAIN machine.vk
            BY <1>3, <1>6, Graphics
        <3> QED BY <1>3, <1>6, <3>1 DEF VulkanMatch
    <2> QED BY <1>4, <1>6, <2>1, <2>2 DEF Finds, Owner
<1> QED BY <1>5, <1>6

LEMMA OpenCL ==
    ASSUME machine \in Machines, NEW c \in Cards
    PROVE  Finds(machine, c, "cl", set_gpu_opencl_version(c))
<1> DEFINE Of(j)   == SameVendor(machine.cl[j].card, c)
           Test(j) == Of(j) /\ opencl_get_vendor(j, c)
           T       == {j \in DOMAIN machine.cl : Test(j)}
           match   == First(machine.cl, LAMBDA j : Of(j) /\ opencl_get_vendor(j, c))
           visited == {i \in DOMAIN machine.cl : Of(i) /\ (match = 0 \/ i <= match)}
           last    == CHOOSE i \in visited : \A j \in visited : j <= i
<1>0. /\ Len(machine.cl) \in Nat /\ DOMAIN machine.cl = 1..Len(machine.cl)
      /\ \A i \in DOMAIN machine.cl : machine.cl[i].card \in Nat
    BY Graphics
<1>1. T \subseteq Nat
    BY <1>0
<1>2. match = IF \E j \in DOMAIN machine.cl : Test(j)
              THEN CHOOSE j \in DOMAIN machine.cl : Test(j) /\ \A k \in 1..(j - 1) : ~Test(k)
              ELSE 0
    BY DEF First
<1>3. match # 0 => match \in DOMAIN machine.cl /\ Test(match)
    <2>1. CASE T = {}
        BY <1>2, <2>1
    <2>2. CASE T # {}
        <3>1. PICK x \in T : \A y \in T : x <= y
            BY <1>1, <2>2, Least
        <3>2. \A k \in 1..(x - 1) : ~Test(k)
            <4>1. \A k \in 1..(x - 1) : k \in DOMAIN machine.cl /\ ~(x <= k)
                BY <1>0
            <4> QED BY <3>1, <4>1
        <3> HIDE DEF match
        <3> QED BY <1>2, <3>1, <3>2
    <2> QED BY <2>1, <2>2
<1>4. set_gpu_opencl_version(c)
      = <<IF visited = {} THEN None ELSE machine.cl[last].card,
          IF match = 0 THEN None ELSE machine.cl[match].card>>
    BY DEF set_gpu_opencl_version
<1> HIDE DEF match
<1>5. match # 0 => match \in visited
    BY <1>0, <1>3
<1>6. visited # {} => last \in visited
    <2>1. visited \subseteq 1..Len(machine.cl)
        BY <1>0
    <2> HIDE DEF visited
    <2>2. visited # {} => \E x \in visited : \A y \in visited : y <= x
        BY <1>0, <2>1, Greatest
    <2> QED BY <2>2
<1>7. \A i \in visited : machine.cl[i].card \in Nat
    BY <1>0
<1> HIDE DEF visited, last
<1> DEFINE a == IF visited = {} THEN None ELSE machine.cl[last].card
           b == IF match = 0 THEN None ELSE machine.cl[match].card
<1>8. a \in Owner /\ b \in Owner
    BY <1>5, <1>6, <1>7 DEF Owner
<1>9. a = None => b = None
    BY <1>5, <1>6, <1>7, Graphics
<1>10. b \in {None, c} \/ machine.vendor[c] = "Intel"
    BY <1>3 DEF opencl_get_vendor
<1> HIDE DEF a, b
<1>11. set_gpu_opencl_version(c) = <<a, b>>
    BY <1>4 DEF a, b
<1> QED BY <1>8, <1>9, <1>10, <1>11 DEF Finds

LEMMA AnswerFound ==
    ASSUME machine \in Machines, NEW c \in Cards, NEW a \in 1..3
    PROVE  Finds(machine, c, Apis[a], Answer(c, Apis[a])) /\ Apis[a] \in {"gl", "vk", "cl"}
<1>1. CASE a = 1
    BY <1>1, OpenGL DEF Answer, Apis
<1>2. CASE a = 2
    BY <1>2, Vulkan DEF Answer, Apis
<1>3. CASE a = 3
    BY <1>3, OpenCL DEF Answer, Apis
<1> QED BY <1>1, <1>2, <1>3

-----------------------------------------------------------------------------
(* find_devices(): where it is, what is open, what the child has written,  *)
(* and what the cards asked so far have got.                               *)

Pair     == Owner \X Owner
InfoType == [gl : Pair, vk : Pair, cl : Pair]
Asking   == {"pipe", "fork", "wait"}

InfoOK(m, c, v) == v \in InfoType /\ \A a \in 1..3 : Finds(m, c, Apis[a], v[Apis[a]])

Position ==
    /\ machine \in Machines
    /\ at \in [card : 0..machine.cards, api : 1..3]
    /\ pc \in {"scan", "device", "done"} \cup Asking
    /\ pc = "scan" => at.card = 0
    /\ pc = "done" => at.card = machine.cards
    /\ pc \in Asking => at.card # 0

\* A failed fork() costs two descriptors, and each probe has one fork() at most.
Descriptors ==
    /\ unforked \in Nat
    /\ fds = 2 * unforked + (IF pc = "fork" THEN 2 ELSE IF pc = "wait" THEN 1 ELSE 0)
    /\ unforked <= 3 * at.card
    /\ pc \in Asking => unforked + 4 <= 3 * at.card + at.api

\* The pipe holds the beginning of the answer; a child that exits wrote all of it or nothing.
Child ==
    /\ child \in {"none", "running", "exited", "killed"}
    /\ pc = "wait" <=> child # "none"
    /\ child = "none" => written = <<>>
    /\ written \in Seq(Owner) /\ Len(written) \in 0..2
    /\ child = "exited" => Len(written) # 1
    /\ \A i \in 1..Len(written) : written[i] = Answer(at.card, Apis[at.api])[i]

Known ==
    /\ info \in Seq(InfoType) /\ Len(info) = at.card
    /\ \A c \in 1..at.card : InfoOK(machine, c, info[c])

ProbeInv == Position /\ Descriptors /\ Child /\ Known

LEMMA ProbeStart == Init => ProbeInv
<1> SUFFICES ASSUME Init PROVE ProbeInv
    OBVIOUS
<1>1. /\ machine \in Machines /\ at = [card |-> 0, api |-> 1] /\ pc = "scan"
      /\ child = "none" /\ written = <<>> /\ fds = 0 /\ unforked = 0 /\ info = <<>>
    BY DEF Init, GpuInit
<1>2. machine.cards \in Nat
    BY <1>1, Graphics
<1>3. at.card = 0 /\ at.api = 1
    BY <1>1
<1>4. Position
    BY <1>1, <1>2 DEF Position, Asking
<1>5. Descriptors
    BY <1>1, <1>3 DEF Descriptors, Asking
<1>6. Child
    BY <1>1 DEF Child
<1>7. Known
    BY <1>1, <1>3 DEF Known
<1> QED BY <1>4, <1>5, <1>6, <1>7 DEF ProbeInv

LEMMA ProbeIdleSteps ==
    Next /\ ~FindDevices => machine' = machine /\ probing' = probing
BY DEF Next, Program, Environment, Fill, do_refresh, CpuPage, GraphicsPage, Keep, CpuRest,
       call_libcpuid_dynamic, call_libcpuid_msr_dynamic, cputab_temp_fallback,
       cputab_volt_fallback, cputab_freq_fallback, set_cpu_multiplier, Hardware, PowerOff,
       PowerOn, Rebind, ClockChanges, DaemonDies, SelectCore, ModuleLoaded, Rest, gpuVars,
       gpu_monitoring, MonitorCard, MonitoringReturns

LEMMA Moved ==
    ASSUME Position, NextProbe, machine' = machine, pc \in Asking
    PROVE  /\ Position' /\ at'.card = at.card
           /\ \/ at.api < 3 /\ pc' = "pipe" /\ at'.api = at.api + 1
              \/ at.api = 3 /\ pc' = "device" /\ at'.api = 3
<1>1. at \in [card : 0..machine.cards, api : 1..3] /\ at.card # 0
    BY DEF Position
<1>2. CASE at.api < 3
    <2>1. at' = [at EXCEPT !.api = @ + 1] /\ pc' = "pipe"
        BY <1>2 DEF NextProbe
    <2>2. at.api + 1 \in 1..3
        BY <1>1, <1>2
    <2> DEFINE b == at.api + 1
    <2>3. at' = [at EXCEPT !.api = b]
        BY <2>1
    <2>4. b \in 1..3
        BY <2>2
    <2> HIDE DEF b
    <2>5. at' \in [card : 0..machine.cards, api : 1..3] /\ at'.card = at.card /\ at'.api = b
        BY <1>1, <2>3, <2>4
    <2>6. Position'
        BY <1>1, <2>1, <2>5 DEF Position, Asking
    <2>7. at'.api = at.api + 1
        BY <2>5 DEF b
    <2> QED BY <1>2, <2>1, <2>5, <2>6, <2>7
<1>3. CASE ~(at.api < 3)
    <2>1. at' = at /\ pc' = "device" /\ at.api = 3
        BY <1>1, <1>3 DEF NextProbe
    <2> QED BY <1>1, <2>1 DEF Position, Asking
<1> QED BY <1>2, <1>3

LEMMA Device == ProbeInv /\ machine' = machine /\ NextDevice => ProbeInv'
<1> SUFFICES ASSUME ProbeInv, machine' = machine, NextDevice PROVE ProbeInv'
    OBVIOUS
<1>1. Position /\ Descriptors /\ Child /\ Known
    BY DEF ProbeInv
<1>2. /\ pc \in {"scan", "device"} /\ machine.cards \in Nat
      /\ child' = child /\ written' = written /\ fds' = fds /\ unforked' = unforked
    BY <1>1, Graphics DEF NextDevice, Position
<1>3. child = "none" /\ written = <<>>
    BY <1>1, <1>2 DEF Child
<1>4. CASE at.card < machine.cards
    <2> DEFINE n == at.card + 1
    <2>1. at' = [card |-> n, api |-> 1] /\ pc' = "pipe" /\ info' = Append(info, NoInfo)
        BY <1>4 DEF NextDevice
    <2>2. at.card \in 0..machine.cards
        BY <1>1 DEF Position
    <2>3. n \in 0..machine.cards /\ n # 0 /\ n = at.card + 1
        BY <1>2, <1>4, <2>2
    <2> HIDE DEF n
    <2>4. at' \in [card : 0..machine.cards, api : 1..3] /\ at'.card = n /\ at'.api = 1
        BY <2>1, <2>3, <1>2
    <2>5. Position'
        BY <1>1, <2>1, <2>3, <2>4 DEF Position, Asking
    <2>6. Descriptors'
        BY <1>1, <1>2, <2>1, <2>2, <2>3, <2>4 DEF Descriptors, Asking
    <2>7. Child'
        BY <1>2, <1>3, <2>1 DEF Child
    <2>8. InfoOK(machine, n, NoInfo)
        <3>1. NoInfo \in InfoType
            BY DEF NoInfo, InfoType, Pair, Owner
        <3>2. ASSUME NEW a \in 1..3 PROVE NoInfo[Apis[a]] = <<None, None>>
            BY DEF NoInfo, Apis
        <3> QED BY <3>1, <3>2, NothingFound DEF InfoOK
    <2>9. Known'
        <3>1. info \in Seq(InfoType) /\ Len(info) = at.card /\ NoInfo \in InfoType
            BY <1>1, <2>8 DEF Known, InfoOK
        <3>2. info' \in Seq(InfoType) /\ Len(info') = n /\ info'[n] = NoInfo
            BY <2>1, <2>3, <3>1
        <3>3. \A c \in 1..at.card : info'[c] = info[c]
            BY <2>1, <3>1
        <3>4. ASSUME NEW c \in 1..n PROVE InfoOK(machine, c, info'[c])
            <4>1. c = n \/ c \in 1..at.card
                BY <2>2, <2>3, <1>2
            <4>2. \A d \in 1..at.card : InfoOK(machine, d, info[d])
                BY <1>1 DEF Known
            <4> QED BY <2>8, <3>2, <3>3, <4>1, <4>2
        <3> QED BY <3>2, <3>4, <2>4 DEF Known
    <2> QED BY <2>5, <2>6, <2>7, <2>9 DEF ProbeInv
<1>5. CASE ~(at.card < machine.cards)
    <2>1. pc' = "done" /\ at' = at /\ info' = info
        BY <1>5 DEF NextDevice
    <2>2. Position' /\ Known'
        <3>1. at.card \in 0..machine.cards
            BY <1>1 DEF Position
        <3>2. at.card = machine.cards
            BY <1>2, <1>5, <3>1
        <3> QED BY <1>1, <2>1, <3>2 DEF Position, Asking, Known
    <2>3. Descriptors'
        BY <1>1, <1>2, <2>1 DEF Descriptors, Asking
    <2>4. Child'
        BY <1>2, <1>3, <2>1 DEF Child
    <2> QED BY <2>2, <2>3, <2>4 DEF ProbeInv
<1> QED BY <1>4, <1>5

LEMMA StepsOn ==
    ASSUME ProbeInv, machine' = machine, pc \in Asking, NextProbe, child' = "none", written' = <<>>,
           unforked' \in Nat, fds' = 2 * unforked', unforked' + 3 <= 3 * at.card + at.api
    PROVE  Position' /\ Descriptors' /\ Child' /\ at'.card = at.card
<1>1. Position /\ at.card \in Nat /\ at.card # 0
    <2>1. Position
        BY DEF ProbeInv
    <2>2. machine.cards \in Nat
        BY <2>1, Graphics DEF Position
    <2> QED BY <2>1, <2>2 DEF Position
<1>2. /\ Position' /\ at'.card = at.card
      /\ \/ at.api < 3 /\ pc' = "pipe" /\ at'.api = at.api + 1
         \/ at.api = 3 /\ pc' = "device" /\ at'.api = 3
    BY <1>1, Moved
<1>3. at.api \in 1..3
    BY <1>1 DEF Position
<1>4. Descriptors'
    BY <1>1, <1>2, <1>3 DEF Descriptors, Asking
<1>5. Child'
    BY <1>2 DEF Child
<1> QED BY <1>2, <1>4, <1>5

LEMMA OpensPipe == ProbeInv /\ machine' = machine /\ Pipe => ProbeInv'
<1> SUFFICES ASSUME ProbeInv, machine' = machine, Pipe PROVE ProbeInv'
    OBVIOUS
<1>1. Position /\ Descriptors /\ Child /\ Known
    BY DEF ProbeInv
<1>2. /\ pc = "pipe" /\ pc \in Asking
      /\ child' = child /\ written' = written /\ info' = info /\ unforked' = unforked
    BY DEF Pipe, Asking
<1>3. child = "none" /\ written = <<>>
    BY <1>1, <1>2 DEF Child
<1>4. CASE pc' = "fork" /\ fds' = fds + 2 /\ at' = at
    <2>1. Position' /\ Known'
        BY <1>1, <1>2, <1>4 DEF Position, Asking, Known
    <2>2. Descriptors'
        BY <1>1, <1>2, <1>4 DEF Descriptors, Asking
    <2>3. Child'
        BY <1>2, <1>3, <1>4 DEF Child
    <2> QED BY <2>1, <2>2, <2>3 DEF ProbeInv
<1>5. CASE NextProbe /\ fds' = fds
    <2>1. unforked' \in Nat /\ fds' = 2 * unforked' /\ unforked' + 4 <= 3 * at.card + at.api
        BY <1>1, <1>2, <1>5 DEF Descriptors
    <2>2. at \in [card : 0..machine.cards, api : 1..3] /\ machine.cards \in Nat
        BY <1>1, Graphics DEF Position
    <2>3. unforked' + 3 <= 3 * at.card + at.api
        BY <2>1, <2>2
    <2>4. Position' /\ Descriptors' /\ Child' /\ at'.card = at.card
        BY <1>2, <1>3, <1>5, <2>1, <2>3, StepsOn
    <2>5. Known'
        BY <1>1, <1>2, <2>4 DEF Known
    <2> QED BY <2>4, <2>5 DEF ProbeInv
<1> QED BY <1>4, <1>5 DEF Pipe

LEMMA Forks == ProbeInv /\ machine' = machine /\ Fork => ProbeInv'
<1> SUFFICES ASSUME ProbeInv, machine' = machine, Fork PROVE ProbeInv'
    OBVIOUS
<1>1. Position /\ Descriptors /\ Child /\ Known
    BY DEF ProbeInv
<1>2. /\ pc = "fork" /\ pc \in Asking
      /\ written' = written /\ info' = info
    BY DEF Fork, Asking
<1>3. child = "none" /\ written = <<>>
    BY <1>1, <1>2 DEF Child
<1>4. CASE pc' = "wait" /\ child' = "running" /\ fds' = fds - 1 /\ UNCHANGED <<at, unforked>>
    <2>1. Position' /\ Known'
        BY <1>1, <1>2, <1>4 DEF Position, Asking, Known
    <2>2. Descriptors'
        BY <1>1, <1>2, <1>4 DEF Descriptors, Asking
    <2>3. Child'
        BY <1>2, <1>3, <1>4 DEF Child
    <2> QED BY <2>1, <2>2, <2>3 DEF ProbeInv
<1>5. CASE NextProbe /\ unforked' = unforked + 1 /\ UNCHANGED <<child, fds>>
    <2>1. /\ unforked \in Nat /\ fds = 2 * unforked + 2
          /\ unforked + 4 <= 3 * at.card + at.api
        BY <1>1, <1>2 DEF Descriptors
    <2>2. at \in [card : 0..machine.cards, api : 1..3] /\ machine.cards \in Nat
        BY <1>1, Graphics DEF Position
    <2>3. unforked' \in Nat /\ fds' = 2 * unforked' /\ unforked' + 3 <= 3 * at.card + at.api
        BY <1>5, <2>1, <2>2
    <2>4. Position' /\ Descriptors' /\ Child' /\ at'.card = at.card
        BY <1>2, <1>3, <1>5, <2>3, StepsOn
    <2>5. Known'
        BY <1>1, <1>2, <2>4 DEF Known
    <2> QED BY <2>4, <2>5 DEF ProbeInv
<1> QED BY <1>4, <1>5 DEF Fork

LEMMA SameAnswers ==
    ASSUME machine' = machine, at' = at
    PROVE  Answer(at.card, Apis[at.api])' = Answer(at.card, Apis[at.api])
<1>1. ASSUME NEW c PROVE set_gpu_opengl_version(c)' = set_gpu_opengl_version(c)
    BY DEF set_gpu_opengl_version, First, SameVendor
<1>2. ASSUME NEW c PROVE set_gpu_vulkan_version(c)' = set_gpu_vulkan_version(c)
    BY DEF set_gpu_vulkan_version, First, VulkanMatch
<1>3. ASSUME NEW c PROVE set_gpu_opencl_version(c)' = set_gpu_opencl_version(c)
    BY DEF set_gpu_opencl_version, First, SameVendor, opencl_get_vendor
<1> QED BY <1>1, <1>2, <1>3 DEF Answer, Apis

LEMMA Writes == ProbeInv /\ machine' = machine /\ ChildWrites => ProbeInv'
<1> SUFFICES ASSUME ProbeInv, machine' = machine, ChildWrites PROVE ProbeInv'
    OBVIOUS
<1>1. Position /\ Descriptors /\ Child /\ Known
    BY DEF ProbeInv
<1> DEFINE a == Answer(at.card, Apis[at.api])
           v == a[Len(written) + 1]
<1>2. /\ child = "running" /\ Len(written) < 2 /\ written' = Append(written, v)
      /\ at' = at /\ pc' = pc /\ child' = child /\ fds' = fds /\ unforked' = unforked /\ info' = info
    BY DEF ChildWrites
<1>3. Position' /\ Descriptors' /\ Known'
    BY <1>1, <1>2 DEF Position, Descriptors, Known
<1>4. pc = "wait" /\ written \in Seq(Owner) /\ \A i \in 1..Len(written) : written[i] = a[i]
    BY <1>1, <1>2 DEF Child
<1>5. a[1] \in Owner /\ a[2] \in Owner
    <2>1. machine \in Machines /\ machine.cards \in Nat
        BY <1>1, Graphics DEF Position
    <2>2. at.card \in Cards /\ at.api \in 1..3
        BY <1>1, <1>4, <2>1 DEF Position, Cards, Asking
    <2>3. Finds(machine, at.card, Apis[at.api], a)
        BY <2>1, <2>2, AnswerFound
    <2> HIDE DEF a
    <2> QED BY <2>3 DEF Finds
<1>6. Answer(at.card, Apis[at.api])' = a
    BY <1>2, SameAnswers
<1> HIDE DEF a
<1>7. Len(written) \in {0, 1} /\ v \in Owner
    <2>1. Len(written) \in Nat
        BY <1>4
    <2>2. Len(written) < 2
        BY DEF ChildWrites
    <2>3. CASE Len(written) = 0
        <3>1. v = a[1]
            BY <2>3
        <3> QED BY <1>5, <2>3, <3>1
    <2>4. CASE Len(written) = 1
        <3>1. v = a[2]
            BY <2>4
        <3> QED BY <1>5, <2>4, <3>1
    <2> QED BY ONLY <2>1, <2>2, <2>3, <2>4
<1>8. /\ written' \in Seq(Owner) /\ Len(written') \in 0..2
      /\ Len(written') = Len(written) + 1 /\ written'[Len(written) + 1] = v
      /\ \A i \in 1..Len(written) : written'[i] = written[i]
    <2> HIDE DEF v
    <2> QED BY <1>2, <1>4, <1>7
<1>9. \A i \in 1..Len(written') : written'[i] = a[i]
    BY <1>4, <1>7, <1>8
<1>10. Child'
    BY <1>2, <1>4, <1>6, <1>8, <1>9 DEF Child
<1> QED BY <1>3, <1>10 DEF ProbeInv

LEMMA Ends == ProbeInv /\ machine' = machine /\ (ChildExits \/ ChildDies) => ProbeInv'
<1> SUFFICES ASSUME ProbeInv, machine' = machine, ChildExits \/ ChildDies PROVE ProbeInv'
    OBVIOUS
<1>1. Position /\ Descriptors /\ Child /\ Known
    BY DEF ProbeInv
<1>2. /\ child = "running" /\ child' \in {"exited", "killed"}
      /\ child' = "exited" => Len(written) = 2 \/ written = <<>>
      /\ at' = at /\ pc' = pc /\ written' = written /\ fds' = fds /\ unforked' = unforked /\ info' = info
    BY DEF ChildExits, ChildDies
<1>3. Position' /\ Descriptors' /\ Known'
    BY <1>1, <1>2 DEF Position, Descriptors, Known
<1>4. Child'
    <2>1. Answer(at.card, Apis[at.api])' = Answer(at.card, Apis[at.api])
        BY <1>2, SameAnswers
    <2>2. Len(<<>>) # 1
        OBVIOUS
    <2>3. /\ pc = "wait" /\ child' \in {"none", "running", "exited", "killed"} /\ child' # "none"
          /\ child' = "exited" => Len(written) # 1
        BY <1>1, <1>2, <2>2 DEF Child
    <2>4. /\ written \in Seq(Owner) /\ Len(written) \in 0..2
          /\ \A i \in 1..Len(written) : written[i] = Answer(at.card, Apis[at.api])[i]
        BY <1>1 DEF Child
    <2> QED BY <1>2, <2>1, <2>3, <2>4 DEF Child
<1> QED BY <1>3, <1>4 DEF ProbeInv

LEMMA Reaps == ProbeInv /\ machine' = machine /\ Reap => ProbeInv'
<1> SUFFICES ASSUME ProbeInv, machine' = machine, Reap PROVE ProbeInv'
    OBVIOUS
<1>1. Position /\ Descriptors /\ Child /\ Known
    BY DEF ProbeInv
<1> DEFINE api  == Apis[at.api]
           both == <<Received(1), Received(2)>>
<1>2. /\ pc = "wait" /\ pc \in Asking /\ child \in {"exited", "killed"}
      /\ info' = IF child = "exited" THEN [info EXCEPT ![at.card][api] = both] ELSE info
      /\ fds' = fds - 1 /\ child' = "none" /\ written' = <<>> /\ unforked' = unforked /\ NextProbe
    BY DEF Reap, ReadsPipe, Asking
<1>3. machine \in Machines /\ machine.cards \in Nat
    BY <1>1, Graphics DEF Position
<1>4. at.card \in Cards /\ at.api \in 1..3 /\ at.card \in Nat
    BY <1>1, <1>2, <1>3 DEF Position, Cards
<1>5. unforked' \in Nat /\ fds' = 2 * unforked' /\ unforked' + 4 <= 3 * at.card + at.api
    BY <1>1, <1>2 DEF Descriptors
<1>6. unforked' + 3 <= 3 * at.card + at.api
    BY <1>4, <1>5
<1>7. Position' /\ Descriptors' /\ Child' /\ at'.card = at.card
    BY <1>2, <1>5, <1>6, StepsOn
<1>8. ASSUME child = "exited" PROVE Finds(machine, at.card, api, both)
    <2> DEFINE a == Answer(at.card, api)
    <2>1. Finds(machine, at.card, api, a)
        BY <1>3, <1>4, AnswerFound
    <2>2. /\ Len(written) \in {0, 2}
          /\ \A i \in 1..Len(written) : written[i] = a[i]
        BY <1>1, <1>8 DEF Child
    <2> HIDE DEF a, api
    <2>3. CASE Len(written) = 0
        <3>1. both = <<None, None>>
            BY <2>3 DEF Received
        <3> QED BY <3>1, NothingFound
    <2>4. CASE Len(written) = 2
        <3>1. both[1] = a[1] /\ both[2] = a[2]
            BY <2>2, <2>4 DEF Received
        <3> HIDE DEF both
        <3> QED BY <2>1, <3>1 DEF Finds
    <2> QED BY <2>2, <2>3, <2>4
<1>9. ASSUME child = "exited", NEW v, InfoOK(machine, at.card, v)
      PROVE  InfoOK(machine, at.card, [v EXCEPT ![api] = both])
    <2>1. both \in Pair
        <3>1. both[1] \in Owner /\ both[2] \in Owner
            BY <1>8, <1>9 DEF Finds
        <3> QED BY <3>1 DEF Pair
    <2>2. api \in {"gl", "vk", "cl"} /\ v \in InfoType
        BY <1>4, <1>9 DEF Apis, InfoOK
    <2> DEFINE w == [v EXCEPT ![api] = both]
    <2>3. w \in InfoType /\ \A x \in {"gl", "vk", "cl"} : w[x] = IF x = api THEN both ELSE v[x]
        <3> HIDE DEF api, both
        <3> QED BY <2>1, <2>2 DEF InfoType
    <2>4. ASSUME NEW b \in 1..3 PROVE Finds(machine, at.card, Apis[b], w[Apis[b]])
        <3>1. Apis[b] \in {"gl", "vk", "cl"}
            BY DEF Apis
        <3>2. Finds(machine, at.card, Apis[b], v[Apis[b]])
            BY <1>9 DEF InfoOK
        <3> HIDE DEF api, both, w
        <3> QED BY <1>8, <1>9, <2>3, <3>1, <3>2
    <2> HIDE DEF w
    <2>5. InfoOK(machine, at.card, w)
        BY <2>3, <2>4 DEF InfoOK
    <2> QED BY <2>5 DEF w
<1>10. Known'
    <2>1. info \in Seq(InfoType) /\ Len(info) = at.card /\ \A c \in 1..at.card : InfoOK(machine, c, info[c])
        BY <1>1 DEF Known
    <2>2. CASE child # "exited"
        BY <1>2, <1>7, <2>1, <2>2 DEF Known
    <2>3. CASE child = "exited"
        <3> DEFINE v == [info[at.card] EXCEPT ![api] = both]
        <3> HIDE DEF api, both
        <3>1. at.card \in 1..at.card
            BY <1>4 DEF Cards
        <3>2. InfoOK(machine, at.card, info[at.card])
            BY <2>1, <3>1
        <3>3. InfoOK(machine, at.card, v)
            BY <1>9, <2>3, <3>2
        <3>4. v \in InfoType
            BY <3>3 DEF InfoOK
        <3>5. info' = [info EXCEPT ![at.card] = v]
            BY <1>2, <2>3
        <3> HIDE DEF v
        <3>6. /\ info' \in Seq(InfoType) /\ Len(info') = at.card
              /\ \A c \in 1..at.card : info'[c] = IF c = at.card THEN v ELSE info[c]
            BY <2>1, <3>4, <3>5, <3>1
        <3>7. \A c \in 1..at.card : InfoOK(machine, c, info'[c])
            BY <2>1, <3>3, <3>6
        <3> QED BY <1>7, <3>6, <3>7 DEF Known
    <2> QED BY <2>2, <2>3
<1> QED BY <1>7, <1>10 DEF ProbeInv

LEMMA ProbeStep == ProbeInv /\ [Next]_vars => ProbeInv'
<1> SUFFICES ASSUME ProbeInv, [Next]_vars PROVE ProbeInv'
    OBVIOUS
<1>1. CASE machine' = machine /\ probing' = probing
    <2>1. machine' = machine /\ at' = at /\ pc' = pc /\ child' = child /\ written' = written
          /\ fds' = fds /\ unforked' = unforked /\ info' = info
        BY <1>1 DEF probing
    <2>2. Answer(at.card, Apis[at.api])' = Answer(at.card, Apis[at.api])
        BY <2>1, SameAnswers
    <2>3. Child'
        BY <2>1, <2>2 DEF ProbeInv, Child
    <2>4. Position' /\ Descriptors' /\ Known'
        BY <2>1 DEF ProbeInv, Position, Descriptors, Known
    <2> QED BY <2>3, <2>4 DEF ProbeInv
<1>2. CASE FindDevices
    <2>1. machine' = machine
        BY <1>2 DEF FindDevices, Probe, NextDevice, Pipe, Fork, ChildWrites, ChildExits, ChildDies,
                    Reap, GpuRest
    <2> QED BY <1>2, <2>1, Device, OpensPipe, Forks, Writes, Ends, Reaps DEF FindDevices, Probe
<1>3. UNCHANGED vars => machine' = machine /\ probing' = probing
    BY DEF vars, gpuVars
<1> QED BY <1>1, <1>2, <1>3, ProbeIdleSteps

\* However the probes of a computer's cards go wrong, each gives both of its values or neither,
\* compute units only with a version, and only a failed fork() leaves descriptors open
\* (libpci.cpp, the three _dedicated_process functions).
THEOREM ProbesAreClean == Spec => []ProbesClean
<1>1. ASSUME ProbeInv PROVE ProbesClean
    <2>1. /\ Descriptors /\ Child /\ info \in Seq(InfoType) /\ Len(info) = at.card
          /\ \A c \in 1..at.card : InfoOK(machine, c, info[c])
        BY <1>1 DEF ProbeInv, Known
    <2>2. pc \in {"pipe", "device", "done"} => fds = 2 * unforked /\ child = "none"
        BY <2>1 DEF Descriptors, Child
    <2>3. ASSUME NEW c \in DOMAIN info
          PROVE  /\ info[c].gl[1] = info[c].gl[2] /\ info[c].vk[1] = info[c].vk[2]
                 /\ info[c].cl[1] = None => info[c].cl[2] = None
        <3>1. c \in 1..at.card
            BY <2>1
        <3>2. \A a \in 1..3 : Finds(machine, c, Apis[a], info[c][Apis[a]])
            BY <2>1, <3>1 DEF InfoOK
        <3>3. /\ Finds(machine, c, "gl", info[c].gl) /\ Finds(machine, c, "vk", info[c].vk)
              /\ Finds(machine, c, "cl", info[c].cl)
            <4>1. Apis[1] = "gl" /\ Apis[2] = "vk" /\ Apis[3] = "cl"
                BY DEF Apis
            <4>2. 1 \in 1..3 /\ 2 \in 1..3 /\ 3 \in 1..3
                OBVIOUS
            <4> QED BY <3>2, <4>1, <4>2
        <3> QED BY <3>3 DEF Finds
    <2> QED BY <2>2, <2>3 DEF ProbesClean
<1> QED BY <1>1, ProbeStart, ProbeStep, PTL DEF Spec

-----------------------------------------------------------------------------
(* The CPU page: the selected core and what the sensors are read for.      *)

Sources == {"none", "msr", "sensor", "libcpuid", "cpufreq"}
Sensor  == [label : Value, path : Path]

PathOK(m, t, p)   == p \in Path /\ (p # NoPath => p.core \in m.cores[t])
SensorOK(m, t, r) == /\ r \in Sensor /\ PathOK(m, t, r.path)
                     /\ r.label # Empty => r.label.core \in m.cores[t]
SensorsOK(m, r)   == /\ r \in [Types(m) -> Sensor]
                     /\ \A t \in Types(m) : SensorOK(m, t, r[t])

Selected == machine \in Machines /\ type \in Types(machine) /\ core \in CoresOf(type)
Flags    == /\ loaded \in BOOLEAN /\ module_loaded \in BOOLEAN
            /\ use_fallback \subseteq Readings /\ registered \subseteq Functions
Speeds   == speed \in Value /\ multiplier \in Value

CpuInv == Selected /\ Flags /\ Speeds /\ SensorsOK(machine, temp) /\ SensorsOK(machine, volt)

LEMMA Processor ==
    ASSUME NEW m \in Machines
    PROVE  /\ 1 \in Types(m) /\ m.loaded \in BOOLEAN /\ m.forced \subseteq Readings
           /\ \A t \in Types(m) : m.cores[t] \subseteq Nat /\ m.cores[t] # {}
<1>1. CpuMachineOK(m)
    BY CpuAssumption
<1>2. /\ m.cores # <<>> /\ m.cores \in Seq(SUBSET Nat) /\ \A t \in Types(m) : m.cores[t] # {}
      /\ m.loaded \in BOOLEAN /\ m.forced \subseteq Readings
    BY <1>1 DEF CpuMachineOK
<1>3. /\ Len(m.cores) \in Nat /\ Types(m) = 1..Len(m.cores)
      /\ \A t \in Types(m) : m.cores[t] \in SUBSET Nat
    BY <1>2, Elements DEF Types
<1>4. Len(m.cores) # 0
    BY <1>2
<1> QED BY <1>2, <1>3, <1>4

LEMMA Nothing ==
    ASSUME NEW m \in Machines
    PROVE  SensorsOK(m, [t \in Types(m) |-> [label |-> Empty, path |-> NoPath]])
<1> DEFINE e == [label |-> Empty, path |-> NoPath]
<1>1. e \in Sensor /\ e.label = Empty /\ e.path = NoPath /\ NoPath \in Path
    BY DEF Sensor, Value, Path, Empty, NoPath
<1> HIDE DEF e
<1>2. \A t \in Types(m) : SensorOK(m, t, e)
    BY <1>1 DEF SensorOK, PathOK
<1>3. SensorsOK(m, [t \in Types(m) |-> e])
    BY <1>1, <1>2 DEF SensorsOK
<1> QED BY <1>3 DEF e

LEMMA SetSensor ==
    ASSUME NEW m \in Machines, NEW r, SensorsOK(m, r), NEW t \in Types(m), NEW x, SensorOK(m, t, x)
    PROVE  SensorsOK(m, [r EXCEPT ![t] = x])
<1>1. x \in Sensor
    BY DEF SensorOK
<1> QED BY <1>1 DEF SensorsOK

LEMMA SetLabel ==
    ASSUME NEW m \in Machines, NEW r, SensorsOK(m, r), NEW t \in Types(m),
           NEW s \in Sources, NEW c \in m.cores[t]
    PROVE  SensorsOK(m, [r EXCEPT ![t].label = Val(s, c)])
<1> DEFINE v == Val(s, c)
           x == [r[t] EXCEPT !.label = v]
<1>1. v \in Value /\ v.core = c
    BY Processor DEF Value, Val, Sources
<1>2. r[t] \in Sensor /\ PathOK(m, t, r[t].path)
    BY DEF SensorsOK, SensorOK
<1> HIDE DEF v
<1>3. x \in Sensor /\ x.label = v /\ x.path = r[t].path
    BY <1>1, <1>2 DEF Sensor
<1> HIDE DEF x
<1>4. SensorOK(m, t, x)
    BY <1>1, <1>2, <1>3 DEF SensorOK
<1>5. SensorsOK(m, [r EXCEPT ![t] = x])
    BY <1>4, SetSensor
<1> QED BY <1>5 DEF x, v

LEMMA SetPath ==
    ASSUME NEW m \in Machines, NEW r, SensorsOK(m, r), NEW t \in Types(m), NEW p, PathOK(m, t, p)
    PROVE  SensorsOK(m, [r EXCEPT ![t].path = p])
<1> DEFINE x == [r[t] EXCEPT !.path = p]
<1>1. r[t] \in Sensor /\ (r[t].label # Empty => r[t].label.core \in m.cores[t]) /\ p \in Path
    BY DEF SensorsOK, SensorOK, PathOK
<1>2. x \in Sensor /\ x.label = r[t].label /\ x.path = p
    BY <1>1 DEF Sensor
<1> HIDE DEF x
<1>3. SensorOK(m, t, x)
    BY <1>1, <1>2 DEF SensorOK
<1>4. SensorsOK(m, [r EXCEPT ![t] = x])
    BY <1>3, SetSensor
<1> QED BY <1>4 DEF x

LEMMA SensedHere ==
    ASSUME CpuInv, NEW r, SensorsOK(machine, r), NEW p, PathOK(machine, type, p), p # NoPath
    PROVE  SensorsOK(machine, Sensed(r, p))
<1>1. machine \in Machines /\ type \in Types(machine)
    BY DEF CpuInv, Selected
<1>2. SensorsOK(machine, [r EXCEPT ![type].path = p])
    BY <1>1, SetPath
<1> DEFINE q == [r EXCEPT ![type].path = p]
<1> HIDE DEF q
<1>3. p.core \in machine.cores[type]
    BY DEF PathOK
<1>4. SensorsOK(machine, [q EXCEPT ![type].label = Val("sensor", p.core)])
    BY <1>1, <1>2, <1>3, SetLabel DEF q, Sources
<1> QED BY <1>4 DEF q, Sensed

LEMMA CpuStart == Init => CpuInv
<1> SUFFICES ASSUME Init PROVE CpuInv
    OBVIOUS
<1>1. machine \in Machines
    BY DEF Init, GpuInit
<1>2. 1 \in Types(machine) /\ CoresOf(1) \subseteq Nat /\ CoresOf(1) # {}
    BY <1>1, Processor DEF CoresOf
<1>3. Selected
    <2>1. \E c \in CoresOf(1) : \A d \in CoresOf(1) : c <= d
        BY <1>2, Least
    <2>2. type = 1 /\ core = CHOOSE c \in CoresOf(1) : \A d \in CoresOf(1) : c <= d
        BY DEF Init
    <2>3. core \in CoresOf(1)
        BY <2>1, <2>2
    <2> QED BY <1>1, <1>2, <2>2, <2>3 DEF Selected
<1>4. Flags
    BY <1>1, Processor DEF Init, Flags
<1>5. Speeds
    BY DEF Init, Speeds, Value, Empty
<1>6. SensorsOK(machine, temp) /\ volt = temp
    BY <1>1, Nothing DEF Init
<1> QED BY <1>3, <1>4, <1>5, <1>6 DEF CpuInv

\* What a step of the page leaves alone, and what it keeps.
SamePlace == machine' = machine /\ type' = type /\ core' = core

LEMMA CpuKept ==
    ASSUME CpuInv, SamePlace, Flags', Speeds', SensorsOK(machine, temp'), SensorsOK(machine, volt')
    PROVE  CpuInv'
<1>1. Selected'
    BY DEF CpuInv, Selected, SamePlace, CoresOf
<1> QED BY <1>1 DEF CpuInv, SamePlace

LEMMA Recorded ==
    ASSUME Flags, NEW f \in Functions, NEW ok, Record(f, ok)
    PROVE  registered' \subseteq Functions
BY DEF Flags, Record

LEMMA Chosen ==
    ASSUME Flags, NEW r \in Readings, NEW label, Choose(r, label)
    PROVE  use_fallback' \subseteq Readings
BY DEF Flags, Choose

\* The value of the selected core.
LEMMA OfCore ==
    ASSUME CpuInv, NEW s \in Sources
    PROVE  Val(s, core) \in Value
<1>1. core \in Nat
    BY Processor DEF CpuInv, Selected, CoresOf
<1> QED BY <1>1 DEF Val, Value, Sources

LEMMA FoundHere ==
    ASSUME CpuInv, NEW kind \in {"none", "core", "all"}
    PROVE  PathOK(machine, type, Found(kind))
<1>1. core \in Nat /\ core \in machine.cores[type]
    BY Processor DEF CpuInv, Selected, CoresOf
<1> QED BY <1>1 DEF PathOK, Found, Path, NoPath

LEMMA ReadsClock == CpuInv /\ call_libcpuid_dynamic => CpuInv'
<1> SUFFICES ASSUME CpuInv, call_libcpuid_dynamic PROVE CpuInv'
    OBVIOUS
<1>1. /\ SamePlace /\ UNCHANGED <<loaded, module_loaded, use_fallback, temp, volt, multiplier>>
      /\ \/ UNCHANGED <<speed, registered>>
         \/ speed' \in {speed, Val("libcpuid", core)}
            /\ Record("call_libcpuid_dynamic", speed' # Empty)
    BY DEF call_libcpuid_dynamic, CpuRest, SamePlace
<1>2. Val("libcpuid", core) \in Value
    BY OfCore DEF Sources
<1>3. Flags /\ Speeds /\ SensorsOK(machine, temp) /\ SensorsOK(machine, volt)
    BY DEF CpuInv
<1>4. registered' \subseteq Functions
    BY <1>1, <1>3, Recorded DEF Functions, Flags
<1>5. Flags' /\ Speeds'
    BY <1>1, <1>2, <1>3, <1>4 DEF Flags, Speeds
<1> QED BY <1>1, <1>3, <1>5, CpuKept

LEMMA LabelFromMsr ==
    ASSUME CpuInv, NEW r, SensorsOK(machine, r), NEW name
    PROVE  SensorsOK(machine, FromMsr(r, name))
<1>1. machine \in Machines /\ type \in Types(machine) /\ core \in machine.cores[type]
    BY DEF CpuInv, Selected, CoresOf
<1>2. SensorsOK(machine, [r EXCEPT ![type].label = Val("msr", core)])
    BY <1>1, SetLabel DEF Sources
<1> QED BY <1>2 DEF FromMsr

LEMMA ReadsMsr == CpuInv /\ call_libcpuid_msr_dynamic => CpuInv'
<1> SUFFICES ASSUME CpuInv, call_libcpuid_msr_dynamic PROVE CpuInv'
    OBVIOUS
<1>1. /\ SamePlace /\ UNCHANGED <<loaded, module_loaded, use_fallback, speed, multiplier>>
      /\ registered' = registered \/ Record("call_libcpuid_msr_dynamic", FALSE)
      /\ temp' = temp \/ temp' = FromMsr(temp, "temperature")
      /\ volt' = volt \/ volt' = FromMsr(volt, "voltage")
    BY DEF call_libcpuid_msr_dynamic, CpuRest, SamePlace
<1>2. Flags /\ Speeds /\ SensorsOK(machine, temp) /\ SensorsOK(machine, volt)
    BY DEF CpuInv
<1>3. registered' \subseteq Functions
    BY <1>1, <1>2, Recorded DEF Functions, Flags
<1>4. Flags' /\ Speeds'
    BY <1>1, <1>2, <1>3 DEF Flags, Speeds
<1>5. SensorsOK(machine, temp') /\ SensorsOK(machine, volt')
    BY <1>1, <1>2, LabelFromMsr
<1> QED BY <1>1, <1>4, <1>5, CpuKept

\* The label and the path after a fallback: a path that was found, and a value if the read worked.
LEMMA Fallback ==
    ASSUME CpuInv, NEW r, SensorsOK(machine, r), NEW kind \in {"none", "core", "all"},
           NEW p, p = Looked(r[type].path, Found(kind)), NEW q,
           q = (IF p # NoPath THEN Sensed(r, p) ELSE [r EXCEPT ![type].path = p])
           \/ q = [r EXCEPT ![type].path = p]
    PROVE  SensorsOK(machine, q)
<1>1. machine \in Machines /\ type \in Types(machine)
    BY DEF CpuInv, Selected
<1>2. PathOK(machine, type, r[type].path)
    BY <1>1 DEF SensorsOK, SensorOK
<1>3. PathOK(machine, type, p)
    BY <1>2, FoundHere DEF Looked
<1>4. SensorsOK(machine, [r EXCEPT ![type].path = p])
    BY <1>1, <1>3, SetPath
<1>5. p # NoPath => SensorsOK(machine, Sensed(r, p))
    BY <1>3, SensedHere
<1> QED BY <1>4, <1>5

LEMMA TemperatureFalls == CpuInv /\ cputab_temp_fallback => CpuInv'
<1> SUFFICES ASSUME CpuInv, cputab_temp_fallback PROVE CpuInv'
    OBVIOUS
<1>1. Flags /\ Speeds /\ SensorsOK(machine, temp) /\ SensorsOK(machine, volt) /\ machine \in Machines
    BY DEF CpuInv, Selected
<1>2. SamePlace /\ UNCHANGED <<volt, speed, multiplier>> /\ Choose("temperature", temp[type].label)
    BY DEF cputab_temp_fallback, CpuRest, SamePlace
<1>3. use_fallback' \subseteq Readings
    BY <1>1, <1>2, Chosen DEF Readings
<1>4. loaded' \in BOOLEAN /\ module_loaded' \in BOOLEAN
    BY <1>1 DEF cputab_temp_fallback, load_module, Flags
<1>5. registered' = registered \/ \E ok \in BOOLEAN : Record("cputab_temp_fallback", ok)
    BY DEF cputab_temp_fallback
<1>6. Flags' /\ Speeds'
    <2>1. registered' \subseteq Functions
        BY <1>1, <1>5, Recorded DEF Functions, Flags
    <2> QED BY <1>1, <1>2, <1>3, <1>4, <2>1 DEF Flags, Speeds
<1>7. SensorsOK(machine, temp')
    <2> DEFINE kind == IF loaded' /\ machine.labels # "none" THEN machine.labels
                       ELSE IF machine.generic THEN "all" ELSE "none"
               path == Looked(temp[type].path, TemperaturePath(loaded'))
    <2>1. TemperaturePath(loaded') = Found(kind)
        BY DEF TemperaturePath
    <2>2. kind \in {"none", "core", "all"}
        BY <1>1, CpuAssumption DEF CpuMachineOK
    <2>3. \/ temp' = temp
          \/ temp' = (IF path # NoPath THEN Sensed(temp, path) ELSE [temp EXCEPT ![type].path = path])
          \/ temp' = [temp EXCEPT ![type].path = path]
        BY DEF cputab_temp_fallback
    <2>4. path = Looked(temp[type].path, Found(kind))
        BY <2>1
    <2> HIDE DEF kind, path
    <2> QED BY <1>1, <2>2, <2>3, <2>4, Fallback
<1>8. SensorsOK(machine, volt')
    BY <1>1, <1>2
<1> QED BY <1>2, <1>6, <1>7, <1>8, CpuKept

LEMMA VoltageFalls == CpuInv /\ cputab_volt_fallback => CpuInv'
<1> SUFFICES ASSUME CpuInv, cputab_volt_fallback PROVE CpuInv'
    OBVIOUS
<1>1. Flags /\ Speeds /\ SensorsOK(machine, temp) /\ SensorsOK(machine, volt)
    BY DEF CpuInv
<1>2. /\ SamePlace /\ UNCHANGED <<loaded, module_loaded, temp, speed, multiplier>>
      /\ Choose("voltage", volt[type].label)
    BY DEF cputab_volt_fallback, CpuRest, SamePlace
<1>3. use_fallback' \subseteq Readings
    BY <1>1, <1>2, Chosen DEF Readings
<1>4. registered' = registered \/ \E ok \in BOOLEAN : Record("cputab_volt_fallback", ok)
    BY DEF cputab_volt_fallback
<1>5. Flags' /\ Speeds'
    <2>1. registered' \subseteq Functions
        BY <1>1, <1>4, Recorded DEF Functions, Flags
    <2> QED BY <1>1, <1>2, <1>3, <2>1 DEF Flags, Speeds
<1>6. SensorsOK(machine, volt')
    <2> DEFINE kind == IF machine.zenpower THEN "all" ELSE "none"
               path == Looked(volt[type].path, VoltagePath)
    <2>1. VoltagePath = Found(kind) /\ kind \in {"none", "core", "all"}
        BY DEF VoltagePath
    <2>2. \/ volt' = volt
          \/ volt' = (IF path # NoPath THEN Sensed(volt, path) ELSE [volt EXCEPT ![type].path = path])
          \/ volt' = [volt EXCEPT ![type].path = path]
        BY DEF cputab_volt_fallback
    <2>3. path = Looked(volt[type].path, Found(kind))
        BY <2>1
    <2> HIDE DEF kind, path
    <2> QED BY <1>1, <2>1, <2>2, <2>3, Fallback
<1>7. SensorsOK(machine, temp')
    BY <1>1, <1>2
<1> QED BY <1>2, <1>5, <1>6, <1>7, CpuKept

LEMMA FrequencyFalls == CpuInv /\ (cputab_freq_fallback \/ set_cpu_multiplier) => CpuInv'
<1> SUFFICES ASSUME CpuInv, cputab_freq_fallback \/ set_cpu_multiplier PROVE CpuInv'
    OBVIOUS
<1>1. Flags /\ Speeds /\ SensorsOK(machine, temp) /\ SensorsOK(machine, volt)
    BY DEF CpuInv
<1>2. SamePlace /\ UNCHANGED <<loaded, module_loaded, temp, volt>>
    BY DEF cputab_freq_fallback, set_cpu_multiplier, CpuRest, SamePlace
<1>3. use_fallback' = use_fallback \/ Choose("speed", speed)
    BY DEF cputab_freq_fallback, set_cpu_multiplier
<1>4. registered' = registered \/ Record("cputab_freq_fallback", core \in machine.cpufreq)
    BY DEF cputab_freq_fallback, set_cpu_multiplier
<1>5. speed' \in {speed, Val("cpufreq", core)} /\ multiplier' \in {multiplier, speed}
    BY DEF cputab_freq_fallback, set_cpu_multiplier
<1>6. Val("cpufreq", core) \in Value
    BY OfCore DEF Sources
<1>7. use_fallback' \subseteq Readings
    BY <1>1, <1>3, Chosen DEF Readings, Flags
<1>8. registered' \subseteq Functions
    BY <1>1, <1>4, Recorded DEF Functions, Flags
<1>9. Flags' /\ Speeds'
    BY <1>1, <1>2, <1>5, <1>6, <1>7, <1>8 DEF Flags, Speeds
<1>10. SensorsOK(machine, temp') /\ SensorsOK(machine, volt')
    BY <1>1, <1>2
<1> QED BY <1>2, <1>9, <1>10, CpuKept

LEMMA MachineKept == [Next]_vars => machine' = machine
BY DEF Next, Program, Environment, FindDevices, Fill, do_refresh, CpuPage, GraphicsPage, CpuRest,
       Probe, NextDevice, Pipe, Fork, ChildWrites, ChildExits, ChildDies, Reap, GpuRest,
       call_libcpuid_dynamic, call_libcpuid_msr_dynamic, cputab_temp_fallback,
       cputab_volt_fallback, cputab_freq_fallback, set_cpu_multiplier, Hardware, PowerOff,
       PowerOn, Rebind, ClockChanges, DaemonDies, SelectCore, ModuleLoaded, Rest, gpuVars,
       gpu_monitoring, MonitorCard, MonitoringReturns, vars

LEMMA CpuIdleSteps ==
    Next /\ ~CpuPage => \/ Keep
                        \/ \E t \in Types(machine) : \E c \in CoresOf(t) : SelectCore(t, c)
                        \/ ModuleLoaded
BY DEF Next, Program, Environment, FindDevices, Fill, do_refresh, GraphicsPage, Keep, cpuVars

LEMMA CpuStep == CpuInv /\ [Next]_vars => CpuInv'
<1> SUFFICES ASSUME CpuInv, [Next]_vars PROVE CpuInv'
    OBVIOUS
<1>1. machine' = machine
    BY MachineKept
<1>2. CASE CpuPage
    BY <1>2, ReadsClock, ReadsMsr, TemperatureFalls, VoltageFalls, FrequencyFalls DEF CpuPage
<1>3. CASE Keep
    BY <1>1, <1>3 DEF Keep, CpuInv, Selected, Flags, Speeds, CoresOf
<1>4. ASSUME NEW t \in Types(machine), NEW c \in CoresOf(t), SelectCore(t, c) PROVE CpuInv'
    BY <1>1, <1>4 DEF SelectCore, CpuInv, Selected, Flags, Speeds, CoresOf
<1>5. CASE ModuleLoaded
    BY <1>1, <1>5 DEF ModuleLoaded, CpuInv, Selected, Flags, Speeds, CoresOf
<1>6. UNCHANGED vars => Keep
    BY DEF vars, cpuVars, Keep
<1> QED BY <1>2, <1>3, <1>4, <1>5, <1>6, CpuIdleSteps

-----------------------------------------------------------------------------
(* The order of the calls: find_devices() ends before the first refresh.   *)

Order ==
    /\ phase \in {"find", "fill", "ui"}
    /\ step \in {"idle", "clock", "msr", "temperature", "voltage", "speed", "multiplier", "gpu"}
    /\ phase = "find" => step = "idle"
    /\ phase # "find" => pc = "done"

LEMMA OrderStart == Init => Order
BY DEF Init, Order

LEMMA OrderStep == Order /\ [Next]_vars => Order'
<1> SUFFICES ASSUME Order, [Next]_vars PROVE Order'
    OBVIOUS
<1>1. CASE FindDevices
    BY <1>1 DEF FindDevices, cpuVars, Order
<1>2. CASE Fill
    BY <1>2 DEF Fill, Order, gpuVars, probing
<1>3. CASE do_refresh
    BY <1>3 DEF do_refresh, Order, gpuVars, probing
<1>4. CASE CpuPage
    <2>1. /\ phase' = phase /\ pc' = pc /\ step # "idle"
          /\ step' \in {"msr", "temperature", "voltage", "speed", "multiplier", "gpu", "idle"}
        BY <1>4 DEF CpuPage, CpuRest, Goto, probing, call_libcpuid_dynamic, call_libcpuid_msr_dynamic,
                    cputab_temp_fallback, cputab_volt_fallback, cputab_freq_fallback,
                    set_cpu_multiplier
    <2> QED BY <2>1 DEF Order
<1>5. CASE GraphicsPage
    <2>1. pc' = pc
        BY <1>5 DEF GraphicsPage, gpu_monitoring, MonitorCard, MonitoringReturns, gpuVars, probing
    <2>2. step = "gpu" /\ (UNCHANGED <<phase, step>> \/ (phase' = "ui" /\ step' = "idle"))
        BY <1>5 DEF GraphicsPage
    <2> QED BY <2>1, <2>2 DEF Order
<1>6. CASE Environment \/ UNCHANGED vars
    <2>1. UNCHANGED <<phase, step, pc>>
        BY <1>6 DEF Environment, Hardware, PowerOff, PowerOn, Rebind, ClockChanges, DaemonDies,
                    SelectCore, ModuleLoaded, Rest, gpuVars, cpuVars, vars, probing
    <2> QED BY <2>1 DEF Order
<1> QED BY <1>1, <1>2, <1>3, <1>4, <1>5, <1>6 DEF Next, Program

-----------------------------------------------------------------------------
(* The cards themselves: a number changes only with a move.                *)

Wiring ==
    /\ on \subseteq Cards /\ moved \subseteq Cards /\ idle \in BOOLEAN
    /\ bound \in [Cards -> Drivers] /\ number \in [Cards -> Cards]
    /\ switches \in 0..machine.switches
    /\ moved = {} => \A c \in Cards : number[c] = c

Connection == daemon \in {"open", "dead", "closed"} /\ debug \in BOOLEAN

LEMMA WiringStart == Init => Wiring /\ Connection
<1> SUFFICES ASSUME Init PROVE Wiring /\ Connection
    OBVIOUS
<1>1. /\ machine \in Machines /\ daemon = IF machine.daemon THEN "open" ELSE "closed"
      /\ debug = machine.debug /\ on = Cards /\ bound = machine.driver
      /\ number = [c \in Cards |-> c] /\ idle \in BOOLEAN /\ moved = {} /\ switches = 0
    BY DEF Init, GpuInit
<1>2. /\ machine.switches \in Nat /\ machine.driver \in [Cards -> Drivers]
      /\ machine.debug \in BOOLEAN
    BY <1>1, Graphics DEF Cards
<1> QED BY <1>1, <1>2 DEF Wiring, Connection

LEMMA WiringStep == machine \in Machines /\ Wiring /\ [Next]_vars => Wiring'
<1> SUFFICES ASSUME machine \in Machines, Wiring, [Next]_vars PROVE Wiring'
    OBVIOUS
<1>1. machine' = machine /\ Cards' = Cards
    BY MachineKept DEF Cards
<1>2. machine.switches \in Nat /\ machine.driver \in [Cards -> Drivers]
    BY Graphics DEF Cards
<1>3. ~(Environment /\ Hardware) => UNCHANGED hardware
    BY DEF Next, Program, FindDevices, Fill, do_refresh, CpuPage, GraphicsPage, CpuRest,
           Probe, NextDevice, Pipe, Fork, ChildWrites, ChildExits, ChildDies, Reap, GpuRest,
           call_libcpuid_dynamic, call_libcpuid_msr_dynamic, cputab_temp_fallback,
           cputab_volt_fallback, cputab_freq_fallback, set_cpu_multiplier, DaemonDies,
           SelectCore, ModuleLoaded, gpuVars, gpu_monitoring, MonitorCard, MonitoringReturns,
           vars, Environment
<1>4. CASE UNCHANGED hardware
    BY <1>1, <1>4 DEF hardware, Wiring
<1>5. CASE Hardware
    <2>1. ASSUME Switch PROVE switches' \in 0..machine'.switches
        BY <1>1, <1>2, <2>1 DEF Switch, Wiring
    <2>2. ASSUME NEW c \in Cards, PowerOff(c) PROVE Wiring'
        BY <1>1, <2>1, <2>2 DEF PowerOff, Wiring
    <2>3. ASSUME NEW c \in Cards, PowerOn(c) PROVE Wiring'
        <3>1. PICK n \in FreeNumbers : number' = [number EXCEPT ![c] = n]
            BY <2>3 DEF PowerOn
        <3>2. number' \in [Cards -> Cards]
            BY <3>1 DEF FreeNumbers, Wiring
        <3>3. /\ on' = on \cup {c} /\ moved' = moved \cup {c} /\ Switch
              /\ UNCHANGED <<bound, idle>>
            BY <2>3 DEF PowerOn
        <3>4. moved' # {}
            BY <3>3
        <3> QED BY <1>1, <2>1, <3>2, <3>3, <3>4 DEF Wiring
    <2>4. ASSUME NEW c \in Cards, Rebind(c) PROVE Wiring'
        <3>1. PICK d \in Drivers : bound' = [bound EXCEPT ![c] = d]
            <4>1. machine.driver[c] \in Drivers /\ "vfio-pci" \in Drivers
                BY <1>2 DEF Drivers, KnownDrivers
            <4> QED BY <2>4, <4>1 DEF Rebind
        <3>2. bound' \in [Cards -> Drivers]
            BY <3>1 DEF Wiring
        <3>3. UNCHANGED <<on, number, idle, moved>> /\ Switch
            BY <2>4 DEF Rebind
        <3> QED BY <1>1, <2>1, <3>2, <3>3 DEF Wiring
    <2>5. CASE ClockChanges
        BY <1>1, <2>1, <2>5 DEF ClockChanges, Wiring
    <2> QED BY <1>5, <2>2, <2>3, <2>4, <2>5 DEF Hardware
<1> QED BY <1>3, <1>4, <1>5

LEMMA ConnectionStep == Connection /\ [Next]_vars => Connection'
<1> SUFFICES ASSUME Connection, [Next]_vars PROVE Connection'
    OBVIOUS
<1>1. /\ daemon' \in {daemon, "dead", "closed"}
      /\ debug' \in {debug, TRUE}
    BY DEF Next, Program, Environment, FindDevices, Fill, do_refresh, CpuPage, GraphicsPage, CpuRest,
           Probe, NextDevice, Pipe, Fork, ChildWrites, ChildExits, ChildDies, Reap, GpuRest,
           call_libcpuid_dynamic, call_libcpuid_msr_dynamic, cputab_temp_fallback, load_module,
           cputab_volt_fallback, cputab_freq_fallback, set_cpu_multiplier, Hardware, PowerOff,
           PowerOn, Rebind, ClockChanges, DaemonDies, SelectCore, ModuleLoaded, Rest, gpuVars,
           gpu_monitoring, MonitorCard, MonitoringReturns, vars, can_access_sys_debug_dri
<1> QED BY <1>1 DEF Connection

-----------------------------------------------------------------------------
(* The counters of gpu_monitoring() stay in their ranges.                  *)

Bounded ==
    /\ mon.index \in 0..(machine.cards + 1) /\ mon.failed \in 0..machine.cards
    /\ mon.index # 0 => mon.failed < mon.index
    /\ mon.dri \in {-2, -1, 0, 1} /\ mon.registered \in 0..1

LEMMA BoundedStart == Init => Bounded
<1> SUFFICES ASSUME Init PROVE Bounded
    OBVIOUS
<1>1. machine.cards \in Nat
    BY CardsAreCounted DEF Init, GpuInit
<1>2. mon = [index |-> 0, failed |-> 0, init_done |-> FALSE, dri |-> 1, registered |-> 0]
    BY DEF Init, GpuInit
<1> QED BY <1>1, <1>2 DEF Bounded

LEMMA BoundedStep == MonInv /\ Bounded /\ [Next]_vars => Bounded'
<1> SUFFICES ASSUME MonInv, Bounded, [Next]_vars PROVE Bounded'
    OBVIOUS
<1>0. mon \in MonType /\ machine.cards \in Nat /\ machine' = machine
    BY MachineKept DEF MonInv
<1>1. CASE gpu_monitoring
    <2>1. mon' = SetStart(mon, 1, 0)
        BY <1>1 DEF gpu_monitoring, SetStart
    <2>2. /\ mon'.failed = 0 /\ mon'.index = 1
          /\ mon'.dri = mon.dri /\ mon'.registered = mon.registered
        BY <1>0, <2>1, UpdateStart
    <2> QED BY <1>0, <2>2 DEF Bounded
<1>2. CASE MonitorCard
    <2>1. mon.index \in 1..machine.cards /\ mon.failed \in 0..machine.cards /\ mon.failed < mon.index
        <3>1. mon.index \in 1..machine.cards
            BY <1>2 DEF MonitorCard, Cards
        <3>2. mon.index # 0
            BY <1>0, <3>1
        <3> QED BY <3>1, <3>2 DEF Bounded
    <2> DEFINE i == mon.index + 1
    <2>2. i \in Int /\ i \in 1..(machine.cards + 1) /\ mon.failed \in Int
        BY <1>0, <2>1
    <2>3. ASSUME mon' = [mon EXCEPT !.index = i] PROVE Bounded'
        <3> HIDE DEF i
        <3>1. /\ mon'.failed = mon.failed /\ mon'.index = i
              /\ mon'.dri = mon.dri /\ mon'.registered = mon.registered
            BY <1>0, <2>2, <2>3, UpdateIndex
        <3> QED BY <1>0, <2>1, <3>1 DEF Bounded, i
    <2>4. ASSUME NEW a \in {-2, -1, 0, 1}, NEW v,
                 mon' = [mon EXCEPT !.index = i, !.dri = a,
                                    !.failed = mon.failed + (IF Failed(v) THEN 1 ELSE 0)]
          PROVE  Bounded'
        <3> DEFINE f == mon.failed + (IF Failed(v) THEN 1 ELSE 0)
        <3>1. a \in Int /\ f \in 0..machine.cards /\ f < i /\ f \in Int
            BY <1>0, <2>1
        <3>2. mon' = SetCard(mon, i, a, f)
            BY <2>4 DEF SetCard
        <3> HIDE DEF f, i
        <3>3. /\ mon'.failed = f /\ mon'.index = i
              /\ mon'.dri = a /\ mon'.registered = mon.registered
            BY <1>0, <2>2, <3>1, <3>2, UpdateCard
        <3> QED BY <1>0, <2>2, <3>1, <3>3 DEF Bounded
    <2> QED BY <1>2, <2>3, <2>4 DEF MonitorCard, Skip
<1>3. CASE MonitoringReturns
    <2> DEFINE r == IF mon.failed = machine.cards THEN 1 ELSE 0
    <2>1. mon' = SetEnd(mon, 0, r)
        BY <1>3 DEF MonitoringReturns, SetEnd
    <2>2. r \in 0..1 /\ r \in Int
        OBVIOUS
    <2> HIDE DEF r
    <2>3. mon'.registered = r /\ mon'.index = 0 /\ mon'.failed = mon.failed /\ mon'.dri = mon.dri
        BY <1>0, <2>1, <2>2, UpdateEnd
    <2> QED BY <1>0, <2>2, <2>3 DEF Bounded
<1>4. CASE mon' = mon
    BY <1>0, <1>4 DEF Bounded
<1>5. GraphicsPage => gpu_monitoring \/ MonitorCard \/ MonitoringReturns \/ mon' = mon
    BY DEF GraphicsPage, gpuVars
<1>6. UNCHANGED vars => mon' = mon
    BY DEF vars, gpuVars
<1> QED BY <1>1, <1>2, <1>3, <1>4, <1>5, <1>6, MonIdleSteps DEF MonIdle

-----------------------------------------------------------------------------
(* A card's record: its own directory while no card has moved, and labels  *)
(* of its own, but for the two that come from /sys/kernel/debug.           *)

CardType(m) == [driver : {"unknown"} \cup KnownDrivers, kernel_driver : Drivers \cup {"", "None"},
                path : BOOLEAN, drm : 0..m.cards, hwmon : 0..m.cards,
                shown : [Labels -> Owner], fresh : SUBSET Labels]

CardOK(m, mv, c, k) ==
    /\ k \in CardType(m)
    /\ mv = {} => k.drm \in {0, c} /\ \A l \in Labels : k.shown[l] \in {None, c}
    /\ \A l \in Labels \ {"core", "mem"} : k.shown[l] \in {None, c}

CardInv ==
    /\ card \in Seq(CardType(machine)) /\ Len(card) = at.card
    /\ \A c \in 1..at.card : CardOK(machine, moved, c, card[c])

\* The same directory and labels.
Same(m, k, x) == x \in CardType(m) /\ x.drm = k.drm /\ x.shown = k.shown

LEMMA SetDriver ==
    ASSUME NEW m, NEW k \in CardType(m), NEW d \in {"unknown"} \cup KnownDrivers,
           NEW kd \in Drivers \cup {"", "None"}, NEW f \in SUBSET Labels
    PROVE  /\ Same(m, k, [k EXCEPT !.kernel_driver = kd, !.driver = d])
           /\ Same(m, k, [k EXCEPT !.driver = d, !.kernel_driver = kd, !.fresh = f])
           /\ Same(m, k, [k EXCEPT !.fresh = f])
<1> DEFINE D == {"unknown"} \cup KnownDrivers
           K == Drivers \cup {"", "None"}
           S == [Labels -> Owner]
           F == SUBSET Labels
           T == [driver : D, kernel_driver : K, path : BOOLEAN, drm : 0..m.cards,
                 hwmon : 0..m.cards, shown : S, fresh : F]
<1>1. CardType(m) = T
    BY DEF CardType
<1>2. d \in D /\ kd \in K /\ f \in F /\ k \in T
    BY <1>1
<1> HIDE DEF D, K, S, F
<1>3. LET x == [k EXCEPT !.kernel_driver = kd, !.driver = d]
      IN  x \in T /\ x.drm = k.drm /\ x.shown = k.shown
    BY <1>2
<1>4. LET x == [k EXCEPT !.driver = d, !.kernel_driver = kd, !.fresh = f]
      IN  x \in T /\ x.drm = k.drm /\ x.shown = k.shown
    BY <1>2
<1>5. LET x == [k EXCEPT !.fresh = f]
      IN  x \in T /\ x.drm = k.drm /\ x.shown = k.shown
    BY <1>2
<1> HIDE DEF T
<1> QED BY <1>1, <1>3, <1>4, <1>5 DEF Same

WithPaths(k, n, h)  == [k EXCEPT !.drm = n, !.hwmon = h]
WithValues(k, f, s) == [k EXCEPT !.fresh = f, !.shown = s]

LEMMA SetPaths ==
    ASSUME NEW m, NEW k \in CardType(m), NEW n \in 0..m.cards, NEW h \in 0..m.cards
    PROVE  /\ WithPaths(k, n, h) \in CardType(m)
           /\ WithPaths(k, n, h).drm = n /\ WithPaths(k, n, h).shown = k.shown
BY DEF CardType, WithPaths

LEMMA SetValues ==
    ASSUME NEW m, NEW k \in CardType(m), NEW f \in SUBSET Labels, NEW s \in [Labels -> Owner]
    PROVE  /\ WithValues(k, f, s) \in CardType(m)
           /\ WithValues(k, f, s).drm = k.drm /\ WithValues(k, f, s).shown = s
BY DEF CardType, WithValues

LEMMA Sorted ==
    ASSUME NEW d, NEW l \in DOMAIN Source(d)
    PROVE  /\ l \in Labels /\ Source(d)[l] \in {"drm", "hwmon", "smi", "debug"}
           /\ Source(d)[l] = "debug" => l \in {"core", "mem"}
<1>1. CASE d = "amdgpu"
    BY <1>1 DEF Source, Labels
<1>2. CASE d = "i915"
    BY <1>2 DEF Source, Labels
<1>3. CASE d = "nvidia"
    BY <1>3 DEF Source, Labels
<1>4. CASE d \in {"radeon", "nouveau"}
    BY <1>4 DEF Source, Labels
<1>5. CASE d \notin {"amdgpu", "i915", "nvidia", "radeon", "nouveau"}
    <2>1. Source(d) = <<>>
        BY <1>5 DEF Source
    <2> QED BY <2>1
<1> QED BY <1>1, <1>2, <1>3, <1>4, <1>5

LEMMA ReadsOwn ==
    ASSUME machine \in Machines, Wiring, NEW c \in Cards, NEW k, CardOK(machine, moved, c, k),
           NEW how \in {"drm", "hwmon", "smi", "debug"}, NEW access
    PROVE  /\ Read(k, c, how, access) \in Owner
           /\ moved = {} \/ how # "debug" => Read(k, c, how, access) \in {None, c}
<1>1. Cards \subseteq Nat /\ 0 \notin Cards /\ Cards \subseteq Owner /\ None \in Owner
    BY Graphics DEF Cards, Owner
<1>2. CASE how # "debug"
    <2>1. Read(k, c, how, access) \in {None, c}
        BY <1>2 DEF Read
    <2> QED BY <1>1, <2>1
<1>3. CASE how = "debug"
    <2> DEFINE named == {d \in Cards : HasDirectories(d) /\ number[d] = k.drm /\ bound[d] = k.driver}
    <2>1. Read(k, c, how, access)
          = IF access /\ debug' /\ named # {} THEN CHOOSE d \in named : TRUE ELSE None
        BY <1>3 DEF Read
    <2>2. named # {} => (CHOOSE d \in named : TRUE) \in named
        <3> HIDE DEF named
        <3> QED OBVIOUS
    <2>3. named \subseteq Cards
        OBVIOUS
    <2>4. ASSUME moved = {} PROVE named \subseteq {c}
        <3>1. (\A d \in Cards : number[d] = d) /\ k.drm \in {0, c}
            BY <2>4 DEF Wiring, CardOK
        <3> QED BY <1>1, <3>1
    <2> HIDE DEF named
    <2> QED BY <1>1, <1>3, <2>1, <2>2, <2>3, <2>4
<1> QED BY <1>2, <1>3

LEMMA SameIsOK ==
    ASSUME NEW m, NEW mv, NEW c, NEW k, CardOK(m, mv, c, k), NEW x, Same(m, k, x)
    PROVE  CardOK(m, mv, c, x)
BY DEF CardOK, Same

LEMMA KernelDriver ==
    ASSUME Wiring, NEW c \in Cards, NEW k \in CardType(machine)
    PROVE  Same(machine, k, set_gpu_kernel_driver(k, c))
<1> DEFINE d == IF bound[c] \in KnownDrivers THEN bound[c] ELSE k.driver
<1>1. bound[c] \in Drivers /\ k.driver \in {"unknown"} \cup KnownDrivers
    BY DEF Wiring, CardType
<1>2. d \in {"unknown"} \cup KnownDrivers /\ bound[c] \in Drivers \cup {"", "None"}
    BY <1>1
<1>3. set_gpu_kernel_driver(k, c)
      = IF ~(k.path /\ c \in on) THEN k ELSE [k EXCEPT !.kernel_driver = bound[c], !.driver = d]
    BY DEF set_gpu_kernel_driver
<1> HIDE DEF d
<1>4. {} \in SUBSET Labels
    OBVIOUS
<1>5. Same(machine, k, [k EXCEPT !.kernel_driver = bound[c], !.driver = d])
    BY <1>2, <1>4, SetDriver
<1> QED BY <1>3, <1>5 DEF Same

LEMMA ObservedOK ==
    ASSUME Wiring, NEW c \in Cards, CardOK(machine, moved, c, card[c])
    PROVE  CardOK(machine, moved, c, Observed(c))
<1> DEFINE k == card[c]
           s == IF k.driver = "unknown" THEN set_gpu_kernel_driver(k, c) ELSE k
<1>1. k \in CardType(machine) /\ Same(machine, k, k)
    BY DEF CardOK, Same
<1>2. Same(machine, k, s)
    BY <1>1, KernelDriver
<1>3. Observed(c) = IF ~(k.path /\ c \in on)
                    THEN [k EXCEPT !.driver = "unknown", !.kernel_driver = "None", !.fresh = {}]
                    ELSE [s EXCEPT !.fresh = {}]
    BY DEF Observed
<1>4. /\ {} \in SUBSET Labels /\ "unknown" \in {"unknown"} \cup KnownDrivers
      /\ "None" \in Drivers \cup {"", "None"}
    OBVIOUS
<1> HIDE DEF s
<1>5. CardOK(machine, moved, c, s) /\ s \in CardType(machine)
    <2>1. CardOK(machine, moved, c, s)
        BY <1>2, SameIsOK
    <2> QED BY <2>1 DEF CardOK
<1>6. Same(machine, s, [s EXCEPT !.fresh = {}])
    BY <1>4, <1>5, SetDriver
<1>7. Same(machine, k, [k EXCEPT !.driver = "unknown", !.kernel_driver = "None", !.fresh = {}])
    BY <1>1, <1>4, SetDriver
<1>8. CASE ~(k.path /\ c \in on)
    BY <1>3, <1>7, <1>8, SameIsOK
<1>9. CASE k.path /\ c \in on
    BY <1>3, <1>5, <1>6, <1>9, SameIsOK
<1> QED BY <1>8, <1>9

LEMMA PathsOK ==
    ASSUME machine \in Machines, Wiring, NEW c \in Cards, NEW k, CardOK(machine, moved, c, k)
    PROVE  CardOK(machine, moved, c, Paths(k, c))
<1> DEFINE n == IF HasDirectories(c) THEN number[c] ELSE 0
           h == IF k.driver \in {"amdgpu", "radeon", "nouveau"} THEN n ELSE k.hwmon
           x == WithPaths(k, n, h)
<1>1. number[c] \in 1..machine.cards /\ machine.cards \in Nat
    BY Graphics DEF Wiring, Cards
<1>2. n \in 0..machine.cards /\ (moved = {} => n \in {0, c})
    BY <1>1 DEF Wiring
<1>3. k \in CardType(machine) /\ k.hwmon \in 0..machine.cards
    BY DEF CardOK, CardType
<1>4. h \in 0..machine.cards
    BY <1>2, <1>3
<1>5. Paths(k, c) = IF mon.init_done THEN k ELSE x
    BY DEF Paths, WithPaths
<1> HIDE DEF n, h
<1>6. x \in CardType(machine) /\ x.drm = n /\ x.shown = k.shown
    BY <1>2, <1>3, <1>4, SetPaths
<1> HIDE DEF x
<1>7. CardOK(machine, moved, c, x)
    BY <1>2, <1>6 DEF CardOK
<1> QED BY <1>5, <1>7

LEMMA ValuesOK ==
    ASSUME machine \in Machines, Wiring, NEW c \in Cards, NEW k, CardOK(machine, moved, c, k),
           NEW access
    PROVE  CardOK(machine, moved, c, Values(k, c, access))
<1> DEFINE source == Source(k.driver)
           got(l) == Read(k, c, source[l], access)
           fresh  == {l \in DOMAIN source : got(l) # None /\ ~(l = "core" /\ idle)}
           shown  == [l \in Labels |-> IF l \in fresh THEN got(l) ELSE k.shown[l]]
           v      == WithValues(k, fresh, shown)
<1>1. Values(k, c, access) = v
    BY DEF Values, WithValues
<1>2. ASSUME NEW l \in fresh
      PROVE  /\ l \in Labels /\ got(l) \in Owner
             /\ moved = {} \/ l \notin {"core", "mem"} => got(l) \in {None, c}
    <2>1. /\ l \in Labels /\ source[l] \in {"drm", "hwmon", "smi", "debug"}
          /\ source[l] = "debug" => l \in {"core", "mem"}
        BY Sorted
    <2> HIDE DEF source
    <2> QED BY <2>1, ReadsOwn
<1>3. /\ k \in CardType(machine) /\ k.shown \in [Labels -> Owner]
      /\ moved = {} => k.drm \in {0, c} /\ \A l \in Labels : k.shown[l] \in {None, c}
      /\ \A l \in Labels \ {"core", "mem"} : k.shown[l] \in {None, c}
    BY DEF CardOK, CardType
<1>4. /\ \A l \in fresh : l \in Labels /\ got(l) \in Owner
      /\ \A l \in fresh : moved = {} => got(l) \in {None, c}
      /\ \A l \in fresh : l \notin {"core", "mem"} => got(l) \in {None, c}
    BY <1>2
<1> HIDE DEF fresh, got, source
<1>5. fresh \in SUBSET Labels
    BY <1>4
<1>6. shown \in [Labels -> Owner]
    BY <1>3, <1>4
<1>7. moved = {} => \A l \in Labels : shown[l] \in {None, c}
    BY <1>3, <1>4
<1>8. \A l \in Labels \ {"core", "mem"} : shown[l] \in {None, c}
    BY <1>3, <1>4
<1> HIDE DEF shown
<1>9. v \in CardType(machine) /\ v.drm = k.drm /\ v.shown = shown
    BY <1>3, <1>5, <1>6, SetValues
<1> HIDE DEF v
<1>10. CardOK(machine, moved, c, v)
    BY <1>3, <1>7, <1>8, <1>9 DEF CardOK
<1> QED BY <1>1, <1>10

LEMMA CardStart == Init => CardInv
<1> SUFFICES ASSUME Init PROVE CardInv
    OBVIOUS
<1>1. card = <<>> /\ at.card = 0
    BY DEF Init, GpuInit
<1> QED BY <1>1 DEF CardInv

\* Only find_devices() and gpu_monitoring() change a card, and no card loses its move.
LEMMA CardIdleSteps ==
    Position /\ [Next]_vars =>
                   /\ moved \subseteq moved'
                   /\ \/ card' = card /\ at'.card = at.card
                      \/ FindDevices /\ NextDevice
                      \/ GraphicsPage /\ MonitorCard
<1> SUFFICES ASSUME Position, [Next]_vars
             PROVE  /\ moved \subseteq moved'
                    /\ \/ card' = card /\ at'.card = at.card
                       \/ FindDevices /\ NextDevice
                       \/ GraphicsPage /\ MonitorCard
    OBVIOUS
<1>1. moved \subseteq moved'
    BY DEF Next, Program, Environment, FindDevices, Fill, do_refresh, CpuPage, GraphicsPage, CpuRest,
           Probe, NextDevice, Pipe, Fork, ChildWrites, ChildExits, ChildDies, Reap, GpuRest,
           call_libcpuid_dynamic, call_libcpuid_msr_dynamic, cputab_temp_fallback,
           cputab_volt_fallback, cputab_freq_fallback, set_cpu_multiplier, Hardware, PowerOff,
           PowerOn, Rebind, ClockChanges, DaemonDies, SelectCore, ModuleLoaded, Rest, gpuVars,
           gpu_monitoring, MonitorCard, MonitoringReturns, vars, hardware
<1>2. CASE FindDevices /\ ~NextDevice
    <2>1. card' = card
        BY <1>2 DEF FindDevices, Probe, Pipe, Fork, ChildWrites, ChildExits, ChildDies, Reap, GpuRest
    <2>2. at' = at \/ NextProbe
        BY <1>2 DEF FindDevices, Probe, Pipe, Fork, ChildWrites, ChildExits, ChildDies, Reap
    <2>3. NextProbe => at'.card = at.card
        BY DEF NextProbe, Position
    <2> QED BY <1>1, <2>1, <2>2, <2>3
<1>3. CASE Next /\ ~FindDevices
    <2>1. at' = at
        BY <1>3, ProbeIdleSteps DEF probing
    <2>2. card' = card \/ (GraphicsPage /\ MonitorCard)
        BY <1>3 DEF Next, Program, Environment, Fill, do_refresh, CpuPage, GraphicsPage, CpuRest,
           call_libcpuid_dynamic, call_libcpuid_msr_dynamic, cputab_temp_fallback,
           cputab_volt_fallback, cputab_freq_fallback, set_cpu_multiplier, Hardware, PowerOff,
           PowerOn, Rebind, ClockChanges, DaemonDies, SelectCore, ModuleLoaded, Rest, gpuVars,
           gpu_monitoring, MonitoringReturns
    <2> QED BY <1>1, <2>1, <2>2
<1>4. CASE UNCHANGED vars
    <2>1. card' = card /\ at' = at
        BY <1>4 DEF vars, gpuVars, probing
    <2> QED BY <1>1, <2>1
<1> QED BY <1>1, <1>2, <1>3, <1>4

LEMMA FreshCard ==
    ASSUME NEW m, m.cards \in Nat, NEW mv, NEW c, NEW b \in BOOLEAN
    PROVE  CardOK(m, mv, c, [NewCard EXCEPT !.path = b])
<1> DEFINE s == [l \in Labels |-> None]
           x == [NewCard EXCEPT !.path = b]
<1>1. s \in [Labels -> Owner] /\ 0 \in 0..m.cards /\ \A l \in Labels : s[l] = None
    BY DEF Owner
<1>2. NewCard = [driver |-> "unknown", kernel_driver |-> "", path |-> FALSE, drm |-> 0,
                 hwmon |-> 0, shown |-> s, fresh |-> {}]
    BY DEF NewCard
<1> HIDE DEF s
<1>3. NewCard \in CardType(m) /\ NewCard.drm = 0 /\ NewCard.shown = s
    BY <1>1, <1>2 DEF CardType
<1>4. x \in CardType(m) /\ x.drm = 0 /\ x.shown = s
    BY <1>3 DEF CardType
<1> HIDE DEF x
<1>5. CardOK(m, mv, c, x)
    BY <1>1, <1>4 DEF CardOK
<1> QED BY <1>5 DEF x

LEMMA CardStep ==
    ProbeInv /\ Order /\ Wiring /\ CardInv /\ [Next]_vars => CardInv'
<1> SUFFICES ASSUME ProbeInv, Order, Wiring, CardInv, [Next]_vars PROVE CardInv'
    OBVIOUS
<1>1. machine' = machine /\ machine \in Machines /\ moved \subseteq moved'
    BY MachineKept, CardIdleSteps DEF ProbeInv, Position
<1>2. ASSUME NEW c, NEW k, CardOK(machine, moved, c, k) PROVE CardOK(machine, moved', c, k)
    BY <1>1, <1>2 DEF CardOK
<1>3. /\ card \in Seq(CardType(machine)) /\ Len(card) = at.card
      /\ \A c \in 1..at.card : CardOK(machine, moved, c, card[c])
    BY DEF CardInv
<1>4. at.card \in 0..machine.cards /\ machine.cards \in Nat
    BY <1>1, Graphics DEF ProbeInv, Position
<1>5. CASE card' = card /\ at'.card = at.card
    BY <1>1, <1>2, <1>3, <1>5 DEF CardInv
<1>6. CASE NextDevice
    <2>1. CASE at.card < machine.cards
        <3> DEFINE n == at.card + 1
                   new == [NewCard EXCEPT !.path = n \in on]
                   k == set_gpu_kernel_driver(new, n)
        <3>1. card' = Append(card, k) /\ at' = [card |-> n, api |-> 1]
            BY <1>6, <2>1 DEF NextDevice
        <3>2. n \in Cards /\ n \in Nat /\ n = at.card + 1
            BY <1>4, <2>1 DEF Cards
        <3>3. CardOK(machine, moved, n, new)
            <4>1. (n \in on) \in BOOLEAN
                OBVIOUS
            <4> QED BY <1>4, <4>1, FreshCard
        <3> HIDE DEF n, new
        <3>4. Same(machine, new, k)
            BY <3>2, <3>3, KernelDriver DEF CardOK
        <3> HIDE DEF k
        <3>5. CardOK(machine, moved, n, k) /\ k \in CardType(machine)
            BY <3>3, <3>4, SameIsOK DEF CardOK
        <3>6. /\ card' \in Seq(CardType(machine)) /\ Len(card') = n
              /\ card'[n] = k /\ \A c \in 1..at.card : card'[c] = card[c]
            BY <1>3, <3>1, <3>2, <3>5
        <3>7. ASSUME NEW c \in 1..n PROVE CardOK(machine, moved', c, card'[c])
            <4>1. c = n \/ c \in 1..at.card
                BY <1>4, <3>2
            <4>2. CardOK(machine, moved, c, card'[c])
                BY <1>3, <3>5, <3>6, <4>1
            <4> QED BY <1>2, <4>2
        <3>8. at'.card = n
            BY <3>1
        <3> QED BY <1>1, <3>6, <3>7, <3>8 DEF CardInv
    <2>2. CASE ~(at.card < machine.cards)
        <3>1. card' = card /\ at'.card = at.card
            BY <1>6, <2>2 DEF NextDevice
        <3> QED BY <1>5, <3>1
    <2> QED BY <2>1, <2>2
<1>7. CASE GraphicsPage /\ MonitorCard
    <2> DEFINE c == mon.index
               k == Observed(c)
               p == Paths(k, c)
    <2>1. at.card = machine.cards /\ at' = at /\ c \in Cards
        <3>1. pc = "done"
            BY <1>7 DEF GraphicsPage, Order
        <3> QED BY <1>7, <3>1 DEF ProbeInv, Position, MonitorCard, probing
    <2>2. CardOK(machine, moved, c, card[c])
        BY <1>3, <2>1 DEF Cards
    <2> HIDE DEF c
    <2>3. CardOK(machine, moved, c, k)
        BY <2>1, <2>2, ObservedOK
    <2> HIDE DEF k
    <2>4. CardOK(machine, moved, c, p)
        BY <1>1, <2>1, <2>3, PathsOK
    <2> HIDE DEF p
    <2>5. \A access : CardOK(machine, moved, c, Values(p, c, access))
        BY <1>1, <2>1, <2>4, ValuesOK
    <2>6. \E x : CardOK(machine, moved, c, x) /\ card' = [card EXCEPT ![c] = x]
        <3>1. \/ card' = [card EXCEPT ![c] = k]
              \/ card' = [card EXCEPT ![c] = p]
              \/ \E access \in BOOLEAN : card' = [card EXCEPT ![c] = Values(p, c, access)]
            BY <1>7 DEF MonitorCard, c, k, p
        <3> QED BY <2>3, <2>4, <2>5, <3>1
    <2>7. PICK x : CardOK(machine, moved, c, x) /\ card' = [card EXCEPT ![c] = x]
        BY <2>6
    <2>8. x \in CardType(machine)
        BY <2>7 DEF CardOK
    <2>9. c \in 1..at.card
        BY <2>1 DEF Cards
    <2>10. /\ card' \in Seq(CardType(machine)) /\ Len(card') = at.card
           /\ \A d \in 1..at.card : card'[d] = IF d = c THEN x ELSE card[d]
        BY <1>3, <2>7, <2>8, <2>9
    <2>11. \A d \in 1..at.card : CardOK(machine, moved, d, card'[d])
        BY <1>3, <2>7, <2>10
    <2>12. \A d \in 1..at.card : CardOK(machine, moved', d, card'[d])
        BY <1>2, <2>11
    <2> QED BY <1>1, <2>1, <2>10, <2>12 DEF CardInv
<1> QED BY <1>5, <1>6, <1>7, CardIdleSteps DEF ProbeInv

-----------------------------------------------------------------------------
(* The invariant as a whole, and what follows from it.                     *)

RefreshInv == /\ MonInv /\ Bounded /\ ProbeInv /\ CpuInv /\ Order /\ Wiring /\ Connection
              /\ CardInv

LEMMA RefreshAlways == Spec => []RefreshInv
<1>1. Init => RefreshInv
    BY MonStart, BoundedStart, ProbeStart, CpuStart, OrderStart, WiringStart, CardStart
       DEF RefreshInv
<1>2. RefreshInv /\ [Next]_vars => RefreshInv'
    <2> SUFFICES ASSUME RefreshInv, [Next]_vars PROVE RefreshInv'
        OBVIOUS
    <2>1. /\ MonInv /\ Bounded /\ ProbeInv /\ CpuInv /\ Order /\ Wiring /\ Connection /\ CardInv
        BY DEF RefreshInv
    <2>2. MonInv' /\ Bounded' /\ ProbeInv' /\ CpuInv'
        BY <2>1, MonStep, BoundedStep, ProbeStep, CpuStep
    <2>3. machine \in Machines
        BY <2>1 DEF CpuInv, Selected
    <2>4. Order' /\ Wiring' /\ Connection' /\ CardInv'
        BY <2>1, <2>3, OrderStep, WiringStep, ConnectionStep, CardStep
    <2> QED BY <2>2, <2>4 DEF RefreshInv
<1> QED BY <1>1, <1>2, PTL DEF Spec

\* Every variable of the two pages stays in its type: the descriptors of the probes within two
\* for each failed fork(), the counters of gpu_monitoring() within the number of the cards
\* (libpci.cpp, core.cpp).
THEOREM RefreshTypeCorrect == Spec => []TypeOK
<1>1. ASSUME RefreshInv PROVE TypeOK
    <2>1. /\ MonInv /\ Bounded /\ Position /\ Descriptors /\ Child /\ Known /\ CpuInv /\ Order
          /\ Wiring /\ Connection /\ CardInv
        BY <1>1 DEF RefreshInv, ProbeInv
    <2>2. machine \in Machines /\ machine.cards \in Nat
        BY <2>1, Graphics DEF Position
    <2>3. /\ daemon \in {"open", "dead", "closed"} /\ debug \in BOOLEAN
          /\ on \in SUBSET Cards /\ moved \in SUBSET Cards /\ idle \in BOOLEAN
          /\ bound \in [Cards -> Drivers] /\ number \in [Cards -> Cards]
          /\ switches \in 0..machine.switches
        BY <2>1 DEF Connection, Wiring
    <2>4. /\ at \in [card : 0..(machine.cards + 1), api : 1..3]
          /\ pc \in {"scan", "device", "pipe", "fork", "wait", "done"}
        <3>1. at \in [card : 0..machine.cards, api : 1..3]
            BY <2>1 DEF Position
        <3>2. 0..machine.cards \subseteq 0..(machine.cards + 1)
            BY <2>2
        <3> QED BY <2>1, <3>1, <3>2 DEF Position, Asking
    <2>5. /\ child \in {"none", "running", "exited", "killed"}
          /\ written \in Seq(Owner) /\ Len(written) <= 2
        BY <2>1 DEF Child
    <2>6. fds \in 0..(6 * machine.cards + 2) /\ unforked \in Nat
        <3>1. at.card \in 0..machine.cards
            BY <2>1 DEF Position
        <3>2. unforked \in Nat /\ unforked <= 3 * at.card /\ fds \in 2 * unforked .. 2 * unforked + 2
            BY <2>1 DEF Descriptors
        <3> QED BY <2>2, <3>1, <3>2
    <2>7. ASSUME NEW c \in DOMAIN info, NEW a \in 1..3 PROVE info[c][Apis[a]] \in Owner \X Owner
        <3>1. info \in Seq(InfoType)
            BY <2>1 DEF Known
        <3>2. info[c] \in InfoType
            BY <3>1
        <3>3. Apis[a] \in {"gl", "vk", "cl"}
            BY DEF Apis
        <3> QED BY <3>2, <3>3 DEF InfoType, Pair
    <2>8. ASSUME NEW c \in DOMAIN card
          PROVE  /\ card[c].driver \in {"unknown"} \cup KnownDrivers
                 /\ card[c].kernel_driver \in Drivers \cup {"", "None"}
                 /\ card[c].path \in BOOLEAN /\ card[c].drm \in 0..machine.cards
                 /\ card[c].hwmon \in 0..machine.cards
                 /\ card[c].shown \in [Labels -> Owner] /\ card[c].fresh \subseteq Labels
        <3>1. card \in Seq(CardType(machine))
            BY <2>1 DEF CardInv
        <3>2. card[c] \in CardType(machine)
            BY <3>1
        <3> QED BY <3>2 DEF CardType
    <2>9. mon \in [index : 0..(machine.cards + 1), failed : 0..machine.cards, init_done : BOOLEAN,
                   dri : {-2, -1, 0, 1}, registered : 0..1]
        BY <2>1 DEF MonInv, MonType, Bounded
    <2>10. GpuTypeOK
        BY <2>2, <2>3, <2>4, <2>5, <2>6, <2>7, <2>8, <2>9 DEF GpuTypeOK
    <2>11. /\ type \in Types(machine) /\ core \in CoresOf(type)
           /\ loaded \in BOOLEAN /\ module_loaded \in BOOLEAN
           /\ use_fallback \subseteq Readings /\ registered \subseteq Functions
           /\ speed \in Value /\ multiplier \in Value
        BY <2>1 DEF CpuInv, Selected, Flags, Speeds
    <2>12. \A r \in {temp, volt} : r \in [Types(machine) -> [label : Value, path : Path]]
        BY <2>1 DEF CpuInv, SensorsOK, Sensor
    <2>13. /\ phase \in {"find", "fill", "ui"}
           /\ step \in {"idle", "clock", "msr", "temperature", "voltage", "speed", "multiplier", "gpu"}
        BY <2>1 DEF Order
    <2> QED BY <2>10, <2>11, <2>12, <2>13 DEF TypeOK
<1> QED BY <1>1, RefreshAlways, PTL

\* On every computer a label shows its own device: a temperature or voltage comes from a core of
\* its type, a monitored value from its card (until cards have moved, for those that are read
\* through /sys/kernel/debug/dri), the versions too where the drivers give the PCI address
\* (core.cpp, libpci.cpp).
THEOREM ValuesAreOwn == Spec => []OwnValues
<1>1. ASSUME RefreshInv PROVE OwnValues
    <2>1. Known /\ CpuInv /\ CardInv
        BY <1>1 DEF RefreshInv, ProbeInv
    <2>2. ASSUME NEW t \in Types(machine), NEW r \in {temp, volt}, r[t].label # Empty
          PROVE  r[t].label.core \in CoresOf(t)
        <3>1. SensorsOK(machine, r)
            BY <2>1 DEF CpuInv
        <3> QED BY <2>2, <3>1 DEF SensorsOK, SensorOK, CoresOf
    <2>3. ASSUME NEW c \in DOMAIN card, NEW l \in Labels
          PROVE  card[c].shown[l] \in {None, c} \/ (moved # {} /\ l \in {"core", "mem"})
        <3>1. card \in Seq(CardType(machine)) /\ Len(card) = at.card
              /\ \A d \in 1..at.card : CardOK(machine, moved, d, card[d])
            BY <2>1 DEF CardInv
        <3>2. CardOK(machine, moved, c, card[c])
            BY <3>1
        <3> QED BY <3>2 DEF CardOK
    <2>4. ASSUME NEW c \in DOMAIN info
          PROVE  /\ info[c].vk[2] \in {None, c} \/ \E i \in DOMAIN machine.vk : ~machine.vk[i].pci
                 /\ info[c].cl[2] \in {None, c} \/ machine.vendor[c] = "Intel"
        <3>1. c \in 1..at.card
            BY <2>1 DEF Known
        <3>2. \A a \in 1..3 : Finds(machine, c, Apis[a], info[c][Apis[a]])
            BY <2>1, <3>1 DEF Known, InfoOK
        <3>3. Finds(machine, c, "vk", info[c].vk) /\ Finds(machine, c, "cl", info[c].cl)
            <4>1. Apis[2] = "vk" /\ Apis[3] = "cl"
                BY DEF Apis
            <4>2. 2 \in 1..3 /\ 3 \in 1..3
                OBVIOUS
            <4> QED BY <3>2, <4>1, <4>2
        <3> QED BY <3>3 DEF Finds
    <2> QED BY <2>2, <2>3, <2>4 DEF OwnValues
<1> QED BY <1>1, RefreshAlways, PTL

=============================================================================
