-------------------------------- MODULE Gpu --------------------------------
(***************************************************************************)
(* The graphic cards (src/core/libpci.cpp): find_devices(), which asks     *)
(* OpenGL, Vulkan and OpenCL about every card in a process of its own and  *)
(* reads the answer from a pipe, and gpu_monitoring(), which reads the     *)
(* sensors of every card at every refresh of the graphics page.            *)
(*                                                                         *)
(* A label shows the card its value really belongs to, or None.  The eight *)
(* monitored labels are the four of Labels: one for each way a driver      *)
(* gives a value.  A card has one number for its DRM and hwmon             *)
(* directories; it gets a free one whenever a driver binds it.             *)
(***************************************************************************)
EXTENDS Integers, Sequences, FiniteSets

CONSTANTS Machines,   \* the computers to try, see GpuMachineOK
          None

Apis    == <<"gl", "vk", "cl">>
Vendors == {"AMD", "Intel", "NVIDIA", "other"}
Labels  == {"vbios", "temperature", "core", "mem"}

\* gpu_drivers: the kernel drivers set_gpu_kernel_driver() knows.
KnownDrivers == {"radeon", "amdgpu", "i915", "nvidia", "nouveau", "vfio-pci"}
Drivers      == KnownDrivers \cup {"xe"}

GpuMachineOK(m) ==
    /\ m.cards \in Nat
    /\ m.vendor \in [1..m.cards -> Vendors] /\ m.model \in [1..m.cards -> Nat]
    /\ m.driver \in [1..m.cards -> Drivers]
    /\ m.egl \in Seq(1..m.cards)                                 \* the EGL devices
    /\ m.vk \in Seq([card : 1..m.cards, pci : BOOLEAN])          \* VK_EXT_pci_bus_info
    /\ m.cl \in Seq([card : 1..m.cards, topology : BOOLEAN])     \* the OpenCL devices
    /\ m.flaky \subseteq {"gl", "vk", "cl"}   \* the probes that may go wrong
    /\ m.switches \in Nat   \* how often cards come, go, change their driver or wake up
    /\ m.daemon \in BOOLEAN /\ m.debug \in BOOLEAN /\ m.smi \in BOOLEAN

ASSUME GpuAssumption ==
    /\ None \notin Nat
    /\ \A m \in Machines : GpuMachineOK(m)

VARIABLES
    machine,    \* this computer
    daemon,     \* data.socket_fd: "open", "dead" when the daemon is gone, "closed" for -1
    debug,      \* the user may enter /sys/kernel/debug/dri
    on, bound, number, idle, moved, switches,   \* the cards themselves
    at,         \* find_devices(): the card and the probe it has reached
    pc,         \* where that probe is, "done" after the last one
    child, written, fds, unforked,   \* the process, its pipe and the descriptors kept
    info,       \* what the probes gave for each card
    card,       \* driver, kernel_driver, drm_path, hwmon_path and the labels of each card
    mon         \* gpu_monitoring(): loop index, failed_count, statics and err_func()'s entry

hardware == <<on, bound, number, idle, moved, switches>>
probing  == <<at, pc, child, written, fds, unforked, info>>
gpuVars  == <<machine, daemon, debug, hardware, probing, card, mon>>

Cards == 1..machine.cards
Owner == Nat \cup {None}

NoInfo == [gl |-> <<None, None>>, vk |-> <<None, None>>, cl |-> <<None, None>>]
NewCard == [driver |-> "unknown", kernel_driver |-> "", path |-> FALSE, drm |-> 0, hwmon |-> 0,
            shown |-> [l \in Labels |-> None], fresh |-> {}]

GpuTypeOK ==
    /\ machine \in Machines
    /\ daemon \in {"open", "dead", "closed"} /\ debug \in BOOLEAN
    /\ on \in SUBSET Cards /\ moved \in SUBSET Cards /\ idle \in BOOLEAN
    /\ bound \in [Cards -> Drivers] /\ number \in [Cards -> Cards]
    /\ switches \in 0..machine.switches
    /\ at \in [card : 0..(machine.cards + 1), api : 1..3]
    /\ pc \in {"scan", "device", "pipe", "fork", "wait", "done"}
    /\ child \in {"none", "running", "exited", "killed"}
    /\ written \in Seq(Owner) /\ Len(written) <= 2
    /\ fds \in 0..(6 * machine.cards + 2) /\ unforked \in Nat
    /\ \A c \in DOMAIN info : \A a \in 1..3 : info[c][Apis[a]] \in Owner \X Owner
    /\ \A c \in DOMAIN card :
        /\ card[c].driver \in {"unknown"} \cup KnownDrivers
        /\ card[c].kernel_driver \in Drivers \cup {"", "None"}
        /\ card[c].path \in BOOLEAN /\ card[c].drm \in 0..machine.cards /\ card[c].hwmon \in 0..machine.cards
        /\ card[c].shown \in [Labels -> Owner] /\ card[c].fresh \subseteq Labels
    /\ mon \in [index : 0..(machine.cards + 1), failed : 0..machine.cards, init_done : BOOLEAN,
                dri : {-2, -1, 0, 1}, registered : 0..1]

GpuInit ==
    /\ machine \in Machines
    /\ daemon = IF machine.daemon THEN "open" ELSE "closed"
    /\ debug = machine.debug
    /\ on = Cards /\ bound = machine.driver /\ number = [c \in Cards |-> c]
    /\ idle \in BOOLEAN /\ moved = {} /\ switches = 0
    /\ at = [card |-> 0, api |-> 1] /\ pc = "scan"
    /\ child = "none" /\ written = <<>> /\ fds = 0 /\ unforked = 0
    /\ info = <<>> /\ card = <<>>
    /\ mon = [index |-> 0, failed |-> 0, init_done |-> FALSE, dri |-> 1, registered |-> 0]

-----------------------------------------------------------------------------
(* The cards: one is switched off or on, bound to vfio-pci for a guest and *)
(* back, or its clock starts or stops.  The daemon may end at any moment.  *)

Switch == switches < machine.switches /\ switches' = switches + 1
Rest   == UNCHANGED <<machine, daemon, debug, probing, card, mon>>

FreeNumbers == Cards \ {number[c] : c \in on}

PowerOff(c) ==
    /\ Switch /\ c \in on
    /\ on' = on \ {c}
    /\ UNCHANGED <<bound, number, idle, moved>> /\ Rest

PowerOn(c) ==
    /\ Switch /\ c \in Cards \ on
    /\ on' = on \cup {c}
    /\ \E n \in FreeNumbers : number' = [number EXCEPT ![c] = n]
    /\ moved' = moved \cup {c}
    /\ UNCHANGED <<bound, idle>> /\ Rest

Rebind(c) ==
    /\ Switch /\ c \in on
    /\ bound' = [bound EXCEPT ![c] = IF @ = "vfio-pci" THEN machine.driver[c] ELSE "vfio-pci"]
    /\ UNCHANGED <<on, number, idle, moved>> /\ Rest

ClockChanges ==
    /\ Switch /\ idle' = ~idle
    /\ UNCHANGED <<on, bound, number, moved>> /\ Rest

DaemonDies ==
    /\ daemon = "open" /\ daemon' = "dead"
    /\ UNCHANGED <<machine, debug, hardware, probing, card, mon>>

Hardware == (\E c \in Cards : PowerOff(c) \/ PowerOn(c) \/ Rebind(c)) \/ ClockChanges

-----------------------------------------------------------------------------
(* set_gpu_kernel_driver(): the card must be on and its driver known.      *)

set_gpu_kernel_driver(k, c) ==
    IF ~(k.path /\ c \in on) THEN k
    ELSE [k EXCEPT !.kernel_driver = bound[c],
                   !.driver = IF bound[c] \in KnownDrivers THEN bound[c] ELSE @]

\* find_devices() takes the next display device: grow_cards_vector(), set_gpu_pci_bus_id(),
\* which needs the card's directory, and the driver.
NextDevice ==
    /\ pc \in {"scan", "device"}
    /\ IF at.card < machine.cards
       THEN LET c == at.card + 1 IN
            /\ at' = [card |-> c, api |-> 1] /\ pc' = "pipe"
            /\ info' = Append(info, NoInfo)
            /\ card' = Append(card, set_gpu_kernel_driver([NewCard EXCEPT !.path = c \in on], c))
       ELSE pc' = "done" /\ UNCHANGED <<at, info, card>>
    /\ UNCHANGED <<machine, daemon, debug, hardware, child, written, fds, unforked, mon>>

-----------------------------------------------------------------------------
(* What the child of each probe finds for a card.                          *)

SameVendor(c, d) == machine.vendor[c] = machine.vendor[d]

\* The least index of a sequence that satisfies the test, or 0.
First(s, Test(_)) ==
    IF \E i \in DOMAIN s : Test(i)
    THEN CHOOSE i \in DOMAIN s : Test(i) /\ \A j \in 1..(i - 1) : ~Test(j) ELSE 0

\* set_gpu_opengl_version(): the first EGL device of the card's vendor.
set_gpu_opengl_version(c) ==
    LET i == First(machine.egl, LAMBDA j : SameVendor(machine.egl[j], c)) IN
    IF i = 0 THEN <<None, None>> ELSE <<machine.egl[i], machine.egl[i]>>

\* set_gpu_vulkan_version(): once a device has no PCI address, use_device_id stays set for
\* the devices after it.
VulkanMatch(i, c) ==
    IF \E j \in 1..i : ~machine.vk[j].pci
    THEN machine.model[machine.vk[i].card] = machine.model[c]
    ELSE machine.vk[i].card = c

set_gpu_vulkan_version(c) ==
    LET i == First(machine.vk, LAMBDA j : VulkanMatch(j, c)) IN
    IF i = 0 THEN <<None, None>> ELSE <<machine.vk[i].card, machine.vk[i].card>>

\* opencl_get_vendor(): AMD and NVIDIA devices are compared with the card's PCI address.
opencl_get_vendor(i, c) ==
    \/ machine.vendor[c] = "Intel"
    \/ /\ machine.vendor[c] \in {"AMD", "NVIDIA"}
       /\ machine.cl[i].topology /\ machine.cl[i].card = c

\* set_gpu_opencl_version(): every device of the vendor leaves its version until one matches.
set_gpu_opencl_version(c) ==
    LET Of(i)   == SameVendor(machine.cl[i].card, c)
        match   == First(machine.cl, LAMBDA j : Of(j) /\ opencl_get_vendor(j, c))
        visited == {i \in DOMAIN machine.cl : Of(i) /\ (match = 0 \/ i <= match)}
        last    == CHOOSE i \in visited : \A j \in visited : j <= i
    IN <<IF visited = {} THEN None ELSE machine.cl[last].card,
         IF match = 0 THEN None ELSE machine.cl[match].card>>

Answer(c, api) == CASE api = "gl" -> set_gpu_opengl_version(c)
                    [] api = "vk" -> set_gpu_vulkan_version(c)
                    [] api = "cl" -> set_gpu_opencl_version(c)

-----------------------------------------------------------------------------
(* A probe: pipe(), fork(), the child's two writes, waitpid() and, only    *)
(* then and only after a normal exit, the two reads.                       *)

Flaky == Apis[at.api] \in machine.flaky

\* As NextProbe would be if it counted one API too many.
NextProbeTooFar ==
    IF at.api < 4 THEN at' = [at EXCEPT !.api = @ + 1] /\ pc' = "pipe"
                  ELSE at' = at /\ pc' = "device"

\* set_gpu_information() goes on with the next probe, or with the next card.
NextProbe ==
    IF at.api < 3 THEN at' = [at EXCEPT !.api = @ + 1] /\ pc' = "pipe"
                  ELSE at' = at /\ pc' = "device"

GpuRest == UNCHANGED <<machine, daemon, debug, hardware, card, mon>>

Pipe ==
    /\ pc = "pipe"
    /\ \/ pc' = "fork" /\ fds' = fds + 2 /\ at' = at
       \/ Flaky /\ NextProbe /\ fds' = fds
    /\ UNCHANGED <<child, written, unforked, info>> /\ GpuRest

\* The parent closes its write end; the return after a failed fork() closes neither end.
Fork ==
    /\ pc = "fork"
    /\ \/ pc' = "wait" /\ child' = "running" /\ fds' = fds - 1 /\ UNCHANGED <<at, unforked>>
       \/ Flaky /\ NextProbe /\ unforked' = unforked + 1 /\ UNCHANGED <<child, fds>>
    /\ UNCHANGED <<written, info>> /\ GpuRest

ChildWrites ==
    /\ child = "running" /\ Len(written) < 2
    /\ written' = Append(written, Answer(at.card, Apis[at.api])[Len(written) + 1])
    /\ UNCHANGED <<at, pc, child, fds, unforked, info>> /\ GpuRest

\* exit(): after both writes, or after an error before the first one.
ChildExits ==
    /\ child = "running" /\ (Len(written) = 2 \/ (Flaky /\ written = <<>>))
    /\ child' = "exited"
    /\ UNCHANGED <<at, pc, written, fds, unforked, info>> /\ GpuRest

\* The driver's library crashes.
ChildDies ==
    /\ child = "running" /\ Flaky
    /\ child' = "killed"
    /\ UNCHANGED <<at, pc, written, fds, unforked, info>> /\ GpuRest

\* As ReadsPipe would be without WIFEXITED.
ReadsPipeAlways == child \in {"exited", "killed"}

\* The parent reads after a normal exit only.
ReadsPipe == child = "exited"

\* read_string_from_pipe() gives an empty string at the end of the pipe.
Received(i) == IF i <= Len(written) THEN written[i] ELSE None

Reap ==
    /\ pc = "wait" /\ child \in {"exited", "killed"}
    /\ info' = IF ReadsPipe
               THEN [info EXCEPT ![at.card][Apis[at.api]] = <<Received(1), Received(2)>>]
               ELSE info
    /\ fds' = fds - 1 /\ child' = "none" /\ written' = <<>>
    /\ NextProbe
    /\ UNCHANGED unforked /\ GpuRest

Probe == NextDevice \/ Pipe \/ Fork \/ ChildWrites \/ ChildExits \/ ChildDies \/ Reap

-----------------------------------------------------------------------------
(* gpu_monitoring()                                                        *)

\* How a driver gives a label: by a path, by /sys/kernel/debug or by nvidia-smi.
Source(driver) ==
    CASE driver = "amdgpu" -> [l \in Labels |-> IF l = "vbios" THEN "drm" ELSE "hwmon"]
      [] driver = "i915"   -> [l \in {"core"} |-> "drm"]
      [] driver = "nvidia" -> [l \in Labels |-> "smi"]
      [] driver \in {"radeon", "nouveau"} ->
            [l \in Labels \ {"vbios"} |-> IF l = "temperature" THEN "hwmon" ELSE "debug"]
      [] OTHER -> <<>>

UsesDebug(driver) == driver \in {"radeon", "nouveau"}

HasDirectories(c) == c \in on /\ bound[c] # "vfio-pci"

\* The card that a read gives a value of, None if it fails.
Read(k, c, how, access) ==
    LET named == {d \in Cards : HasDirectories(d) /\ number[d] = k.drm /\ bound[d] = k.driver} IN
    CASE how = "drm"   -> IF HasDirectories(c) /\ k.drm = number[c] THEN c ELSE None
      [] how = "hwmon" -> IF HasDirectories(c) /\ k.hwmon = number[c] THEN c ELSE None
      [] how = "smi"   -> IF machine.smi /\ HasDirectories(c) THEN c ELSE None
      [] how = "debug" -> IF access /\ debug' /\ named # {} THEN CHOOSE d \in named : TRUE ELSE None

\* can_access_sys_debug_dri(): the static answer, whether it is read as true, the descriptor and
\* the permission after it.  __can_access_sys_debug_dri() of the daemon (server.cpp) leaves its
\* -1 when it grants the access.
can_access_sys_debug_dri(answer, access) ==
    \/ mon.dri # 1 /\ answer = mon.dri /\ access = (mon.dri = 0) /\ UNCHANGED <<daemon, debug>>
    \/ /\ mon.dri = 1 /\ debug
       /\ answer = 0 /\ access /\ UNCHANGED <<daemon, debug>>
    \/ /\ mon.dri = 1 /\ ~debug /\ daemon = "open"
       /\ \/ answer = -1 /\ ~access /\ debug' = TRUE
          \/ answer = 1 /\ ~access /\ debug' = debug
       /\ daemon' = daemon
    \/ /\ mon.dri = 1 /\ ~debug /\ daemon = "dead"
       /\ answer = 1 /\ access /\ daemon' = "closed" /\ debug' = debug
    \/ /\ mon.dri = 1 /\ ~debug /\ daemon = "closed"
       /\ answer = -2 /\ ~access /\ UNCHANGED <<daemon, debug>>

\* The driver after the test of the card's state.
Observed(c) ==
    IF ~(card[c].path /\ c \in on)
    THEN [card[c] EXCEPT !.driver = "unknown", !.kernel_driver = "None", !.fresh = {}]
    ELSE [(IF card[c].driver = "unknown" THEN set_gpu_kernel_driver(card[c], c) ELSE card[c])
             EXCEPT !.fresh = {}]

\* The paths are looked up before init_done only.
Paths(k, c) ==
    LET n == IF HasDirectories(c) THEN number[c] ELSE 0 IN
    IF mon.init_done THEN k
    ELSE [k EXCEPT !.drm = n,
                   !.hwmon = IF k.driver \in {"amdgpu", "radeon", "nouveau"} THEN n ELSE @]

\* The labels that get a value; a clock of 0 gives none.
Values(k, c, access) ==
    LET source == Source(k.driver)
        got(l) == Read(k, c, source[l], access)
        fresh  == {l \in DOMAIN source : got(l) # None /\ ~(l = "core" /\ idle)}
    IN [k EXCEPT !.fresh = fresh,
                 !.shown = [l \in Labels |-> IF l \in fresh THEN got(l) ELSE k.shown[l]]]

\* As Failed would be if every refresh counted.
FailedAlways(k) == k.fresh = {}

\* item_count == error_count, counted during the first refresh.
Failed(k) == ~mon.init_done /\ k.fresh = {}

\* Where the loop goes when it leaves a card that is off.
SkipToEnd(c) == machine.cards + 1
Skip(c) == c + 1

\* The loop's body for one card; a card that is off or whose driver reports nothing is skipped.
MonitorCard ==
    LET c == mon.index
        k == Observed(c)
        p == Paths(k, c)
    IN /\ mon.index \in Cards
       /\ IF ~(k.path /\ c \in on)
          THEN /\ card' = [card EXCEPT ![c] = k]
               /\ mon' = [mon EXCEPT !.index = Skip(c)]
               /\ UNCHANGED <<daemon, debug>>
          ELSE IF DOMAIN Source(p.driver) = {}
          THEN /\ card' = [card EXCEPT ![c] = p]
               /\ mon' = [mon EXCEPT !.index = c + 1]
               /\ UNCHANGED <<daemon, debug>>
          ELSE \E answer \in {-2, -1, 0, 1}, access \in BOOLEAN :
               /\ IF UsesDebug(p.driver) THEN can_access_sys_debug_dri(answer, access)
                  ELSE answer = mon.dri /\ access = FALSE /\ UNCHANGED <<daemon, debug>>
               /\ LET v == Values(p, c, access) IN
                  /\ card' = [card EXCEPT ![c] = v]
                  /\ mon' = [mon EXCEPT !.index = c + 1, !.dri = answer,
                                        !.failed = @ + (IF Failed(v) THEN 1 ELSE 0)]
       /\ UNCHANGED <<machine, hardware, probing>>

\* err_func() calls gpu_monitoring() while its last result was 0.
gpu_monitoring ==
    /\ mon.index = 0 /\ mon.registered = 0
    /\ mon' = [mon EXCEPT !.index = 1, !.failed = 0]
    /\ UNCHANGED <<machine, daemon, debug, hardware, probing, card>>

\* ret: no card gave anything during the first refresh.
MonitoringReturns ==
    /\ mon.index = machine.cards + 1
    /\ mon' = [mon EXCEPT !.index = 0, !.init_done = TRUE,
                          !.registered = IF mon.failed = machine.cards THEN 1 ELSE 0]
    /\ UNCHANGED <<machine, daemon, debug, hardware, probing, card>>

=============================================================================
