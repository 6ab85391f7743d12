------------------------------ MODULE Refresh ------------------------------
(***************************************************************************)
(* The values cpu-x reads again and again: fill_labels() and do_refresh()  *)
(* (src/core/core.cpp) over the CPU page and, with Gpu, the graphics page. *)
(*                                                                         *)
(* The CPU page takes the frequency from libcpuid, the temperature and the *)
(* voltage from the daemon's MSR reader and, once one of them is empty,    *)
(* from a fallback that stays chosen.  err_func() never calls a function   *)
(* again after it failed.  After the start the user stays on one page and  *)
(* changes the core there: the pages share nothing but the connection,     *)
(* which may be lost at any moment here too.                               *)
(***************************************************************************)
EXTENDS Gpu

Functions == {"call_libcpuid_msr_dynamic", "cputab_temp_fallback", "cputab_volt_fallback",
              "cputab_freq_fallback", "call_libcpuid_dynamic"}
Readings  == {"temperature", "voltage", "speed"}

Types(m)    == DOMAIN m.cores
CoresOf(t)  == machine.cores[t]

\* The processor part of a computer: the cores of every type; what its MSRs and libcpuid give;
\* the sensors; the core clocks sysfs knows; the forced fallbacks (--... of main.cpp).
CpuMachineOK(m) ==
    /\ m.page \in {"cpu", "gpu"}
    /\ m.cores # <<>> /\ m.cores \in Seq(SUBSET Nat) /\ \A t \in Types(m) : m.cores[t] # {}
    /\ m.msr \in [Types(m) -> SUBSET {"temperature", "voltage"}]
    /\ m.clock \in BOOLEAN /\ m.bus \in BOOLEAN
    /\ m.labels \in {"core", "all", "none"}     \* the module's sensors: "Core N", "Tdie" or none
    /\ m.x86 \in BOOLEAN                       \* the architecture has MSRs
    /\ m.generic \in BOOLEAN /\ m.zenpower \in BOOLEAN
    /\ m.loaded \in BOOLEAN /\ m.module \in BOOLEAN
    /\ m.cpufreq \in SUBSET UNION {m.cores[t] : t \in Types(m)}
    /\ m.forced \subseteq Readings

ASSUME CpuAssumption == \A m \in Machines : CpuMachineOK(m)

VARIABLES
    phase,         \* "find", "fill" for the first refreshes, "ui"
    step,          \* where do_refresh(TAB_CPU) is, "idle" outside
    type, core,    \* the selected type and core
    loaded,        \* the sensor's kernel module is loaded
    module_loaded, \* the static of cputab_temp_fallback()
    use_fallback,  \* the readings whose static use_fallback_* is set
    registered,    \* the functions err_func() will not call again
    temp, volt,    \* for every type the label and the sensor's path
    speed, multiplier   \* the core speed and the one the multiplier was computed from

cpuVars == <<phase, step, type, core, loaded, module_loaded, use_fallback, registered, temp, volt,
             speed, multiplier>>
vars == <<gpuVars, cpuVars>>

\* A value: the source it came from and the core it was read for.
Empty == [source |-> "none", core |-> 0]
Val(s, c) == [source |-> s, core |-> c]
Value == [source : {"none", "msr", "sensor", "libcpuid", "cpufreq"}, core : Nat]

\* A sensor's path: of one core, of the whole processor, or none.
NoPath == [kind |-> "none", core |-> 0]
Path   == [kind : {"none", "core", "all"}, core : Nat]

TypeOK ==
    /\ GpuTypeOK
    /\ phase \in {"find", "fill", "ui"}
    /\ step \in {"idle", "clock", "msr", "temperature", "voltage", "speed", "multiplier", "gpu"}
    /\ type \in Types(machine) /\ core \in CoresOf(type)
    /\ loaded \in BOOLEAN /\ module_loaded \in BOOLEAN
    /\ use_fallback \subseteq Readings /\ registered \subseteq Functions
    /\ \A r \in {temp, volt} : r \in [Types(machine) -> [label : Value, path : Path]]
    /\ speed \in Value /\ multiplier \in Value

Init ==
    /\ GpuInit
    /\ phase = "find" /\ step = "idle"
    /\ type = 1 /\ core = CHOOSE c \in CoresOf(1) : \A d \in CoresOf(1) : c <= d
    /\ loaded = machine.loaded /\ module_loaded = FALSE
    /\ use_fallback = machine.forced /\ registered = {}
    /\ temp = [t \in Types(machine) |-> [label |-> Empty, path |-> NoPath]]
    /\ volt = temp
    /\ speed = Empty /\ multiplier = Empty

-----------------------------------------------------------------------------
(* The CPU page, one function of do_refresh() after the other.             *)

CpuRest == UNCHANGED <<machine, debug, hardware, probing, card, mon, phase, type, core>>

Goto(from, to) == step = from /\ step' = to

\* err_func(): the function runs unless it failed before; ret is its result.
Called(f)       == f \notin registered
Record(f, ok)   == registered' = IF ok THEN registered ELSE registered \cup {f}

\* call_libcpuid_dynamic(): set_cpu_freq() ignores a clock that is not positive.
call_libcpuid_dynamic ==
    /\ Goto("clock", "msr")
    /\ IF Called("call_libcpuid_dynamic")
       THEN /\ speed' = IF machine.clock THEN Val("libcpuid", core) ELSE speed
            /\ Record("call_libcpuid_dynamic", speed' # Empty)
       ELSE UNCHANGED <<speed, registered>>
    /\ UNCHANGED <<daemon, loaded, module_loaded, use_fallback, temp, volt, multiplier>> /\ CpuRest

\* A label with a new value, if the MSRs have it.
FromMsr(labels, name) ==
    IF name \in machine.msr[type] THEN [labels EXCEPT ![type].label = Val("msr", core)] ELSE labels

\* call_libcpuid_msr_dynamic(): a lost connection is closed and is an error.
call_libcpuid_msr_dynamic ==
    /\ Goto("msr", "temperature")
    /\ IF daemon # "closed" /\ Called("call_libcpuid_msr_dynamic")
       THEN IF daemon = "dead" \/ ~machine.x86
            THEN /\ daemon' = IF machine.x86 THEN "closed" ELSE daemon
                 /\ Record("call_libcpuid_msr_dynamic", FALSE)
                 /\ UNCHANGED <<temp, volt>>
            ELSE /\ temp' = FromMsr(temp, "temperature") /\ volt' = FromMsr(volt, "voltage")
                 /\ UNCHANGED <<daemon, registered>>
       ELSE UNCHANGED <<daemon, registered, temp, volt>>
    /\ UNCHANGED <<loaded, module_loaded, use_fallback, speed, multiplier>> /\ CpuRest

\* fallback_mode_dynamic(): an empty label chooses the fallback for good.
Falls(reading, label) == label = Empty \/ reading \in use_fallback
Choose(reading, label) ==
    use_fallback' = IF Falls(reading, label) THEN use_fallback \cup {reading} ELSE use_fallback

Found(kind) == IF kind = "none" THEN NoPath ELSE [kind |-> kind, core |-> core]

\* get_sensor_path_cpu_temperature_driver(), which needs the module, then _generic(), and
\* get_sensor_path_cpu_voltage(), for the selected core.
TemperaturePath(isLoaded) ==
    Found(IF isLoaded /\ machine.labels # "none" THEN machine.labels
          ELSE IF machine.generic THEN "all" ELSE "none")
VoltagePath == Found(IF machine.zenpower THEN "all" ELSE "none")

\* As Looked would be if the path were only looked up by the first call.
LookedOnce(path, found) ==
    IF path = NoPath /\ "temperature" \notin use_fallback THEN found ELSE path

\* The path is kept once it is found.
Looked(path, found) == IF path = NoPath THEN found ELSE path

\* load_module(): the daemon is asked unless the module is loaded already.
load_module ==
    IF ~module_loaded /\ machine.module
    THEN \/ loaded /\ module_loaded' = TRUE /\ UNCHANGED <<loaded, daemon>>
         \/ /\ ~loaded /\ daemon = "open" /\ daemon' = daemon
            /\ \/ loaded' = TRUE /\ module_loaded' = TRUE
               \/ UNCHANGED <<loaded, module_loaded>>
         \/ ~loaded /\ daemon = "dead" /\ daemon' = "closed" /\ UNCHANGED <<loaded, module_loaded>>
         \/ ~loaded /\ daemon = "closed" /\ UNCHANGED <<loaded, daemon, module_loaded>>
    ELSE UNCHANGED <<loaded, daemon, module_loaded>>

\* As Sensed would be if the value were stored for the type of the first call.
SensedFirst(r, path) ==
    [r EXCEPT ![type].path = path, ![1].label = Val("sensor", path.core)]

Sensed(r, path) == [r EXCEPT ![type].path = path, ![type].label = Val("sensor", path.core)]

\* cputab_temp_fallback(): a read may fail; without a path there is no error.
cputab_temp_fallback ==
    /\ Goto("temperature", "voltage")
    /\ Choose("temperature", temp[type].label)
    /\ IF Falls("temperature", temp[type].label) /\ Called("cputab_temp_fallback")
       THEN /\ load_module
            /\ LET path == Looked(temp[type].path, TemperaturePath(loaded')) IN
               \E ok \in BOOLEAN :
                    /\ path = NoPath => ok
                    /\ Record("cputab_temp_fallback", ok)
                    /\ temp' = IF ok /\ path # NoPath THEN Sensed(temp, path)
                               ELSE [temp EXCEPT ![type].path = path]
       ELSE UNCHANGED <<daemon, loaded, module_loaded, registered, temp>>
    /\ UNCHANGED <<volt, speed, multiplier>> /\ CpuRest

\* cputab_volt_fallback(): zenpower only, for whatever core.
cputab_volt_fallback ==
    /\ Goto("voltage", "speed")
    /\ Choose("voltage", volt[type].label)
    /\ IF Falls("voltage", volt[type].label) /\ Called("cputab_volt_fallback")
       THEN LET path == Looked(volt[type].path, VoltagePath) IN
            \E ok \in BOOLEAN :
                /\ path = NoPath => ok
                /\ Record("cputab_volt_fallback", ok)
                /\ volt' = IF ok /\ path # NoPath THEN Sensed(volt, path)
                           ELSE [volt EXCEPT ![type].path = path]
       ELSE UNCHANGED <<registered, volt>>
    /\ UNCHANGED <<daemon, loaded, module_loaded, temp, speed, multiplier>> /\ CpuRest

\* cputab_freq_fallback(): the selected core's clock; a core without one is an error.
cputab_freq_fallback ==
    /\ Goto("speed", "multiplier")
    /\ Choose("speed", speed)
    /\ IF Falls("speed", speed) /\ Called("cputab_freq_fallback")
       THEN /\ speed' = IF core \in machine.cpufreq THEN Val("cpufreq", core) ELSE speed
            /\ Record("cputab_freq_fallback", core \in machine.cpufreq)
       ELSE UNCHANGED <<registered, speed>>
    /\ UNCHANGED <<daemon, loaded, module_loaded, temp, volt, multiplier>> /\ CpuRest

\* set_cpu_multiplier(): needs a frequency and a bus clock; then fill_labels() goes on to the
\* graphics page.
set_cpu_multiplier ==
    /\ Goto("multiplier", IF phase = "fill" THEN "gpu" ELSE "idle")
    /\ multiplier' = IF speed # Empty /\ machine.bus THEN speed ELSE multiplier
    /\ UNCHANGED <<daemon, loaded, module_loaded, use_fallback, registered, temp, volt, speed>>
    /\ CpuRest

CpuPage == \/ call_libcpuid_dynamic \/ call_libcpuid_msr_dynamic \/ cputab_temp_fallback
           \/ cputab_volt_fallback \/ cputab_freq_fallback \/ set_cpu_multiplier

-----------------------------------------------------------------------------
(* The order of the calls, and what happens meanwhile.                     *)

Keep == UNCHANGED <<type, core, loaded, module_loaded, use_fallback, registered, temp, volt, speed,
                    multiplier>>

\* fill_labels() calls find_devices() before the first refreshes.
FindDevices == phase = "find" /\ Probe /\ UNCHANGED cpuVars
Fill == /\ phase = "find" /\ pc = "done"
        /\ phase' = "fill" /\ step' = "clock"
        /\ Keep /\ UNCHANGED gpuVars

\* The timer of the interface (grefresh(), nrefresh()) refreshes the page that is shown.
do_refresh ==
    /\ phase = "ui" /\ step = "idle"
    /\ step' = IF machine.page = "cpu" THEN "clock" ELSE "gpu"
    /\ phase' = phase /\ Keep /\ UNCHANGED gpuVars

GraphicsPage ==
    /\ step = "gpu" /\ Keep
    /\ \/ gpu_monitoring /\ UNCHANGED <<phase, step>>
       \/ MonitorCard /\ UNCHANGED <<phase, step>>
       \/ MonitoringReturns /\ phase' = "ui" /\ step' = "idle"
       \/ mon.registered = 1 /\ phase' = "ui" /\ step' = "idle" /\ UNCHANGED gpuVars

Program == FindDevices \/ Fill \/ do_refresh \/ CpuPage \/ GraphicsPage

\* The user chooses another core, between two refreshes.
SelectCore(t, c) ==
    /\ phase = "ui" /\ step = "idle" /\ machine.page = "cpu"
    /\ c \in CoresOf(t)
    /\ type' = t /\ core' = c
    /\ UNCHANGED <<phase, step, loaded, module_loaded, use_fallback, registered, temp, volt, speed,
                    multiplier>> /\ UNCHANGED gpuVars

\* Someone loads the sensor's module by hand.
ModuleLoaded ==
    /\ machine.page = "cpu" /\ ~loaded /\ loaded' = TRUE
    /\ UNCHANGED <<phase, step, type, core, module_loaded, use_fallback, registered, temp, volt,
                    speed, multiplier>> /\ UNCHANGED gpuVars

Environment ==
    \/ machine.page = "gpu" /\ Hardware /\ UNCHANGED cpuVars
    \/ DaemonDies /\ UNCHANGED cpuVars
    \/ \E t \in Types(machine) : \E c \in CoresOf(t) : SelectCore(t, c)
    \/ ModuleLoaded

Next == Program \/ Environment

Spec     == Init /\ [][Next]_vars
FairSpec == Spec /\ WF_vars(Program)

-----------------------------------------------------------------------------
(* Properties.                                                             *)

\* A label shows its own device.  A temperature or voltage of a type comes from a core of that
\* type (core.cpp), a monitored value from the card above it (libpci.cpp), the Vulkan values
\* and the compute units too where the drivers give the PCI address.  The one exception is
\* drm_card_number: after a card came back, /sys/kernel/debug/dri/N may be another card's.
OwnValues ==
    /\ \A t \in Types(machine), r \in {temp, volt} :
        r[t].label # Empty => r[t].label.core \in CoresOf(t)
    /\ \A c \in DOMAIN card : \A l \in Labels :
        card[c].shown[l] \in {None, c} \/ (moved # {} /\ l \in {"core", "mem"})
    /\ \A c \in DOMAIN info :
        /\ info[c].vk[2] \in {None, c} \/ \E i \in DOMAIN machine.vk : ~machine.vk[i].pci
        /\ info[c].cl[2] \in {None, c} \/ machine.vendor[c] = "Intel"

\* However a probe goes wrong (pipe(), fork(), an error, a crash), it gives both of its values
\* or neither, compute units only with a version, and no descriptor stays open but the two of
\* each failed fork() (libpci.cpp, the three _dedicated_process functions).
ProbesClean ==
    /\ pc \in {"pipe", "device", "done"} => fds = 2 * unforked /\ child = "none"
    /\ \A c \in DOMAIN info :
        /\ info[c].gl[1] = info[c].gl[2] /\ info[c].vk[1] = info[c].vk[2]
        /\ info[c].cl[1] = None => info[c].cl[2] = None

\* err_func() gives the graphics page up after the very first refresh or never: cards that
\* sleep or leave later do not end the monitoring of the others.
MonitoringKept ==
    [][mon'.registered # mon.registered => ~mon.init_done]_vars

\* A card with a driver and a path it is still found by.
Readable(c) ==
    /\ machine.page = "gpu" /\ ~idle /\ mon.registered = 0
    /\ HasDirectories(c) /\ c \in DOMAIN card /\ card[c].path
    /\ card[c].driver \in {"unknown", bound[c]}
    /\ \/ bound[c] = "nvidia" /\ machine.smi
       \/ bound[c] \in {"amdgpu", "radeon", "nouveau"} /\ card[c].hwmon = number[c]
       \/ bound[c] = "i915" /\ card[c].drm = number[c]

\* A card that can be read from some time on is refreshed again and again, whatever the other
\* cards do.
GpuFollows ==
    \A c \in 1..2 :
        <>[](c \in Cards /\ Readable(c)) => []<>(c \in DOMAIN card /\ card[c].fresh # {})

\* Once the sensor's module is loaded, by the daemon or by hand and however late, a CPU page
\* without MSR values shows a temperature, unless reading the sensor failed once
\* (cputab_temp_fallback(): the path is looked up until it is found).
SensorAppears ==
    \A t \in 1..2 :
        <>[](loaded /\ type = t /\ machine.page = "cpu" /\ machine.labels # "none")
        => <>(t \in Types(machine) => temp[t].label # Empty \/ "cputab_temp_fallback" \in registered)

\* "Check access on /sys/kernel/debug/dri" (libpci.cpp:525): an answer that is kept says
\* whether the directory may be read.
AnswerMeansAccess == mon.dri # 1 => (mon.dri = 0 <=> debug)
=============================================================================
