------------------------------- MODULE Options -------------------------------
(***************************************************************************)
(* The selection of cpu-x (src/options.cpp): the page, the core type and   *)
(* core to monitor, the bandwidth test, the memory stick and the card, and *)
(* everything that moves it: parse_arguments(), load_settings(), the       *)
(* identification of the hardware in fill_labels(), the first call of      *)
(* call_bandwidth(), the end of main() and the keys and lists of the two   *)
(* interfaces.  One thread runs all of it, so the hazards are in the order *)
(* of the steps: values are accepted before their bounds are known, and    *)
(* getters repair what they read.                                          *)
(***************************************************************************)
EXTENDS Integers, Sequences, FiniteSets

CONSTANTS Environments,  \* the machines, daemons, builds and interfaces to try, see EnvOK
          ArgLists,      \* the command lines to try: sequences of [opt, val]
          SettingsSet,   \* the contents of GSettings to try
          NumTests       \* BANDWIDTH_LAST_TEST

UINT8_MAX  == 255
UINT16_MAX == 65535

Pages == 0..7
TAB_CPU         == 0
TAB_CACHES      == 1
TAB_MOTHERBOARD == 2
TAB_MEMORY      == 3
TAB_SYSTEM      == 4
TAB_GRAPHICS    == 5
TAB_BENCH       == 6
TAB_ABOUT       == 7

Fields == {"type", "test", "stick", "gpu"}

\* The CPUs of the types before t: their number is the offset get_selected_core_id() adds up.
Earlier(cores, t) == UNION {{u} \X (0..(cores[u] - 1)) : u \in 0..(t - 1)}

EnvOK(e) ==
    /\ e.types \in 1..UINT8_MAX
    /\ e.cores \in [0..(e.types - 1) -> 1..(UINT16_MAX - 1)]   \* cpu_id->num_logical_cpus
    /\ Cardinality(Earlier(e.cores, e.types)) <= UINT16_MAX   \* the limit of Linux is far below
    /\ e.caches \in [0..(e.types - 1) -> 0..4]      \* cache levels libcpuid reports
    /\ e.sticks \in 0..UINT8_MAX                          \* what call_dmidecode() finds
    /\ e.gpus \in 0..UINT8_MAX
    /\ e.daemon \in BOOLEAN
    /\ e.identified \in BOOLEAN                     \* libcpuid knows the processor
    /\ e.board \in BOOLEAN                          \* board data, or SYS_DMI for the fallback
    /\ e.hasGtk \in BOOLEAN
    /\ e.front \in {"gtk", "ncurses"}
    /\ e.front = "gtk" => e.hasGtk

SettingsType == [Fields \cup {"page", "core"} -> Nat]
ArgType      == [opt : Fields \cup {"page", "core"}, val : Nat]

ASSUME OptionsAssumption ==
    /\ NumTests \in 1..UINT8_MAX
    /\ \A e \in Environments : EnvOK(e)
    /\ ArgLists \subseteq Seq(ArgType)
    /\ SettingsSet \subseteq SettingsType

VARIABLES
    phase,     \* where main() is
    env, args, settings,
    parsed,    \* how many options of args have been applied
    page, visible,
    sel,       \* the pairs of Options, see SelType, and the CPU the program is pinned to
    saved,     \* saved_selected_type and saved_selected_core of call_bandwidth()
    cpu_type   \* its loop variable

inputs == <<env, args, settings>>
vars == <<phase, inputs, parsed, page, visible, sel, saved, cpu_type>>

AnyCpu   == -1   \* the affinity before the first set_cpu_affinity()
NotKnown == UINT8_MAX  \* uint8_t(-1)

Phases == {"parse", "settings", "identify", "devices", "fallback", "first", "loop",
           "show", "ui", "died"}

SelType(cores) ==
    [at : [Fields -> 0..UINT8_MAX], max : [Fields -> 0..UINT8_MAX],   \* .first and .second
     core : 0..UINT16_MAX, cores : {<<>>, cores}, affinity : AnyCpu..UINT16_MAX]

TypeOK ==
    /\ phase \in Phases
    /\ env \in Environments
    /\ args \in Seq(ArgType)
    /\ settings \in SettingsType
    /\ parsed \in 0..Len(args)
    /\ page \in Pages
    /\ visible \in [Pages -> BOOLEAN]
    /\ sel \in SelType(env.cores)
    /\ saved \in [type : 0..UINT8_MAX, core : 0..UINT16_MAX]
    /\ cpu_type \in 0..UINT8_MAX

NoSel == [at |-> [f \in Fields |-> 0],
          max |-> [f \in Fields |-> IF f = "test" THEN NumTests ELSE NotKnown],
          core |-> 0, cores |-> <<>>, affinity |-> AnyCpu]

Init ==
    /\ phase = "parse"
    /\ env \in Environments /\ args \in ArgLists /\ settings \in SettingsSet
    /\ parsed = 0
    /\ page = TAB_CPU
    /\ visible = [p \in Pages |-> FALSE]
    /\ sel = NoSel
    /\ saved = [type |-> 0, core |-> 0]
    /\ cpu_type = 0

-----------------------------------------------------------------------------
(* The setters and getters, as functions of the selection: the getters     *)
(* write too.                                                              *)

\* set_selected_x(v) and, for v = s.at[f], get_selected_x(); GetRaw as it would be without its check.
Select(s, f, v) == [s EXCEPT !.at[f] = IF v < s.max[f] THEN v ELSE 0]
GetRaw(s, f) == s
Get(s, f) == Select(s, f, s.at[f])

check_selected_core_valid(s, c) == s.cores = <<>> \/ c < s.cores[Get(s, "type").at["type"]]

\* What the check leaves behind; with an empty vector it does not read the type.
AfterCheck(s, c) ==
    CASE s.cores = <<>> -> s
      [] s.cores # <<>> /\ check_selected_core_valid(s, c) -> Get(s, "type")
      [] OTHER -> [Get(s, "type") EXCEPT !.core = 0]

GetCore(s) == AfterCheck(s, s.core)

\* The number of the selected CPU, a uint16_t.
get_selected_core_id(s) ==
    IF s.cores = <<>> THEN 0
    ELSE (Cardinality(Earlier(s.cores, Get(s, "type").at["type"])) + GetCore(s).core) % (UINT16_MAX + 1)

\* As Pin would be if it took the core's number within its type.
PinWithoutOffset(s) == [s EXCEPT !.affinity = GetCore(s).core]

\* set_cpu_affinity() of the core just selected.
Pin(s) == [s EXCEPT !.affinity = get_selected_core_id(s)]

set_selected_core(s, c) ==
    IF check_selected_core_valid(s, c)
    THEN Pin([AfterCheck(s, c) EXCEPT !.core = c])
    ELSE AfterCheck(s, c)

set_selected_type(s, t) ==
    IF t < s.max["type"] THEN set_selected_core(Select(s, "type", t), 0)
                         ELSE Select(s, "type", t)

\* As set_selected_page would be without its default case.
set_selected_page_any(p) == p

set_selected_page(p) == IF p \in Pages /\ visible[p] THEN p ELSE TAB_CPU

\* One option of the command line or one key of the settings.
Apply(s, opt, val) ==
    CASE opt = "page" -> s
      [] opt = "type" -> set_selected_type(s, val % (UINT8_MAX + 1))
      [] opt = "core" -> set_selected_core(s, val % (UINT16_MAX + 1))
      [] OTHER        -> Select(s, opt, val % (UINT8_MAX + 1))

-----------------------------------------------------------------------------
(* main() up to the interface.                                             *)

\* Options of the command line are applied as they are read.
ParseOption ==
    /\ phase = "parse" /\ parsed < Len(args)
    /\ parsed' = parsed + 1
    /\ LET arg == args[parsed + 1]
       IN  /\ sel' = Apply(sel, arg.opt, arg.val)
           /\ page' = IF arg.opt = "page" THEN set_selected_page(arg.val) ELSE page
    /\ UNCHANGED <<phase, inputs, visible, saved, cpu_type>>

init_page_visibility ==
    /\ phase = "parse" /\ parsed = Len(args)
    /\ visible' = [p \in Pages |-> TRUE]
    /\ phase' = "settings"
    /\ UNCHANGED <<inputs, parsed, page, sel, saved, cpu_type>>

load_settings ==
    /\ phase = "settings"
    /\ IF env.hasGtk
       THEN LET keyed(s, k) == Apply(s, k, settings[k])
            IN  /\ sel' = keyed(keyed(keyed(keyed(keyed(sel, "type"), "core"), "test"), "stick"), "gpu")
                /\ page' = set_selected_page(settings["page"])
       ELSE UNCHANGED <<sel, page>>
    /\ phase' = "identify"
    /\ UNCHANGED <<inputs, parsed, visible, saved, cpu_type>>

\* set_num_types() and, for every type, set_num_cores(): the selected values stay.
call_libcpuid_static ==
    /\ phase = "identify"
    /\ sel' = IF env.identified THEN [sel EXCEPT !.max["type"] = env.types, !.cores = env.cores]
              ELSE sel
    /\ phase' = "devices"
    /\ UNCHANGED <<inputs, parsed, page, visible, saved, cpu_type>>

\* The elements of data.cpu.cpu_types and of data.caches.cpu_types.
CpuTypes   == IF env.identified THEN env.types ELSE 1
CacheTypes == IF env.identified THEN env.types ELSE 0

\* at() throws; the vectors have one element, "unknown", when libcpuid failed.
Throws(s) == Get(s, "type").at["type"] >= CpuTypes

\* call_dmidecode(), which runs only with the daemon, and find_devices().
Devices ==
    /\ phase = "devices"
    /\ sel' = [sel EXCEPT !.max["stick"] = IF env.daemon THEN env.sticks ELSE @,
                          !.max["gpu"] = IF env.gpus > 0 THEN env.gpus ELSE @]
    /\ phase' = "fallback"
    /\ UNCHANGED <<inputs, parsed, page, visible, saved, cpu_type>>

\* The rest of fill_labels() up to do_refresh() of the CPU page, which reads the core.
fallback_mode_static ==
    /\ phase = "fallback" /\ ~Throws(sel)
    /\ sel' = GetCore(Get(sel, "type"))
    /\ visible' = [visible EXCEPT ![TAB_MOTHERBOARD] = @ /\ env.board]
    /\ phase' = "first"
    /\ UNCHANGED <<inputs, parsed, page, saved, cpu_type>>

\* The exception of at() is caught nowhere.
Abort ==
    /\ phase = "fallback" /\ Throws(sel)
    /\ phase' = "died"
    /\ UNCHANGED <<inputs, parsed, page, visible, sel, saved, cpu_type>>

SaveSelection ==
    /\ phase = "first"
    /\ saved' = [type |-> Get(sel, "type").at["type"], core |-> GetCore(sel).core]
    /\ sel' = GetCore(Get(sel, "type"))
    /\ cpu_type' = 0
    /\ phase' = "loop"
    /\ UNCHANGED <<inputs, parsed, page, visible>>

\* One turn of the loop over the types; a type without caches makes call_bandwidth() return.
RunBandwidth ==
    /\ phase = "loop" /\ cpu_type < CacheTypes
    /\ sel' = set_selected_type(sel, cpu_type)
    /\ IF env.caches[cpu_type] = 0 THEN phase' = "show" ELSE phase' = phase
    /\ cpu_type' = cpu_type + 1
    /\ UNCHANGED <<inputs, parsed, page, visible, saved>>

\* As RestoreSelection would be if it put the core back first.
RestoreCoreFirst ==
    /\ phase = "loop" /\ cpu_type = CacheTypes
    /\ sel' = set_selected_type(set_selected_core(sel, saved.core), saved.type)
    /\ phase' = "show"
    /\ UNCHANGED <<inputs, parsed, page, visible, saved, cpu_type>>

RestoreSelection ==
    /\ phase = "loop" /\ cpu_type = CacheTypes
    /\ sel' = set_selected_core(set_selected_type(sel, saved.type), saved.core)
    /\ phase' = "show"
    /\ UNCHANGED <<inputs, parsed, page, visible, saved, cpu_type>>

Caches(s) == IF env.identified THEN env.caches[Get(s, "type").at["type"]] ELSE 0
Sticks    == IF env.daemon THEN env.sticks ELSE 0

AutoVisible ==
    [visible EXCEPT ![TAB_CACHES] = Caches(sel) > 0, ![TAB_MEMORY] = Sticks > 0,
                    ![TAB_GRAPHICS] = env.gpus > 0]

\* As Show would be without its second call.
ShowKeepsPage ==
    /\ phase = "show"
    /\ visible' = AutoVisible
    /\ sel' = Get(sel, "type")
    /\ phase' = "ui"
    /\ UNCHANGED <<inputs, parsed, page, saved, cpu_type>>

\* set_page_visibility_auto(), then the page is selected again.
Show ==
    /\ phase = "show"
    /\ visible' = AutoVisible
    /\ page' = IF AutoVisible[page] THEN page ELSE TAB_CPU
    /\ sel' = Get(sel, "type")
    /\ phase' = "ui"
    /\ UNCHANGED <<inputs, parsed, saved, cpu_type>>

-----------------------------------------------------------------------------
(* The interfaces.                                                         *)

\* set_selected_page_next() and _prev(): on over hidden pages, the end of the row at most.
IsNextPage(p, q) == /\ q > p /\ (visible[q] \/ q = TAB_ABOUT)
                    /\ \A r \in Pages : p < r /\ r < q => ~visible[r]
IsPrevPage(p, q) == /\ q < p /\ (visible[q] \/ q = TAB_CPU)
                    /\ \A r \in Pages : q < r /\ r < p => ~visible[r]

Ui(front) ==
    /\ phase = "ui" /\ env.front = front
    /\ UNCHANGED <<phase, inputs, parsed, visible, saved, cpu_type>>

\* KEY_LEFT and KEY_RIGHT.
KeyPage ==
    /\ Ui("ncurses")
    /\ \E q \in Pages : (IsNextPage(page, q) \/ IsPrevPage(page, q)) /\ page' = q
    /\ UNCHANGED sel

\* KEY_NPAGE and KEY_PPAGE on the CPU page.
KeyType ==
    /\ Ui("ncurses") /\ page = TAB_CPU
    /\ LET s == Get(sel, "type")
           t == s.at["type"]
       IN  \/ t > 0 /\ sel' = set_selected_type(s, t - 1)
           \/ t + 1 < CpuTypes /\ sel' = set_selected_type(s, t + 1)
    /\ UNCHANGED page

\* footer.num_threads of the selected type, 0 for the unknown one.
Threads(s) == IF env.identified THEN env.cores[Get(s, "type").at["type"]] ELSE 0

\* KEY_DOWN and KEY_UP on the CPU page.
KeyCore ==
    /\ Ui("ncurses") /\ page = TAB_CPU
    /\ LET s == GetCore(sel)
       IN  \/ s.core > 0 /\ sel' = set_selected_core(s, s.core - 1)
           \/ s.core + 1 < Threads(s) /\ sel' = set_selected_core(s, s.core + 1)
    /\ UNCHANGED page

\* The lists of the other pages and their lengths.
Items == {[page |-> TAB_CACHES, field |-> "test", num |-> NumTests],
          [page |-> TAB_MEMORY, field |-> "stick", num |-> Sticks],
          [page |-> TAB_GRAPHICS, field |-> "gpu", num |-> env.gpus]}

\* KEY_DOWN and KEY_UP on those pages.
KeyItem ==
    /\ Ui("ncurses")
    /\ \E i \in Items :
         /\ page = i.page
         /\ LET s == Get(sel, i.field)
                v == s.at[i.field]
            IN  \/ v > 0 /\ sel' = Select(s, i.field, v - 1)
                \/ v + 1 < i.num /\ sel' = Select(s, i.field, v + 1)
    /\ UNCHANGED page

\* signal_switch_page of the notebook, which shows no tab of a hidden page.
SwitchPage ==
    /\ Ui("gtk")
    /\ \E p \in Pages : visible[p] /\ page' = set_selected_page(p)
    /\ UNCHANGED sel

\* change_active_type(): the list of cores is filled anew from what is selected.
change_active_type ==
    /\ Ui("gtk")
    /\ \E t \in 0..(CpuTypes - 1) : sel' = GetCore(set_selected_type(sel, t))
    /\ UNCHANGED page

\* change_active_core(), change_active_test(), change_active_stick() and change_active_card().
change_active_core ==
    /\ Ui("gtk")
    /\ \E c \in 0..(Threads(sel) - 1) : sel' = set_selected_core(sel, c)
    /\ UNCHANGED page

change_active_item ==
    /\ Ui("gtk")
    /\ \E i \in Items : \E v \in 0..(i.num - 1) : sel' = Select(sel, i.field, v)
    /\ UNCHANGED page

Startup ==
    \/ ParseOption \/ init_page_visibility \/ load_settings
    \/ call_libcpuid_static \/ Devices \/ fallback_mode_static \/ Abort
    \/ SaveSelection \/ RunBandwidth \/ RestoreSelection \/ Show

Keys  == KeyPage \/ KeyType \/ KeyCore \/ KeyItem
Lists == SwitchPage \/ change_active_type \/ change_active_core \/ change_active_item

Next == Startup \/ Keys \/ Lists

Spec == Init /\ [][Next]_vars

-----------------------------------------------------------------------------
(* Properties.                                                             *)

\* The interface never shows a page whose visibility is off: --tab, the settings and the keys
\* all select before or without knowing what the hardware has (options.cpp:136-192).
ShownPageVisible == phase = "ui" => visible[page]

\* In the interface the program is pinned to the CPU whose values it shows: the core accepted
\* before the cores were counted, the repairs of the getters and the loop over the types leave
\* affinity and selection together (options.cpp:318-384, libbandwidth.cpp:98-125).
AffinityFollows ==
    phase = "ui" /\ env.identified =>
        /\ sel.at["type"] < env.types
        /\ sel.core < env.cores[sel.at["type"]]
        /\ sel.affinity = Cardinality(Earlier(env.cores, sel.at["type"])) + sel.core

\* The vectors of types are never read outside their range on a processor that libcpuid knows,
\* whatever type was asked for (data.cpp:136-142).
AbortsOnlyUnknown == phase = "died" => ~env.identified

\* The last place of an option among the first n of the command line, 0 when it is not there,
\* and the value given there, 0 when it is not after position i.
IsLast(opt, n, j) == args[j].opt = opt /\ \A k \in (j + 1)..n : args[k].opt # opt
LastIndex(opt, n) ==
    IF \E j \in 1..n : IsLast(opt, n, j) THEN CHOOSE j \in 1..n : IsLast(opt, n, j) ELSE 0
LastArg(opt, i, n) == IF LastIndex(opt, n) > i THEN args[LastIndex(opt, n)].val ELSE 0

\* The type and the core that the first n options of the command line leave selected: a type
\* takes back the core before it.
ArgsType(n) == LastArg("type", 0, n)
ArgsCore(n) == LastArg("core", LastIndex("type", n), n)

\* What is applied last before the hardware is known: where GTK is built in, load_settings()
\* comes after the command line, for every interface, and replaces what it selected.
AppliedType == IF env.hasGtk THEN settings["type"] ELSE ArgsType(Len(args))
AppliedCore == IF env.hasGtk THEN settings["core"] ELSE ArgsCore(Len(args))

\* The values given fit the members of Options: beyond them they wrap, and 255 is no type as
\* long as their number is unknown.
Storable(opt, val) == (opt = "type" => val < NotKnown) /\ (opt = "core" => val <= UINT16_MAX)
AllStorable ==
    /\ \A j \in 1..Len(args) : Storable(args[j].opt, args[j].val)
    /\ \A k \in DOMAIN settings : Storable(k, settings[k])

Within(v, n) == IF v < n THEN v ELSE 0

\* s has the type and the core applied last, or 0 where the processor has no such one.
AsApplied(s) ==
    /\ s.at["type"] = Within(AppliedType, env.types)
    /\ s.core = Within(AppliedCore, env.cores[s.at["type"]])

AllCached == \A t \in 0..(env.types - 1) : env.caches[t] > 0

\* The start loses nothing of the selection: on a processor whose types all have caches the
\* interface opens with the type and the core that were applied last, from the settings in a
\* build with GTK and from the command line in the others, or 0 where the processor has no such
\* one.  They come through an unknown number of types, an empty vector of cores and the loop of
\* call_bandwidth() over every type (libbandwidth.cpp:98-125).  It does not say that --type and
\* --core prevail, as their help has it (main.cpp:70-71): the settings replace them.
StartKeepsApplied ==
    [][phase # "ui" /\ phase' = "ui" /\ env.identified /\ AllCached /\ AllStorable => AsApplied(sel')]_vars
=============================================================================
