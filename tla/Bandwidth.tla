------------------------------ MODULE Bandwidth ------------------------------
(***************************************************************************)
(* The cache speeds of the caches page: call_bandwidth()                   *)
(* (src/core/bandwidth/libbandwidth.cpp) and the thread it starts on       *)
(* bandwidth_cpux() (src/core/bandwidth/main.c).  They share one           *)
(* BandwidthData: the thread holds its mutex for a whole run, the main     *)
(* thread only tries the mutex before it starts another thread and writes  *)
(* selected_test and reads cache_speed without it.                         *)
(*                                                                         *)
(* A speed is the set of tests whose measures were averaged, {} for 0.     *)
(* Sizes are counted in entries of the table chunk_sizes.                  *)
(***************************************************************************)
EXTENDS Integers, Sequences

CONSTANTS Threads,     \* the bandwidth threads that can exist at once
          None,
          NumTests,    \* BANDWIDTH_LAST_TEST
          Supported,   \* test_supported: the processor has the instructions and the routine exists
          Illegal,     \* the tests whose routine needs instructions the processor lacks
          Caches,      \* data.caches: for every core type its sequence of sizes
          MaxLevel,    \* BANDWIDTH_MAX_CACHE_LEVEL
          Chunks       \* the entries of chunk_sizes

Tests  == 0..(NumTests - 1)
Types  == DOMAIN Caches
Levels == 1..MaxLevel

\* Every cache is smaller than the table's last entries: below 640 MiB there are three larger ones.
ASSUME BandwidthAssumption ==
    /\ None \notin Threads
    /\ NumTests \in Nat \ {0} /\ Supported \subseteq Tests /\ Illegal \subseteq Tests \ Supported
    /\ MaxLevel \in Nat \ {0} /\ Chunks \in Nat
    /\ Caches # <<>> /\ Caches \in Seq(Seq(Nat \ {0}))
    /\ \A t \in Types : /\ Len(Caches[t]) <= MaxLevel
                        /\ \A l \in DOMAIN Caches[t] : Caches[t][l] + MaxLevel <= Chunks

VARIABLES
    main,         \* where the main thread is in call_bandwidth(), "ui" outside, "dead" at the end
    type, test,   \* Options::selected_type and selected_test
    saved,        \* saved_selected_type
    cpu_type,     \* the variable of the loop over the types
    failed,       \* what err_func() keeps: call_bandwidth() returned 1
    joined,       \* the thread call_bandwidth_in_thread() waits for, or None
    selected_test, cache_size, cache_speed, test_name, mutex,   \* the BandwidthData
    pc, work,     \* where each thread is, and its local variables
    label         \* the speed labels of every type

bwd    == <<selected_test, cache_size, cache_speed, test_name, mutex>>
worker == <<pc, work>>
vars == <<main, type, test, saved, cpu_type, failed, joined, bwd, worker, label>>

Speed == SUBSET Tests
Idle  == [level |-> 1, chunk |-> 1, used |-> {}]

TypeOK ==
    /\ main \in {"first", "loop", "spawn", "join", "label", "ui", "start", "refresh", "dead"}
    /\ type \in Types /\ saved \in Types
    /\ cpu_type \in 1..(Len(Caches) + 1)
    /\ test \in Tests /\ selected_test \in Tests
    /\ failed \in BOOLEAN
    /\ joined \in Threads \cup {None} /\ mutex \in Threads \cup {None}
    /\ cache_size \in [Levels -> Nat]
    /\ cache_speed \in [Levels -> Speed]
    /\ test_name \in BOOLEAN
    /\ pc \in [Threads -> {"none", "lock", "locked", "run", "unlock"}]
    /\ work \in [Threads -> [level : Levels, chunk : 1..(Chunks + 1), used : Speed]]
    /\ label \in [Types -> [Levels -> Speed]]

Init ==
    /\ main = "first"
    /\ type \in Types /\ test \in Tests
    /\ saved = type
    /\ cpu_type = 1
    /\ failed = FALSE
    /\ joined = None
    /\ selected_test = 0
    /\ cache_size = [l \in Levels |-> 0]
    /\ cache_speed = [l \in Levels |-> {}]
    /\ test_name = FALSE
    /\ mutex = None
    /\ pc = [t \in Threads |-> "none"]
    /\ work = [t \in Threads |-> Idle]
    /\ label = [t \in Types |-> [l \in Levels |-> {}]]

-----------------------------------------------------------------------------
(* The main thread.                                                        *)

\* The first call: init_bandwidth() lets bandwidth_cpux() fill test_name in this thread, then
\* frees it and sets it to NULL again; the loop over the types begins.
FirstCall ==
    /\ main = "first"
    /\ selected_test' = test
    /\ saved' = type
    /\ test_name' = FALSE
    /\ main' = "loop"
    /\ UNCHANGED <<type, test, cpu_type, failed, joined, cache_size, cache_speed, mutex, worker,
                   label>>

\* One type: without caches call_bandwidth() returns 1, which err_func() keeps; with caches
\* their sizes are copied over the first entries.
SelectType ==
    /\ main = "loop" /\ cpu_type \in Types
    /\ type' = cpu_type
    /\ IF Caches[cpu_type] = <<>>
       THEN failed' = TRUE /\ main' = "ui" /\ UNCHANGED cache_size
       ELSE /\ cache_size' = [l \in Levels |-> IF l \in DOMAIN Caches[cpu_type]
                                               THEN Caches[cpu_type][l] ELSE cache_size[l]]
            /\ main' = "spawn" /\ UNCHANGED failed
    /\ UNCHANGED <<test, saved, cpu_type, joined, selected_test, cache_speed, test_name, mutex,
                   worker, label>>

RestoreType ==
    /\ main = "loop" /\ cpu_type \notin Types
    /\ type' = saved
    /\ main' = "ui"
    /\ UNCHANGED <<test, saved, cpu_type, failed, joined, bwd, worker, label>>

\* A new thread gets the first free name; bound: no more threads at once than there are names.
Free      == {t \in Threads : pc[t] = "none"}
NewThread == CHOOSE t \in Free : TRUE
Spawn     == Free # {} /\ pc' = [pc EXCEPT ![NewThread] = "lock"] /\ UNCHANGED work

\* As SpawnAndJoin would be if it did not wait.
SpawnDetached ==
    /\ main = "spawn"
    /\ IF mutex = None THEN Spawn ELSE UNCHANGED worker
    /\ main' = "label"
    /\ UNCHANGED <<type, test, saved, cpu_type, failed, joined, bwd, label>>

\* call_bandwidth_in_thread() with wait_thread.
SpawnAndJoin ==
    /\ main = "spawn"
    /\ IF mutex = None
       THEN Spawn /\ joined' = NewThread /\ main' = "join"
       ELSE UNCHANGED <<joined, worker>> /\ main' = "label"
    /\ UNCHANGED <<type, test, saved, cpu_type, failed, bwd, label>>

Join ==
    /\ main = "join" /\ pc[joined] = "none"
    /\ joined' = None
    /\ main' = "label"
    /\ UNCHANGED <<type, test, saved, cpu_type, failed, bwd, worker, label>>

\* The labels of the selected type get the speeds as they are now.
Labelled ==
    label' = [label EXCEPT ![type] = [l \in Levels |-> IF l \in DOMAIN Caches[type]
                                                      THEN cache_speed[l] ELSE {}]]

FirstLabel ==
    /\ main = "label" /\ Labelled
    /\ cpu_type' = cpu_type + 1
    /\ main' = "loop"
    /\ UNCHANGED <<type, test, saved, failed, joined, bwd, worker>>

\* As Refresh would be without its assignment to selected_test.
RefreshOldTest ==
    /\ main = "ui" /\ ~failed
    /\ main' = "start"
    /\ UNCHANGED <<type, test, saved, cpu_type, failed, joined, bwd, worker, label>>

\* Every later call: selected_test is written whoever runs,
Refresh ==
    /\ main = "ui" /\ ~failed
    /\ selected_test' = test
    /\ main' = "start"
    /\ UNCHANGED <<type, test, saved, cpu_type, failed, joined, cache_size, cache_speed,
                   test_name, mutex, worker, label>>

\* then a detached thread is made if nobody holds the mutex, which the new thread itself takes
\* later.
SpawnAndDetach ==
    /\ main = "start"
    /\ IF mutex = None THEN Spawn ELSE UNCHANGED worker
    /\ main' = "refresh"
    /\ UNCHANGED <<type, test, saved, cpu_type, failed, joined, bwd, label>>

RefreshLabel ==
    /\ main = "refresh" /\ Labelled
    /\ main' = "ui"
    /\ UNCHANGED <<type, test, saved, cpu_type, failed, joined, bwd, worker>>

\* The user selects a test or a core type.
ChangeTest ==
    /\ main = "ui"
    /\ \E t \in Tests : test' = t
    /\ UNCHANGED <<main, type, saved, cpu_type, failed, joined, bwd, worker, label>>

ChangeType ==
    /\ main = "ui"
    /\ \E t \in Types : type' = t
    /\ UNCHANGED <<main, test, saved, cpu_type, failed, joined, bwd, worker, label>>

-----------------------------------------------------------------------------
(* The thread.                                                             *)

Go(t, to) == pc' = [pc EXCEPT ![t] = to]

Lock(t) ==
    /\ pc[t] = "lock" /\ mutex = None
    /\ mutex' = t
    /\ Go(t, "locked")
    /\ UNCHANGED <<main, type, test, saved, cpu_type, failed, joined, selected_test, cache_size,
                   cache_speed, test_name, work, label>>

\* Set test names and quit.
NameTests(t) ==
    /\ pc[t] = "locked" /\ ~test_name
    /\ test_name' = TRUE
    /\ Go(t, "unlock")
    /\ UNCHANGED <<main, type, test, saved, cpu_type, failed, joined, selected_test, cache_size,
                   cache_speed, mutex, work, label>>

\* Run the test selected now, or clear every speed if the processor cannot run it.
CheckTest(t) ==
    /\ pc[t] = "locked" /\ test_name
    /\ IF selected_test \in Supported
       THEN Go(t, "run") /\ UNCHANGED cache_speed
       ELSE Go(t, "unlock") /\ cache_speed' = [l \in Levels |-> {}]
    /\ UNCHANGED <<main, type, test, saved, cpu_type, failed, joined, selected_test, cache_size,
                   test_name, mutex, work, label>>

TooLarge(t) == work[t].chunk > cache_size[work[t].level]

\* The measure of one chunk by the test selected at this moment.
Measured(w) == [w EXCEPT !.chunk = @ + 1, !.used = @ \cup {selected_test}]

\* Nothing checks the test again before its routine is called.
Fatal == selected_test \in Illegal

RunChunk(t) ==
    /\ pc[t] = "run" /\ ~TooLarge(t) /\ ~Fatal
    /\ work' = [work EXCEPT ![t] = Measured(@)]
    /\ UNCHANGED <<main, type, test, saved, cpu_type, failed, joined, bwd, pc, label>>

\* As LastLevel would be without the bound of the table of sizes.
LastLevelOfCache(l) == l < MaxLevel /\ cache_size[l + 1] = 0

LastLevel(l) == l >= MaxLevel \/ cache_size[l + 1] = 0

\* As NextChunk would be if the chunk beyond a level counted for none.
NextChunkLost(w) == [w EXCEPT !.level = @ + 1, !.chunk = @ + 1, !.used = {}]

\* The chunk beyond a level is the first of the next one.
NextChunk(w) == Measured([w EXCEPT !.level = @ + 1, !.used = {}])

\* A chunk beyond the level: its average is stored and the chunk counts for the next level.
NextLevel(t) ==
    /\ pc[t] = "run" /\ TooLarge(t)
    /\ LET w == work[t] IN
       /\ cache_speed' = [cache_speed EXCEPT ![w.level] = w.used]
       /\ IF LastLevel(w.level)
          THEN Go(t, "unlock") /\ UNCHANGED work
          ELSE ~Fatal /\ work' = [work EXCEPT ![t] = NextChunk(w)] /\ UNCHANGED pc
    /\ UNCHANGED <<main, type, test, saved, cpu_type, failed, joined, selected_test, cache_size,
                   test_name, mutex, label>>

\* The chunk, of this level or of the next one, is measured by a test whose instructions the
\* processor lacks: SIGILL, whose handler ends the program (main.cpp:461) with all its threads.
IllegalInstruction(t) ==
    /\ pc[t] = "run" /\ Fatal
    /\ TooLarge(t) => ~LastLevel(work[t].level)
    /\ main' = "dead"
    /\ joined' = None /\ mutex' = None
    /\ pc' = [s \in Threads |-> "none"]
    /\ work' = [s \in Threads |-> Idle]
    /\ UNCHANGED <<type, test, saved, cpu_type, failed, selected_test, cache_size, cache_speed,
                   test_name, label>>

Unlock(t) ==
    /\ pc[t] = "unlock"
    /\ mutex' = None
    /\ Go(t, "none")
    /\ work' = [work EXCEPT ![t] = Idle]
    /\ UNCHANGED <<main, type, test, saved, cpu_type, failed, joined, selected_test, cache_size,
                   cache_speed, test_name, label>>

Thread(t) == Lock(t) \/ NameTests(t) \/ CheckTest(t) \/ RunChunk(t) \/ NextLevel(t)
             \/ IllegalInstruction(t) \/ Unlock(t)

MainStep == FirstCall \/ SelectType \/ RestoreType \/ SpawnAndJoin \/ Join \/ FirstLabel
            \/ SpawnAndDetach \/ RefreshLabel

User == ChangeTest \/ ChangeType

Next == MainStep \/ Refresh \/ User \/ \E t \in Threads : Thread(t)

Spec == Init /\ [][Next]_vars

\* The main thread runs, the caches page is refreshed again and again, and every thread runs.
FairSpec == Spec /\ WF_vars(MainStep) /\ WF_vars(Refresh) /\ \A t \in Threads : WF_vars(Thread(t))

-----------------------------------------------------------------------------
(* Properties.                                                             *)

\* The sizes are written only while no thread can read them (libbandwidth.cpp:115-120 against
\* main.c:1533-1540).
SizesStable == [][cache_size' # cache_size => \A t \in Threads : pc[t] = "none"]_vars

\* total_amount / count never divides by zero and the table of chunks is never read past its
\* end, whatever mix of the types' sizes cache_size holds (main.c:1530-1547).
RunInRange ==
    \A t \in Threads : pc[t] = "run" => /\ work[t].chunk <= Chunks
                                        /\ TooLarge(t) => work[t].used # {}

\* The speeds settle: if the user leaves test and type alone and the program lives (it dies in
\* a run that meets a test the processor cannot execute, IllegalInstruction), in the end every
\* level of the type shows the measure of that test alone, or 0 if it is not available.  It
\* needs the second naming run, every thread queued on the mutex and each mixed run to pass
\* (libbandwidth.cpp:65-81, main.c:1455-1555).
Shown(t, x) == [l \in Levels |-> IF x \in Supported /\ l \in DOMAIN Caches[t] THEN {x} ELSE {}]

SpeedsSettle ==
    \A x \in Tests, y \in Types :
        <>[](test = x /\ type = y /\ main \in {"ui", "start", "refresh"}) /\ []~failed
            => <>[](label[y] = Shown(y, x))
=============================================================================
