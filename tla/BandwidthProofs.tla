-------------------------- MODULE BandwidthProofs --------------------------
(***************************************************************************)
(* TypeOK, SizesStable and RunInRange for every number of threads, every   *)
(* set of caches and every table of chunk sizes larger than the caches.    *)
(***************************************************************************)
EXTENDS Bandwidth, TLAPS

Work == [level : Levels, chunk : 1..(Chunks + 1), used : Speed]

\* The part of TypeOK that the proof needs.
Typed ==
    /\ main \in {"first", "loop", "spawn", "join", "label", "ui", "start", "refresh", "dead"}
    /\ cpu_type \in Nat /\ cpu_type >= 1
    /\ joined \in Threads \cup {None}
    /\ selected_test \in Tests /\ test \in Tests
    /\ cache_size \in [Levels -> Nat]
    /\ pc \in [Threads -> {"none", "lock", "locked", "run", "unlock"}]
    /\ work \in [Threads -> Work]

\* No thread lives while the first call fills the sizes, but the one it waits for, nor after the
\* program.
Alone ==
    /\ main \in {"first", "loop", "spawn", "label", "dead"} => \A t \in Threads : pc[t] = "none"
    /\ main = "join" => \A t \in Threads : t # joined => pc[t] = "none"

\* When the first type's sizes are there, and where the loop is.
Filled ==
    /\ main = "first" => cpu_type = 1
    /\ main = "loop" => cpu_type = 1 \/ cache_size[1] >= 1
    /\ main \in {"spawn", "join", "label"} => cache_size[1] >= 1 /\ cpu_type \in Types
    /\ main \in {"ui", "refresh"} => failed \/ cache_size[1] >= 1
    /\ main = "start" => cache_size[1] >= 1
    /\ \A t \in Threads : pc[t] # "none" => cache_size[1] >= 1

Small == \A l \in Levels : cache_size[l] = 0 \/ cache_size[l] + MaxLevel <= Chunks

\* A thread has measured at least one chunk since it entered its level, or none at all; it has
\* at most one chunk for each level beyond the largest cache.
Progress(w) == /\ w.used # {} \/ w = Idle
               /\ w.chunk + MaxLevel <= Chunks + w.level

Running ==
    \A t \in Threads :
        /\ pc[t] \in {"none", "lock", "locked"} => work[t] = Idle
        /\ pc[t] = "run" => Progress(work[t])

BandwidthInv == Typed /\ Alone /\ Filled /\ Small /\ Running

LEMMA Constants ==
    /\ MaxLevel \in Nat /\ MaxLevel >= 1 /\ Chunks \in Nat /\ 1 \in Types
    /\ None \notin Threads /\ 1 \in Levels /\ NumTests \in Nat
    /\ \A t \in Types : /\ Caches[t] \in Seq(Nat \ {0}) /\ Len(Caches[t]) \in Nat
                        /\ Len(Caches[t]) <= MaxLevel
                        /\ \A l \in DOMAIN Caches[t] : /\ Caches[t][l] \in Nat \ {0}
                                                       /\ Caches[t][l] + MaxLevel <= Chunks
                        /\ Caches[t] # <<>> => 1 \in DOMAIN Caches[t]
    /\ Types \subseteq Nat
BY BandwidthAssumption DEF Types, Levels

LEMMA AtMost ==
    ASSUME NEW chunk \in Nat, NEW size \in Nat, chunk >= 1, chunk <= size,
           size = 0 \/ size + MaxLevel <= Chunks
    PROVE  chunk + MaxLevel <= Chunks
BY BandwidthAssumption

LEMMA OneMore ==
    ASSUME NEW chunk \in Nat, NEW level \in Levels, NEW next \in Levels, chunk >= 1,
           \/ next = level /\ chunk + MaxLevel <= Chunks
           \/ next = level + 1 /\ chunk + MaxLevel <= Chunks + level
    PROVE  chunk + 1 + MaxLevel <= Chunks + next /\ chunk + 1 \in 1..(Chunks + 1)
BY BandwidthAssumption DEF Levels

LEMMA IdleIsWork == Idle \in Work /\ Idle.level = 1 /\ Idle.chunk = 1
BY Constants DEF Idle, Work, Speed

LEMMA Start == Init => BandwidthInv
<1> SUFFICES ASSUME Init PROVE BandwidthInv
    OBVIOUS
<1>1. Typed
    BY Constants, IdleIsWork DEF Init, Typed, Types, Tests
<1>2. Alone /\ Filled /\ Small /\ Running
    BY Constants DEF Init, Alone, Filled, Small, Running
<1> QED BY <1>1, <1>2 DEF BandwidthInv

\* The steps that leave the sizes and the threads alone.
LEMMA MainOnly ==
    ASSUME BandwidthInv, UNCHANGED <<cache_size, pc, work>>,
           FirstCall \/ RestoreType \/ Join \/ FirstLabel \/ RefreshLabel
    PROVE  BandwidthInv'
<1> USE Constants DEF BandwidthInv
<1>1. Typed'
    BY DEF Typed, FirstCall, RestoreType, Join, FirstLabel, RefreshLabel, bwd, Types
<1>2. Alone'
    BY DEF Typed, Alone, FirstCall, RestoreType, Join, FirstLabel, RefreshLabel
<1>3. Filled'
    BY DEF Typed, Filled, FirstCall, RestoreType, Join, FirstLabel, RefreshLabel, bwd, worker, Types
<1>4. Small' /\ Running'
    BY DEF Small, Running
<1> QED BY <1>1, <1>2, <1>3, <1>4

LEMMA SelectStep == BandwidthInv /\ SelectType => BandwidthInv'
<1> SUFFICES ASSUME BandwidthInv, SelectType PROVE BandwidthInv'
    OBVIOUS
<1> USE Constants DEF BandwidthInv
<1>1. /\ main = "loop" /\ cpu_type \in Types /\ main' \in {"ui", "spawn"}
      /\ UNCHANGED <<test, saved, cpu_type, joined, selected_test, pc, work>>
    BY DEF SelectType, worker
<1>2. \A t \in Threads : pc[t] = "none"
    BY <1>1 DEF Alone
<1>3. CASE Caches[cpu_type] = <<>>
    <2>1. failed' = TRUE /\ main' = "ui" /\ cache_size' = cache_size
        BY <1>3 DEF SelectType
    <2> QED BY <1>1, <1>2, <2>1 DEF Typed, Alone, Filled, Small, Running
<1>4. CASE Caches[cpu_type] # <<>>
    <2>1. /\ main' = "spawn"
          /\ cache_size' = [l \in Levels |-> IF l \in DOMAIN Caches[cpu_type]
                                             THEN Caches[cpu_type][l] ELSE cache_size[l]]
        BY <1>4 DEF SelectType
    <2>2. cache_size' \in [Levels -> Nat] /\ cache_size'[1] >= 1
        BY <1>1, <1>4, <2>1 DEF Typed
    <2>3. Small'
        BY <1>1, <2>1 DEF Small, Typed
    <2> QED BY <1>1, <1>2, <2>1, <2>2, <2>3 DEF Typed, Alone, Filled, Running
<1> QED BY <1>3, <1>4

LEMMA NewThreadIsFree == Free # {} => NewThread \in Free
BY DEF NewThread

LEMMA SpawnStep == BandwidthInv /\ SpawnAndJoin => BandwidthInv'
<1> SUFFICES ASSUME BandwidthInv, SpawnAndJoin PROVE BandwidthInv'
    OBVIOUS
<1> USE Constants DEF BandwidthInv
<1>1. main = "spawn" /\ UNCHANGED <<cpu_type, failed, cache_size, work, selected_test, test>>
    BY DEF SpawnAndJoin, Spawn, bwd, worker
<1>2. \A t \in Threads : pc[t] = "none"
    BY <1>1 DEF Alone
<1>3. CASE mutex = None
    <2>1. /\ Free # {} /\ main' = "join" /\ joined' = NewThread
          /\ pc' = [pc EXCEPT ![NewThread] = "lock"]
        BY <1>3 DEF SpawnAndJoin, Spawn
    <2>2. NewThread \in Threads
        BY <2>1, NewThreadIsFree DEF Free
    <2> QED BY <1>1, <1>2, <2>1, <2>2 DEF Typed, Alone, Filled, Small, Running
<1>4. CASE mutex # None
    <2>1. main' = "label" /\ UNCHANGED <<joined, pc>>
        BY <1>4 DEF SpawnAndJoin, worker
    <2> QED BY <1>1, <1>2, <2>1 DEF Typed, Alone, Filled, Small, Running
<1> QED BY <1>3, <1>4

LEMMA RefreshStep == BandwidthInv /\ Refresh => BandwidthInv'
BY DEF BandwidthInv, Refresh, worker, Typed, Alone, Filled, Small, Running

LEMMA DetachStep == BandwidthInv /\ SpawnAndDetach => BandwidthInv'
<1> SUFFICES ASSUME BandwidthInv, SpawnAndDetach PROVE BandwidthInv'
    OBVIOUS
<1> USE Constants DEF BandwidthInv
<1>1. /\ main = "start" /\ main' = "refresh"
      /\ UNCHANGED <<test, selected_test, cpu_type, failed, joined, cache_size, work>>
    BY DEF SpawnAndDetach, Spawn, worker, bwd
<1>2. cache_size[1] >= 1
    BY <1>1 DEF Filled
<1>3. CASE mutex = None
    <2>1. Free # {} /\ pc' = [pc EXCEPT ![NewThread] = "lock"]
        BY <1>3 DEF SpawnAndDetach, Spawn
    <2>2. NewThread \in Threads /\ pc[NewThread] = "none"
        BY <2>1, NewThreadIsFree DEF Free
    <2> QED BY <1>1, <1>2, <2>1, <2>2 DEF Typed, Alone, Filled, Small, Running
<1>4. CASE mutex # None
    <2>1. pc' = pc
        BY <1>4 DEF SpawnAndDetach, worker
    <2> QED BY <1>1, <1>2, <2>1 DEF Typed, Alone, Filled, Small, Running
<1> QED BY <1>3, <1>4

LEMMA UserStep == BandwidthInv /\ User => BandwidthInv'
BY DEF BandwidthInv, User, ChangeTest, ChangeType, bwd, worker, Typed, Alone, Filled, Small, Running

\* A measure, of the level or of the next one.
Entries == 1..(Chunks + 1)
SetWork(w, l, c, u) == [w EXCEPT !.level = l, !.chunk = c, !.used = u]

LEMMA MeasuredIsWork ==
    ASSUME NEW w \in Work, NEW l \in Levels, NEW c \in Entries, NEW u \in Speed, NEW n,
           n = SetWork(w, l, c, u)
    PROVE  n \in Work /\ n.level = l /\ n.chunk = c /\ n.used = u
<1>1. [w EXCEPT !.level = l, !.chunk = c, !.used = u] \in Work
    BY DEF Work, Entries
<1> QED BY <1>1 DEF Work, SetWork

\* With the program every thread ends, and what they shared is gone.
LEMMA DeathStep == ASSUME NEW t \in Threads, BandwidthInv, IllegalInstruction(t) PROVE BandwidthInv'
<1>1. /\ main' = "dead" /\ joined' = None
      /\ pc' = [s \in Threads |-> "none"] /\ work' = [s \in Threads |-> Idle]
      /\ UNCHANGED <<test, cpu_type, selected_test, cache_size>>
    BY DEF IllegalInstruction
<1>2. Typed'
    BY <1>1, IdleIsWork DEF BandwidthInv, Typed
<1>3. Alone' /\ Filled' /\ Small' /\ Running'
    BY <1>1 DEF BandwidthInv, Alone, Filled, Small, Running
<1> QED BY <1>2, <1>3 DEF BandwidthInv

\* The steps of a thread that leave the main thread alone.
Lives(t) == Lock(t) \/ NameTests(t) \/ CheckTest(t) \/ RunChunk(t) \/ NextLevel(t) \/ Unlock(t)

LEMMA ThreadStep == ASSUME NEW t \in Threads, BandwidthInv, Lives(t) PROVE BandwidthInv'
<1> USE Constants DEF BandwidthInv
<1>1. UNCHANGED <<main, type, test, cpu_type, failed, joined, selected_test, cache_size>>
    BY DEF Lives, Lock, NameTests, CheckTest, RunChunk, NextLevel, Unlock, bwd
<1>2. pc[t] # "none"
    BY DEF Lives, Lock, NameTests, CheckTest, RunChunk, NextLevel, Unlock
<1>3. cache_size[1] >= 1 /\ main \in {"join", "ui", "start", "refresh"} /\ (main = "join" => t = joined)
    BY <1>2 DEF Filled, Alone, Typed
<1>4. MaxLevel <= Chunks
    BY <1>3 DEF Small, Typed
<1>5. Small'
    BY <1>1 DEF Small
<1>6. ASSUME pc' \in [Threads -> {"none", "lock", "locked", "run", "unlock"}],
             \A s \in Threads : s # t => pc'[s] = pc[s]
      PROVE  Alone' /\ Filled'
    BY <1>1, <1>3, <1>6 DEF Alone, Filled, Typed
<1>7. CASE Lock(t) \/ NameTests(t) \/ CheckTest(t)
    <2>1. /\ pc[t] \in {"lock", "locked"} /\ work' = work
          /\ \E to \in {"locked", "run", "unlock"} : pc' = [pc EXCEPT ![t] = to]
        BY <1>7 DEF Lock, NameTests, CheckTest, Go
    <2>2. Typed'
        BY <1>1, <2>1 DEF Typed
    <2>3. Alone' /\ Filled'
        BY <1>6, <2>1, <2>2 DEF Typed
    <2>4. work[t] = Idle /\ Progress(work[t])
        BY <1>4, <2>1, IdleIsWork DEF Running, Progress
    <2>5. Running'
        BY <2>1, <2>4 DEF Running, Typed, Progress
    <2> QED BY <1>5, <2>2, <2>3, <2>5
<1>8. CASE RunChunk(t) \/ (NextLevel(t) /\ ~LastLevel(work[t].level))
    <2> DEFINE w == work[t]
               l == IF RunChunk(t) THEN w.level ELSE w.level + 1
               c == w.chunk + 1
               u == IF RunChunk(t) THEN w.used \cup {selected_test} ELSE {selected_test}
               n == [w EXCEPT !.level = l, !.chunk = c, !.used = u]
    <2>1. w \in Work /\ pc[t] = "run" /\ Progress(w)
        BY <1>8 DEF RunChunk, NextLevel, Typed, Running
    <2>2. w.level \in Levels /\ w.chunk \in Nat /\ w.chunk >= 1 /\ w.used \in Speed
        BY <2>1 DEF Work
    <2>3. l \in Levels /\ (~RunChunk(t) => l = w.level + 1)
        BY <1>8, <2>2 DEF LastLevel, Levels
    <2>4. \/ l = w.level /\ w.chunk + MaxLevel <= Chunks
          \/ l = w.level + 1 /\ w.chunk + MaxLevel <= Chunks + w.level
        <3>1. CASE RunChunk(t)
            <4>1. cache_size[w.level] \in Nat /\ w.chunk <= cache_size[w.level]
                BY <3>1, <2>2 DEF RunChunk, TooLarge, Typed
            <4>2. w.chunk + MaxLevel <= Chunks
                <5>1. cache_size[w.level] = 0 \/ cache_size[w.level] + MaxLevel <= Chunks
                    BY <2>2 DEF Small
                <5> QED BY <5>1, <4>1, <2>2, AtMost
            <4> QED BY <4>2, <3>1
        <3>2. CASE ~RunChunk(t)
            BY <3>2, <2>1, <2>3 DEF Progress
        <3> QED BY <3>1, <3>2
    <2>5. c + MaxLevel <= Chunks + l /\ c \in 1..(Chunks + 1)
        <3> HIDE DEF w, l
        <3> QED BY <2>2, <2>3, <2>4, OneMore
    <2>6. u \in Speed /\ u # {}
        BY <2>2 DEF Speed, Typed
    <2>7. n \in Work /\ n.level = l /\ n.chunk = c /\ n.used = u
        <3>1. n = SetWork(w, l, c, u) /\ c \in Entries
            BY <2>5 DEF SetWork, Entries
        <3> HIDE DEF w, l, c, u, n
        <3> QED BY <2>1, <2>3, <2>6, <3>1, MeasuredIsWork
    <2>8. work' = [work EXCEPT ![t] = n] /\ pc' = pc
        <3>1. CASE RunChunk(t)
            <4>1. n = Measured(w)
                BY <3>1, <2>1 DEF Measured, Work
            <4> QED BY <4>1, <3>1 DEF RunChunk
        <3>2. CASE ~RunChunk(t)
            <4> DEFINE e == [w EXCEPT !.level = @ + 1, !.used = {}]
            <4>1. e.used \cup {selected_test} = {selected_test} /\ e.chunk = w.chunk
                BY <2>1 DEF Work
            <4>2. Measured(e) = [e EXCEPT !.chunk = w.chunk + 1, !.used = {selected_test}]
                BY <4>1 DEF Measured
            <4>3. [e EXCEPT !.chunk = w.chunk + 1, !.used = {selected_test}]
                  = [w EXCEPT !.level = @ + 1, !.chunk = w.chunk + 1, !.used = {selected_test}]
                BY <2>1 DEF Work
            <4>4. n = NextChunk(w)
                BY <3>2, <4>2, <4>3 DEF NextChunk
            <4> QED BY <4>4, <3>2, <1>8 DEF NextLevel
        <3> QED BY <3>1, <3>2
    <2> HIDE DEF n
    <2>9. Typed'
        BY <1>1, <2>7, <2>8 DEF Typed
    <2>10. Alone' /\ Filled'
        BY <1>6, <2>8, <2>9 DEF Typed
    <2>11. Progress(n)
        BY <2>5, <2>6, <2>7 DEF Progress
    <2>12. Running'
        BY <2>1, <2>8, <2>11 DEF Running, Typed
    <2> QED BY <1>5, <2>9, <2>10, <2>12
<1>9. CASE NextLevel(t) /\ LastLevel(work[t].level)
    <2>1. pc' = [pc EXCEPT ![t] = "unlock"] /\ work' = work
        BY <1>9 DEF NextLevel, Go
    <2>2. Typed'
        BY <1>1, <2>1 DEF Typed
    <2>3. Alone' /\ Filled'
        BY <1>6, <2>1, <2>2 DEF Typed
    <2> QED BY <1>5, <2>1, <2>2, <2>3 DEF Running, Typed
<1>10. CASE Unlock(t)
    <2>1. pc' = [pc EXCEPT ![t] = "none"] /\ work' = [work EXCEPT ![t] = Idle]
        BY <1>10 DEF Unlock, Go
    <2>2. Typed'
        BY <1>1, <2>1, IdleIsWork DEF Typed
    <2>3. Alone' /\ Filled'
        BY <1>6, <2>1, <2>2 DEF Typed
    <2> QED BY <1>5, <2>1, <2>2, <2>3 DEF Running, Typed
<1> QED BY <1>7, <1>8, <1>9, <1>10 DEF Lives

LEMMA Step == BandwidthInv /\ [Next]_vars => BandwidthInv'
<1>1. BandwidthInv /\ UNCHANGED vars => BandwidthInv'
    BY DEF BandwidthInv, vars, bwd, worker, Typed, Alone, Filled, Small, Running
<1>2. FirstCall \/ RestoreType \/ Join \/ FirstLabel \/ RefreshLabel
      => UNCHANGED <<cache_size, pc, work>>
    BY DEF FirstCall, RestoreType, Join, FirstLabel, RefreshLabel, bwd, worker
<1> QED BY <1>1, <1>2, MainOnly, SelectStep, SpawnStep, RefreshStep, DetachStep, UserStep, ThreadStep,
          DeathStep
       DEF Next, MainStep, Thread, Lives

-----------------------------------------------------------------------------
(* The rest of TypeOK: what only the main thread and the labels hold.      *)

Shared ==
    /\ type \in Types /\ saved \in Types
    /\ cpu_type <= Len(Caches) + 1
    /\ failed \in BOOLEAN /\ test_name \in BOOLEAN
    /\ mutex \in Threads \cup {None}
    /\ cache_speed \in [Levels -> Speed]
    /\ label \in [Types -> [Levels -> Speed]]

LEMMA NumberOfTypes == Len(Caches) \in Nat /\ Types = 1..Len(Caches)
BY BandwidthAssumption DEF Types

LEMMA SharedStart == Init => Shared
<1> SUFFICES ASSUME Init PROVE Shared
    OBVIOUS
<1>1. type \in Types /\ saved \in Types /\ cpu_type <= Len(Caches) + 1
    BY NumberOfTypes DEF Init
<1>2. failed \in BOOLEAN /\ test_name \in BOOLEAN /\ mutex \in Threads \cup {None}
    BY DEF Init
<1>3. cache_speed \in [Levels -> Speed]
    BY DEF Init, Speed
<1>4. label \in [Types -> [Levels -> Speed]]
    <2>1. [l \in Levels |-> {}] \in [Levels -> Speed]
        BY DEF Speed
    <2> QED BY <2>1 DEF Init
<1> QED BY <1>1, <1>2, <1>3, <1>4 DEF Shared

\* The speeds of the selected type, or 0 where it has no such cache.
LEMMA LabelledKeeps ==
    ASSUME Shared, Labelled
    PROVE  label' \in [Types -> [Levels -> Speed]]
<1> DEFINE l == [i \in Levels |-> IF i \in DOMAIN Caches[type] THEN cache_speed[i] ELSE {}]
<1>1. l \in [Levels -> Speed]
    BY DEF Shared, Speed
<1>2. label' = [label EXCEPT ![type] = l]
    BY DEF Labelled
<1> HIDE DEF l
<1> QED BY <1>1, <1>2 DEF Shared

LEMMA SharedMain == ASSUME BandwidthInv, Shared, MainStep \/ Refresh \/ User PROVE Shared'
<1> USE Constants, NumberOfTypes
<1>1. CASE FirstCall \/ Refresh
    BY <1>1 DEF FirstCall, Refresh, Shared
<1>2. CASE SelectType
    BY <1>2 DEF SelectType, Shared
<1>3. CASE RestoreType \/ Join \/ ChangeTest \/ ChangeType
    BY <1>3 DEF RestoreType, Join, ChangeTest, ChangeType, bwd, Shared
<1>4. CASE SpawnAndJoin \/ SpawnAndDetach
    BY <1>4 DEF SpawnAndJoin, SpawnAndDetach, bwd, Shared
<1>5. CASE FirstLabel
    <2>1. cpu_type \in Types /\ cpu_type' = cpu_type + 1 /\ Labelled
        BY <1>5 DEF FirstLabel, BandwidthInv, Filled
    <2>2. label' \in [Types -> [Levels -> Speed]]
        BY <2>1, LabelledKeeps
    <2>3. cpu_type' <= Len(Caches) + 1
        BY <2>1
    <2> QED BY <1>5, <2>2, <2>3 DEF FirstLabel, bwd, Shared
<1>6. CASE RefreshLabel
    <2>1. label' \in [Types -> [Levels -> Speed]]
        BY <1>6, LabelledKeeps DEF RefreshLabel
    <2> QED BY <1>6, <2>1 DEF RefreshLabel, bwd, Shared
<1> QED BY <1>1, <1>2, <1>3, <1>4, <1>5, <1>6 DEF MainStep, User

LEMMA SharedThread == ASSUME BandwidthInv, Shared, NEW t \in Threads, Thread(t) PROVE Shared'
<1>1. CASE Lock(t) \/ NameTests(t) \/ Unlock(t)
    BY <1>1 DEF Lock, NameTests, Unlock, Shared
<1>2. CASE CheckTest(t) \/ RunChunk(t)
    BY <1>2 DEF CheckTest, RunChunk, bwd, Shared, Speed
<1>3. CASE NextLevel(t)
    <2> DEFINE w == work[t]
    <2>1. w.level \in Levels /\ w.used \in Speed
        BY DEF BandwidthInv, Typed, Work
    <2>2. cache_speed' = [cache_speed EXCEPT ![w.level] = w.used]
        BY <1>3 DEF NextLevel
    <2> HIDE DEF w
    <2>3. cache_speed' \in [Levels -> Speed]
        BY <2>1, <2>2 DEF Shared
    <2> QED BY <1>3, <2>3 DEF NextLevel, Shared
<1>4. CASE IllegalInstruction(t)
    BY <1>4 DEF IllegalInstruction, Shared
<1> QED BY <1>1, <1>2, <1>3, <1>4 DEF Thread

LEMMA SharedStep == BandwidthInv /\ Shared /\ [Next]_vars => Shared'
<1>1. Shared /\ UNCHANGED vars => Shared'
    BY DEF vars, bwd, Shared
<1> QED BY <1>1, SharedMain, SharedThread DEF Next

\* The speeds shown, and what the two threads share, keep their type: no level, no type and no
\* test is out of the range of its array (libbandwidth.cpp:65-125,
\* main.c:1455-1555).
THEOREM BandwidthTypeCorrect == Spec => []TypeOK
<1>1. BandwidthInv /\ Shared => TypeOK
    <2> SUFFICES ASSUME BandwidthInv, Shared PROVE TypeOK
        OBVIOUS
    <2>1. cpu_type \in 1..(Len(Caches) + 1)
        BY NumberOfTypes DEF BandwidthInv, Typed, Shared
    <2> QED BY <2>1 DEF BandwidthInv, Typed, Shared, TypeOK, Work
<1> QED BY Start, Step, SharedStart, SharedStep, <1>1, PTL DEF Spec

\* The table of chunks is never read past its end and no average divides by zero, with as many
\* threads and caches as one likes (main.c:1530-1547).
THEOREM RunsStayInRange == Spec => []RunInRange
<1>1. BandwidthInv => RunInRange
    <2> SUFFICES ASSUME BandwidthInv, NEW t \in Threads, pc[t] = "run"
                 PROVE  work[t].chunk <= Chunks /\ (TooLarge(t) => work[t].used # {})
        BY DEF RunInRange
    <2>1. Progress(work[t]) /\ work[t] \in Work /\ cache_size[1] >= 1
        BY DEF BandwidthInv, Running, Typed, Filled
    <2>2. work[t].chunk <= Chunks
        BY <2>1, Constants DEF Progress, Work, Levels
    <2>3. work[t] = Idle => ~TooLarge(t)
        BY <2>1, IdleIsWork, Constants DEF TooLarge, BandwidthInv, Typed
    <2> QED BY <2>1, <2>2, <2>3 DEF Progress
<1> QED BY Start, Step, <1>1, PTL DEF Spec

\* No thread lives when the sizes are written (libbandwidth.cpp:115-120).
THEOREM SizesAreStable == Spec => SizesStable
<1>1. BandwidthInv /\ [Next]_vars
      => [cache_size' # cache_size => \A t \in Threads : pc[t] = "none"]_vars
    <2>1. BandwidthInv /\ SelectType => \A t \in Threads : pc[t] = "none"
        BY DEF BandwidthInv, SelectType, Alone
    <2>2. [Next]_vars /\ cache_size' # cache_size => SelectType
        BY DEF Next, MainStep, User, FirstCall, RestoreType, SpawnAndJoin, Join, FirstLabel,
               RefreshLabel, Refresh, SpawnAndDetach, ChangeTest, ChangeType, Thread, Lock, NameTests, CheckTest,
               RunChunk, NextLevel, IllegalInstruction, Unlock, vars, bwd
    <2> QED BY <2>1, <2>2
<1> QED BY Start, Step, <1>1, PTL DEF Spec, SizesStable
=============================================================================
