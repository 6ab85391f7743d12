------------------------------ MODULE Benchmark ------------------------------
(***************************************************************************)
(* The prime numbers benchmark (src/core/benchmarks.cpp) with the keys and *)
(* switches that drive it: one compute thread per chosen CPU, a detached   *)
(* timer thread that ends the run and joins them, and the user interface,  *)
(* which starts, stops and leaves.  They share is_running, elapsed_i, the  *)
(* parameters and the vector compute_threads without a lock.               *)
(*                                                                         *)
(* A std::thread object in the vector is the worker it owns, None once it  *)
(* has been joined.  Time passes in minutes, the unit of duration_i.       *)
(***************************************************************************)
EXTENDS Integers, Sequences, FiniteSets

CONSTANTS Workers,      \* the compute threads a behaviour can make, by order of creation
          Timers,       \* the timer threads, likewise
          None,
          MaxThreads,   \* std::thread::hardware_concurrency()
          MaxDuration,  \* set_duration() wants less than this (60 * 24 in the code)
          MaxNumber,    \* bound: no worker takes a number once this one is taken
          Patient       \* TRUE: nobody starts a run before the last one's timer ended

ASSUME BenchmarkAssumption ==
    /\ Workers \subseteq Nat /\ Timers \subseteq Nat
    /\ IsFiniteSet(Workers)
    /\ None \notin Workers
    /\ MaxThreads \in Nat \ {0}
    /\ MaxDuration \in Nat \ {0, 1}
    /\ MaxNumber \in Nat
    /\ Patient \in BOOLEAN

VARIABLES
    ui,           \* "idle", or inside start_benchmarks() or ~Data()
    spawned,      \* the loop variable i of start_benchmarks()
    ended,        \* how the program ended: "no", "normal", "terminated" (std::terminate)
    is_running, is_completed, fast_mode,
    number,       \* bench->number of prime_slow and prime_fast
    primes,       \* bench->primes of both
    threads_i, elapsed_i, duration_i,
    compute_threads,
    worker,       \* where each compute thread is
    bench,        \* its pointer: the mode when it started
    task,         \* its local variables number and sup
    timer,        \* where each timer thread is
    since,        \* the time since its std::time(&start)
    index         \* its loop variable i, counted from 1

flags      == <<is_running, is_completed, fast_mode>>
parameters == <<threads_i, elapsed_i, duration_i>>
workerVars == <<worker, bench, task, number, primes>>
timerVars  == <<timer, since, index>>
vars == <<ui, spawned, ended, flags, parameters, compute_threads, workerVars, timerVars>>

Modes == {"slow", "fast"}
Mode  == IF fast_mode THEN "fast" ELSE "slow"

WorkerLive == {"new", "loop", "take", "compute"}
TimerLive  == {"new", "test", "sleep", "decide", "halt", "join"}

NoTask == [number |-> 0, sup |-> 0]

TypeOK ==
    /\ ui \in {"idle", "spawn", "destroy"}
    /\ spawned \in 0..MaxThreads
    /\ ended \in {"no", "normal", "terminated"}
    /\ is_running \in BOOLEAN /\ is_completed \in BOOLEAN /\ fast_mode \in BOOLEAN
    /\ number \in [Modes -> Nat]
    /\ primes \in [Modes -> Nat]
    /\ threads_i \in 1..MaxThreads
    /\ duration_i \in 1..(MaxDuration - 1)
    /\ elapsed_i \in 0..MaxDuration
    /\ compute_threads \in Seq(Workers \cup {None})
    /\ worker \in [Workers -> WorkerLive \cup {"none", "returned"}]
    /\ bench \in [Workers -> Modes]
    /\ task \in [Workers -> [number : Nat, sup : Nat]]
    /\ timer \in [Timers -> TimerLive \cup {"none", "done"}]
    /\ since \in [Timers -> 0..MaxDuration]
    /\ index \in [Timers -> Nat \ {0}]

Init ==
    /\ ui = "idle"
    /\ spawned = 0
    /\ ended = "no"
    /\ is_running = FALSE /\ is_completed = FALSE /\ fast_mode = FALSE
    /\ number = [m \in Modes |-> 0]
    /\ primes = [m \in Modes |-> 0]
    /\ threads_i = 1 /\ elapsed_i = 0 /\ duration_i = 1
    /\ compute_threads = <<>>
    /\ worker = [w \in Workers |-> "none"]
    /\ bench = [w \in Workers |-> "slow"]
    /\ task = [w \in Workers |-> NoTask]
    /\ timer = [t \in Timers |-> "none"]
    /\ since = [t \in Timers |-> 0]
    /\ index = [t \in Timers |-> 1]

\* std::terminate(): a joinable std::thread was destroyed or one not joinable was joined.
Terminate ==
    /\ ended' = "terminated"
    /\ UNCHANGED <<ui, spawned, flags, parameters, compute_threads, workerVars,
                   timerVars>>

Joinable(threads) == {i \in DOMAIN threads : threads[i] # None}

-----------------------------------------------------------------------------
(* The prime test.                                                         *)

\* As Sup would be if it were one too small.
SupTooSmall(n, fast) ==
    IF fast THEN CHOOSE r \in 0..n : (r + 1) * (r + 1) <= n /\ n < (r + 2) * (r + 2) ELSE n

\* sqrt(number) cut to an integer in fast mode.
Sup(n, fast) ==
    IF fast THEN CHOOSE r \in 0..n : r * r <= n /\ n < (r + 1) * (r + 1) ELSE n

\* The i on which for(i = 2; (i < sup) && (number % i != 0); i++) stops.
LoopEnd(n, sup) ==
    CHOOSE i \in 2..(n + 2) :
        /\ i >= sup \/ n % i = 0
        /\ \A j \in 2..(i - 1) : j < sup /\ n % j # 0

CountsAsPrime(n, i, fast) == IF fast THEN n % i # 0 ELSE n = i

-----------------------------------------------------------------------------
(* The compute threads: primes_bench().                                    *)

WorkerStart(w) ==
    /\ worker[w] = "new"
    /\ worker' = [worker EXCEPT ![w] = "loop"]
    /\ bench' = [bench EXCEPT ![w] = Mode]
    /\ UNCHANGED <<ui, spawned, ended, flags, parameters, compute_threads, task, number,
                   primes, timerVars>>

\* As WorkerTest would be with while(true).
WorkerTestNot(w) ==
    /\ worker[w] = "loop"
    /\ number[bench[w]] < MaxNumber
    /\ worker' = [worker EXCEPT ![w] = "take"]
    /\ UNCHANGED <<ui, spawned, ended, flags, parameters, compute_threads, bench, task,
                   number, primes, timerVars>>

\* while(data->bench.is_running)
WorkerTest(w) ==
    /\ worker[w] = "loop"
    /\ is_running => number[bench[w]] < MaxNumber
    /\ worker' = [worker EXCEPT ![w] = IF is_running THEN "take" ELSE "returned"]
    /\ UNCHANGED <<ui, spawned, ended, flags, parameters, compute_threads, bench, task,
                   number, primes, timerVars>>

\* number = ++bench->number on an atomic, then sup from the mode of the moment.
WorkerTake(w) ==
    /\ worker[w] = "take"
    /\ LET n == number[bench[w]] + 1 IN
         /\ number' = [number EXCEPT ![bench[w]] = n]
         /\ task' = [task EXCEPT ![w] = [number |-> n, sup |-> Sup(n, fast_mode)]]
    /\ worker' = [worker EXCEPT ![w] = "compute"]
    /\ UNCHANGED <<ui, spawned, ended, flags, parameters, compute_threads, bench,
                   primes, timerVars>>

\* The loop over i and bench->primes++ on an atomic.
WorkerCompute(w) ==
    /\ worker[w] = "compute"
    /\ LET n == task[w].number
           i == LoopEnd(n, task[w].sup)
       IN  primes' = IF CountsAsPrime(n, i, fast_mode)
                     THEN [primes EXCEPT ![bench[w]] = @ + 1] ELSE primes
    /\ worker' = [worker EXCEPT ![w] = "loop"]
    /\ task' = [task EXCEPT ![w] = NoTask]
    /\ UNCHANGED <<ui, spawned, ended, flags, parameters, compute_threads, bench,
                   number, timerVars>>

-----------------------------------------------------------------------------
(* The timer thread: stop_benchmarks().                                    *)

TimerGoto(t, label) == timer' = [timer EXCEPT ![t] = label]

\* std::time(&start)
TimerStart(t) ==
    /\ timer[t] = "new"
    /\ TimerGoto(t, "test")
    /\ since' = [since EXCEPT ![t] = 0]
    /\ UNCHANGED <<ui, spawned, ended, flags, parameters, compute_threads, workerVars,
                   index>>

\* A minute of the wall clock.
Tick(t) ==
    /\ timer[t] \in {"test", "sleep"}
    /\ since[t] < MaxDuration
    /\ since' = [since EXCEPT ![t] = @ + 1]
    /\ UNCHANGED <<ui, spawned, ended, flags, parameters, compute_threads, workerVars,
                   timer, index>>

\* while((elapsed_i < duration_i * 60) && is_running)
TimerTest(t) ==
    /\ timer[t] = "test"
    /\ TimerGoto(t, IF elapsed_i < duration_i /\ is_running THEN "sleep" ELSE "decide")
    /\ UNCHANGED <<ui, spawned, ended, flags, parameters, compute_threads, workerVars,
                   since, index>>

\* As TimerSleep would be without the assignment to elapsed_i.
TimerSleepOnly(t) ==
    /\ timer[t] = "sleep"
    /\ TimerGoto(t, "test")
    /\ UNCHANGED <<ui, spawned, ended, flags, parameters, compute_threads, workerVars,
                   since, index>>

\* sleep_for(100 ms), std::time(&end), elapsed_i = end - start
TimerSleep(t) ==
    /\ timer[t] = "sleep"
    /\ TimerGoto(t, "test")
    /\ elapsed_i' = since[t]
    /\ UNCHANGED <<ui, spawned, ended, flags, threads_i, duration_i, compute_threads,
                   workerVars, since, index>>

\* is_completed, for the progress bar
TimerDecide(t) ==
    /\ timer[t] = "decide"
    /\ TimerGoto(t, "halt")
    /\ is_completed' = (is_completed \/ elapsed_i >= duration_i)
    /\ UNCHANGED <<ui, spawned, ended, is_running, fast_mode, parameters,
                   compute_threads, workerVars, since, index>>

TimerHalt(t) ==
    /\ timer[t] = "halt"
    /\ TimerGoto(t, "join")
    /\ is_running' = FALSE
    /\ UNCHANGED <<ui, spawned, ended, is_completed, fast_mode, parameters,
                   compute_threads, workerVars, since, index>>

\* As TimerJoin would be with detach() instead of join().
TimerDetach(t) ==
    /\ timer[t] = "join"
    /\ index[t] <= Len(compute_threads)
    /\ compute_threads' = [compute_threads EXCEPT ![index[t]] = None]
    /\ index' = [index EXCEPT ![t] = @ + 1]
    /\ UNCHANGED <<ui, spawned, ended, flags, parameters, workerVars, timer, since>>

\* compute_threads[i].join() throws when another timer joined it.
TimerJoin(t) ==
    /\ timer[t] = "join"
    /\ index[t] <= Len(compute_threads)
    /\ LET w == compute_threads[index[t]] IN
         IF w = None
         THEN Terminate
         ELSE /\ worker[w] = "returned"
              /\ compute_threads' = [compute_threads EXCEPT ![index[t]] = None]
              /\ index' = [index EXCEPT ![t] = @ + 1]
              /\ UNCHANGED <<ui, spawned, ended, flags, parameters, workerVars, timer,
                             since>>

\* The thread returns; its local variables go.
TimerEnds(t) ==
    /\ TimerGoto(t, "done")
    /\ since' = [since EXCEPT ![t] = 0]
    /\ index' = [index EXCEPT ![t] = 1]

\* As TimerClear would be without compute_threads.clear().
TimerClearNot(t) ==
    /\ timer[t] = "join"
    /\ index[t] > Len(compute_threads)
    /\ TimerEnds(t)
    /\ UNCHANGED <<ui, spawned, ended, flags, parameters, compute_threads, workerVars>>

\* compute_threads.clear() destroys the objects.
TimerClear(t) ==
    /\ timer[t] = "join"
    /\ index[t] > Len(compute_threads)
    /\ IF Joinable(compute_threads) # {}
       THEN Terminate
       ELSE /\ compute_threads' = <<>>
            /\ TimerEnds(t)
            /\ UNCHANGED <<ui, spawned, ended, flags, parameters, workerVars>>

-----------------------------------------------------------------------------
(* The user interface.                                                     *)

TimersOver == \A t \in Timers : timer[t] \notin TimerLive

\* Key 's' or 'f', or a switch turned on, while no run is active; the constants Workers
\* and Timers bound the number of runs.  The assignments that prepare a run are one step:
\* with Patient no thread is left to see between them.
Start(fast) ==
    /\ ui = "idle"
    /\ ~is_running
    /\ Patient => TimersOver
    /\ \E t \in Timers : timer[t] = "none"
    /\ Cardinality({w \in Workers : worker[w] = "none"}) >= threads_i
    /\ ui' = "spawn"
    /\ is_running' = TRUE /\ is_completed' = FALSE /\ fast_mode' = fast
    /\ elapsed_i' = 0
    /\ number' = [number EXCEPT ![IF fast THEN "fast" ELSE "slow"] = 2]
    /\ primes' = [primes EXCEPT ![IF fast THEN "fast" ELSE "slow"] = 1]
    /\ UNCHANGED <<spawned, ended, threads_i, duration_i, compute_threads, worker,
                   bench, task, timerVars>>

\* CPU_SET, std::thread and push_back.  A timer that walks the vector at this moment races
\* with push_back(): the build may find its element moved away.
SpawnWorker ==
    /\ ui = "spawn"
    /\ spawned < threads_i
    /\ \/ /\ \E w \in Workers :
               /\ worker[w] = "none"
               /\ \A v \in Workers : worker[v] = "none" => w <= v
               /\ worker' = [worker EXCEPT ![w] = "new"]
               /\ compute_threads' = Append(compute_threads, w)
          /\ spawned' = spawned + 1
          /\ UNCHANGED <<ui, ended, flags, parameters, bench, task, number, primes,
                         timerVars>>
       \/ (\E t \in Timers : timer[t] = "join") /\ Terminate

\* std::thread timer_thread(stop_benchmarks, &data), detach()
SpawnTimer ==
    /\ ui = "spawn"
    /\ spawned = threads_i
    /\ \E t \in Timers :
         /\ timer[t] = "none"
         /\ \A u \in Timers : timer[u] = "none" => t <= u
         /\ TimerGoto(t, "new")
    /\ ui' = "idle"
    /\ spawned' = 0
    /\ UNCHANGED <<ended, flags, parameters, compute_threads, workerVars, since, index>>

\* The same key, or the switch turned off, during a run.
Stop ==
    /\ ui = "idle"
    /\ is_running
    /\ is_running' = FALSE
    /\ UNCHANGED <<ui, spawned, ended, is_completed, fast_mode, parameters,
                   compute_threads, workerVars, timerVars>>

\* As set_duration would be without its check.
set_duration_unchecked(n) == n

\* What set_duration() and set_threads() make of their argument.
set_duration(n) == IF n > 0 /\ n < MaxDuration THEN n ELSE 1
set_threads(n)  == IF n > 0 /\ n <= MaxThreads THEN n ELSE 1

\* The duration may change at any time.
ChangeDuration ==
    /\ ui = "idle"
    /\ \E n \in {duration_i - 1, duration_i + 1} : duration_i' = set_duration(n)
    /\ UNCHANGED <<ui, spawned, ended, flags, threads_i, elapsed_i, compute_threads,
                   workerVars, timerVars>>

\* The number of threads may change between runs; at its limit the key does nothing.
ChangeThreads ==
    /\ ui = "idle"
    /\ ~is_running
    /\ \E n \in {threads_i - 1, threads_i + 1} :
         /\ n <= MaxThreads
         /\ threads_i' = set_threads(n)
    /\ UNCHANGED <<ui, spawned, ended, flags, elapsed_i, duration_i, compute_threads,
                   workerVars, timerVars>>

\* The program leaves its interface: ~Bench() clears is_running.
Quit ==
    /\ ui = "idle"
    /\ ui' = "destroy"
    /\ is_running' = FALSE
    /\ UNCHANGED <<spawned, ended, is_completed, fast_mode, parameters, compute_threads,
                   workerVars, timerVars>>

\* The destructor of compute_threads, next.
Destroy ==
    /\ ui = "destroy"
    /\ IF Joinable(compute_threads) # {}
       THEN Terminate
       ELSE /\ ended' = "normal"
            /\ UNCHANGED <<ui, spawned, flags, parameters, compute_threads, workerVars,
                           timerVars>>

-----------------------------------------------------------------------------
WorkerStep(w) == WorkerStart(w) \/ WorkerTest(w) \/ WorkerTake(w) \/ WorkerCompute(w)

TimerStep(t) ==
    \/ TimerStart(t) \/ TimerTest(t) \/ TimerSleep(t) \/ TimerDecide(t) \/ TimerHalt(t)
    \/ TimerJoin(t) \/ TimerClear(t)

\* What the interface's thread does once its user has acted.
InterfaceStep == SpawnWorker \/ SpawnTimer \/ Destroy

UserStep ==
    \/ \E fast \in BOOLEAN : Start(fast)
    \/ Stop \/ ChangeDuration \/ ChangeThreads \/ Quit

Next ==
    /\ ended = "no"
    /\ \/ \E w \in Workers : WorkerStep(w)
       \/ \E t \in Timers : TimerStep(t) \/ Tick(t)
       \/ InterfaceStep
       \/ UserStep

Spec == Init /\ [][Next]_vars

\* Every thread that can run does, and time passes.  Nothing is assumed of the user.
Fairness ==
    /\ \A w \in Workers : WF_vars(ended = "no" /\ WorkerStep(w))
    /\ \A t \in Timers : /\ WF_vars(ended = "no" /\ TimerStep(t))
                         /\ WF_vars(ended = "no" /\ Tick(t))
    /\ WF_vars(ended = "no" /\ InterfaceStep)

FairSpec == Spec /\ Fairness

-----------------------------------------------------------------------------
(* Safety.                                                                 *)

\* When the timer of a run has ended, every compute thread of the run has returned and
\* has been joined: the detached timer's join loop misses none, and leaves an empty
\* vector to the next run.
NoStrayWorker ==
    ended = "no" /\ ui = "idle" /\ TimersOver =>
        /\ compute_threads = <<>>
        /\ \A w \in Workers : worker[w] \notin WorkerLive

IsPrime(n) == n > 1 /\ \A k \in 2..(n - 1) : n % k # 0

PrimesUpTo(m) == {n \in 2..m : IsPrime(n)}

\* The threads of this run with a prime in their hands.
PrimesAtWork ==
    {w \in Workers : worker[w] = "compute" /\ bench[w] = Mode /\ IsPrime(task[w].number)}

\* At every moment the score is the number of primes up to the last number taken, less
\* the primes still in a thread's hands: with any number of threads none is counted
\* twice, missed or misjudged, in slow and in fast mode, whatever the last run's mode was.
ScoreExact ==
    primes[Mode] + Cardinality(PrimesAtWork) = Cardinality(PrimesUpTo(number[Mode]))

\* A user who waits for the timer between runs sees no std::terminate but perhaps at exit.
TerminatesOnlyAtQuit == ended = "terminated" => ui = "destroy"

-----------------------------------------------------------------------------
(* Liveness.                                                               *)

\* Once is_running is cleared, by the user, the timer or the exit, every compute thread
\* stops.
StopStops ==
    ~is_running ~> (\A w \in Workers : worker[w] \notin WorkerLive) \/ ended # "no"

\* A run ends on its own, however its duration is changed meanwhile.
RunEnds == is_running ~> ~is_running \/ ended # "no"

-----------------------------------------------------------------------------
(* What the comments say and the code does not do.                         *)

\* "Start one thread per logical CPU": no more threads compute than there are CPUs.
OneThreadPerCpu ==
    Cardinality({w \in Workers : worker[w] \in {"take", "compute"}}) <= MaxThreads
=============================================================================
