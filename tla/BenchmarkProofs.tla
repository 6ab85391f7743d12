-------------------------- MODULE BenchmarkProofs --------------------------
(***************************************************************************)
(* The safety of a benchmark run for any number of compute threads and     *)
(* timers, any limits and any numbers: the types always, the joins and the *)
(* score for a user who waits for the timer between runs (Patient).        *)
(***************************************************************************)
EXTENDS Benchmark, FiniteSetTheorems, SequenceTheorems, WellFoundedInduction, TLAPS

Live(t) == timer[t] \in TimerLive

\* At most one timer runs, and it is the only one to have left its first index.
TimerInv ==
    /\ \A t, u \in Timers : Live(t) /\ Live(u) => t = u
    /\ \A t \in Timers : timer[t] # "join" => index[t] = 1
    /\ ui = "spawn" => TimersOver
    /\ ui # "spawn" => spawned = 0

\* The vector is empty between runs, and what a timer has joined of it is what it passed.
VectorInv ==
    /\ ui # "spawn" /\ TimersOver => compute_threads = <<>>
    /\ ui = "spawn" => \A i \in DOMAIN compute_threads : compute_threads[i] # None
    /\ \A t \in Timers : Live(t) =>
         \A i \in DOMAIN compute_threads : compute_threads[i] = None <=> i < index[t]

\* Every live compute thread has its object in the vector, and its mode is that of the run.
WorkerInv ==
    \A w \in Workers :
        /\ worker[w] \in WorkerLive => \E i \in DOMAIN compute_threads : compute_threads[i] = w
        /\ worker[w] \in {"loop", "take", "compute"} => bench[w] = Mode

\* A number taken was not one of the two that start_benchmarks() gives, and its square root
\* was cut in the mode of the run.
TaskInv ==
    /\ \A w \in Workers : worker[w] = "compute" =>
         task[w].number >= 3 /\ task[w].sup = Sup(task[w].number, fast_mode)
    /\ \A w \in Workers : worker[w] \in WorkerLive => number[Mode] >= 2
    /\ ui = "spawn" => number[Mode] >= 2

RunInv ==
    /\ TimerInv /\ VectorInv /\ WorkerInv /\ TaskInv
    /\ ScoreExact /\ TerminatesOnlyAtQuit

-----------------------------------------------------------------------------
(* The prime test.                                                         *)

Less == {ss \in Nat \X Nat : ss[1] < ss[2]}

LEMMA LessWellFounded == IsWellFoundedOn(Less, Nat)
BY NatLessThanWellFounded DEF OpToRel, Less

LEMMA LeastElement ==
    ASSUME NEW T, T \subseteq Nat, T # {}
    PROVE  \E x \in T : \A y \in T : x <= y
<1>1. PICK x \in T : \A y \in T : <<y, x>> \notin Less
    BY LessWellFounded, WFMin
<1>2. ASSUME NEW y \in T PROVE x <= y
    <2>1. <<y, x>> \notin Less BY <1>1
    <2>2. x \in Nat /\ y \in Nat OBVIOUS
    <2>3. QED BY <2>1, <2>2 DEF Less
<1>3. QED BY <1>2

LEMMA Monotone ==
    ASSUME NEW a \in Nat, NEW b \in Nat, NEW c \in Nat, NEW d \in Nat, a <= c, b <= d
    PROVE  a * b <= c * d
<1>1. a * b <= c * b OBVIOUS
<1>2. c * b <= c * d OBVIOUS
<1>3. a * b \in Nat /\ c * b \in Nat /\ c * d \in Nat OBVIOUS
<1>4. QED BY <1>1, <1>2, <1>3

\* The integer square root exists, so the CHOOSE of Sup has its value.
LEMMA SquareRoot ==
    ASSUME NEW n \in Nat
    PROVE  \E r \in 0..n : r * r <= n /\ n < (r + 1) * (r + 1)
<1> DEFINE T == {r \in Nat : n < (r + 1) * (r + 1)}
<1>1. n \in T
    <2>1. 1 * (n + 1) <= (n + 1) * (n + 1) BY Monotone
    <2>2. QED BY <2>1
<1>2. PICK r \in T : \A y \in T : r <= y BY <1>1, LeastElement
<1>3. r * r <= n
    <2>1. CASE r = 0 BY <2>1
    <2>2. CASE r # 0
        <3>1. r - 1 \in Nat /\ r - 1 \notin T BY <1>2, <2>2
        <3>2. ~ (n < ((r - 1) + 1) * ((r - 1) + 1)) BY <3>1
        <3>3. (r - 1) + 1 = r /\ r * r \in Nat BY <3>1
        <3>4. QED BY <3>2, <3>3
    <2>3. QED BY <2>1, <2>2
<1>4. r \in 0..n BY <1>1, <1>2
<1>5. QED BY <1>3, <1>4

LEMMA SupSlow ==
    ASSUME NEW n \in Nat, NEW fast \in BOOLEAN, ~fast
    PROVE  Sup(n, fast) = n
BY DEF Sup

LEMMA SupFast ==
    ASSUME NEW n \in Nat, NEW fast \in BOOLEAN, fast
    PROVE  LET r == Sup(n, fast) IN r \in 0..n /\ r * r <= n /\ n < (r + 1) * (r + 1)
BY SquareRoot DEF Sup

LEMMA SupType ==
    ASSUME NEW n \in Nat, NEW fast \in BOOLEAN
    PROVE  Sup(n, fast) \in 0..n
<1>1. CASE fast BY <1>1, SupFast
<1>2. CASE ~fast BY <1>2, SupSlow
<1>3. QED BY <1>1, <1>2

\* The division loop ends, on the first i that ends it.
LEMMA LoopEnds ==
    ASSUME NEW n \in Nat, NEW sup \in Nat, sup <= n
    PROVE  LET i == LoopEnd(n, sup) IN
             /\ i \in 2..(n + 2)
             /\ i >= sup \/ n % i = 0
             /\ \A j \in 2..(i - 1) : j < sup /\ n % j # 0
<1> DEFINE T == {i \in Nat : i >= 2 /\ (i >= sup \/ n % i = 0)}
<1>1. n + 2 \in T OBVIOUS
<1>2. PICK i \in T : \A y \in T : i <= y BY <1>1, LeastElement
<1>3. i \in 2..(n + 2) BY <1>1, <1>2
<1>4. ASSUME NEW j \in 2..(i - 1) PROVE j < sup /\ n % j # 0
    <2>1. j \in Nat /\ j >= 2 /\ j < i BY <1>3
    <2>2. j \notin T BY <1>2, <2>1
    <2>3. QED BY <2>1, <2>2
<1>5. QED BY <1>2, <1>3, <1>4 DEF LoopEnd

LEMMA DividesFactor ==
    ASSUME NEW n \in Nat, NEW k \in Nat, k >= 2, k < n, n % k = 0
    PROVE  \E m \in Nat : m >= 2 /\ m < n /\ n = k * m /\ n % m = 0
<1> DEFINE m == n \div k
<1>1. m \in Nat /\ n = k * m OBVIOUS
<1>2. m # 0 /\ m # 1 BY <1>1
<1>3. 2 * m <= k * m BY <1>1, Monotone
<1>4. m < n BY <1>1, <1>2, <1>3
<1>5. n % m = 0
    <2>1. m \in Nat \ {0} BY <1>1, <1>2
    <2> HIDE DEF m
    <2> DEFINE q == n \div m
               r == n % m
    <2>2. q \in Nat /\ r \in Nat /\ r < m /\ n = q * m + r BY <2>1
    <2> HIDE DEF q, r
    <2>3. ~ (k + 1 <= q)
        <3>1. ASSUME k + 1 <= q PROVE (k + 1) * m <= q * m BY <2>1, <2>2, <3>1, Monotone
        <3>2. (k + 1) * m = k * m + m BY <2>1
        <3>3. k * m \in Nat /\ q * m \in Nat BY <2>1, <2>2
        <3>4. QED BY <1>1, <2>1, <2>2, <3>1, <3>2, <3>3
    <2>4. ~ (q + 1 <= k)
        <3>1. ASSUME q + 1 <= k PROVE (q + 1) * m <= k * m BY <2>1, <2>2, <3>1, Monotone
        <3>2. (q + 1) * m = q * m + m BY <2>1, <2>2
        <3>3. k * m \in Nat /\ q * m \in Nat BY <2>1, <2>2
        <3>4. QED BY <1>1, <2>1, <2>2, <3>1, <3>2, <3>3
    <2>5. q = k BY <2>2, <2>3, <2>4
    <2>6. k * m \in Nat BY <2>1
    <2>7. r = 0 BY <1>1, <2>2, <2>5, <2>6
    <2>8. QED BY <2>7 DEF r
<1>6. QED BY <1>1, <1>2, <1>4, <1>5

\* In both modes the test tells primes from other numbers.
LEMMA TestExact ==
    ASSUME NEW n \in Nat, n >= 3, NEW fast \in BOOLEAN
    PROVE  CountsAsPrime(n, LoopEnd(n, Sup(n, fast)), fast) <=> IsPrime(n)
<1> DEFINE sup == Sup(n, fast)
           i   == LoopEnd(n, sup)
<1>1. sup \in 0..n BY SupType
<1>2. /\ i \in 2..(n + 2)
      /\ i >= sup \/ n % i = 0
      /\ \A j \in 2..(i - 1) : j < sup /\ n % j # 0
    <2>1. sup \in Nat /\ sup <= n BY <1>1
    <2> HIDE DEF sup
    <2>2. QED BY <2>1, LoopEnds
<1> HIDE DEF i
<1>3. CASE ~fast
    <2>1. sup = n BY <1>3, SupSlow
    <2>2. ASSUME i = n PROVE IsPrime(n)
        <3>1. \A j \in 2..(n - 1) : n % j # 0 BY <1>2, <2>2
        <3>2. QED BY <3>1 DEF IsPrime
    <2>3. ASSUME i # n PROVE ~ IsPrime(n)
        <3>1. i < n BY <1>2, <2>1, <2>3
        <3>2. i \in 2..(n - 1) /\ n % i = 0 BY <1>2, <2>1, <3>1
        <3>3. QED BY <3>2 DEF IsPrime
    <2>4. QED BY <1>3, <2>2, <2>3 DEF CountsAsPrime, i
<1>4. CASE fast
    <2>1. sup * sup <= n /\ n < (sup + 1) * (sup + 1) BY <1>4, SupFast
    <2>2. ASSUME n % i = 0 PROVE ~ IsPrime(n)
        <3>1. sup # n
            <4>1. ASSUME sup = n PROVE FALSE
                <5>1. 3 * n <= n * n BY Monotone
                <5>2. QED BY <2>1, <4>1, <5>1
            <4>2. QED BY <4>1
        <3>2. i < n
            <4>1. ASSUME i >= n PROVE FALSE
                <5>1. CASE i = n
                    <6>1. n - 1 \in 2..(i - 1) BY <5>1
                    <6>2. n - 1 < sup BY <1>2, <6>1
                    <6>3. QED BY <1>1, <3>1, <6>2
                <5>2. CASE i > n
                    <6>1. n \in 2..(i - 1) BY <5>2, <1>2
                    <6>2. n < sup BY <1>2, <6>1
                    <6>3. QED BY <1>1, <6>2
                <5>3. QED BY <4>1, <5>1, <5>2, <1>2
            <4>2. QED BY <4>1, <1>2
        <3>3. i \in 2..(n - 1) BY <1>2, <3>2
        <3>4. QED BY <2>2, <3>3 DEF IsPrime
    <2>3. ASSUME n % i # 0 PROVE IsPrime(n)
        <3>1. i >= sup BY <1>2, <2>3
        <3>2. ASSUME NEW j \in Nat, j >= 2, j < n, n % j = 0 PROVE j >= sup + 1
            <4>1. j # i BY <2>3, <3>2
            <4>2. j \notin 2..(i - 1) BY <1>2, <3>2
            <4>3. QED BY <3>1, <4>1, <4>2, <1>1, <1>2, <3>2
        <3>3. ASSUME NEW k \in 2..(n - 1), n % k = 0 PROVE FALSE
            <4>1. k \in Nat /\ k >= 2 /\ k < n BY <3>3
            <4>2. PICK m \in Nat : m >= 2 /\ m < n /\ n = k * m /\ n % m = 0
                BY <3>3, <4>1, DividesFactor
            <4>3. k >= sup + 1 /\ m >= sup + 1 BY <3>2, <3>3, <4>1, <4>2
            <4>4. (sup + 1) * (sup + 1) <= k * m BY <1>1, <4>1, <4>2, <4>3, Monotone
            <4>5. QED BY <1>1, <2>1, <4>2, <4>4
        <3>4. QED BY <3>3 DEF IsPrime
    <2>4. QED BY <1>4, <2>2, <2>3 DEF CountsAsPrime, i
<1>5. QED BY <1>3, <1>4

-----------------------------------------------------------------------------
(* Types.                                                                  *)

LEMMA TypeInit == Init => TypeOK
<1> SUFFICES ASSUME Init PROVE TypeOK
  OBVIOUS
<1> USE BenchmarkAssumption DEF Init
<1>1. number \in [Modes -> Nat] /\ primes \in [Modes -> Nat] OBVIOUS
<1>2. worker \in [Workers -> WorkerLive \cup {"none", "returned"}] OBVIOUS
<1>3. bench \in [Workers -> Modes] BY DEF Modes
<1>4. task \in [Workers -> [number : Nat, sup : Nat]] BY DEF NoTask
<1>5. timer \in [Timers -> TimerLive \cup {"none", "done"}] OBVIOUS
<1>6. since \in [Timers -> 0..MaxDuration] /\ index \in [Timers -> Nat \ {0}] OBVIOUS
<1>7. compute_threads \in Seq(Workers \cup {None}) OBVIOUS
<1>8. is_running \in BOOLEAN /\ is_completed \in BOOLEAN /\ fast_mode \in BOOLEAN OBVIOUS
<1>9. duration_i \in 1..(MaxDuration - 1) /\ elapsed_i \in 0..MaxDuration OBVIOUS
<1>10. threads_i \in 1..MaxThreads /\ spawned \in 0..MaxThreads OBVIOUS
<1>11. ui = "idle" /\ ended = "no" OBVIOUS
<1> HIDE BenchmarkAssumption DEF Init
<1>12. QED
    BY <1>1, <1>2, <1>3, <1>4, <1>5, <1>6, <1>7, <1>8, <1>9, <1>10, <1>11 DEF TypeOK

LEMMA ModeType == TypeOK => Mode \in Modes
BY DEF TypeOK, Mode, Modes

LEMMA TypeWorker ==
    ASSUME TypeOK, NEW w \in Workers, WorkerStep(w)
    PROVE  TypeOK'
<1>1. CASE WorkerStart(w)
    BY <1>1, ModeType DEF WorkerStart, TypeOK, WorkerLive, flags, parameters, timerVars
<1>2. CASE WorkerTest(w)
    BY <1>2 DEF WorkerTest, TypeOK, WorkerLive, flags, parameters, timerVars
<1>3. CASE WorkerTake(w)
    <2>1. bench[w] \in Modes /\ fast_mode \in BOOLEAN BY DEF TypeOK
    <2>2. PICK n : n = number[bench[w]] + 1 OBVIOUS
    <2>3. n \in Nat BY <2>1, <2>2 DEF TypeOK
    <2>4. Sup(n, fast_mode) \in Nat BY <2>1, <2>3, SupType
    <2>5. /\ number' = [number EXCEPT ![bench[w]] = n]
          /\ task' = [task EXCEPT ![w] = [number |-> n, sup |-> Sup(n, fast_mode)]]
        BY <1>3, <2>2 DEF WorkerTake
    <2>6. number' \in [Modes -> Nat] BY <2>3, <2>5 DEF TypeOK
    <2>7. task' \in [Workers -> [number : Nat, sup : Nat]] BY <2>3, <2>4, <2>5 DEF TypeOK
    <2>8. QED
        BY <1>3, <2>6, <2>7 DEF WorkerTake, TypeOK, WorkerLive, flags, parameters, timerVars
<1>4. CASE WorkerCompute(w)
    <2>1. task' = [task EXCEPT ![w] = NoTask] BY <1>4 DEF WorkerCompute
    <2>2. task' \in [Workers -> [number : Nat, sup : Nat]] BY <2>1 DEF TypeOK, NoTask
    <2>3. primes' = [primes EXCEPT ![bench[w]] = primes[bench[w]] + 1] \/ primes' = primes
        BY <1>4 DEF WorkerCompute
    <2>4. primes' \in [Modes -> Nat]
        <3>1. bench[w] \in Modes /\ primes \in [Modes -> Nat] BY DEF TypeOK
        <3>2. primes[bench[w]] + 1 \in Nat BY <3>1
        <3>3. QED BY <2>3, <3>1, <3>2
    <2>5. QED
        BY <1>4, <2>2, <2>4 DEF WorkerCompute, TypeOK, WorkerLive, flags, parameters, timerVars
<1>5. QED BY <1>1, <1>2, <1>3, <1>4 DEF WorkerStep

LEMMA TypeTimer ==
    ASSUME TypeOK, NEW t \in Timers, TimerStep(t) \/ Tick(t)
    PROVE  TypeOK'
<1> USE DEF TypeOK, TimerLive, flags, parameters, workerVars, TimerGoto
<1>1. CASE TimerStart(t) BY <1>1, BenchmarkAssumption DEF TimerStart
<1>2. CASE Tick(t) BY <1>2, BenchmarkAssumption DEF Tick
<1>3. CASE TimerTest(t) BY <1>3 DEF TimerTest
<1>4. CASE TimerSleep(t) BY <1>4 DEF TimerSleep
<1>5. CASE TimerDecide(t) BY <1>5 DEF TimerDecide
<1>6. CASE TimerHalt(t) BY <1>6 DEF TimerHalt
<1>7. CASE TimerJoin(t)
    <2>1. CASE Terminate BY <2>1 DEF Terminate, timerVars
    <2>2. CASE ~ Terminate
        <3>1. /\ compute_threads' = [compute_threads EXCEPT ![index[t]] = None]
              /\ index' = [index EXCEPT ![t] = @ + 1]
              /\ UNCHANGED <<ui, spawned, ended, flags, parameters, workerVars, timer, since>>
            BY <1>7, <2>2 DEF TimerJoin
        <3>2. compute_threads' \in Seq(Workers \cup {None})
            <4>1. index[t] \in 1..Len(compute_threads) BY <1>7 DEF TimerJoin
            <4>2. compute_threads \in Seq(Workers \cup {None}) OBVIOUS
            <4>3. QED BY <3>1, <4>1, <4>2, ExceptSeq
        <3>3. index' \in [Timers -> Nat \ {0}] BY <3>1
        <3>4. QED BY <3>1, <3>2, <3>3
    <2>3. QED BY <2>1, <2>2
<1>8. CASE TimerClear(t)
    <2>1. CASE Terminate BY <2>1 DEF Terminate, timerVars
    <2>2. CASE ~ Terminate
        <3>1. /\ compute_threads' = <<>> /\ TimerEnds(t)
              /\ UNCHANGED <<ui, spawned, ended, flags, parameters, workerVars>>
            BY <1>8, <2>2 DEF TimerClear
        <3>2. compute_threads' \in Seq(Workers \cup {None}) BY <3>1
        <3>3. timer' \in [Timers -> TimerLive \cup {"none", "done"}] BY <3>1 DEF TimerEnds
        <3>4. since' \in [Timers -> 0..MaxDuration] /\ index' \in [Timers -> Nat \ {0}]
            BY <3>1, BenchmarkAssumption DEF TimerEnds
        <3>5. QED BY <3>1, <3>2, <3>3, <3>4
    <2>3. QED BY <2>1, <2>2
<1>9. QED BY <1>1, <1>2, <1>3, <1>4, <1>5, <1>6, <1>7, <1>8 DEF TimerStep

LEMMA TypeInterface ==
    ASSUME TypeOK, InterfaceStep
    PROVE  TypeOK'
<1> USE DEF TypeOK, TimerLive, WorkerLive, flags, parameters, timerVars, workerVars
<1>0. CASE Terminate BY <1>0 DEF Terminate
<1>1. CASE SpawnWorker /\ ~ Terminate
    <2>1. PICK w \in Workers : worker' = [worker EXCEPT ![w] = "new"]
                               /\ compute_threads' = Append(compute_threads, w)
        BY <1>1 DEF SpawnWorker
    <2>2. spawned < threads_i /\ spawned' = spawned + 1 BY <1>1 DEF SpawnWorker
    <2>3. compute_threads' \in Seq(Workers \cup {None}) BY <2>1
    <2>4. spawned' \in 0..MaxThreads BY <2>2, BenchmarkAssumption
    <2>5. QED BY <1>1, <2>1, <2>3, <2>4 DEF SpawnWorker
<1>2. CASE SpawnTimer BY <1>2, BenchmarkAssumption DEF SpawnTimer, TimerGoto
<1>3. CASE Destroy BY <1>0, <1>3 DEF Destroy
<1>4. QED BY <1>0, <1>1, <1>2, <1>3 DEF InterfaceStep

LEMMA TypeUser ==
    ASSUME TypeOK, UserStep
    PROVE  TypeOK'
<1> USE DEF TypeOK, flags, parameters, timerVars, workerVars
<1>1. ASSUME NEW fast \in BOOLEAN, Start(fast) PROVE TypeOK'
    <2>1. PICK m \in Modes : number' = [number EXCEPT ![m] = 2]
                             /\ primes' = [primes EXCEPT ![m] = 1]
        BY <1>1 DEF Start, Modes
    <2>2. number' \in [Modes -> Nat] /\ primes' \in [Modes -> Nat] BY <2>1
    <2>3. /\ ui' = "spawn" /\ elapsed_i' = 0
          /\ is_running' = TRUE /\ is_completed' = FALSE /\ fast_mode' = fast
          /\ UNCHANGED <<spawned, ended, threads_i, duration_i, compute_threads, worker,
                         bench, task, timerVars>>
        BY <1>1 DEF Start
    <2>4. is_running' \in BOOLEAN /\ is_completed' \in BOOLEAN /\ fast_mode' \in BOOLEAN
        BY <2>3
    <2>5. elapsed_i' \in 0..MaxDuration BY <2>3, BenchmarkAssumption
    <2>6. ui' \in {"idle", "spawn", "destroy"} BY <2>3
    <2>7. /\ spawned' \in 0..MaxThreads /\ threads_i' \in 1..MaxThreads
          /\ duration_i' \in 1..(MaxDuration - 1) /\ ended' \in {"no", "normal", "terminated"}
        BY <2>3
    <2>8. QED BY <2>2, <2>3, <2>4, <2>5, <2>6, <2>7
<1>2. CASE Stop BY <1>2 DEF Stop
<1>3. CASE ChangeDuration BY <1>3, BenchmarkAssumption DEF ChangeDuration, set_duration
<1>4. CASE ChangeThreads BY <1>4, BenchmarkAssumption DEF ChangeThreads, set_threads
<1>5. CASE Quit BY <1>5 DEF Quit
<1>6. QED BY <1>1, <1>2, <1>3, <1>4, <1>5 DEF UserStep

LEMMA TypeNext == TypeOK /\ [Next]_vars => TypeOK'
<1> SUFFICES ASSUME TypeOK, [Next]_vars PROVE TypeOK'
  OBVIOUS
<1>1. CASE Next BY <1>1, TypeWorker, TypeTimer, TypeInterface, TypeUser DEF Next
<1>2. CASE UNCHANGED vars
    BY <1>2 DEF vars, TypeOK, flags, parameters, workerVars, timerVars
<1>3. QED BY <1>1, <1>2

\* Every variable keeps its type, for any user: in particular no key gives a run a number
\* of threads or a duration outside the limits of set_threads() and set_duration().
THEOREM BenchmarkTypeCorrect == Spec => []TypeOK
  BY TypeInit, TypeNext, PTL DEF Spec

-----------------------------------------------------------------------------
(* The steps of a run, when its user is patient.                           *)

LEMMA TimerFrame ==
    ASSUME TimerInv, UNCHANGED <<ui, spawned, timer, index>>
    PROVE  TimerInv'
BY DEF TimerInv, Live, TimersOver

LEMMA VectorFrame ==
    ASSUME VectorInv, UNCHANGED <<ui, timer, index, compute_threads>>
    PROVE  VectorInv'
BY DEF VectorInv, Live, TimersOver

LEMMA WorkFrame ==
    ASSUME WorkerInv, TaskInv, ScoreExact,
           UNCHANGED <<fast_mode, worker, bench, task, number, primes>>
    PROVE  /\ compute_threads' = compute_threads => WorkerInv'
           /\ (ui' = "spawn" => ui = "spawn") => TaskInv'
           /\ ScoreExact'
<1>1. Mode' = Mode BY DEF Mode
<1>2. compute_threads' = compute_threads => WorkerInv' BY <1>1 DEF WorkerInv
<1>3. (ui' = "spawn" => ui = "spawn") => TaskInv' BY <1>1 DEF TaskInv
<1>4. PrimesAtWork' = PrimesAtWork BY <1>1 DEF PrimesAtWork
<1>5. ScoreExact' BY <1>1, <1>4 DEF ScoreExact
<1>6. QED BY <1>2, <1>3, <1>5

LEMMA PrimesFinite == \A m \in Nat : IsFiniteSet(PrimesUpTo(m))
<1> SUFFICES ASSUME NEW m \in Nat PROVE IsFiniteSet(PrimesUpTo(m))
  OBVIOUS
<1>1. IsFiniteSet(2..m) BY FS_Interval
<1>2. PrimesUpTo(m) \subseteq 2..m BY DEF PrimesUpTo
<1>3. QED BY <1>1, <1>2, FS_Subset

LEMMA NextPrime ==
    ASSUME NEW m \in Nat
    PROVE  Cardinality(PrimesUpTo(m + 1))
             = Cardinality(PrimesUpTo(m)) + (IF IsPrime(m + 1) THEN 1 ELSE 0)
<1>1. CASE IsPrime(m + 1)
    <2>1. m + 1 > 1 BY <1>1 DEF IsPrime
    <2>2. PrimesUpTo(m + 1) = PrimesUpTo(m) \cup {m + 1} BY <1>1, <2>1 DEF PrimesUpTo
    <2>3. m + 1 \notin PrimesUpTo(m) BY DEF PrimesUpTo
    <2>4. IsFiniteSet(PrimesUpTo(m)) BY PrimesFinite
    <2>5. QED BY <1>1, <2>2, <2>3, <2>4, FS_AddElement
<1>2. CASE ~ IsPrime(m + 1)
    <2>1. PrimesUpTo(m + 1) = PrimesUpTo(m) BY <1>2 DEF PrimesUpTo
    <2>2. Cardinality(PrimesUpTo(m)) \in Nat BY PrimesFinite, FS_CardinalityType
    <2>3. QED BY <1>2, <2>1, <2>2
<1>3. QED BY <1>1, <1>2

LEMMA PrimesAtWorkFinite == IsFiniteSet(PrimesAtWork) /\ Cardinality(PrimesAtWork) \in Nat
<1>1. PrimesAtWork \subseteq Workers BY DEF PrimesAtWork
<1>2. QED BY <1>1, BenchmarkAssumption, FS_Subset, FS_CardinalityType

LEMMA RunWorker ==
    ASSUME TypeOK, RunInv, NEW w \in Workers, WorkerStep(w)
    PROVE  RunInv'
<1> USE DEF RunInv
<1>1. UNCHANGED <<ui, spawned, ended, fast_mode, compute_threads, timer, index>>
    BY DEF WorkerStep, WorkerStart, WorkerTest, WorkerTake, WorkerCompute, flags, timerVars
<1>2. TimerInv' /\ VectorInv' /\ TerminatesOnlyAtQuit'
    BY <1>1, TimerFrame, VectorFrame DEF TerminatesOnlyAtQuit
<1>3. Mode' = Mode /\ Mode \in Modes BY <1>1, ModeType DEF Mode
<1>4. worker[w] \in WorkerLive
    BY DEF WorkerStep, WorkerStart, WorkerTest, WorkerTake, WorkerCompute, WorkerLive
<1>5. number[Mode] \in Nat /\ number[Mode] >= 2 /\ primes[Mode] \in Nat
    BY <1>3, <1>4 DEF TaskInv, TypeOK
<1>6. CASE WorkerStart(w)
    <2>1. /\ worker[w] = "new" /\ worker' = [worker EXCEPT ![w] = "loop"]
          /\ bench' = [bench EXCEPT ![w] = Mode] /\ UNCHANGED <<task, number, primes>>
        BY <1>6 DEF WorkerStart
    <2>2. WorkerInv' BY <1>1, <1>3, <2>1 DEF WorkerInv, TypeOK, WorkerLive
    <2>3. TaskInv' BY <1>1, <1>3, <2>1 DEF TaskInv, TypeOK, WorkerLive
    <2>4. PrimesAtWork' = PrimesAtWork BY <1>3, <2>1 DEF PrimesAtWork, TypeOK
    <2>5. ScoreExact' BY <1>3, <2>1, <2>4 DEF ScoreExact
    <2>6. QED BY <1>2, <2>2, <2>3, <2>5
<1>7. CASE WorkerTest(w)
    <2>1. /\ worker[w] = "loop"
          /\ worker' = [worker EXCEPT ![w] = IF is_running THEN "take" ELSE "returned"]
          /\ UNCHANGED <<bench, task, number, primes>>
        BY <1>7 DEF WorkerTest
    <2>2. WorkerInv' BY <1>1, <1>3, <2>1 DEF WorkerInv, TypeOK, WorkerLive
    <2>3. TaskInv' BY <1>1, <1>3, <2>1 DEF TaskInv, TypeOK, WorkerLive
    <2>4. PrimesAtWork' = PrimesAtWork BY <1>3, <2>1 DEF PrimesAtWork, TypeOK
    <2>5. ScoreExact' BY <1>3, <2>1, <2>4 DEF ScoreExact
    <2>6. QED BY <1>2, <2>2, <2>3, <2>5
<1>8. CASE WorkerTake(w)
    <2>1. PICK n : n = number[Mode] + 1 OBVIOUS
    <2>2. PICK s : s = Sup(n, fast_mode) OBVIOUS
    <2>3. worker[w] = "take" /\ bench[w] = Mode BY <1>8 DEF WorkerTake, WorkerInv
    <2>4. /\ worker' = [worker EXCEPT ![w] = "compute"]
          /\ number' = [number EXCEPT ![Mode] = n]
          /\ task' = [task EXCEPT ![w] = [number |-> n, sup |-> s]]
          /\ UNCHANGED <<bench, primes>>
        BY <1>8, <2>1, <2>2, <2>3 DEF WorkerTake
    <2>5. number'[Mode'] = n /\ n >= 3 /\ n \in Nat BY <1>3, <1>5, <2>1, <2>4 DEF TypeOK
    <2>6. WorkerInv' BY <1>1, <1>3, <2>3, <2>4 DEF WorkerInv, TypeOK, WorkerLive
    <2>7. TaskInv'
        <3>1. task'[w] = [number |-> n, sup |-> s] BY <2>4 DEF TypeOK
        <3>2. \A v \in Workers : v # w => task'[v] = task[v] /\ worker'[v] = worker[v]
            BY <2>4 DEF TypeOK
        <3>3. fast_mode' = fast_mode BY <1>1
        <3>4. \A v \in Workers : worker'[v] = "compute" =>
                 task'[v].number >= 3 /\ task'[v].sup = Sup(task'[v].number, fast_mode)
            BY <2>2, <2>5, <3>1, <3>2 DEF TaskInv
        <3>5. number'[Mode'] >= 2 BY <2>5
        <3>6. QED BY <3>3, <3>4, <3>5 DEF TaskInv
    <2>8. w \notin PrimesAtWork BY <2>3 DEF PrimesAtWork
    <2>9. PrimesAtWork' = IF IsPrime(n) THEN PrimesAtWork \cup {w} ELSE PrimesAtWork
        BY <1>3, <2>3, <2>4 DEF PrimesAtWork, TypeOK
    <2>10. Cardinality(PrimesAtWork')
             = Cardinality(PrimesAtWork) + (IF IsPrime(n) THEN 1 ELSE 0)
        BY <2>8, <2>9, PrimesAtWorkFinite, FS_AddElement
    <2>11. Cardinality(PrimesUpTo(n))
             = Cardinality(PrimesUpTo(number[Mode])) + (IF IsPrime(n) THEN 1 ELSE 0)
        BY <1>5, <2>1, NextPrime
    <2>12. ScoreExact'
        <3>1. Cardinality(PrimesUpTo(number[Mode])) \in Nat
            BY <1>5, PrimesFinite, FS_CardinalityType
        <3>2. primes'[Mode'] = primes[Mode] BY <1>3, <2>4
        <3>3. QED
            BY <1>5, <2>5, <2>10, <2>11, <3>1, <3>2, PrimesAtWorkFinite DEF ScoreExact
    <2>13. QED BY <1>2, <2>6, <2>7, <2>12
<1>9. CASE WorkerCompute(w)
    <2>1. worker[w] = "compute" /\ bench[w] = Mode BY <1>9 DEF WorkerCompute, WorkerInv
    <2>2. PICK n \in Nat : n = task[w].number BY DEF TypeOK
    <2>3. n >= 3 /\ task[w].sup = Sup(n, fast_mode) BY <2>1, <2>2 DEF TaskInv
    <2>4. fast_mode \in BOOLEAN BY DEF TypeOK
    <2>5. /\ worker' = [worker EXCEPT ![w] = "loop"]
          /\ task' = [task EXCEPT ![w] = NoTask]
          /\ primes' = IF IsPrime(n) THEN [primes EXCEPT ![Mode] = @ + 1] ELSE primes
          /\ UNCHANGED <<bench, number>>
        BY <1>9, <2>1, <2>2, <2>3, <2>4, TestExact DEF WorkerCompute
    <2>6. WorkerInv' BY <1>1, <1>3, <2>1, <2>5 DEF WorkerInv, TypeOK, WorkerLive
    <2>7. TaskInv' BY <1>1, <1>3, <2>1, <2>5 DEF TaskInv, TypeOK, WorkerLive
    <2>8. PrimesAtWork' = PrimesAtWork \ {w} BY <1>3, <2>5 DEF PrimesAtWork, TypeOK
    <2>9. w \in PrimesAtWork <=> IsPrime(n) BY <2>1, <2>2 DEF PrimesAtWork
    <2>10. Cardinality(PrimesAtWork')
             = Cardinality(PrimesAtWork) - (IF IsPrime(n) THEN 1 ELSE 0)
        <3>1. CASE IsPrime(n)
            <4>1. Cardinality(PrimesAtWork \ {w}) = Cardinality(PrimesAtWork) - 1
                BY <2>9, <3>1, PrimesAtWorkFinite, FS_RemoveElement
            <4>2. QED BY <2>8, <3>1, <4>1
        <3>2. CASE ~ IsPrime(n)
            <4>1. PrimesAtWork \ {w} = PrimesAtWork BY <2>9, <3>2
            <4>2. QED BY <2>8, <3>2, <4>1, PrimesAtWorkFinite
        <3>3. QED BY <3>1, <3>2
    <2>11. primes'[Mode] = primes[Mode] + (IF IsPrime(n) THEN 1 ELSE 0)
        BY <1>3, <1>5, <2>5 DEF TypeOK
    <2>12. ScoreExact'
        BY <1>3, <1>5, <2>5, <2>10, <2>11, PrimesAtWorkFinite DEF ScoreExact
    <2>13. QED BY <1>2, <2>6, <2>7, <2>12
<1>10. QED BY <1>6, <1>7, <1>8, <1>9 DEF WorkerStep

\* A step of the timer before its join loop.
LEMMA RunTimerMove ==
    ASSUME TypeOK, RunInv, NEW t \in Timers, timer[t] \in TimerLive, NEW l \in TimerLive,
           timer[t] # "join", timer' = [timer EXCEPT ![t] = l],
           UNCHANGED <<ui, spawned, ended, fast_mode, compute_threads, index, worker, bench,
                       task, number, primes>>
    PROVE  RunInv'
<1> USE DEF RunInv
<1>1. timer'[t] \in TimerLive /\ \A u \in Timers : u # t => timer'[u] = timer[u]
    BY DEF TypeOK
<1>2. \A u \in Timers : timer'[u] \in TimerLive <=> timer[u] \in TimerLive BY <1>1
<1>3. TimersOver' <=> TimersOver BY <1>2 DEF TimersOver
<1>4. TimerInv' BY <1>1, <1>2, <1>3 DEF TimerInv, Live
<1>5. VectorInv' BY <1>2, <1>3 DEF VectorInv, Live
<1>6. WorkerInv' /\ TaskInv' /\ ScoreExact' BY WorkFrame
<1>7. TerminatesOnlyAtQuit' BY DEF TerminatesOnlyAtQuit
<1>8. QED BY <1>4, <1>5, <1>6, <1>7

LEMMA RunJoin ==
    ASSUME TypeOK, RunInv, NEW t \in Timers, TimerJoin(t)
    PROVE  RunInv'
<1> USE DEF RunInv
<1>1. timer[t] = "join" /\ Live(t) BY DEF TimerJoin, Live, TimerLive
<1>2. PICK k \in 1..Len(compute_threads) : k = index[t] BY DEF TimerJoin, TypeOK
<1>3. PICK w : w = compute_threads[k] OBVIOUS
<1>4. w # None /\ w \in Workers BY <1>1, <1>2, <1>3 DEF VectorInv, TypeOK
<1>5. /\ worker[w] = "returned"
      /\ compute_threads' = [compute_threads EXCEPT ![k] = None]
      /\ index' = [index EXCEPT ![t] = k + 1]
      /\ UNCHANGED <<ui, spawned, ended, flags, parameters, workerVars, timer, since>>
    BY <1>2, <1>3, <1>4 DEF TimerJoin
<1>6. UNCHANGED <<ui, spawned, ended, fast_mode, timer, worker, bench, task, number, primes>>
    BY <1>5 DEF flags, workerVars
<1>7. /\ DOMAIN compute_threads' = DOMAIN compute_threads
      /\ k \in DOMAIN compute_threads /\ compute_threads'[k] = None
      /\ \A i \in DOMAIN compute_threads : i # k => compute_threads'[i] = compute_threads[i]
    BY <1>5 DEF TypeOK
<1>8. index'[t] = k + 1 /\ \A u \in Timers : u # t => index'[u] = index[u]
    BY <1>5 DEF TypeOK
<1>9. ~ TimersOver /\ ui # "spawn" BY <1>1 DEF TimersOver, TimerInv, Live
<1>10. TimerInv' BY <1>1, <1>6, <1>8 DEF TimerInv, Live, TimersOver
<1>11. VectorInv'
    <2>1. ~ TimersOver' /\ ui' # "spawn" BY <1>6, <1>9 DEF TimersOver
    <2>2. ASSUME NEW u \in Timers, Live(u)', NEW i \in DOMAIN compute_threads'
          PROVE  compute_threads'[i] = None <=> i < index'[u]
        <3>1. u = t BY <1>1, <1>6, <2>2 DEF TimerInv, Live
        <3>2. i \in DOMAIN compute_threads /\ i \in Nat BY <1>7 DEF TypeOK
        <3>3. compute_threads[i] = None <=> i < k BY <1>1, <1>2, <3>2 DEF VectorInv
        <3>4. QED BY <1>7, <1>8, <3>1, <3>2, <3>3
    <2>3. QED BY <2>1, <2>2 DEF VectorInv
<1>12. WorkerInv'
    <2>1. Mode' = Mode BY <1>6 DEF Mode
    <2>2. ASSUME NEW v \in Workers, worker'[v] \in WorkerLive
          PROVE  \E i \in DOMAIN compute_threads' : compute_threads'[i] = v
        <3>1. v # w BY <1>5, <1>6, <2>2 DEF WorkerLive
        <3>2. PICK i \in DOMAIN compute_threads : compute_threads[i] = v
            BY <1>6, <2>2 DEF WorkerInv
        <3>3. i # k BY <1>3, <3>1, <3>2
        <3>4. QED BY <1>7, <3>2, <3>3
    <2>3. QED BY <1>6, <2>1, <2>2 DEF WorkerInv
<1>13. TaskInv' /\ ScoreExact' BY <1>6, WorkFrame
<1>14. TerminatesOnlyAtQuit' BY <1>6 DEF TerminatesOnlyAtQuit
<1>15. QED BY <1>10, <1>11, <1>12, <1>13, <1>14

LEMMA RunClear ==
    ASSUME TypeOK, RunInv, NEW t \in Timers, TimerClear(t)
    PROVE  RunInv'
<1> USE DEF RunInv
<1>1. timer[t] = "join" /\ Live(t) /\ index[t] > Len(compute_threads)
    BY DEF TimerClear, Live, TimerLive
<1>2. \A i \in DOMAIN compute_threads : compute_threads[i] = None
    <2>1. \A i \in DOMAIN compute_threads : i \in Nat /\ i <= Len(compute_threads)
        BY DEF TypeOK
    <2>2. index[t] \in Nat /\ Len(compute_threads) \in Nat BY DEF TypeOK
    <2>3. QED BY <1>1, <2>1, <2>2 DEF VectorInv
<1>3. Joinable(compute_threads) = {} BY <1>2 DEF Joinable
<1>4. /\ compute_threads' = <<>>
      /\ timer' = [timer EXCEPT ![t] = "done"] /\ index' = [index EXCEPT ![t] = 1]
      /\ UNCHANGED <<ui, spawned, ended, flags, parameters, workerVars>>
    BY <1>3 DEF TimerClear, TimerEnds, TimerGoto
<1>5. UNCHANGED <<ui, spawned, ended, fast_mode, worker, bench, task, number, primes>>
    BY <1>4 DEF flags, workerVars
<1>6. ui # "spawn" BY <1>1 DEF TimerInv, TimersOver, Live
<1>7. /\ timer'[t] = "done" /\ index'[t] = 1
      /\ \A u \in Timers : u # t => timer'[u] = timer[u] /\ index'[u] = index[u]
    BY <1>4 DEF TypeOK
<1>8. \A u \in Timers : timer'[u] \notin TimerLive
    BY <1>1, <1>7 DEF TimerInv, Live, TimerLive
<1>9. TimerInv' BY <1>5, <1>6, <1>7, <1>8 DEF TimerInv, Live
<1>10. VectorInv' BY <1>4, <1>5, <1>6, <1>8 DEF VectorInv, Live
<1>11. WorkerInv'
    <2>1. Mode' = Mode BY <1>5 DEF Mode
    <2>2. \A v \in Workers : worker[v] \notin WorkerLive
        BY <1>2, BenchmarkAssumption DEF WorkerInv
    <2>3. QED BY <1>5, <2>1, <2>2 DEF WorkerInv
<1>12. TaskInv' /\ ScoreExact' BY <1>5, WorkFrame
<1>13. TerminatesOnlyAtQuit' BY <1>5 DEF TerminatesOnlyAtQuit
<1>14. QED BY <1>9, <1>10, <1>11, <1>12, <1>13

LEMMA RunTimer ==
    ASSUME TypeOK, RunInv, NEW t \in Timers, TimerStep(t) \/ Tick(t)
    PROVE  RunInv'
<1>1. CASE TimerJoin(t) BY <1>1, RunJoin
<1>2. CASE TimerClear(t) BY <1>2, RunClear
<1>3. CASE \/ TimerStart(t) \/ TimerTest(t) \/ TimerSleep(t) \/ TimerDecide(t)
           \/ TimerHalt(t)
    <2>1. \E l \in TimerLive : timer' = [timer EXCEPT ![t] = l]
        BY <1>3 DEF TimerStart, TimerTest, TimerSleep, TimerDecide, TimerHalt, TimerGoto,
                    TimerLive
    <2>2. timer[t] \in TimerLive /\ timer[t] # "join"
        BY <1>3 DEF TimerStart, TimerTest, TimerSleep, TimerDecide, TimerHalt, TimerLive
    <2>3. UNCHANGED <<ui, spawned, ended, fast_mode, compute_threads, index, worker, bench,
                      task, number, primes>>
        BY <1>3 DEF TimerStart, TimerTest, TimerSleep, TimerDecide, TimerHalt, flags,
                    workerVars
    <2>4. QED BY <2>1, <2>2, <2>3, RunTimerMove
<1>4. CASE Tick(t)
    <2>1. UNCHANGED <<ui, spawned, ended, fast_mode, compute_threads, timer, index, worker,
                      bench, task, number, primes>>
        BY <1>4 DEF Tick, flags, workerVars
    <2>2. QED
        BY <2>1, TimerFrame, VectorFrame, WorkFrame DEF RunInv, TerminatesOnlyAtQuit
<1>5. QED BY <1>1, <1>2, <1>3, <1>4 DEF TimerStep

\* With no timer alive push_back() races with nobody.
LEMMA RunSpawnWorker ==
    ASSUME TypeOK, RunInv, SpawnWorker
    PROVE  RunInv'
<1> USE DEF RunInv
<1>1. ui = "spawn" /\ TimersOver BY DEF SpawnWorker, TimerInv
<1>2. ~ \E t \in Timers : timer[t] = "join" BY <1>1 DEF TimersOver, TimerLive
<1>3. PICK w \in Workers :
        /\ worker[w] = "none" /\ worker' = [worker EXCEPT ![w] = "new"]
        /\ compute_threads' = Append(compute_threads, w)
    BY <1>2 DEF SpawnWorker
<1>4. UNCHANGED <<ui, ended, fast_mode, timer, index, bench, task, number, primes>>
    BY <1>2 DEF SpawnWorker, flags, timerVars
<1>5. TimerInv' BY <1>1, <1>4 DEF TimerInv, Live, TimersOver
<1>6. /\ DOMAIN compute_threads' = 1..(Len(compute_threads) + 1)
      /\ DOMAIN compute_threads = 1..Len(compute_threads)
      /\ compute_threads'[Len(compute_threads) + 1] = w
      /\ \A i \in DOMAIN compute_threads : compute_threads'[i] = compute_threads[i]
      /\ Len(compute_threads) \in Nat
    BY <1>3 DEF TypeOK
<1>7. VectorInv'
    <2>1. ASSUME NEW i \in DOMAIN compute_threads' PROVE compute_threads'[i] # None
        <3>1. i \in DOMAIN compute_threads \/ i = Len(compute_threads) + 1 BY <1>6
        <3>2. QED BY <1>1, <1>6, <3>1, BenchmarkAssumption DEF VectorInv
    <2>2. \A t \in Timers : timer'[t] \notin TimerLive BY <1>1, <1>4 DEF TimersOver
    <2>3. QED BY <1>1, <1>4, <2>1, <2>2 DEF VectorInv, Live
<1>8. worker'[w] = "new" /\ \A v \in Workers : v # w => worker'[v] = worker[v]
    BY <1>3 DEF TypeOK
<1>9. Mode' = Mode BY <1>4 DEF Mode
<1>10. WorkerInv'
    <2>1. ASSUME NEW v \in Workers, worker'[v] \in WorkerLive
          PROVE  \E i \in DOMAIN compute_threads' : compute_threads'[i] = v
        <3>1. CASE v = w BY <1>6, <3>1
        <3>2. CASE v # w
            <4>1. PICK i \in DOMAIN compute_threads : compute_threads[i] = v
                BY <1>8, <2>1, <3>2 DEF WorkerInv
            <4>2. QED BY <1>6, <4>1
        <3>3. QED BY <3>1, <3>2
    <2>2. ASSUME NEW v \in Workers, worker'[v] \in {"loop", "take", "compute"}
          PROVE  bench'[v] = Mode'
        BY <1>4, <1>8, <1>9, <2>2 DEF WorkerInv
    <2>3. QED BY <2>1, <2>2 DEF WorkerInv
<1>11. TaskInv' BY <1>1, <1>4, <1>8, <1>9 DEF TaskInv
<1>12. PrimesAtWork' = PrimesAtWork BY <1>3, <1>4, <1>8, <1>9 DEF PrimesAtWork
<1>13. ScoreExact' BY <1>4, <1>9, <1>12 DEF ScoreExact
<1>14. TerminatesOnlyAtQuit' BY <1>4 DEF TerminatesOnlyAtQuit
<1>15. QED BY <1>5, <1>7, <1>10, <1>11, <1>13, <1>14

LEMMA RunSpawnTimer ==
    ASSUME TypeOK, RunInv, SpawnTimer
    PROVE  RunInv'
<1> USE DEF RunInv
<1>1. PICK t \in Timers : timer[t] = "none" /\ timer' = [timer EXCEPT ![t] = "new"]
    BY DEF SpawnTimer, TimerGoto
<1>2. /\ ui = "spawn" /\ ui' = "idle" /\ spawned' = 0
      /\ UNCHANGED <<ended, fast_mode, compute_threads, index, worker, bench, task, number,
                     primes>>
    BY DEF SpawnTimer, flags, workerVars
<1>3. TimersOver BY <1>2 DEF TimerInv
<1>4. timer'[t] = "new" /\ \A u \in Timers : u # t => timer'[u] = timer[u]
    BY <1>1 DEF TypeOK
<1>5. \A u \in Timers : timer'[u] \in TimerLive <=> u = t
    BY <1>3, <1>4 DEF TimersOver, TimerLive
<1>6. TimerInv' BY <1>1, <1>2, <1>4, <1>5 DEF TimerInv, Live
<1>7. VectorInv'
    <2>1. ~ TimersOver' BY <1>5 DEF TimersOver
    <2>2. index'[t] = 1 BY <1>1, <1>2 DEF TimerInv
    <2>3. \A i \in DOMAIN compute_threads : compute_threads[i] # None /\ ~ (i < 1)
        BY <1>2 DEF VectorInv, TypeOK
    <2>4. QED BY <1>2, <1>5, <2>1, <2>2, <2>3 DEF VectorInv, Live
<1>8. WorkerInv' /\ TaskInv' /\ ScoreExact' BY <1>2, WorkFrame
<1>9. TerminatesOnlyAtQuit' BY <1>2 DEF TerminatesOnlyAtQuit
<1>10. QED BY <1>6, <1>7, <1>8, <1>9

LEMMA RunDestroy ==
    ASSUME RunInv, Destroy
    PROVE  RunInv'
<1>1. /\ ui = "destroy"
      /\ UNCHANGED <<ui, spawned, fast_mode, compute_threads, timer, index, worker, bench,
                     task, number, primes>>
    BY DEF Destroy, Terminate, flags, workerVars, timerVars
<1>2. QED
    BY <1>1, TimerFrame, VectorFrame, WorkFrame DEF RunInv, TerminatesOnlyAtQuit

\* The first two numbers of a run are given: 2 is the only prime among them.
LEMMA FirstPrime == Cardinality(PrimesUpTo(2)) = 1
<1>1. 2 \in 2..2 /\ IsPrime(2) BY DEF IsPrime
<1>2. PrimesUpTo(2) = {2} BY <1>1 DEF PrimesUpTo
<1>3. QED BY <1>2, FS_Singleton

LEMMA RunStart ==
    ASSUME Patient, TypeOK, RunInv, ended = "no", NEW fast \in BOOLEAN, Start(fast)
    PROVE  RunInv'
<1> USE DEF RunInv
<1>1. /\ ui = "idle" /\ ui' = "spawn" /\ TimersOver /\ fast_mode' = fast
      /\ UNCHANGED <<spawned, ended, compute_threads, worker, bench, task, timer, index>>
    BY DEF Start, timerVars
<1>2. compute_threads = <<>> BY <1>1 DEF VectorInv
<1>3. \A w \in Workers : worker[w] \notin WorkerLive BY <1>2 DEF WorkerInv
<1>4. Mode' = IF fast THEN "fast" ELSE "slow" BY <1>1 DEF Mode
<1>5. Mode' \in Modes BY <1>4 DEF Modes
<1>6. number' = [number EXCEPT ![Mode'] = 2] /\ primes' = [primes EXCEPT ![Mode'] = 1]
    BY <1>4 DEF Start
<1>7. number'[Mode'] = 2 /\ primes'[Mode'] = 1 BY <1>5, <1>6 DEF TypeOK
<1>8. TimerInv' BY <1>1 DEF TimerInv, Live, TimersOver
<1>9. VectorInv' BY <1>1, <1>2 DEF VectorInv, Live, TimersOver
<1>10. WorkerInv' BY <1>1, <1>3 DEF WorkerInv, WorkerLive
<1>11. TaskInv' BY <1>1, <1>3, <1>7 DEF TaskInv, WorkerLive
<1>12. ScoreExact'
    <2>1. PrimesAtWork' = {} BY <1>1, <1>3 DEF PrimesAtWork, WorkerLive
    <2>2. Cardinality(PrimesAtWork') = 0 BY <2>1, FS_EmptySet
    <2>3. QED BY <1>7, <2>2, FirstPrime DEF ScoreExact
<1>13. TerminatesOnlyAtQuit' BY <1>1 DEF TerminatesOnlyAtQuit
<1>14. QED BY <1>8, <1>9, <1>10, <1>11, <1>12, <1>13

LEMMA RunUser ==
    ASSUME Patient, TypeOK, RunInv, ended = "no", UserStep
    PROVE  RunInv'
<1>1. ASSUME NEW fast \in BOOLEAN, Start(fast) PROVE RunInv'
    BY <1>1, RunStart
<1>2. CASE Stop \/ ChangeDuration \/ ChangeThreads
    <2>1. UNCHANGED <<ui, spawned, ended, fast_mode, compute_threads, timer, index, worker,
                      bench, task, number, primes>>
        BY <1>2 DEF Stop, ChangeDuration, ChangeThreads, flags, workerVars, timerVars
    <2>2. QED
        BY <2>1, TimerFrame, VectorFrame, WorkFrame DEF RunInv, TerminatesOnlyAtQuit
<1>3. CASE Quit
    <2>1. /\ ui = "idle" /\ ui' = "destroy"
          /\ UNCHANGED <<spawned, ended, fast_mode, compute_threads, timer, index, worker,
                         bench, task, number, primes>>
        BY <1>3 DEF Quit, workerVars, timerVars
    <2>2. TimerInv' BY <2>1 DEF RunInv, TimerInv, Live
    <2>3. VectorInv' BY <2>1 DEF RunInv, VectorInv, Live, TimersOver
    <2>4. QED BY <2>1, <2>2, <2>3, WorkFrame DEF RunInv, TerminatesOnlyAtQuit
<1>4. QED BY <1>1, <1>2, <1>3 DEF UserStep

LEMMA RunInit == Init => RunInv
<1> SUFFICES ASSUME Init PROVE RunInv
  OBVIOUS
<1>1. TimerInv BY DEF Init, TimerInv, Live, TimerLive
<1>2. VectorInv BY DEF Init, VectorInv, Live, TimerLive
<1>3. WorkerInv /\ TaskInv BY DEF Init, WorkerInv, TaskInv, WorkerLive
<1>4. ScoreExact
    <2>1. PrimesAtWork = {} BY DEF Init, PrimesAtWork
    <2>2. PrimesUpTo(0) = {} BY DEF PrimesUpTo
    <2>3. Mode \in Modes /\ number[Mode] = 0 /\ primes[Mode] = 0 BY DEF Init, Mode, Modes
    <2>4. QED BY <2>1, <2>2, <2>3, FS_EmptySet DEF ScoreExact
<1>5. TerminatesOnlyAtQuit BY DEF Init, TerminatesOnlyAtQuit
<1>6. QED BY <1>1, <1>2, <1>3, <1>4, <1>5 DEF RunInv

LEMMA RunNext == Patient /\ TypeOK /\ RunInv /\ [Next]_vars => RunInv'
<1> SUFFICES ASSUME Patient, TypeOK, RunInv, [Next]_vars PROVE RunInv'
  OBVIOUS
<1>1. CASE Next
    <2>1. ended = "no" BY <1>1 DEF Next
    <2>2. CASE InterfaceStep BY <2>2, RunSpawnWorker, RunSpawnTimer, RunDestroy DEF InterfaceStep
    <2>3. QED BY <1>1, <2>1, <2>2, RunWorker, RunTimer, RunUser DEF Next
<1>2. CASE UNCHANGED vars
    <2>1. UNCHANGED <<ui, spawned, ended, fast_mode, compute_threads, timer, index, worker,
                      bench, task, number, primes>>
        BY <1>2 DEF vars, flags, workerVars, timerVars
    <2>2. QED
        BY <2>1, TimerFrame, VectorFrame, WorkFrame DEF RunInv, TerminatesOnlyAtQuit
<1>3. QED BY <1>1, <1>2

LEMMA RunInvariant ==
    ASSUME Patient PROVE Spec => []RunInv
<1>1. TypeOK /\ RunInv /\ [Next]_vars => RunInv' BY RunNext
<1>2. QED BY <1>1, RunInit, BenchmarkTypeCorrect, PTL DEF Spec

\* When the user waits between runs, stop_benchmarks() joins every compute thread of its run
\* and leaves none alive, whatever the number of threads.
THEOREM NoStrayWorkerHolds ==
    ASSUME Patient PROVE Spec => []NoStrayWorker
<1>1. RunInv => NoStrayWorker BY DEF RunInv, VectorInv, WorkerInv, NoStrayWorker
<1>2. QED BY <1>1, RunInvariant, PTL

\* The score is the number of primes up to the last number taken, less those at work, at
\* every moment, for any number of threads, in both modes and for numbers of any size.
THEOREM ScoreIsExact ==
    ASSUME Patient PROVE Spec => []ScoreExact
<1>1. RunInv => ScoreExact BY DEF RunInv
<1>2. QED BY <1>1, RunInvariant, PTL

\* std::terminate() is never called before the program leaves its interface: no thread is
\* joined twice or destroyed joinable between runs.
THEOREM OnlyQuitTerminates ==
    ASSUME Patient PROVE Spec => []TerminatesOnlyAtQuit
<1>1. RunInv => TerminatesOnlyAtQuit BY DEF RunInv
<1>2. QED BY <1>1, RunInvariant, PTL

=============================================================================
