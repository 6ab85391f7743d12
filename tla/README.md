# CPU-X: TLA+ specifications

CPU-X shows what the hardware of a computer is. It runs as a normal user and asks a root
helper, `cpu-x-daemon`, for what needs privileges. These specifications model the parts of
the program where order, failure, stale state and concurrency matter, check them with TLC on
small instances and prove some of the results with TLAPS for every instance. Paths below are
relative to the repository's `src/`.

## Inventory

| Component | State | Operations | Talks to |
|---|---|---|---|
| Daemon (`daemon/server.cpp`) | `quit_loop`, `ti.running_threads`, `ti.mutex`, descriptors, listening socket, socket file | start-up, poll/accept loop, idle timeout, signals, clean-up, one `request_handler` thread per connection | clients by a `SOCK_SEQPACKET` socket; other daemons by the path in the file system |
| Client side (`daemon/client.cpp`, `main.cpp`) | `data.socket_fd`, `data.reload` | `start_daemon`, `daemon_is_alive`, `connect_to_daemon`, the Start daemon button, reload by `execvp` | daemon by fork, `waitpid`, socket |
| Protocol (`daemon/daemon.h` and its users) | packets in flight, what each side still has to read | seven commands | both ends of one connection |
| Benchmark (`core/benchmarks.cpp`) | `is_running`, `compute_threads`, counters, parameters | start, worker, timer, stop, status | both user interfaces, without a lock |
| Options (`options.cpp`) | selected page, type, core, test, stick, card; page visibility; CPU affinity | setters with checks, next/previous page, self-correcting getters | `main.cpp`, interfaces, bandwidth |
| Refresh (`core/core.cpp`) | results kept by `err_func`, sticky fallback flags, sensor paths | `fill_labels`, `do_refresh`, fallbacks | everything in `core/`, the daemon |
| Bandwidth (`core/bandwidth/libbandwidth.cpp`, `bandwidth_cpux` of `main.c`) | the shared `BandwidthData` with its mutex, saved selection | `call_bandwidth`, the test thread | joined and detached threads, Options |
| GPU (`core/libpci.cpp`, `libopengl`, `libopencl`, `libvulkan`) | cards with driver and paths, pipes of forked probes, `init_done`, cached access result | discovery, probes, monitoring | child processes, sysfs, the daemon |
| DMI decoding (`core/dmidecode/dmidecode.c`) | `cpux_data`, `opt.type`, static buffers | `dmidecode`, `dmi_decode_cpux` | every request thread of the daemon, without a lock |
| Text and graphical interface (`ui/`) | key loop, timers, callbacks | keys and clicks | Options, Benchmark, Refresh, `start_daemon` |
| Data, units, logger | labels | formatting, unit conversion | everyone |

Hard behaviours, with their lines, are the `hazards` of `PROJECT.json`. In short: a request
thread may finish before it is counted; the counter is read without its mutex to stop the
daemon; descriptor numbers are reused while older threads hold copies; two daemons share a
path; a command whose answer is half read shifts every later answer; the benchmark's threads
share a vector and plain flags with two interfaces; options are accepted before their bounds
are known; a bandwidth thread is made after its mutex was only tried; the decoder of the DMI
table keeps globals and static buffers across calls; what failed once is never asked again
while cards and modules come and go; a probe's process may die between two writes.

What makes each component correct: *daemon*: no descriptor leaked or closed twice, the
counter exact, no shutdown under a client, every abandoned daemon gone. *Client side*: who
started a daemon can connect, a waiting program is never stuck. *Protocol*: both ends always
agree what the next packet is. *Benchmark*: every worker joined once, none left running.
*Options*: only visible pages shown, selection and affinity together and within the hardware,
the start with what the user asked for, which the settings may replace. *Refresh and GPU*: a label shows its own device, what can be
read is shown in the end, one card never ends the monitoring of another, a probe leaks and
tears nothing. *Bandwidth*: sizes never written under a thread, the speeds those of the
selected test, no test run that the processor lacks. *DMI*: one stick per device with its own values, sizes exact.

## Modules

| Module | What it is |
|---|---|
| `Daemon` | daemons, their request threads and the programs that start them and connect to them |
| `DaemonService` | abstract: a connection waits, is served once, is over; an idle daemon may stop; a connection alone at a daemon is served |
| `DaemonRefinement` | the mapping from `Daemon` to `DaemonService` |
| `DaemonInvariant` | the inductive invariant `IInv` |
| `DaemonInductive`, `DaemonTheorems` | proofs: type correctness, and every step keeps `IInv`; the safety properties and the refinement |
| `Protocol`, `ProtocolProofs` | the packets of one connection, command by command |
| `Benchmark`, `BenchmarkProofs` | the compute threads, the timer thread and the keys of the benchmark page |
| `Options`, `OptionsProofs` | the selection, the start of the program up to the interface, and the interfaces' keys and lists |
| `Bandwidth`, `BandwidthProofs` | `call_bandwidth()` and the threads it starts |
| `Dmi`, `DmiProofs` | the DMI decoding inside the daemon |
| `Gpu` | the cards, their probes and their monitoring |
| `Refresh`, `RefreshProofs` | extends `Gpu` with the CPU page and the order of `fill_labels()` and `do_refresh()` |
| `MCDaemon`, `MCProtocol`, `MCOptions`, `MCBandwidth`, `MCDmi`, `MCRefresh` | constants and symmetry for TLC |

How they fit: `Daemon` takes a request as one command and its answer, `Protocol` opens one
connection up packet by packet, `Dmi` opens up the command that has state. `Refresh` composes
the CPU page with `Gpu` over one connection to the daemon, which it keeps as open, dead or
closed. `Options` is the selection that `Bandwidth` and `Refresh` read; both take the user's
changes of it as steps of their own.

### Daemon

Every variable is a function over daemons or clients. `main[d]` is where the main thread of
`server.cpp` is: `remove` (`fs::remove`), `bind`, `listen`, `fork`, then the loop: `loop`
(test of `quit_loop`), `poll`, `blocked` (inside `poll()`), `timeout`, `accept`, `lock`,
`spawn`, `count`; `clean` and `close` after the loop, `errclean` and `errclose` after
`GOTO_ERROR`. Each label is a point where another thread or process can act; a label's
action does everything the code does up to the next one. `handler[c]` is the
`request_handler` thread of client `c`'s connection: `read`, `serve`, `lock` and `cleanup` in
`cleanup_thread`. A connection has no name in the code: a client connects once, so the
client names it. Descriptors are real numbers of a table `fds[d]`, handed out lowest first
and resolved when they are used, so a stale number reaches whatever connection has it now. `limit[d]` is the largest number the
process may open (the resource limit it inherits): with no free one below it `accept()` fails and
the connection stays queued.

A client is one run of CPU-X. `new` is `main()` before `start_daemon`, `wait` and `waitgui`
are in `waitpid()` (from `main()` and from the button), `probe` is `daemon_is_alive()`,
`connect` is `connect_to_daemon()`, `fill` is `fill_labels()`, `run` and `offer` are the user
interface with and without a daemon. A reload by the button ends one client and another
`new` one stands for the program that `execvp` makes. `socket_fd` is `dangling` after a failed
`connect()`: closed, but not -1.

Abstractions: a request is one command and its answer (`Protocol` opens it up); the kernel's
part (backlog, end of file, error on a closed peer, clean-up of a dead process) is written
into the actions that meet it; the first signal only (later ones set `quit_loop` again);
`poll()` errors other than `EINTR` and failures of `std::thread` do not happen. A signal
before the handlers are installed is a `Crash`.

### Protocol

One client and one thread, two FIFO queues of packets. A function of either side is the list
of its `write()` and `read()` calls, `todo` and `serving`; the actions execute the head of the
list. `read()` on `SOCK_SEQPACKET` takes exactly one packet and cuts one that is too large, so
`RECEIVE_DATA` accepts any packet at least as large as the structure it wants; `Size` has the
sizes. A close with unread packets makes the peer's next `read()` fail before it sees what is
still queued (`reset`). A packet's `of` is the number of the call it was written for, which
only the properties look at. `Call` follows the order of `fill_labels()` and then allows any
refresh call; which commands a platform uses is left open (ACCESS_DEV_PCI on BSD,
ACCESS_SYS_DEBUG on Linux, the load of module `cpuid` on ARM), so every platform's sequences
are among the model's. A machine says whether `dmidecode()` may
fail and how many packets a direction holds; what `DMIDECODE` reads is in `Dmi`.

### Benchmark

`worker[w]` is where a compute thread is in `primes_bench()`: `loop` (test of `is_running`),
`take` (`++bench->number` and `sup`), `compute` (the division loop and `primes++`). `timer[t]`
is where a `stop_benchmarks()` is: `test` and `sleep` of the waiting loop, `decide` and `halt`
after it, `join` in the loop over the vector. `ui` is the interface's thread: `idle` between
keys, `spawn` inside `start_benchmarks()`, `destroy` between `~Bench()` and the destructors of
its members. A `std::thread` in `compute_threads` is the worker it owns, or `None` once joined;
joining it twice and destroying it joinable call `std::terminate()`. The prime test is
evaluated as the code does it, with the integer square root of fast mode.

`Patient` says whether the user waits for the timer of the last run, which may sleep for 100 ms
after a stop, before starting the next. With it, the vector has one user at a time and the
properties hold; without it two timers and `push_back()` race, and the race's outcome is a
choice between a normal append and a crash.

Abstractions: time is counted in whole minutes, which decides `elapsed_i < duration_i * 60`
exactly; the clock does not go back; `is_running` is a single byte, read and written at once;
`std::thread` and `pthread_setaffinity_np()` succeed; a thread's local variables go when it
ends. Labels and `benchmark_status()`, which only writes labels, are left out.

### Options

`phase` is where `main()` is: `parse` (the command line, option by option), `settings`,
`identify` (`call_libcpuid_static()`), `devices`, `fallback`, `first` and `loop` (the first
`call_bandwidth()`, which walks the selection over all types and pins the program to each),
`show`, then `ui`, or `died` when `std::vector::at()` throws. `sel` holds the `std::pair`s of
`options.hpp`: `at` is `.first`, `max` is `.second`, 255 until the hardware is known. Getters
are functions from a selection to a selection because they reset what is out of range.
Values from the command line are cut to the width of the setter's parameter.

Abstractions: one environment record holds what the hardware and the build decide; a type
with no caches stands for ARM processors; the affinity is the number given to
`set_cpu_affinity()`, which succeeds. Options that are only stored are left out.

### Bandwidth

`main` is where the main thread is in `call_bandwidth()`: `first`, `loop`, `spawn`, `join` and
`label` in its first call, `start` and `refresh` in a later one (after `selected_test` is
written, and after the thread is made), `ui` outside. `pc[t]` is where a `bandwidth_cpux()`
is: `lock`, `locked`, `run`, `unlock`. A speed is the set of tests whose measures went into
the average, since a run re-reads `selected_test` at every chunk. `Supported` is what
`test_supported` says when the run begins; a test outside it that is selected later is executed
all the same. If the processor lacks its instructions (`Illegal`) the program ends by SIGILL, which
is `IllegalInstruction` and `main` = `dead`; a routine that is unavailable for another reason
measures something. Sizes are counted in entries
of `chunk_sizes`; `cache_size` keeps entries of an earlier type when a later one has fewer.

The first thread of the program only makes the names of the tests again: `init_bandwidth()`
frees them. A processor libcpuid does not know has no caches, and its page is hidden, so it
never gets beyond the first call; the module assumes at least one type. `BandwidthAssumption`
also says that a cache is smaller than the table's last entries (640 MiB), which no processor
libcpuid reports contradicts; the table has no 0 at its end.

### Dmi

`call[c]` is one `DMIDECODE` command: `wait`, `decode`, `send`, `done`. `cpux_data` and
`opt_type` are the globals, which the last caller owns; `buffers` are the static buffers of
the functions that write a size, a speed or a voltage. A shown value is the call, the
structure and the code it came from. `dmi_decode_cpux()` is modelled with every length at which it
breaks off. `Width` is 8 in the code, 2 in the run, so that four devices wrap `stick_count`.

Properties are about commands that decode alone (`alone`): two at once are a data race, which
the model has with one of its outcomes (a message that is gone takes the writes), and what it
does to their answers is under Observations. `realloc()` succeeds.

### Gpu

A label shows the card its value really belongs to, so that a value shown for another card is
visible to `OwnValues`. The environment switches cards off and on (with a new DRM and hwmon
number), binds them to `vfio-pci` and back and stops their clocks. `at` and `pc` are where
`find_devices()` is: `pipe`, `fork`, `wait` in the probe of one API for one card; `child`,
`written` and `fds` are the process, the pipe's content and the descriptors. The three answers
a Vulkan probe writes are two here: what is read first, and the rest. `Source` says which label
a driver gives by a `drm` path, an `hwmon` path, `/sys/kernel/debug` or `nvidia-smi`; the eight
monitored labels are four, one for each way. `mon` holds `gpu_monitoring()`'s loop index and
`failed_count`, its `init_done`, the static of `can_access_sys_debug_dri()` and the entry
`err_func()` keeps.

### Refresh

`step` is the function of `do_refresh(TAB_CPU)` that comes next, `registered` is what
`err_func()` does not call again, `use_fallback` the three sticky statics. A value is its
source and the core it was read for. A machine record says what MSRs, libcpuid, sensors and
cpufreq know. After the start the user stays on one page: the CPU page and the graphics page
share the connection to the daemon only, and that may be lost on either.

Abstractions: a sensor that can be read gives a positive number; `vcgencmd`, FreeBSD's
`sysctl` and `cpu_usage()` are left out; units and rounding too.

## Runs

| Run | Bounds | What it shows |
|---|---|---|
| `daemon_safety` | 2 daemons, 2 clients, 1 descriptor, symmetry | `TypeOK`, `FdOwnership`, `NoFdLeak`, `ThreadCount`, `IdleExit`, `LaunchThenConnect`, and `IInv`, the invariant of the proofs |
| `daemon_live` | 1 daemon with 1 or 2 descriptors, 2 clients, no symmetry | `IdleDaemonExits`, `AnswerOrError`, `SignalStops`, and that `Daemon` implements `DaemonService` with fairness |
| `protocol_run` | 6 calls, 2 memory devices, dmidecode that succeeds with 1 or 2 packets per direction or may fail with room for all | the daemon never misreads, nobody waits for ever, and without a failure every call reads its own answer |
| `protocol_desync` | the same | after a dmidecode error an answer goes to the wrong call |
| `benchmark_run` | 2 CPUs, 2 compute and 2 timer threads, numbers to 8, durations below 3 | every thread joined, the score exact, every run ends and every stop stops |
| `benchmark_restart` | 3 compute threads, numbers to 4, an impatient user | stopped threads go on in the next run, more than one per CPU |
| `options_run` | 4 processors x daemon, cards, board, build and interface, 8 command lines, 4 settings | hidden pages are not shown, the affinity follows the selection, `at()` only throws on an unknown processor, the start keeps the type and core applied last |
| `bandwidth_run` | 2 types with 2 and 1 caches, 3 tests (1 supported, 1 with instructions the processor lacks, 1 unavailable for another reason), 2 threads, 5 chunk sizes | runs stay in range, sizes are stable, the labels settle on the selected test |
| `dmi_run` | 3 commands, 3 tables, a 2-bit `stick_count`, symmetry | one stick per device, known codes are a device's own, sizes exact |
| `dmi_stale` | 2 commands, the same tables | an empty slot shows the size of another module |
| `refresh_run` | 4 processors, and 7 computers with 1 or 2 cards that change up to 4 times | own values, clean probes, the monitoring kept, readable cards and late sensors shown in the end |
| `gpu_debugfs` | 1 Radeon card and a daemon | a granted access is remembered as refused |

Why the bounds are enough. Daemon: two daemons are what a path conflict takes, and a client
that reloads uses up two clients; one descriptor makes `accept()` fail and every number be
reused at once; the proofs lift the same invariant to any number. For liveness a daemon has
a descriptor for each client or one for both, the two cases of `accept()`. Protocol: six calls are one
start-up, a failing `DMIDECODE` and the later calls it takes to reach the one-byte packet that
is too short to be accepted. If `dmidecode()` failed *and* left more memory devices than the
socket buffer holds (about ninety), both ends could block on full queues; the machines that may
fail have room for all. Benchmark: two compute threads are one run that shares its counter or
two runs one after the other; with `MaxNumber` 8 the threads reach 9, the first odd square,
which only the exact square root judges rightly; a limit of 3 lets the duration pass its limit.
Options: two types of different size and one of three cores put every value of the command
line and the settings inside and outside the range of some processor; 256 wraps. Bandwidth:
the types' caches differ in number and size, so a run meets a mix of both; two threads are one
that runs and one that waits for the mutex, and a third would only wait too; each kind of test is
there once. Dmi: the tables
have every way a field can have no value and every unit, four devices are one more than the
counter holds, three commands let one run before, beside and after another. Refresh: two cards
are what it takes for one to disturb the other; four changes are what it takes to exchange
their numbers; each probe fails in each way.

Deadlock is not checked where the system may stop: every program has ended, the program has
aborted, every command is answered, or a module's bound on calls is reached. `Refresh` and its
violation run check it.

Fairness: weak fairness of each daemon's main thread, each request thread and each client's
own steps, which a preemptive scheduler gives; `poll()` has a timeout in background; nothing
is assumed of users (who may never send another request), of signals and of crashes. A daemon
sets its clients no time limit, so one that stays and asks nothing keeps its descriptor: this is why
`AnswerOrError` allows a program to wait while the others hold every descriptor (`Crowded`). In
`Protocol`: each side goes on when the socket lets it. In `Benchmark`: each compute thread,
each timer thread and the interface's thread inside a function run on, and time passes; nothing
is assumed of keys. In `Bandwidth`: the threads run, the main thread goes on, and the page is
refreshed again and again, which the interface's timer does while it is shown; the mutex of a
waiting thread needs no fairness of its own because the property has finitely many threads
before it. In `Refresh`: the program's steps go on, the timer's refreshes among them; nothing
is assumed of hardware, user and daemon.

## Findings

Four runs are expected to fail; each shows one place where the code does not do what its
comment or text says, quoted in `PROJECT.json`: `benchmark_restart`, `protocol_desync`,
`dmi_stale`, `gpu_debugfs`.

Observations, met while modelling and not the subject of a run:

- `daemon_is_alive()` looks at the type of the path alone, so the file of a crashed daemon counts
  as a running one; a second daemon removes the file of the first, and each removes it again at
  its end, so a program may start a daemon and find no socket. The model has both.
- `start_daemon()` takes `WEXITSTATUS` of a daemon that a signal killed, which is 0; a child whose
  `execvp` failed goes on as a second CPU-X. The model has both.
- A signal between the test of `quit_loop` and `poll()` waits for the next connection, and one
  just before `quit_loop = ti.running_threads == 0` is lost; `SignalStops` excludes the two.
- Leaving during a benchmark destroys joinable threads and ends in `std::terminate()`.
- A daemon without a free descriptor does not wait: `poll()` reports the queued connection at once
  and `accept()` fails again, in a busy loop until a client leaves.
- A failed `connect()` leaves the number of the closed descriptor in `data.socket_fd`.
- In a build with GTK `load_settings()` comes after the command line (`main.cpp:511`), for every
  interface, and replaces the type and the core of `--type` and `--core`, whose help says they
  select what is monitored (`main.cpp:70-71`). `StartKeepsApplied` is about what was applied last.
- `--tab` is applied while every page is still hidden, so it always selects the CPU page
  (`main.cpp:304` before `507`), although its help says it sets the default tab (`main.cpp:69`).
- A bandwidth run asks once whether its test is supported ("Run test if supported",
  `main.c:1524`) and looks the test up again at every chunk: one that is shown as unavailable and
  selected meanwhile is executed, and where the processor lacks its instructions SIGILL ends the
  program. `SpeedsSettle` is about a program that lives.
- A type without caches ends the first `call_bandwidth()` before its selection is restored
  (`libbandwidth.cpp:109`), which is why `StartKeepsApplied` asks for caches.
- The first run of bandwidth for the first type makes the names again and measures nothing.
- Two `DMIDECODE` commands at once share `cpux_data`: one may get the other's sticks. The DMI
  properties but `SizesExact` leave such commands out.
- A temperature or voltage read from the MSRs stays as it was after the daemon is lost; the path
  of a sensor is that of the core selected first; the three `use_fallback` statics are one for
  all types; `std::stod()` throws on an empty sensor file.
- A card that is off during the first refresh never gets its paths; a first refresh in which
  every card fails, or a computer without cards, ends the monitoring for good; a driver other
  than unknown is not read again while the card stays on; after two cards exchanged their DRM
  numbers each shows the other's clocks from debugfs (the exception in `OwnValues`).
- OpenGL matches the vendor only, OpenCL's version may be another card's of the same vendor, and
  Intel's OpenCL devices are not compared with the PCI address; once a Vulkan device lacks the PCI
  extension, `use_device_id` stays set and the later ones are matched by device id too; a failed `fork()` leaves both ends
  of the pipe open.
- `stick_count` wraps at 256 devices; `msg.memory` and `argv` of `__call_dmidecode()` are never
  freed; `ti.threads` of the daemon only grows.

## Proofs

Every invariant and every action property that a passing run checks is a theorem too, for every
value of the constants that the modules' `ASSUME`s allow; TLC evaluates each of those in a run.

| Theorem | Module | Statement |
|---|---|---|
| `TypeCorrect` | `DaemonInductive` | `Spec => []TypeOK` |
| `Inductive` | `DaemonTheorems` | `Spec => []IInv` |
| `FdOwnershipHolds` | `DaemonTheorems` | `Spec => []FdOwnership` |
| `NoFdLeakHolds` | `DaemonTheorems` | `Spec => []NoFdLeak` |
| `ThreadCountHolds` | `DaemonTheorems` | `Spec => []ThreadCount` |
| `IdleExitHolds` | `DaemonTheorems` | `Spec => []IdleExit` |
| `LaunchThenConnectHolds` | `DaemonTheorems` | `Spec => []LaunchThenConnect` |
| `ImplementsService` | `DaemonTheorems` | `Spec => ServiceSpec`, the refinement without its fairness |
| `ProtocolTypeCorrect` | `ProtocolProofs` | `Spec => []TypeOK` |
| `ServerStaysInSync` | `ProtocolProofs` | `Spec => []ServerInSync` |
| `ReceivesItsAnswerHolds` | `ProtocolProofs` | `Spec => []ReceivesItsAnswerUnlessDmiFails` |
| `AnswersUntilDmidecode` | `ProtocolProofs` | `Spec => [](last < 4 => ReceivesItsAnswer)` |
| `BenchmarkTypeCorrect` | `BenchmarkProofs` | `Spec => []TypeOK` |
| `NoStrayWorkerHolds` | `BenchmarkProofs` | `Patient` gives `Spec => []NoStrayWorker` |
| `ScoreIsExact` | `BenchmarkProofs` | `Patient` gives `Spec => []ScoreExact` |
| `OnlyQuitTerminates` | `BenchmarkProofs` | `Patient` gives `Spec => []TerminatesOnlyAtQuit` |
| `OptionsTypeCorrect` | `OptionsProofs` | `Spec => []TypeOK` |
| `ShownPageVisibleHolds` | `OptionsProofs` | `Spec => []ShownPageVisible` |
| `AffinityFollowsHolds` | `OptionsProofs` | `Spec => []AffinityFollows` |
| `AbortsOnlyUnknownHolds` | `OptionsProofs` | `Spec => []AbortsOnlyUnknown` |
| `KeepsApplied` | `OptionsProofs` | `Spec => StartKeepsApplied` |
| `BandwidthTypeCorrect` | `BandwidthProofs` | `Spec => []TypeOK` |
| `RunsStayInRange` | `BandwidthProofs` | `Spec => []RunInRange` |
| `SizesAreStable` | `BandwidthProofs` | `Spec => SizesStable` |
| `DmiTypeCorrect` | `DmiProofs` | `Spec => []TypeOK` |
| `OneStickPerDeviceHolds` | `DmiProofs` | `Spec => []OneStickPerDevice` |
| `KnownIsOwnHolds` | `DmiProofs` | `Spec => []KnownIsOwn` |
| `SizesAreExact` | `DmiProofs` | `Spec => []SizesExact` |
| `RefreshTypeCorrect` | `RefreshProofs` | `Spec => []TypeOK` |
| `ProbesAreClean` | `RefreshProofs` | `Spec => []ProbesClean` |
| `ValuesAreOwn` | `RefreshProofs` | `Spec => []OwnValues` |
| `KeepsMonitoring` | `RefreshProofs` | `Spec => MonitoringKept` |

*Daemon.* For any set of daemons and descriptors and any finite set of clients below 2^16
(`WidthAssumption`: more would wrap the `uint16_t` counter with threads alive). None of the safety properties is inductive. That a thread's descriptor is its own
(`FdOwnership`) needs that no other live thread has the number, which needs that `accept()`
only hands out free ones and that a thread without a number has no open one (`FdInv`,
`InHandInv`), and that a connection still queued has neither (`QueueInv`). `ThreadCount`
needs to know who may hold the mutex (`MutexInv`) and to count the thread that is made and
not yet counted (`CountInv`): `cleanup_thread()` may not decrement before that, because main
keeps the mutex across the creation. `IdleExit` is the delicate one, since main reads the
counter without the mutex: `QuitInv` says that `quit_loop` without a signal is main's own
decision, still true when it acts on it, as only main makes threads. `LaunchThenConnect`
adds `PathInv`: a daemon that runs alone keeps its socket file until it cleans up.

`DaemonInductive` has a lemma per action. The steps that only move the main thread along
share `QuietMove` (inside the loop) and `StartupMove` (outside it), the ends of a process
share `DieMove`, the steps of a thread that keep its descriptor share `HandlerMove`, and a
program's own steps `ClientMove`; `InvFrame` gives the conjuncts whose variables a step
leaves alone. The rest go conjunct by conjunct. `CloseOwn`, close() of a live thread changes
its own connection's entry and no other, carries the descriptor argument; `FewHandlers` and
the library's cardinality theorems carry the counter's.

`ImplementsService` maps each step to one of the service or to a stutter. Most are stutters: threads,
descriptor numbers, the counter and the mutex do not show. `IInv` gives what the others need: that a
connection which gets its thread was pending at this daemon, that one which is over was served once,
and that a daemon which stops without a signal serves nobody.

*Protocol.* For any machine, any capacity of the socket and any number of calls and of memory
devices. The idea is to look at the packets on their way to the daemon and the ones the client's
call has yet to write as one sequence (`Out`), so that a `write()` changes nothing in it; `Ans` is the
same for the answers. `OutInv` says that every request in `Out` is whole, cut at its end only by a client
that is gone, and that the commands come in the order of the calls. `SyncInv` puts the daemon's next
`read()` at the right place in it. One packet is special: the `u16` of `LIBCPUID_MSR_DEBUG` is
read without a test of the result, so a failed `read()` would leave it for the loop; `DebugInv` shows that
no unread answer can make it fail, since that call comes before every call that may leave one. `AnswerInv`
counts the answers still to come against the reads still to do (`Answers`), the variable number of memory
sticks among them, while `dmidecode()` has not failed (`Clean`).

*Benchmark.* For any number of threads, limits and numbers. The types need nothing of the user; the
other three are proved for `Patient` users, which the code does not enforce and the run
`benchmark_restart` shows to be needed. `RunInv`: `TimerInv`, one timer lives at most and joins alone;
`VectorInv`, what it has joined of the vector is what it has passed; `WorkerInv`, each live thread is in
the vector, which is why `NoStrayWorker` holds when the timer ends; `TaskInv`, a thread's number is at
least 3 and its `sup` belongs to the run's mode. `ScoreExact` then needs that the division loop is a
prime test in both modes (`TestExact`): the loop ends at the least divisor or at its bound, and in fast mode
a divisor above the integer square root has a cofactor below it. Both least numbers exist by the library's
well-founded induction.

*Options.* For every environment, command line and settings. `KnownInv`: bound and vector of cores are
either both unknown or both the processor's. `PageInv`: two pages are never hidden, so the search for
a visible one ends there. `PinInv` with `Consistent`: from the first turn of the loop of `call_bandwidth()`
on, the type and the core are within the processor and the affinity is the number of CPUs before that
core, proved equal to the sum the code computes; it fits 16 bits because `OptionsAssumption` has no
computer with more than 65535 CPUs. `StartKeepsApplied` needs `AppliedInv`, what is left in each phase of the values applied last, which are the settings' in a
build with GTK; it says nothing of the command line there, and asks for caches on every type. It is about values that fit: larger ones wrap in the setter's 8 and 16 bits
(`main.cpp:310`, `314`), and 255 is the mark for no type.

*Bandwidth.* `BandwidthInv` has five parts. `Alone`: while the first call fills the sizes no thread
lives but the one it joins, which is `SizesStable` itself for the later steps. `Filled`: the first
level has a size before any thread can exist, so its first chunk is measured. `Small`: every size,
of whatever type, leaves `MaxLevel` larger entries in the table. `Running` with `Progress`: a
thread has measured a chunk in its level before it leaves it, and has used at most one entry per
level beyond the caches, so the entry `chunk` stays within the table. An illegal instruction ends all
threads at once (`DeathStep`). `Shared` adds the types of what the
threads share, for `TypeOK`.

*Dmi.* `OneStickPerDevice` and `KnownIsOwn` are about a command during which no other decodes and a table
of fewer than 2^`Width` devices; `KnownIsOwn` is about the fields that have a code in the device's own
structure, since a field without one shows what the buffer held (`dmi_stale`). The table never changes (`TableIsOne`), so `SizesExact` is arithmetic over every 16-bit and
31-bit code: `MemorySize` says that the digits in base 1024 that `dmi_print_memory_size_str()` drops
are 0 where the code has at most 30 bits, and each of `DeviceSize`, `RomSize`, `ExtendedSize` and
`RuntimeSize` brings one format to it or to a divisibility. `OneStickPerDevice` and `KnownIsOwn` share
`DmiInv`: `Positions`, how far each call has read; `Globals`, who owns `cpux_data`, which a call
that decodes alone does from its first structure to its last; `Contents`, the message of such a call
holds the sticks of the devices before its position (`Matches`), each with the codes of its own structure
whatever the static buffers held before. A stick added keeps `stick_count` from wrapping because the table has
fewer devices than the counter has values, the properties' own condition. That 2^`Width` is a number at all
follows from the cardinality of a power set.

*Refresh.* For every computer. `MonInv`: after the first refresh no failure is counted, a refresh that
is under way was allowed by `err_func()`, and a computer without cards is given up by its first refresh. Then the
return after `init_done` compares 0 failures with a positive number of cards. `ProbeInv` follows
`find_devices()`: the descriptors open are two for each failed `fork()` and those of the probe that is
under way (`Descriptors`); the pipe holds a beginning of the child's answer, and after a normal exit all of
it or nothing (`Child`); every card asked so far has a pair that the probe of its API can find (`Known`,
`Finds`), which is shown for the three search loops in `OpenGL`, `Vulkan` and `OpenCL`. `CardInv` with
`Wiring`: while no card has moved its number is its own and so is the directory kept for it, so a read
through any directory gives its own values; afterwards only the two labels read through
`/sys/kernel/debug/dri` may be another card's. `CpuInv` says the same of the paths of sensors: a path is kept for
a core of the type it was looked up for. `Order` keeps the parts apart: nothing is refreshed before
`find_devices()` has ended.

Only model-checked: the liveness properties and the service's fairness, because the prover has no rule for
fairness and no `ENABLED`.

## Not modelled

- The printing part of the vendored dmidecode (`dmi_decode()`, `dmioem.c`: most of its 9000
  lines) runs only for `--dmidecode`: it writes text structure by structure, with no state between
  them and no property a model would add to the text itself.
- The vendored bandwidth program outside `bandwidth_cpux()`, and `OOC/` (32000 lines of an
  object system, bitmap fonts and a BMP writer for its chart), which CPU-X's pages do not use. These two are
  more than half of the repository's C code, so the share of lines the map covers stays low
  whatever is modelled of CPU-X's own.
- The drivers' libraries (EGL, Vulkan, OpenCL), libcpuid, libpci, procfs and sysfs: their answers
  are choices of the environment.
- Widgets, drawing, colours, dumps, translations, labels, number formats, the logger,
  `cpu_usage()`, the system page and the chipset: straight copies of values into text.
- Bumblebee's `optirun`, `vcgencmd`, FreeBSD.

What could come next: an abstract call-and-answer service that `Protocol` implements, and as an invariant
that the two ends of a connection never both wait for the other; a protocol of several clients on one
daemon, in which `Protocol` and `Dmi` share a thread; the system page and `cpu_usage()`, should they get
state of their own.
