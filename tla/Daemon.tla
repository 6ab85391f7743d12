------------------------------- MODULE Daemon -------------------------------
(***************************************************************************)
(* The life of cpu-x-daemon (src/daemon/server.cpp) together with the part *)
(* of every CPU-X process that starts it, looks for it and talks to it     *)
(* (src/daemon/client.cpp, src/main.cpp, the daemon button of              *)
(* src/ui/gtk.cpp).                                                        *)
(*                                                                         *)
(* A daemon has a main thread (the poll/accept loop), one detached         *)
(* request_handler thread per accepted connection, a counter of those      *)
(* threads behind a mutex, a file descriptor table and a listening socket  *)
(* with its backlog.  Daemons share one path in the file system.  A client *)
(* is one incarnation of the CPU-X program: the execvp that follows a      *)
(* click on the daemon button ends one incarnation, and another begins.    *)
(* A request is one command and its answer; module Protocol models the     *)
(* packets inside it.                                                      *)
(***************************************************************************)
EXTENDS Integers, Sequences, FiniteSets

CONSTANTS Daemons,  \* processes that run cpu-x-daemon, over the whole behaviour
          Clients,  \* incarnations of cpu-x; also name their connection and its thread
          Fds,      \* the descriptors a daemon can hand out for data sockets
          None

ASSUME ConstantsAssumption ==
    /\ None \notin Daemons \cup Clients
    /\ Daemons \cap Clients = {}
    /\ IsFiniteSet(Clients)

\* running_threads is a uint16_t (server.hpp): there are never 2^16 threads.
ASSUME WidthAssumption == Cardinality(Clients) < 65536

ASSUME FdsAssumption == Fds \subseteq Nat

NoFd == -1

VARIABLES
    path,            \* the daemon whose bind() made the socket file, None if there is no file
    main,            \* where each daemon's main thread is
    background,      \* CPUX_DAEMON_BG
    limit,           \* the largest of Fds the process may open: its inherited RLIMIT_NOFILE
    exit_status,     \* what waitpid() tells whoever launched the daemon
    quit_loop,
    killed,          \* a SIGINT, SIGTERM or fatal signal was delivered (history)
    listening,       \* the listening socket accepts connect()
    backlog,         \* connections made and not yet accepted, oldest first
    data_socket,
    mutex,           \* ti.mutex is held
    running_threads, \* ti.running_threads
    fds,             \* each daemon's descriptor table: the connection behind a descriptor
    handler,         \* where each request_handler thread is
    fd,              \* its local variable fd
    client,          \* where each client is
    launched,        \* the process start_daemon() of the client waits for
    socket_fd,       \* data.socket_fd of the client
    peer,            \* the daemon whose socket connect() reached
    request          \* what is in flight on the client's connection

daemonVars  == <<main, background, limit, exit_status, quit_loop, killed>>
socketVars  == <<path, listening, backlog, data_socket, fds>>
threadVars  == <<mutex, running_threads, handler, fd>>
clientVars  == <<client, launched, socket_fd, peer, request>>
vars == <<daemonVars, socketVars, threadVars, clientVars>>

-----------------------------------------------------------------------------
(* The labels of the three kinds of thread.                                *)

Startup  == {"remove", "bind", "listen", "fork"}
Serving  == {"loop", "poll", "blocked", "timeout", "accept", "lock", "spawn", "count"}
Stopping == {"clean", "close"}
Failing  == {"errclean", "errclose"}
Alive    == Startup \cup Serving \cup Stopping \cup Failing

HandlerLive   == {"read", "serve", "lock", "cleanup"}

\* fill: fill_labels() at startup.  run: the user interface of a client that had
\* DAEMON_UP when it opened.  offer: the one that shows the "Start daemon" button.
ClientRunning == {"fill", "run", "offer"}

\* uint16_t
Uint16 == {n \in Nat : n < 65536}

\* A daemon's descriptor table: the connection behind each number, None if it is free.
FdTable == [Fds -> Clients \cup {None}]

MainLabels    == Alive \cup {"off", "dead"}
HandlerLabels == HandlerLive \cup {"none", "done", "dead"}
ClientLabels  == ClientRunning \cup {"new", "wait", "waitgui", "probe", "connect", "exited"}

DaemonTypes ==
    /\ main \in [Daemons -> MainLabels]
    /\ background \in [Daemons -> BOOLEAN]
    /\ limit \in [Daemons -> Fds]
    /\ exit_status \in [Daemons -> {"none", "ok", "failed", "signalled"}]
    /\ quit_loop \in [Daemons -> BOOLEAN]
    /\ killed \in [Daemons -> BOOLEAN]

SocketTypes ==
    /\ path \in Daemons \cup {None}
    /\ listening \in [Daemons -> BOOLEAN]
    /\ backlog \in [Daemons -> Seq(Clients)]
    /\ data_socket \in [Daemons -> Fds \cup {NoFd}]
    /\ fds \in [Daemons -> FdTable]

ThreadTypes ==
    /\ mutex \in [Daemons -> BOOLEAN]
    /\ running_threads \in [Daemons -> Uint16]
    /\ handler \in [Clients -> HandlerLabels]
    /\ fd \in [Clients -> Fds \cup {NoFd}]

ClientTypes ==
    /\ client \in [Clients -> ClientLabels]
    /\ launched \in [Clients -> Daemons \cup Clients \cup {None}]
    /\ socket_fd \in [Clients -> {"down", "up", "dangling"}]
    /\ peer \in [Clients -> Daemons \cup {None}]
    /\ request \in [Clients -> {"none", "sent", "taken", "replied"}]

TypeOK == DaemonTypes /\ SocketTypes /\ ThreadTypes /\ ClientTypes

Init ==
    /\ path = None
    /\ main = [d \in Daemons |-> "off"]
    /\ background \in [Daemons -> BOOLEAN]
    /\ limit \in [Daemons -> Fds]
    /\ exit_status = [d \in Daemons |-> "none"]
    /\ quit_loop = [d \in Daemons |-> FALSE]
    /\ killed = [d \in Daemons |-> FALSE]
    /\ listening = [d \in Daemons |-> FALSE]
    /\ backlog = [d \in Daemons |-> <<>>]
    /\ data_socket = [d \in Daemons |-> NoFd]
    /\ mutex = [d \in Daemons |-> FALSE]
    /\ running_threads = [d \in Daemons |-> 0]
    /\ fds = [d \in Daemons |-> [n \in Fds |-> None]]
    /\ handler = [c \in Clients |-> "none"]
    /\ fd = [c \in Clients |-> NoFd]
    /\ client = [c \in Clients |-> "new"]
    /\ launched = [c \in Clients |-> None]
    /\ socket_fd = [c \in Clients |-> "down"]
    /\ peer = [c \in Clients |-> None]
    /\ request = [c \in Clients |-> "none"]

-----------------------------------------------------------------------------
(* Derived state.                                                          *)

\* The thread's connection, as the kernel resolves its descriptor number now.
AtFd(c) == IF fd[c] = NoFd THEN None ELSE fds[peer[c]][fd[c]]

\* The daemon's end of c's connection is still open (waiting for accept, or accepted).
ServerEnd(c) ==
    /\ peer[c] # None
    /\ \/ \E i \in DOMAIN backlog[peer[c]] : backlog[peer[c]][i] = c
       \/ \E n \in Fds : fds[peer[c]][n] = c

Handlers(d) == {c \in Clients : peer[c] = d /\ handler[c] \in HandlerLive}

\* The connection accepted and not yet given to a thread.
InHand(d) == IF main[d] \in {"lock", "spawn"} THEN {fds[d][data_socket[d]]} ELSE {}

\* WEXITSTATUS() of a wait status: 0 for a normal exit, and also for a process that a
\* signal killed, since the status then holds the signal number in its low byte.
NormalStatus(wstatus) == wstatus \in {"ok", "signalled"}

\* What waitpid() gives for the process p: a daemon, or a failed execvp()'s child.
\* execvp() never returns to a program that stops there: the child is another cpu-x.
WaitStatus(p) ==
    IF p \in Daemons THEN exit_status[p]
    ELSE IF client[p] = "exited" THEN "ok" ELSE "none"

-----------------------------------------------------------------------------
(* The daemon's main thread.                                               *)

Goto(d, label) == main' = [main EXCEPT ![d] = label]

\* ti.mutex.unlock(); UnlockNot: forgotten.
UnlockNot(d) == UNCHANGED mutex

Unlock(d) == mutex' = [mutex EXCEPT ![d] = FALSE]

\* ti.running_threads++ and --, on a uint16_t; DecrementNot: forgotten.
Increment(n) == (n + 1) % 65536

DecrementNot(n) == n

Decrement(n) == (n + 65535) % 65536

\* fs::remove(argv[1]): whoever made the socket file.
Remove(d) ==
    /\ main[d] = "remove"
    /\ path' = None
    /\ Goto(d, "bind")
    /\ UNCHANGED <<background, limit, exit_status, quit_loop, killed, listening, backlog,
                   data_socket, fds, threadVars, clientVars>>

\* As Bind would be if the parent returned 0 before the socket listens.
BindThenReport(d) ==
    /\ main[d] = "bind"
    /\ path = None
    /\ path' = d
    /\ Goto(d, "listen")
    /\ exit_status' = [exit_status EXCEPT ![d] = "ok"]
    /\ UNCHANGED <<background, limit, quit_loop, killed, listening, backlog, data_socket, fds,
                   threadVars, clientVars>>

\* bind() makes the file, or fails with EADDRINUSE when another daemon did since.
Bind(d) ==
    /\ main[d] = "bind"
    /\ IF path = None
       THEN path' = d /\ Goto(d, "listen")
       ELSE Goto(d, "errclean") /\ UNCHANGED path
    /\ UNCHANGED <<background, limit, exit_status, quit_loop, killed, listening, backlog,
                   data_socket, fds, threadVars, clientVars>>

Listen(d) ==
    /\ main[d] = "listen"
    /\ listening' = [listening EXCEPT ![d] = TRUE]
    /\ Goto(d, "fork")
    /\ UNCHANGED <<background, limit, exit_status, quit_loop, killed, path, backlog,
                   data_socket, fds, threadVars, clientVars>>

\* In background the parent returns 0 here; in foreground the same process goes on.
Fork(d) ==
    /\ main[d] = "fork"
    /\ Goto(d, "loop")
    /\ exit_status' = IF background[d] THEN [exit_status EXCEPT ![d] = "ok"] ELSE exit_status
    /\ UNCHANGED <<background, limit, quit_loop, killed, socketVars, threadVars, clientVars>>

\* GOTO_ERROR after a failed socket(), bind(), listen() or fork().
StartupError(d) ==
    /\ main[d] \in {"bind", "listen", "fork"}
    /\ Goto(d, "errclean")
    /\ UNCHANGED <<background, limit, exit_status, quit_loop, killed, socketVars, threadVars,
                   clientVars>>

\* As Loop would be with while(true).
LoopForever(d) ==
    /\ main[d] = "loop"
    /\ Goto(d, "poll")
    /\ UNCHANGED <<background, limit, exit_status, quit_loop, killed, socketVars, threadVars,
                   clientVars>>

\* while(!quit_loop)
Loop(d) ==
    /\ main[d] = "loop"
    /\ Goto(d, IF quit_loop[d] THEN "clean" ELSE "poll")
    /\ UNCHANGED <<background, limit, exit_status, quit_loop, killed, socketVars, threadVars,
                   clientVars>>

PollEnter(d) ==
    /\ main[d] = "poll"
    /\ Goto(d, "blocked")
    /\ UNCHANGED <<background, limit, exit_status, quit_loop, killed, socketVars, threadVars,
                   clientVars>>

PollReady(d) ==
    /\ main[d] = "blocked"
    /\ backlog[d] # <<>>
    /\ Goto(d, "accept")
    /\ UNCHANGED <<background, limit, exit_status, quit_loop, killed, socketVars, threadVars,
                   clientVars>>

\* POLL_TIMEOUT in background, no timeout in foreground.
PollTimeout(d) ==
    /\ main[d] = "blocked"
    /\ background[d]
    /\ backlog[d] = <<>>
    /\ Goto(d, "timeout")
    /\ UNCHANGED <<background, limit, exit_status, quit_loop, killed, socketVars, threadVars,
                   clientVars>>

\* As TimeoutCheck would be if a daemon with one client counted as idle.
TimeoutCheckOffByOne(d) ==
    /\ main[d] = "timeout"
    /\ quit_loop' = [quit_loop EXCEPT ![d] = (running_threads[d] <= 1)]
    /\ Goto(d, "loop")
    /\ UNCHANGED <<background, limit, exit_status, killed, socketVars, threadVars, clientVars>>

\* quit_loop = ti.running_threads == 0, without the mutex; it overwrites quit_loop.
TimeoutCheck(d) ==
    /\ main[d] = "timeout"
    /\ quit_loop' = [quit_loop EXCEPT ![d] = (running_threads[d] = 0)]
    /\ Goto(d, "loop")
    /\ UNCHANGED <<background, limit, exit_status, killed, socketVars, threadVars, clientVars>>

\* EMFILE: no number up to the limit is free.
TableFull(d) == \A n \in Fds : n <= limit[d] => fds[d][n] # None

\* accept() takes the oldest connection, whether or not its client is still there.
Accept(d) ==
    /\ main[d] = "accept"
    /\ backlog[d] # <<>>
    /\ \E n \in Fds :
         /\ n <= limit[d] /\ fds[d][n] = None
         /\ \A m \in Fds : fds[d][m] = None => n <= m
         /\ data_socket' = [data_socket EXCEPT ![d] = n]
         /\ fds' = [fds EXCEPT ![d][n] = Head(backlog[d])]
    /\ backlog' = [backlog EXCEPT ![d] = Tail(@)]
    /\ Goto(d, "lock")
    /\ UNCHANGED <<background, limit, exit_status, quit_loop, killed, path, listening,
                   threadVars, clientVars>>

\* As AcceptFails would be if accept() gave -errno (EMFILE) as the raw system call does.
AcceptFailsErrno(d) ==
    /\ main[d] = "accept"
    /\ TableFull(d)
    /\ Goto(d, "loop")
    /\ data_socket' = [data_socket EXCEPT ![d] = -24]
    /\ UNCHANGED <<background, limit, exit_status, quit_loop, killed, path, listening, backlog,
                   fds, threadVars, clientVars>>

\* accept() < 0 with no descriptor left: logged, and the connection stays queued.
AcceptFails(d) ==
    /\ main[d] = "accept"
    /\ TableFull(d)
    /\ Goto(d, "loop")
    /\ data_socket' = [data_socket EXCEPT ![d] = NoFd]
    /\ UNCHANGED <<background, limit, exit_status, quit_loop, killed, path, listening, backlog,
                   fds, threadVars, clientVars>>

\* As LockThreads would be if main() counted its threads without the mutex.
LockThreadsNot(d) ==
    /\ main[d] = "lock"
    /\ Goto(d, "spawn")
    /\ UNCHANGED <<background, limit, exit_status, quit_loop, killed, socketVars, threadVars,
                   clientVars>>

\* ti.mutex.lock()
LockThreads(d) ==
    /\ main[d] = "lock"
    /\ ~mutex[d]
    /\ mutex' = [mutex EXCEPT ![d] = TRUE]
    /\ Goto(d, "spawn")
    /\ UNCHANGED <<background, limit, exit_status, quit_loop, killed, socketVars,
                   running_threads, handler, fd, clientVars>>

\* std::thread thread(request_handler, data_socket): the thread runs from here on.
Spawn(d) ==
    /\ main[d] = "spawn"
    /\ LET c == fds[d][data_socket[d]] IN
         /\ handler' = [handler EXCEPT ![c] = "read"]
         /\ fd' = [fd EXCEPT ![c] = data_socket[d]]
    /\ Goto(d, "count")
    /\ UNCHANGED <<background, limit, exit_status, quit_loop, killed, socketVars, mutex,
                   running_threads, clientVars>>

\* detach(), running_threads++, push_back(), unlock().
Count(d) ==
    /\ main[d] = "count"
    /\ running_threads' = [running_threads EXCEPT ![d] = Increment(@)]
    /\ Unlock(d)
    /\ Goto(d, "loop")
    /\ UNCHANGED <<background, limit, exit_status, quit_loop, killed, socketVars, handler, fd,
                   clientVars>>

\* fs::remove(argv[1]) at the end, after an error too: whoever made the socket file.
Clean(d) ==
    /\ main[d] \in {"clean", "errclean"}
    /\ path' = None
    /\ Goto(d, IF main[d] = "clean" THEN "close" ELSE "errclose")
    /\ UNCHANGED <<background, limit, exit_status, quit_loop, killed, listening, backlog,
                   data_socket, fds, threadVars, clientVars>>

\* The kernel ends the process: its threads, its descriptors and its queue go with it.
Die(d) ==
    /\ Goto(d, "dead")
    /\ listening' = [listening EXCEPT ![d] = FALSE]
    /\ backlog' = [backlog EXCEPT ![d] = <<>>]
    /\ fds' = [fds EXCEPT ![d] = [n \in Fds |-> None]]
    /\ data_socket' = [data_socket EXCEPT ![d] = NoFd]
    /\ mutex' = [mutex EXCEPT ![d] = FALSE]
    /\ handler' = [c \in Clients |-> IF c \in Handlers(d) THEN "dead" ELSE handler[c]]

\* close(listen_socket), return err.
Close(d) ==
    /\ main[d] \in {"close", "errclose"}
    /\ Die(d)
    /\ exit_status' = IF exit_status[d] # "none" THEN exit_status
                      ELSE [exit_status EXCEPT ![d] =
                              IF main[d] = "close" THEN "ok" ELSE "failed"]
    /\ UNCHANGED <<background, limit, quit_loop, killed, path, running_threads, fd, clientVars>>

\* sighandler(): quit_loop = true; a poll() in progress returns EINTR.
Signal(d) ==
    /\ main[d] \in Alive \ {"remove"}
    /\ ~killed[d]
    /\ killed' = [killed EXCEPT ![d] = TRUE]
    /\ quit_loop' = [quit_loop EXCEPT ![d] = TRUE]
    /\ IF main[d] = "blocked" THEN Goto(d, "loop") ELSE UNCHANGED main
    /\ UNCHANGED <<background, limit, exit_status, socketVars, threadVars, clientVars>>

\* A fatal signal: nothing is cleaned, the socket file stays.
Crash(d) ==
    /\ main[d] \in Alive
    /\ killed' = [killed EXCEPT ![d] = TRUE]
    /\ Die(d)
    /\ exit_status' = IF exit_status[d] # "none" THEN exit_status
                      ELSE [exit_status EXCEPT ![d] = "signalled"]
    /\ UNCHANGED <<background, limit, quit_loop, path, running_threads, fd, clientVars>>

-----------------------------------------------------------------------------
(* The request_handler threads.                                            *)

HandlerGoto(c, label) == handler' = [handler EXCEPT ![c] = label]

\* As CloseFd would be without the close().
CloseFdNot(c) == UNCHANGED fds

\* close(fd[c]): whatever connection has that number in the process now.
CloseFd(c) ==
    IF fd[c] = NoFd THEN UNCHANGED fds
    ELSE fds' = [fds EXCEPT ![peer[c]][fd[c]] = None]

\* As CloseAndForget would be without "*pfd = -1".
CloseAndKeep(c) == CloseFd(c) /\ UNCHANGED fd

\* What SEND_DATA and RECEIVE_DATA do to fd when they fail.
CloseAndForget(c) == CloseFd(c) /\ fd' = [fd EXCEPT ![c] = NoFd]

\* read() of a command: one arrives, or the client closed, or the descriptor is bad.
HandlerRead(c) ==
    /\ handler[c] = "read"
    /\ LET k == AtFd(c) IN
         \/ /\ k # None
            /\ request[k] = "sent"
            /\ request' = [request EXCEPT ![k] = "taken"]
            /\ HandlerGoto(c, "serve")
         \/ /\ k # None => request[k] # "sent" /\ socket_fd[k] # "up"
            /\ HandlerGoto(c, "lock")
            /\ UNCHANGED request
    /\ UNCHANGED <<daemonVars, socketVars, mutex, running_threads, fd, client, launched,
                   socket_fd, peer>>

\* The command's function answers, or SEND_DATA fails and closes the descriptor.
HandlerReply(c) ==
    /\ handler[c] = "serve"
    /\ HandlerGoto(c, "read")
    /\ LET k == AtFd(c)
           answered == IF k = None THEN FALSE ELSE socket_fd[k] = "up"
       IN  IF answered
           THEN /\ request' = [request EXCEPT ![k] = "replied"]
                /\ UNCHANGED <<fds, fd>>
           ELSE /\ CloseAndForget(c)
                /\ UNCHANGED request
    /\ UNCHANGED <<daemonVars, path, listening, backlog, data_socket, mutex,
                   running_threads, client, launched, socket_fd, peer>>

\* cleanup_thread(): ti.mutex.lock()
CleanupLock(c) ==
    /\ handler[c] = "lock"
    /\ ~mutex[peer[c]]
    /\ mutex' = [mutex EXCEPT ![peer[c]] = TRUE]
    /\ HandlerGoto(c, "cleanup")
    /\ UNCHANGED <<daemonVars, socketVars, running_threads, fd, clientVars>>

\* close(fd), ti.running_threads--, ti.mutex.unlock()
Cleanup(c) ==
    /\ handler[c] = "cleanup"
    /\ CloseFd(c)
    /\ running_threads' = [running_threads EXCEPT ![peer[c]] = Decrement(@)]
    /\ Unlock(peer[c])
    /\ HandlerGoto(c, "done")
    /\ UNCHANGED <<daemonVars, path, listening, backlog, data_socket, fd, clientVars>>

-----------------------------------------------------------------------------
(* The clients.                                                            *)

ClientGoto(c, label) == client' = [client EXCEPT ![c] = label]

\* main(): neither root nor --daemon, or start_daemon() that pkexec or fork() refused:
\* either way the program goes on with daemon_is_alive().
SkipLaunch(c) ==
    /\ client[c] = "new"
    /\ ClientGoto(c, "probe")
    /\ UNCHANGED <<daemonVars, socketVars, threadVars, launched, socket_fd, peer, request>>

\* The two callers of start_daemon(): main(), whether or not a daemon runs already, and
\* the "Start daemon" button.
MayLaunch(c) == client[c] \in {"new", "offer"}

WaitLabel(c) == IF client[c] = "new" THEN "wait" ELSE "waitgui"

StartDaemon(c, d) ==
    /\ MayLaunch(c)
    /\ main[d] = "off"
    /\ Goto(d, "remove")
    /\ ClientGoto(c, WaitLabel(c))
    /\ launched' = [launched EXCEPT ![c] = d]
    /\ UNCHANGED <<background, limit, exit_status, quit_loop, killed, socketVars, threadVars,
                   socket_fd, peer, request>>

\* execvp() fails in the child, which has no exit there: it returns from start_daemon()
\* and carries on as one more cpu-x, k, while its parent waits for it.
LaunchExecFails(c, k) ==
    /\ MayLaunch(c)
    /\ k # c
    /\ client[k] = "new"
    /\ client' = [client EXCEPT ![c] = WaitLabel(c),
                                ![k] = IF client[c] = "new" THEN "probe" ELSE "offer"]
    /\ launched' = [launched EXCEPT ![c] = k]
    /\ UNCHANGED <<daemonVars, socketVars, threadVars, socket_fd, peer, request>>

\* waitpid() returns.  main() ignores start_daemon()'s result; the button reloads the
\* program on a normal status, and shows a dialog on any other.
LaunchReturns(c) ==
    /\ client[c] \in {"wait", "waitgui"}
    /\ LET wstatus == WaitStatus(launched[c]) IN
         /\ wstatus # "none"
         /\ ClientGoto(c, IF client[c] = "wait" THEN "probe"
                          ELSE IF NormalStatus(wstatus) THEN "exited" ELSE "offer")
    /\ UNCHANGED <<daemonVars, socketVars, threadVars, launched, socket_fd, peer, request>>

\* daemon_is_alive(): the path is a socket that everyone may use (umask(0)).
Probe(c) ==
    /\ client[c] = "probe"
    /\ ClientGoto(c, IF path # None THEN "connect" ELSE "fill")
    /\ UNCHANGED <<daemonVars, socketVars, threadVars, launched, socket_fd, peer, request>>

\* connect_to_daemon(): on an error the descriptor is closed, its number is kept.
Connect(c) ==
    /\ client[c] = "connect"
    /\ ClientGoto(c, "fill")
    /\ IF (IF path = None THEN FALSE ELSE listening[path])
       THEN /\ peer' = [peer EXCEPT ![c] = path]
            /\ socket_fd' = [socket_fd EXCEPT ![c] = "up"]
            /\ backlog' = [backlog EXCEPT ![path] = Append(@, c)]
       ELSE /\ socket_fd' = [socket_fd EXCEPT ![c] = "dangling"]
            /\ UNCHANGED <<peer, backlog>>
    /\ UNCHANGED <<daemonVars, path, listening, data_socket, fds, threadVars, launched,
                   request>>

\* A command sent by fill_labels() or do_refresh(), guarded by DAEMON_UP.  SEND_DATA
\* fails when the daemon's end is closed, and on a descriptor that is not open.
SendRequest(c) ==
    /\ client[c] \in {"fill", "run"}
    /\ socket_fd[c] # "down"
    /\ request[c] = "none"
    /\ IF socket_fd[c] = "up" /\ ServerEnd(c)
       THEN request' = [request EXCEPT ![c] = "sent"] /\ UNCHANGED socket_fd
       ELSE socket_fd' = [socket_fd EXCEPT ![c] = "down"] /\ UNCHANGED request
    /\ UNCHANGED <<daemonVars, socketVars, threadVars, client, launched, peer>>

\* RECEIVE_DATA: the answer, or an error once the daemon's end is closed.
ReceiveReply(c) ==
    /\ client[c] \in {"fill", "run"}
    /\ \/ /\ request[c] = "replied"
          /\ UNCHANGED socket_fd
       \/ /\ request[c] \in {"sent", "taken"}
          /\ ~ServerEnd(c)
          /\ socket_fd' = [socket_fd EXCEPT ![c] = "down"]
    /\ request' = [request EXCEPT ![c] = "none"]
    /\ UNCHANGED <<daemonVars, socketVars, threadVars, client, launched, peer>>

\* fill_labels() is over and the user interface opens.
OpenUi(c) ==
    /\ client[c] = "fill"
    /\ request[c] = "none"
    /\ ClientGoto(c, IF socket_fd[c] = "down" THEN "offer" ELSE "run")
    /\ UNCHANGED <<daemonVars, socketVars, threadVars, launched, socket_fd, peer, request>>

\* The program ends, at any point of its work; the kernel closes its descriptor.
ClientExit(c) ==
    /\ client[c] \in ClientRunning
    /\ ClientGoto(c, "exited")
    /\ socket_fd' = [socket_fd EXCEPT ![c] = "down"]
    /\ UNCHANGED <<daemonVars, socketVars, threadVars, launched, peer, request>>

-----------------------------------------------------------------------------
DaemonStep(d) ==
    \/ Remove(d) \/ Bind(d) \/ Listen(d) \/ Fork(d) \/ Loop(d) \/ PollEnter(d)
    \/ PollReady(d) \/ PollTimeout(d) \/ TimeoutCheck(d) \/ Accept(d) \/ AcceptFails(d)
    \/ LockThreads(d) \/ Spawn(d) \/ Count(d) \/ Clean(d) \/ Close(d)

HandlerStep(c) == HandlerRead(c) \/ HandlerReply(c) \/ CleanupLock(c) \/ Cleanup(c)

Fault(d) == StartupError(d) \/ Signal(d) \/ Crash(d)

\* What a client does without its user: fill_labels() runs to its end.
ClientStep(c) == LaunchReturns(c) \/ Probe(c) \/ Connect(c) \/ ReceiveReply(c) \/ OpenUi(c)

UserStep(c) ==
    \/ SkipLaunch(c) \/ SendRequest(c) \/ ClientExit(c)
    \/ \E d \in Daemons : StartDaemon(c, d)
    \/ \E k \in Clients : LaunchExecFails(c, k)

Next ==
    \/ \E d \in Daemons : DaemonStep(d) \/ Fault(d)
    \/ \E c \in Clients : HandlerStep(c) \/ ClientStep(c) \/ UserStep(c)

Spec == Init /\ [][Next]_vars

\* The scheduler runs every thread that can run, poll() times out, and a program that
\* waits in waitpid(), read() or start-up code goes on when it can.  Nothing is assumed
\* of users and of faults.
Fairness ==
    /\ \A d \in Daemons : WF_vars(DaemonStep(d))
    /\ \A c \in Clients : WF_vars(HandlerStep(c)) /\ WF_vars(ClientStep(c))

FairSpec == Spec /\ Fairness

-----------------------------------------------------------------------------
(* Safety.                                                                 *)

\* A request_handler thread's descriptor, while it has one, is its own client's
\* connection: close() by SEND_DATA or RECEIVE_DATA and then by cleanup_thread() never
\* closes, and read() and write() never reach, a connection accepted meanwhile under the
\* same number.
FdOwnership ==
    \A c \in Clients :
        handler[c] \in HandlerLive /\ fd[c] # NoFd => fds[peer[c]][fd[c]] = c

\* Every open data socket belongs to the accept in progress or to a live thread that
\* will close it: no exit of request_handler leaks a descriptor.
NoFdLeak ==
    \A d \in Daemons, n \in Fds :
        LET c == fds[d][n] IN
            c # None => \/ c \in InHand(d)
                        \/ c \in Handlers(d) /\ fd[c] = n

\* Whenever the mutex is free, running_threads is the number of live threads, although
\* a thread may finish before the main thread has counted it.
ThreadCount ==
    \A d \in Daemons :
        main[d] \in Alive /\ ~mutex[d] => running_threads[d] = Cardinality(Handlers(d))

\* A daemon that nobody killed stops only when no thread serves a client, although the
\* main thread reads the counter without the mutex.
IdleExit ==
    \A d \in Daemons :
        main[d] \in Stopping /\ ~killed[d] => Handlers(d) = {}

\* A cpu-x that launched a daemon in background and was told 0 can connect to it as
\* long as it runs, if no other daemon was ever started: the parent returns only once
\* the socket listens at its path.
LaunchThenConnect ==
    \A c \in Clients, d \in Daemons :
        /\ client[c] \in {"probe", "connect"}
        /\ launched[c] = d
        /\ exit_status[d] = "ok"
        /\ main[d] \in Alive \ Stopping
        /\ \A e \in Daemons \ {d} : main[e] = "off"
        => path = d /\ listening[d]

-----------------------------------------------------------------------------
(* Liveness.                                                               *)

\* A background daemon ends once every program that could use it has.
IdleDaemonExits ==
    \A d \in Daemons :
        (background[d] /\ \A c \in Clients : client[c] = "exited")
            ~> main[d] \in {"off", "dead"}

Waits(c) == request[c] \in {"sent", "taken"} /\ client[c] # "exited"

\* c is in the queue of a daemon whose last descriptor is held, each one by a program
\* that still runs and has its connection open.
Crowded(c) ==
    /\ peer[c] # None
    /\ \E i \in DOMAIN backlog[peer[c]] : backlog[peer[c]][i] = c
    /\ TableFull(peer[c])
    /\ \A n \in Fds : LET k == fds[peer[c]][n] IN
         k # None => socket_fd[k] = "up" /\ client[k] # "exited"

\* A program that waits for an answer gets it or an error, whatever happens to the
\* daemon, with one exception that the code has (no limit of time, neither on an idle
\* connection nor on a read()): a daemon whose descriptors are all held from some time
\* on by programs that stay never accepts the connections behind them.  When one of
\* those programs leaves, its descriptor comes back and the queue goes on.
AnswerOrError ==
    \A c \in Clients : Waits(c) ~> (~Waits(c) \/ []Crowded(c))

\* A termination signal stops the daemon unless it comes while the main thread is
\* between the test of quit_loop and the end of poll().
SignalStops ==
    \A d \in Daemons :
        (quit_loop[d] /\ main[d] \in Alive \ {"poll", "blocked", "timeout"})
            ~> main[d] = "dead"

=============================================================================
