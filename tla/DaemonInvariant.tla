-------------------------- MODULE DaemonInvariant --------------------------
(***************************************************************************)
(* The inductive invariant of Daemon: what TypeOK and the safety           *)
(* properties lack to follow from themselves.  Every conjunct ties a       *)
(* connection to the one place that owns it.                               *)
(***************************************************************************)
EXTENDS DaemonRefinement

\* The labels at which a daemon can have data sockets and threads.
Working == Serving \cup Stopping

ProcessInv ==
    \A d \in Daemons :
        /\ main[d] \in Working \cup {"fork"} => listening[d]
        /\ main[d] \in {"off", "dead", "remove", "bind", "listen"} => ~listening[d]
        /\ ~listening[d] => backlog[d] = <<>>
        /\ main[d] \notin Working \cup {"dead"} => running_threads[d] = 0
        /\ main[d] \notin Working => (\A n \in Fds : fds[d][n] = None) /\ ~mutex[d]
        /\ main[d] = "accept" => backlog[d] # <<>>

\* A program that has not called connect() has no connection; a thread has one.
ClientInv ==
    \A c \in Clients :
        /\ client[c] \in {"new", "wait", "probe", "connect"} => peer[c] = None
        /\ handler[c] # "none" => peer[c] \in Daemons
        /\ handler[c] \in HandlerLive => main[peer[c]] \in Working
        /\ handler[c] \in HandlerLive /\ fd[c] # NoFd => fds[peer[c]][fd[c]] = c

\* A queued connection is queued once, has no descriptor yet and no thread.
QueueInv ==
    \A d \in Daemons : \A i \in 1..Len(backlog[d]) :
        LET c == backlog[d][i] IN
            /\ peer[c] = d
            /\ handler[c] = "none"
            /\ \A n \in Fds : fds[d][n] # c
            /\ \A j \in 1..Len(backlog[d]) : j # i => backlog[d][j] # c

\* An open descriptor is the accept's in progress or a live thread's.
FdInv ==
    \A d \in Daemons : \A n \in Fds :
        fds[d][n] # None =>
            /\ peer[fds[d][n]] = d
            /\ \/ /\ main[d] \in {"lock", "spawn"}
                  /\ data_socket[d] = n
                  /\ handler[fds[d][n]] = "none"
               \/ /\ handler[fds[d][n]] \in HandlerLive
                  /\ fd[fds[d][n]] = n

InHandInv ==
    \A d \in Daemons :
        main[d] \in {"lock", "spawn"} =>
            /\ data_socket[d] \in Fds
            /\ fds[d][data_socket[d]] # None
            /\ handler[fds[d][data_socket[d]]] = "none"

\* The mutex is held by the main thread between lock and unlock or by one thread.
MutexInv ==
    \A d \in Daemons :
        /\ main[d] \in {"spawn", "count"} => mutex[d]
        /\ \A c \in Handlers(d) : handler[c] = "cleanup" =>
             /\ mutex[d]
             /\ main[d] \notin {"spawn", "count"}
             /\ \A k \in Handlers(d) : handler[k] = "cleanup" => k = c
        /\ mutex[d] => \/ main[d] \in {"spawn", "count"}
                       \/ \E c \in Handlers(d) : handler[c] = "cleanup"

\* The counter, with the thread that is made and not yet counted.
CountInv ==
    \A d \in Daemons :
        main[d] \in Alive =>
            running_threads[d] + (IF main[d] = "count" THEN 1 ELSE 0)
                = Cardinality(Handlers(d))

\* quit_loop without a signal is the main thread's own decision, taken with no thread.
QuitInv ==
    \A d \in Daemons :
        quit_loop[d] /\ ~killed[d] /\ main[d] \in Alive =>
            main[d] \in {"loop"} \cup Stopping /\ Handlers(d) = {}

\* Who stops in an orderly way has quit_loop; a normal exit status has two sources.
StopInv ==
    \A d \in Daemons :
        /\ main[d] \in Stopping => quit_loop[d]
        /\ main[d] \in Startup \cup Failing \cup {"off"} => exit_status[d] = "none"
        /\ main[d] = "dead" => exit_status[d] # "none"
        /\ main[d] = "off" => ~killed[d] /\ ~quit_loop[d]

IInv ==
    /\ TypeOK
    /\ ProcessInv
    /\ ClientInv
    /\ QueueInv
    /\ FdInv
    /\ InHandInv
    /\ MutexInv
    /\ CountInv
    /\ QuitInv
    /\ StopInv
=============================================================================
