--------------------------- MODULE DaemonTheorems ---------------------------
(***************************************************************************)
(* What the inductive invariant gives: the safety properties of Daemon as  *)
(* theorems of its specification.                                          *)
(***************************************************************************)
EXTENDS DaemonInductive

LEMMA IInvInit == Init => IInv
<1> SUFFICES ASSUME Init PROVE IInv
  OBVIOUS
<1>1. TypeOK BY TypeInit
<1>2. \A d \in Daemons : Handlers(d) = {} BY DEF Init, Handlers, HandlerLive
<1>3. \A d \in Daemons : main[d] = "off" /\ backlog[d] = <<>> /\ ~mutex[d] /\ ~listening[d]
        /\ running_threads[d] = 0 /\ ~quit_loop[d] /\ ~killed[d] /\ exit_status[d] = "none"
        /\ \A n \in Fds : fds[d][n] = None
  BY DEF Init
<1>4. ProcessInv BY <1>3 DEF ProcessInv, Working, Serving, Stopping
<1>5. ClientInv BY DEF Init, ClientInv, HandlerLive
<1>6. QueueInv
  <2>1. \A d \in Daemons : 1..Len(backlog[d]) = {} BY <1>3
  <2>2. QED BY <2>1 DEF QueueInv
<1>7. FdInv /\ InHandInv BY <1>3 DEF FdInv, InHandInv
<1>8. MutexInv BY <1>2, <1>3 DEF MutexInv
<1>9. CountInv /\ QuitInv
  BY <1>2, <1>3 DEF CountInv, QuitInv, Alive, Startup, Serving, Stopping, Failing
<1>10. StopInv BY <1>3 DEF StopInv, Stopping
<1>11. QED BY <1>1, <1>4, <1>5, <1>6, <1>7, <1>8, <1>9, <1>10 DEF IInv

LEMMA IInvNext == IInv /\ [Next]_vars => IInv'
<1> SUFFICES ASSUME IInv, [Next]_vars PROVE IInv'
  OBVIOUS
<1>1. ASSUME NEW d \in Daemons, DaemonStep(d) \/ Fault(d) PROVE IInv'
  <2>1. Clean(d) => main[d] = "clean" \/ main[d] = "errclean" BY DEF Clean
  <2>2. QED
    BY <1>1, <2>1, IInvLoop, IInvTimeoutCheck, IInvStartup, IInvListen, IInvFork, IInvClean,
       IInvAccept, IInvAcceptFails, IInvLockThreads, IInvSpawn, IInvCount, IInvDie,
       IInvSignal DEF DaemonStep, Fault
<1>2. ASSUME NEW c \in Clients, HandlerStep(c) PROVE IInv'
  BY <1>2, IInvHandlerRead, IInvHandlerReply, IInvCleanupLock, IInvCleanup DEF HandlerStep
<1>3. ASSUME NEW c \in Clients, ClientStep(c) \/ UserStep(c) PROVE IInv'
  BY <1>3, IInvClient, IInvConnect, IInvStartDaemon DEF ClientStep, UserStep
<1>4. CASE Next BY <1>1, <1>2, <1>3, <1>4 DEF Next
<1>5. CASE UNCHANGED vars
  <2>1. TypeOK' BY <1>5, TypeFrame DEF vars, TypeOK, IInv
  <2>2. UNCHANGED <<main, quit_loop, killed, exit_status, listening, backlog, data_socket,
                    fds, mutex, running_threads, handler, fd, client, peer>>
    BY <1>5 DEF vars, daemonVars, socketVars, threadVars, clientVars
  <2>3. MoveInv' /\ QuitInv' /\ StopInv' BY <2>2, InvFrame DEF MoveInv
  <2>4. QED BY <2>1, <2>3, IInvParts DEF IInv, MoveInv
<1>6. QED BY <1>4, <1>5

\* The strengthening holds in every reachable state, whatever the number of daemons,
\* programs and descriptors.
THEOREM Inductive == Spec => []IInv
  BY IInvInit, IInvNext, PTL DEF Spec

\* close(), read() and write() of a request_handler never reach the connection of
\* another client, however descriptor numbers are used again.
THEOREM FdOwnershipHolds == Spec => []FdOwnership
<1>1. IInv => FdOwnership BY DEF IInv, ClientInv, FdOwnership
<1>2. QED BY <1>1, Inductive, PTL

\* No way out of request_handler, and no step of accept, leaves a descriptor open that
\* nobody will close.
THEOREM NoFdLeakHolds == Spec => []NoFdLeak
<1>1. ASSUME IInv PROVE NoFdLeak
  <2>1. ASSUME NEW d \in Daemons, NEW n \in Fds, fds[d][n] # None
        PROVE  \/ fds[d][n] \in InHand(d)
               \/ fds[d][n] \in Handlers(d) /\ fd[fds[d][n]] = n
    <3>1. fds[d][n] \in Clients
      BY <1>1, <2>1 DEF IInv, TypeOK, SocketTypes, FdTable
    <3>2. QED BY <1>1, <2>1, <3>1 DEF IInv, FdInv, InHand, Handlers
  <2>2. QED BY <2>1 DEF NoFdLeak
<1>2. QED BY <1>1, Inductive, PTL

\* running_threads is the number of live threads whenever the mutex is free.
THEOREM ThreadCountHolds == Spec => []ThreadCount
<1>1. ASSUME IInv PROVE ThreadCount
  <2>1. ASSUME NEW d \in Daemons, main[d] \in Alive, ~mutex[d]
        PROVE  running_threads[d] = Cardinality(Handlers(d))
    <3>1. main[d] # "count" BY <1>1, <2>1 DEF IInv, MutexInv
    <3>2. running_threads[d] \in Nat BY <1>1 DEF IInv, TypeOK, ThreadTypes, Uint16
    <3>3. QED BY <1>1, <2>1, <3>1, <3>2 DEF IInv, CountInv
  <2>2. QED BY <2>1 DEF ThreadCount
<1>2. QED BY <1>1, Inductive, PTL

\* A daemon that no signal reached stops only with no thread left, although the main
\* thread reads the counter without the mutex.
THEOREM IdleExitHolds == Spec => []IdleExit
<1>1. IInv => IdleExit BY DEF IInv, QuitInv, StopInv, IdleExit, Alive
<1>2. QED BY <1>1, Inductive, PTL

(***************************************************************************)
(* The path of a daemon that runs alone.                                   *)
(***************************************************************************)
Alone(d) == \A e \in Daemons \ {d} : main[e] = "off"

PathInv ==
    \A d \in Daemons :
        Alone(d) /\ main[d] \in {"listen", "fork"} \cup Serving => path = d

LEMMA PathDaemon ==
  ASSUME IInv, PathInv, NEW d \in Daemons, DaemonStep(d) \/ Fault(d)
  PROVE  PathInv'
<1>0. main \in [Daemons -> MainLabels] BY DEF IInv, TypeOK, DaemonTypes
<1>1. /\ main[d] # "off" /\ main'[d] # "off"
      /\ \A e \in Daemons \ {d} : main'[e] = main[e]
  BY <1>0 DEF DaemonStep, Fault, Remove, Bind, Listen, Fork, Loop, PollEnter, PollReady,
        PollTimeout, TimeoutCheck, Accept, AcceptFails, LockThreads, Spawn, Count, Clean,
        Close, StartupError, Signal, Crash, Die, Goto, Alive, Startup, Serving, Stopping, Failing
<1>2. Alone(d)' => Alone(d) BY <1>1 DEF Alone
<1>3. main'[d] \in {"listen", "fork"} \cup Serving =>
          \/ path' = path /\ main[d] \in {"listen", "fork"} \cup Serving
          \/ path' = d
  BY <1>0 DEF DaemonStep, Fault, Remove, Bind, Listen, Fork, Loop, PollEnter, PollReady,
        PollTimeout, TimeoutCheck, Accept, AcceptFails, LockThreads, Spawn, Count, Clean,
        Close, StartupError, Signal, Crash, Die, Goto, Serving, Stopping, socketVars
<1>4. \A e \in Daemons \ {d} : ~Alone(e)'
  BY <1>1 DEF Alone
<1>5. QED BY <1>2, <1>3, <1>4 DEF PathInv

LEMMA PathClient ==
  ASSUME IInv, PathInv, NEW c \in Clients, HandlerStep(c) \/ ClientStep(c) \/ UserStep(c)
  PROVE  PathInv'
<1>0. main \in [Daemons -> MainLabels] BY DEF IInv, TypeOK, DaemonTypes
<1>1. path' = path
  BY DEF HandlerStep, ClientStep, UserStep, HandlerRead, HandlerReply, CleanupLock, Cleanup,
         LaunchReturns, Probe, Connect, ReceiveReply, OpenUi, SkipLaunch, SendRequest,
         ClientExit, StartDaemon, LaunchExecFails, socketVars
<1>2. \/ UNCHANGED main
      \/ \E d \in Daemons : main[d] = "off" /\ main' = [main EXCEPT ![d] = "remove"]
  BY DEF HandlerStep, ClientStep, UserStep, HandlerRead, HandlerReply, CleanupLock, Cleanup,
         LaunchReturns, Probe, Connect, ReceiveReply, OpenUi, SkipLaunch, SendRequest,
         ClientExit, StartDaemon, LaunchExecFails, daemonVars, Goto
<1>3. CASE UNCHANGED main BY <1>1, <1>3 DEF PathInv, Alone
<1>4. CASE \E d \in Daemons : main[d] = "off" /\ main' = [main EXCEPT ![d] = "remove"]
  BY <1>0, <1>1, <1>4 DEF PathInv, Alone, Serving
<1>5. QED BY <1>2, <1>3, <1>4

\* A program that launched a background daemon and was told 0 finds its socket at the
\* path as long as that daemon runs alone.
THEOREM LaunchThenConnectHolds == Spec => []LaunchThenConnect
<1>1. Init => PathInv BY DEF Init, PathInv, Serving
<1>2. IInv /\ PathInv /\ [Next]_vars => PathInv'
  <2> SUFFICES ASSUME IInv, PathInv, [Next]_vars PROVE PathInv'
    OBVIOUS
  <2>1. CASE Next BY <2>1, PathDaemon, PathClient DEF Next
  <2>2. CASE UNCHANGED vars
    BY <2>2 DEF vars, daemonVars, socketVars, PathInv, Alone
  <2>3. QED BY <2>1, <2>2
<1>3. ASSUME IInv, PathInv PROVE LaunchThenConnect
  <2>1. ASSUME NEW d \in Daemons, exit_status[d] = "ok", main[d] \in Alive \ Stopping,
               \A e \in Daemons \ {d} : main[e] = "off"
        PROVE  path = d /\ listening[d]
    <3>1. main[d] \in Serving BY <1>3, <2>1 DEF IInv, StopInv, Alive
    <3>2. QED BY <1>3, <2>1, <3>1 DEF PathInv, Alone, IInv, ProcessInv, Working
  <2>2. QED BY <2>1 DEF LaunchThenConnect
<1>4. QED BY <1>1, <1>2, <1>3, Inductive, PTL DEF Spec

(***************************************************************************)
(* Daemon implements DaemonService: every step is a step of the service or *)
(* leaves its variables as they are.                                       *)
(***************************************************************************)
LEMMA UpSame ==
  ASSUME NEW e \in Daemons, listening'[e] = listening[e],
         \/ main[e] # "dead" /\ main'[e] # "dead"
         \/ /\ main'[e] = main[e]
            /\ killed'[e] = killed[e] /\ exit_status'[e] = exit_status[e]
  PROVE  UpOf(e)' = UpOf(e)
  BY DEF UpOf

LEMMA ConnSame ==
  ASSUME NEW c \in Clients, peer'[c] = peer[c],
         \/ handler'[c] = handler[c]
         \/ handler[c] \in HandlerLive /\ handler'[c] \in HandlerLive,
         handler[c] = "none" => (ServerEnd(c)' <=> ServerEnd(c))
  PROVE  ConnOf(c)' = ConnOf(c)
<1>1. "none" \notin HandlerLive BY DEF HandlerLive
<1>2. QED BY <1>1 DEF ConnOf

LEMMA ServiceStutters ==
  ASSUME \A d \in Daemons : UpOf(d)' = UpOf(d), \A c \in Clients : ConnOf(c)' = ConnOf(c),
         peer' = peer
  PROVE  UNCHANGED Service!vars
  BY DEF Service!vars

\* The end of a connection that the daemon has is where the queue and the table say.
LEMMA ServerEndFrame ==
  ASSUME NEW c \in Clients, peer'[c] = peer[c],
         peer[c] # None => /\ backlog'[peer[c]] = backlog[peer[c]]
                           /\ fds'[peer[c]] = fds[peer[c]]
  PROVE  ServerEnd(c)' <=> ServerEnd(c)
  BY DEF ServerEnd

LEMMA QuietStutters ==
  ASSUME UNCHANGED <<listening, backlog, fds, peer, handler>>,
         \A e \in Daemons :
            \/ main[e] # "dead" /\ main'[e] # "dead"
            \/ /\ main'[e] = main[e]
               /\ killed'[e] = killed[e] /\ exit_status'[e] = exit_status[e]
  PROVE  UNCHANGED Service!vars
<1>1. \A e \in Daemons : UpOf(e)' = UpOf(e) BY UpSame
<1>2. \A c \in Clients : ServerEnd(c)' <=> ServerEnd(c) BY ServerEndFrame
<1>3. \A c \in Clients : ConnOf(c)' = ConnOf(c) BY <1>2, ConnSame
<1>4. QED BY <1>1, <1>3, ServiceStutters

LEMMA MapDaemonQuiet ==
  ASSUME IInv, NEW d \in Daemons,
         \/ Remove(d) \/ Bind(d) \/ Fork(d) \/ Loop(d) \/ PollEnter(d) \/ PollReady(d)
         \/ PollTimeout(d) \/ TimeoutCheck(d) \/ AcceptFails(d) \/ LockThreads(d) \/ Count(d)
         \/ Clean(d) \/ StartupError(d) \/ Signal(d)
  PROVE  UNCHANGED Service!vars
<1>0. main \in [Daemons -> MainLabels] /\ killed \in [Daemons -> BOOLEAN]
      /\ exit_status \in [Daemons -> {"none", "ok", "failed", "signalled"}]
  BY DEF IInv, TypeOK, DaemonTypes
<1>1. UNCHANGED <<listening, backlog, fds, peer, handler>>
  BY DEF Remove, Bind, Fork, Loop, PollEnter, PollReady, PollTimeout, TimeoutCheck, AcceptFails,
         LockThreads, Count, Clean, StartupError, Signal, socketVars, threadVars, clientVars
<1>2. main[d] # "dead" /\ main'[d] # "dead"
  BY <1>0 DEF Remove, Bind, Fork, Loop, PollEnter, PollReady, PollTimeout, TimeoutCheck,
         AcceptFails, LockThreads, Count, Clean, StartupError, Signal, Goto, Alive, Startup,
         Serving, Stopping, Failing
<1>3. ASSUME NEW e \in Daemons \ {d}
      PROVE  main'[e] = main[e] /\ killed'[e] = killed[e] /\ exit_status'[e] = exit_status[e]
  BY <1>0 DEF Remove, Bind, Fork, Loop, PollEnter, PollReady, PollTimeout, TimeoutCheck,
         AcceptFails, LockThreads, Count, Clean, StartupError, Signal, Goto
<1>4. QED BY <1>1, <1>2, <1>3, QuietStutters

LEMMA MapListen ==
  ASSUME IInv, NEW d \in Daemons, Listen(d)
  PROVE  Service!Start(d)
<1>0. main \in [Daemons -> MainLabels] /\ listening \in [Daemons -> BOOLEAN]
  BY DEF IInv, TypeOK, DaemonTypes, SocketTypes
<1>1. /\ main[d] = "listen" /\ Goto(d, "fork") /\ listening' = [listening EXCEPT ![d] = TRUE]
      /\ UNCHANGED <<killed, exit_status, backlog, fds, peer, handler>>
  BY DEF Listen, threadVars, clientVars
<1>2. UpOf(d) = "down" /\ UpOf(d)' = "up"
  BY <1>0, <1>1 DEF UpOf, IInv, ProcessInv
<1>3. \A e \in Daemons \ {d} : UpOf(e)' = UpOf(e)
  BY <1>0, <1>1, UpSame DEF Goto
<1>4. \A c \in Clients : ConnOf(c)' = ConnOf(c)
  BY <1>1, ServerEndFrame, ConnSame
<1>5. QED BY <1>1, <1>2, <1>3, <1>4 DEF Service!Start

\* accept() moves a connection from the queue to the table: it still waits for a thread.
LEMMA MapAccept ==
  ASSUME IInv, NEW d \in Daemons, Accept(d)
  PROVE  UNCHANGED Service!vars
<1>0. /\ main \in [Daemons -> MainLabels] /\ backlog \in [Daemons -> Seq(Clients)]
      /\ fds \in [Daemons -> FdTable] /\ peer \in [Clients -> Daemons \cup {None}]
  BY DEF IInv, TypeOK, DaemonTypes, SocketTypes, ClientTypes
<1>1. PICK n \in Fds : /\ fds[d][n] = None
                       /\ fds' = [fds EXCEPT ![d][n] = Head(backlog[d])]
  BY DEF Accept
<1>2. /\ main[d] = "accept" /\ Goto(d, "lock") /\ backlog[d] # <<>>
      /\ backlog' = [backlog EXCEPT ![d] = Tail(backlog[d])]
      /\ UNCHANGED <<killed, exit_status, listening, peer, handler>>
  BY DEF Accept, threadVars, clientVars
<1>3. \A e \in Daemons : UpOf(e)' = UpOf(e)
  BY <1>0, <1>2, UpSame DEF Goto
<1>4. ASSUME NEW c \in Clients, handler[c] = "none" PROVE ServerEnd(c)' <=> ServerEnd(c)
  <2>1. CASE peer[c] # d
    <3>1. peer[c] # None => backlog'[peer[c]] = backlog[peer[c]] /\ fds'[peer[c]] = fds[peer[c]]
      BY <1>0, <1>1, <1>2, <2>1
    <3>2. QED BY <1>2, <3>1, ServerEndFrame
  <2>2. CASE peer[c] = d
    <3> DEFINE q == backlog[d]
    <3>1. /\ Len(q) \in Nat \ {0} /\ DOMAIN q = 1..Len(q) /\ Head(q) = q[1]
          /\ DOMAIN Tail(q) = 1..(Len(q) - 1)
          /\ \A i \in 1..(Len(q) - 1) : Tail(q)[i] = q[i + 1]
      BY <1>0, <1>2
    <3>2. backlog'[d] = Tail(q) /\ fds[d] \in [Fds -> Clients \cup {None}]
      BY <1>0, <1>2 DEF FdTable
    <3>3. fds'[d][n] = q[1] /\ \A m \in Fds \ {n} : fds'[d][m] = fds[d][m]
      BY <1>0, <1>1, <3>1, <3>2
    <3> DEFINE Queued    == \E i \in DOMAIN q : q[i] = c
               QueuedNow == \E i \in DOMAIN Tail(q) : Tail(q)[i] = c
    <3>4. Queued <=> q[1] = c \/ QueuedNow
      <4>1. QueuedNow => Queued
        <5>1. ASSUME NEW i \in 1..(Len(q) - 1), Tail(q)[i] = c PROVE Queued
          <6>1. i + 1 \in DOMAIN q /\ q[i + 1] = c BY <3>1, <5>1
          <6>2. QED BY <6>1
        <5>2. QED BY <3>1, <5>1
      <4>2. ASSUME NEW i \in DOMAIN q, q[i] = c, i # 1 PROVE QueuedNow
        <5>1. i - 1 \in 1..(Len(q) - 1) /\ (i - 1) + 1 = i BY <3>1, <4>2
        <5>2. i - 1 \in DOMAIN Tail(q) /\ Tail(q)[i - 1] = c BY <3>1, <4>2, <5>1
        <5>3. QED BY <5>2
      <4>3. 1 \in DOMAIN q BY <3>1
      <4>4. QED BY <4>1, <4>2, <4>3
    <3>5. ServerEnd(c) <=> Queued \/ \E m \in Fds : fds[d][m] = c
      BY <2>2, ConstantsAssumption DEF ServerEnd
    <3>6. ServerEnd(c)' <=> QueuedNow \/ \E m \in Fds : fds'[d][m] = c
      BY <1>2, <2>2, <3>2, ConstantsAssumption DEF ServerEnd
    <3>7. (\E m \in Fds : fds'[d][m] = c) <=> q[1] = c \/ \E m \in Fds : fds[d][m] = c
      BY <1>1, <3>3, ConstantsAssumption
    <3> HIDE DEF Queued, QueuedNow
    <3>8. QED BY <3>4, <3>5, <3>6, <3>7
  <2>3. QED BY <2>1, <2>2
<1>5. \A c \in Clients : ConnOf(c)' = ConnOf(c) BY <1>2, <1>4, ConnSame
<1>6. QED BY <1>2, <1>3, <1>5, ServiceStutters

\* The thread that the main thread makes is its connection's only one.
LEMMA MapSpawn ==
  ASSUME IInv, NEW d \in Daemons, Spawn(d)
  PROVE  \E c \in Clients : Service!Serve(c)
<1>0. /\ main \in [Daemons -> MainLabels] /\ handler \in [Clients -> HandlerLabels]
      /\ fds \in [Daemons -> FdTable]
  BY DEF IInv, TypeOK, DaemonTypes, SocketTypes, ThreadTypes
<1>1. main[d] = "spawn" /\ Goto(d, "count")
      /\ UNCHANGED <<killed, exit_status, listening, backlog, fds, peer>>
  BY DEF Spawn, socketVars, clientVars
<1>2. PICK c \in Clients, n \in Fds : fds[d][n] = c /\ n = data_socket[d] /\ handler[c] = "none"
  BY <1>0, <1>1 DEF IInv, InHandInv, FdTable
<1>9. handler' = [handler EXCEPT ![c] = "read"]
  BY <1>2 DEF Spawn
<1>3. peer[c] = d BY <1>2, ConstantsAssumption DEF IInv, FdInv
<1>4. ConnOf(c) = "pending"
  <2>1. ServerEnd(c) BY <1>2, <1>3, ConstantsAssumption DEF ServerEnd
  <2>2. QED BY <1>2, <1>3, <2>1, ConstantsAssumption DEF ConnOf, HandlerLive
<1>5. ConnOf(c)' = "served"
  BY <1>0, <1>1, <1>9, <1>3, ConstantsAssumption DEF ConnOf, HandlerLive
<1>6. \A k \in Clients \ {c} : ConnOf(k)' = ConnOf(k)
  BY <1>0, <1>1, <1>9, ServerEndFrame, ConnSame
<1>7. \A e \in Daemons : UpOf(e)' = UpOf(e)
  BY <1>0, <1>1, UpSame DEF Goto
<1>8. Service!Serve(c)
  BY <1>1, <1>4, <1>5, <1>6, <1>7 DEF Service!Serve
<1>10. QED BY <1>2, <1>8

\* The end of a process is the end of every connection made to it.
LEMMA MapDie ==
  ASSUME IInv, NEW d \in Daemons, main[d] \in Alive, Die(d), peer' = peer,
         \A e \in Daemons \ {d} : killed'[e] = killed[e] /\ exit_status'[e] = exit_status[e],
         \/ UpOf(d)' = "aborted"
         \/ UpOf(d)' = "gone" /\ listening[d] /\ Handlers(d) = {}
  PROVE  Service!Abort(d) \/ Service!StopIdle(d)
<1>0. /\ main \in [Daemons -> MainLabels] /\ handler \in [Clients -> HandlerLabels]
      /\ fds \in [Daemons -> FdTable] /\ backlog \in [Daemons -> Seq(Clients)]
      /\ listening \in [Daemons -> BOOLEAN] /\ peer \in [Clients -> Daemons \cup {None}]
  BY DEF IInv, TypeOK, DaemonTypes, SocketTypes, ThreadTypes, ClientTypes
<1>1. /\ \A e \in Daemons \ {d} : /\ main'[e] = main[e] /\ listening'[e] = listening[e]
                                  /\ backlog'[e] = backlog[e] /\ fds'[e] = fds[e]
      /\ backlog'[d] = <<>> /\ \A n \in Fds : fds'[d][n] = None
      /\ \A c \in Clients : handler'[c] = IF c \in Handlers(d) THEN "dead" ELSE handler[c]
  BY <1>0 DEF Die, Goto
<1>2. UpOf(d) = IF listening[d] THEN "up" ELSE "down"
  BY DEF UpOf, Alive, Startup, Serving, Stopping, Failing
<1>3. \A e \in Daemons \ {d} : UpOf(e)' = UpOf(e)
  BY <1>1, UpSame
<1>4. ASSUME NEW c \in Clients, peer[c] = d PROVE ConnOf(c)' = "over"
  <2>1. handler'[c] \notin HandlerLive
    BY <1>1, <1>4 DEF Handlers, HandlerLive
  <2>2. ~ServerEnd(c)'
    <3>1. peer'[c] = d /\ DOMAIN backlog'[d] = {} BY <1>1, <1>4
    <3>2. QED BY <1>1, <3>1, ConstantsAssumption DEF ServerEnd
  <2>3. peer'[c] # None BY <1>4, ConstantsAssumption
  <2>4. QED BY <2>1, <2>2, <2>3 DEF ConnOf
<1>5. ASSUME NEW c \in Clients, peer[c] # d PROVE ConnOf(c)' = ConnOf(c)
  <2>1. handler'[c] = handler[c] BY <1>1, <1>5 DEF Handlers
  <2>2. ServerEnd(c)' <=> ServerEnd(c) BY <1>0, <1>1, <1>5, ServerEndFrame
  <2>3. QED BY <2>1, <2>2, ConnSame
<1>6. Service!Drop(d)
  BY <1>4, <1>5 DEF Service!Drop
<1>7. CASE UpOf(d)' = "aborted"
  BY <1>2, <1>3, <1>6, <1>7 DEF Service!Abort
<1>8. CASE UpOf(d)' = "gone" /\ listening[d] /\ Handlers(d) = {}
  <2>1. Service!Served(d) = {}
    <3>1. ASSUME NEW c \in Clients, peer[c] = d, ConnOf(c) = "served" PROVE c \in Handlers(d)
      BY <3>1 DEF ConnOf, Handlers
    <3>2. QED BY <1>8, <3>1 DEF Service!Served
  <2>2. QED BY <1>2, <1>3, <1>6, <1>8, <2>1 DEF Service!StopIdle
<1>9. QED BY <1>7, <1>8

LEMMA MapClose ==
  ASSUME IInv, NEW d \in Daemons, Close(d)
  PROVE  Service!Abort(d) \/ Service!StopIdle(d)
<1>0. /\ main \in [Daemons -> MainLabels] /\ listening \in [Daemons -> BOOLEAN]
      /\ exit_status \in [Daemons -> {"none", "ok", "failed", "signalled"}]
  BY DEF IInv, TypeOK, DaemonTypes, SocketTypes
<1>1. /\ main[d] \in {"close", "errclose"} /\ Die(d)
      /\ exit_status' = IF exit_status[d] # "none" THEN exit_status
                        ELSE [exit_status EXCEPT ![d] =
                                IF main[d] = "close" THEN "ok" ELSE "failed"]
      /\ UNCHANGED <<killed, peer>>
  BY DEF Close, clientVars
<1>2. ~listening'[d] /\ main'[d] = "dead"
  BY <1>0, <1>1 DEF Die, Goto
<1>3. UpOf(d)' = "aborted" \/ (UpOf(d)' = "gone" /\ ~killed[d] /\ exit_status'[d] = "ok")
  BY <1>1, <1>2 DEF UpOf
<1>5. main[d] \in Alive BY <1>1 DEF Alive, Stopping, Failing
<1>6. \A e \in Daemons \ {d} : killed'[e] = killed[e] /\ exit_status'[e] = exit_status[e]
  BY <1>0, <1>1
<1>7. UpOf(d)' = "aborted" \/ (UpOf(d)' = "gone" /\ listening[d] /\ Handlers(d) = {})
  <2>1. UpOf(d)' = "gone" /\ ~killed[d] /\ exit_status'[d] = "ok" => listening[d] /\ Handlers(d) = {}
    <3>1. ASSUME ~killed[d], exit_status'[d] = "ok" PROVE listening[d] /\ Handlers(d) = {}
      <4>1. main[d] = "close"
        <5>1. main[d] = "errclose" => exit_status[d] = "none"
          BY DEF IInv, StopInv, Failing
        <5>2. QED BY <1>0, <1>1, <3>1, <5>1
      <4>2. listening[d] BY <4>1 DEF IInv, ProcessInv, Working, Stopping
      <4>3. Handlers(d) = {}
        BY <3>1, <4>1 DEF IInv, StopInv, QuitInv, Stopping, Alive
      <4>4. QED BY <4>2, <4>3
    <3>2. QED BY <3>1
  <2>2. QED BY <1>3, <2>1
<1>8. QED BY <1>1, <1>5, <1>6, <1>7, MapDie

LEMMA MapCrash ==
  ASSUME IInv, NEW d \in Daemons, Crash(d)
  PROVE  Service!Abort(d) \/ Service!StopIdle(d)
<1>0. /\ main \in [Daemons -> MainLabels] /\ listening \in [Daemons -> BOOLEAN]
      /\ exit_status \in [Daemons -> {"none", "ok", "failed", "signalled"}]
      /\ killed \in [Daemons -> BOOLEAN]
  BY DEF IInv, TypeOK, DaemonTypes, SocketTypes
<1>1. /\ main[d] \in Alive /\ Die(d) /\ peer' = peer
      /\ killed' = [killed EXCEPT ![d] = TRUE]
      /\ exit_status' = IF exit_status[d] # "none" THEN exit_status
                        ELSE [exit_status EXCEPT ![d] = "signalled"]
  BY DEF Crash, clientVars
<1>2. ~listening'[d] /\ main'[d] = "dead" /\ killed'[d]
  BY <1>0, <1>1 DEF Die, Goto
<1>3. UpOf(d)' = "aborted" BY <1>2 DEF UpOf
<1>4. \A e \in Daemons \ {d} : killed'[e] = killed[e] /\ exit_status'[e] = exit_status[e]
  BY <1>0, <1>1
<1>5. QED BY <1>1, <1>3, <1>4, MapDie

\* A thread that closes its descriptor closes its own connection and no waiting one.
LEMMA CloseFdEnds ==
  ASSUME IInv, NEW c \in Clients, handler[c] \in HandlerLive, CloseFd(c),
         UNCHANGED <<backlog, peer>>, NEW k \in Clients, handler[k] = "none"
  PROVE  ServerEnd(k)' <=> ServerEnd(k)
<1>0. fds \in [Daemons -> FdTable] /\ fd \in [Clients -> Fds \cup {NoFd}]
  BY DEF IInv, TypeOK, SocketTypes, ThreadTypes
<1>1. CASE fd[c] = NoFd BY <1>1, ServerEndFrame DEF CloseFd
<1>2. CASE fd[c] # NoFd
  <2>1. /\ peer[c] \in Daemons /\ fd[c] \in Fds /\ fds[peer[c]][fd[c]] = c /\ k # c
        /\ fds' = [fds EXCEPT ![peer[c]][fd[c]] = None]
    BY <1>0, <1>2 DEF CloseFd, IInv, ClientInv, HandlerLive
  <2>2. ASSUME NEW d \in Daemons, NEW n \in Fds PROVE fds'[d][n] = k <=> fds[d][n] = k
    BY <1>0, <2>1, ConstantsAssumption DEF FdTable
  <2>3. peer[k] \in Daemons \cup {None} BY DEF IInv, TypeOK, ClientTypes
  <2>4. QED BY <2>2, <2>3 DEF ServerEnd
<1>3. QED BY <1>1, <1>2

LEMMA MapHandlerQuiet ==
  ASSUME IInv, NEW c \in Clients, HandlerRead(c) \/ HandlerReply(c) \/ CleanupLock(c)
  PROVE  UNCHANGED Service!vars
<1>0. handler \in [Clients -> HandlerLabels] BY DEF IInv, TypeOK, ThreadTypes
<1>1. /\ handler[c] \in HandlerLive /\ handler'[c] \in HandlerLive
      /\ \A k \in Clients \ {c} : handler'[k] = handler[k]
  BY <1>0 DEF HandlerRead, HandlerReply, CleanupLock, HandlerGoto, HandlerLive
<1>2. UNCHANGED <<main, killed, exit_status, listening, backlog, peer>>
  BY DEF HandlerRead, HandlerReply, CleanupLock, daemonVars, socketVars, clientVars
<1>3. fds' = fds \/ CloseFd(c)
  BY DEF HandlerRead, HandlerReply, CleanupLock, socketVars, CloseAndForget
<1>4. ASSUME NEW k \in Clients, handler[k] = "none" PROVE ServerEnd(k)' <=> ServerEnd(k)
  BY <1>1, <1>2, <1>3, <1>4, ServerEndFrame, CloseFdEnds
<1>5. \A k \in Clients : ConnOf(k)' = ConnOf(k) BY <1>1, <1>2, <1>4, ConnSame
<1>6. \A e \in Daemons : UpOf(e)' = UpOf(e) BY <1>2, UpSame
<1>7. QED BY <1>2, <1>5, <1>6, ServiceStutters

LEMMA MapCleanup ==
  ASSUME IInv, NEW c \in Clients, Cleanup(c)
  PROVE  Service!Finish(c)
<1>0. handler \in [Clients -> HandlerLabels] BY DEF IInv, TypeOK, ThreadTypes
<1>1. /\ handler[c] \in HandlerLive /\ handler'[c] = "done" /\ CloseFd(c)
      /\ \A k \in Clients \ {c} : handler'[k] = handler[k]
      /\ UNCHANGED <<main, killed, exit_status, listening, backlog, peer>>
  BY <1>0 DEF Cleanup, HandlerGoto, HandlerLive, daemonVars, clientVars
<1>2. peer[c] # None
  BY <1>1, ConstantsAssumption DEF IInv, ClientInv, HandlerLive
<1>3. ConnOf(c) = "served" /\ ConnOf(c)' = "over"
  BY <1>1, <1>2 DEF ConnOf, HandlerLive
<1>4. ASSUME NEW k \in Clients \ {c} PROVE ConnOf(k)' = ConnOf(k)
  BY <1>1, CloseFdEnds, ConnSame
<1>5. \A e \in Daemons : UpOf(e)' = UpOf(e) BY <1>1, UpSame
<1>6. QED BY <1>1, <1>3, <1>4, <1>5 DEF Service!Finish

LEMMA MapConnect ==
  ASSUME IInv, NEW c \in Clients, Connect(c)
  PROVE  (\E d \in Daemons : Service!Connect(c, d)) \/ UNCHANGED Service!vars
<1>0. /\ backlog \in [Daemons -> Seq(Clients)] /\ path \in Daemons \cup {None}
      /\ peer \in [Clients -> Daemons \cup {None}]
  BY DEF IInv, TypeOK, SocketTypes, ClientTypes
<1>1. UNCHANGED <<main, killed, exit_status, listening, fds, handler>>
  BY DEF Connect, daemonVars, threadVars
<1>2. \A e \in Daemons : UpOf(e)' = UpOf(e) BY <1>1, UpSame
<1>3. CASE ~(IF path = None THEN FALSE ELSE listening[path])
  <2>1. peer' = peer /\ backlog' = backlog BY <1>3 DEF Connect
  <2>2. QED BY <1>1, <2>1, QuietStutters, <1>2, ServerEndFrame, ConnSame, ServiceStutters
<1>4. CASE IF path = None THEN FALSE ELSE listening[path]
  <2> DEFINE d == path
  <2>1. /\ d \in Daemons /\ listening[d] /\ client[c] = "connect"
        /\ peer' = [peer EXCEPT ![c] = d]
        /\ backlog' = [backlog EXCEPT ![d] = Append(backlog[d], c)]
    BY <1>0, <1>4 DEF Connect
  <2> HIDE DEF d
  <2>2. peer[c] = None /\ handler[c] = "none"
    BY <2>1, ConstantsAssumption DEF IInv, ClientInv
  <2>3. ConnOf(c) = "none" BY <2>2 DEF ConnOf
  <2>4. /\ DOMAIN Append(backlog[d], c) = 1..(Len(backlog[d]) + 1)
        /\ DOMAIN backlog[d] = 1..Len(backlog[d]) /\ Len(backlog[d]) \in Nat
        /\ Append(backlog[d], c)[Len(backlog[d]) + 1] = c
        /\ \A i \in 1..Len(backlog[d]) : Append(backlog[d], c)[i] = backlog[d][i]
    BY <1>0, <2>1
  <2>5. backlog'[d] = Append(backlog[d], c) /\ \A e \in Daemons \ {d} : backlog'[e] = backlog[e]
    BY <1>0, <2>1
  <2>6. peer'[c] = d /\ \A k \in Clients \ {c} : peer'[k] = peer[k]
    BY <1>0, <2>1
  <2>7. ConnOf(c)' = "pending"
    <3>1. Len(backlog[d]) + 1 \in DOMAIN backlog'[d] /\ backlog'[d][Len(backlog[d]) + 1] = c
      BY <2>4, <2>5
    <3>2. ServerEnd(c)' BY <2>1, <2>6, <3>1, ConstantsAssumption DEF ServerEnd
    <3>3. QED BY <1>1, <2>1, <2>2, <2>6, <3>2, ConstantsAssumption DEF ConnOf, HandlerLive
  <2>8. ASSUME NEW k \in Clients \ {c} PROVE ConnOf(k)' = ConnOf(k)
    <3>1. CASE peer[k] # d
      <4>1. peer[k] # None => backlog'[peer[k]] = backlog[peer[k]] BY <1>0, <2>5, <3>1
      <4>2. ServerEnd(k)' <=> ServerEnd(k) BY <1>1, <2>6, <4>1, ServerEndFrame
      <4>3. QED BY <1>1, <2>6, <4>2, ConnSame
    <3>2. CASE peer[k] = d
      <4>1. (\E i \in DOMAIN backlog'[d] : backlog'[d][i] = k)
              <=> \E i \in DOMAIN backlog[d] : backlog[d][i] = k
        BY <2>4, <2>5
      <4>2. ServerEnd(k)' <=> ServerEnd(k)
        BY <1>1, <2>6, <3>2, <4>1 DEF ServerEnd
      <4>3. QED BY <1>1, <2>6, <4>2, ConnSame
    <3>3. QED BY <3>1, <3>2
  <2>9. UpOf(d) = "up" BY <2>1 DEF UpOf
  <2>10. Service!Connect(c, d)
    BY <1>2, <2>1, <2>3, <2>7, <2>8, <2>9 DEF Service!Connect
  <2>11. QED BY <2>1, <2>10
<1>5. QED BY <1>3, <1>4

LEMMA MapClient ==
  ASSUME IInv, NEW c \in Clients,
         \/ LaunchReturns(c) \/ Probe(c) \/ ReceiveReply(c) \/ OpenUi(c) \/ SkipLaunch(c)
         \/ SendRequest(c) \/ ClientExit(c)
         \/ \E d \in Daemons : StartDaemon(c, d)
         \/ \E k \in Clients : LaunchExecFails(c, k)
  PROVE  UNCHANGED Service!vars
<1>0. main \in [Daemons -> MainLabels] BY DEF IInv, TypeOK, DaemonTypes
<1>1. UNCHANGED <<listening, backlog, fds, peer, handler, killed, exit_status>>
  BY DEF LaunchReturns, Probe, ReceiveReply, OpenUi, SkipLaunch, SendRequest, ClientExit,
         StartDaemon, LaunchExecFails, daemonVars, socketVars, threadVars
<1>2. \/ main' = main
      \/ \E d \in Daemons : main[d] = "off" /\ main' = [main EXCEPT ![d] = "remove"]
  BY DEF LaunchReturns, Probe, ReceiveReply, OpenUi, SkipLaunch, SendRequest, ClientExit,
         StartDaemon, LaunchExecFails, daemonVars, Goto
<1>3. QED BY <1>0, <1>1, <1>2, QuietStutters

\* Daemons and programs do nothing that the service does not promise: threads, descriptor
\* numbers used again, the counter and the mutex do not show.
THEOREM ImplementsService == Spec => ServiceSpec
<1>1. Init => Service!Init
  BY ConstantsAssumption
     DEF Init, Service!Init, UpOf, ConnOf
<1>2. IInv /\ [Next]_vars => [Service!Next]_Service!vars
  <2> SUFFICES ASSUME IInv, [Next]_vars PROVE Service!Next \/ UNCHANGED Service!vars
    OBVIOUS
  <2>1. ASSUME NEW d \in Daemons, DaemonStep(d) \/ Fault(d)
        PROVE  Service!Next \/ UNCHANGED Service!vars
    <3>1. CASE Listen(d) BY <3>1, MapListen DEF Service!Next
    <3>2. CASE Spawn(d) BY <3>2, MapSpawn DEF Service!Next
    <3>3. CASE Close(d) BY <3>3, MapClose DEF Service!Next
    <3>4. CASE Crash(d) BY <3>4, MapCrash DEF Service!Next
    <3>5. QED BY <2>1, <3>1, <3>2, <3>3, <3>4, MapAccept, MapDaemonQuiet DEF DaemonStep, Fault
  <2>2. ASSUME NEW c \in Clients, HandlerStep(c)
        PROVE  Service!Next \/ UNCHANGED Service!vars
    BY <2>2, MapHandlerQuiet, MapCleanup DEF HandlerStep, Service!Next
  <2>3. ASSUME NEW c \in Clients, ClientStep(c) \/ UserStep(c)
        PROVE  Service!Next \/ UNCHANGED Service!vars
    BY <2>3, MapConnect, MapClient DEF ClientStep, UserStep, Service!Next
  <2>4. CASE UNCHANGED vars
    BY <2>4, QuietStutters DEF vars, daemonVars, socketVars, threadVars, clientVars
  <2>5. QED BY <2>1, <2>2, <2>3, <2>4 DEF Next
<1>3. QED BY <1>1, <1>2, Inductive, PTL DEF Spec, ServiceSpec, Service!Spec
=============================================================================
