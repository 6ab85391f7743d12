--------------------------- MODULE DaemonInductive ---------------------------
(***************************************************************************)
(* Machine-checked proofs about Daemon, for any number of daemons, clients *)
(* and descriptors: its types, and that IInv is inductive, with one lemma  *)
(* per action, or per group of actions that disturb the same conjuncts.    *)
(***************************************************************************)
EXTENDS DaemonInvariant, FiniteSetTheorems, TLAPS

(***************************************************************************)
(* Type correctness, one group of variables at a time.                     *)
(***************************************************************************)
LEMMA TypeInit == Init => TypeOK
<1> SUFFICES ASSUME Init PROVE TypeOK
  OBVIOUS
<1>1. DaemonTypes BY DEF Init, DaemonTypes, MainLabels
<1>2. SocketTypes BY DEF Init, SocketTypes, FdTable, NoFd
<1>3. ThreadTypes BY DEF Init, ThreadTypes, Uint16, HandlerLabels, NoFd
<1>4. ClientTypes BY DEF Init, ClientTypes, ClientLabels
<1>5. QED BY <1>1, <1>2, <1>3, <1>4 DEF TypeOK

LEMMA TypeFrame ==
  ASSUME TypeOK
  PROVE  /\ UNCHANGED daemonVars => DaemonTypes'
         /\ UNCHANGED socketVars => SocketTypes'
         /\ UNCHANGED threadVars => ThreadTypes'
         /\ UNCHANGED clientVars => ClientTypes'
<1>1. UNCHANGED daemonVars => DaemonTypes' BY DEF TypeOK, DaemonTypes, daemonVars
<1>2. UNCHANGED socketVars => SocketTypes' BY DEF TypeOK, SocketTypes, socketVars
<1>3. UNCHANGED threadVars => ThreadTypes' BY DEF TypeOK, ThreadTypes, threadVars
<1>4. UNCHANGED clientVars => ClientTypes' BY DEF TypeOK, ClientTypes, clientVars
<1>5. QED BY <1>1, <1>2, <1>3, <1>4

\* The steps of the main thread that move it along and leave the rest alone.
LEMMA TypeGoto ==
  ASSUME DaemonTypes, NEW d \in Daemons, NEW label \in MainLabels, Goto(d, label),
         UNCHANGED <<background, limit, exit_status, quit_loop, killed>>
  PROVE  DaemonTypes'
  BY DEF DaemonTypes, Goto

LEMMA LabelsAreMain ==
  /\ Startup \cup Serving \cup Stopping \cup Failing \subseteq MainLabels
  /\ "dead" \in MainLabels
  BY DEF MainLabels, Alive

LEMMA TypeDaemon ==
  ASSUME TypeOK, NEW d \in Daemons, DaemonStep(d) \/ Fault(d)
  PROVE  TypeOK'
<1>0. /\ DaemonTypes /\ SocketTypes /\ ThreadTypes /\ ClientTypes
      /\ DaemonStep(d) \/ Fault(d)
  BY DEF TypeOK
<1> USE TypeFrame
<1>1. CASE Remove(d)
  <2>1. DaemonTypes' BY <1>0, <1>1, TypeGoto, LabelsAreMain DEF Remove, Startup
  <2>2. SocketTypes' BY <1>0, <1>1 DEF Remove, SocketTypes
  <2>3. QED BY <2>1, <2>2, <1>1 DEF Remove, TypeOK
<1>2. CASE Bind(d)
  <2>1. DaemonTypes' BY <1>0, <1>2, TypeGoto, LabelsAreMain DEF Bind, Startup, Failing
  <2>2. SocketTypes' BY <1>0, <1>2 DEF Bind, SocketTypes
  <2>3. QED BY <2>1, <2>2, <1>2 DEF Bind, TypeOK
<1>3. CASE Listen(d)
  <2>1. DaemonTypes' BY <1>0, <1>3, TypeGoto, LabelsAreMain DEF Listen, Startup
  <2>2. SocketTypes' BY <1>0, <1>3 DEF Listen, SocketTypes
  <2>3. QED BY <2>1, <2>2, <1>3 DEF Listen, TypeOK
<1>4. CASE Fork(d)
  <2>1. DaemonTypes' BY <1>0, <1>4, LabelsAreMain DEF Fork, Serving, Goto, DaemonTypes
  <2>2. QED BY <2>1, <1>4 DEF Fork, TypeOK
<1>5. CASE Loop(d)
  <2>1. DaemonTypes' BY <1>0, <1>5, TypeGoto, LabelsAreMain DEF Loop, Serving, Stopping
  <2>2. QED BY <2>1, <1>5 DEF Loop, TypeOK
<1>6. CASE PollEnter(d)
  <2>1. DaemonTypes' BY <1>0, <1>6, TypeGoto, LabelsAreMain DEF PollEnter, Serving
  <2>2. QED BY <2>1, <1>6 DEF PollEnter, TypeOK
<1>7. CASE PollReady(d)
  <2>1. DaemonTypes' BY <1>0, <1>7, TypeGoto, LabelsAreMain DEF PollReady, Serving
  <2>2. QED BY <2>1, <1>7 DEF PollReady, TypeOK
<1>8. CASE PollTimeout(d)
  <2>1. DaemonTypes' BY <1>0, <1>8, TypeGoto, LabelsAreMain DEF PollTimeout, Serving
  <2>2. QED BY <2>1, <1>8 DEF PollTimeout, TypeOK
<1>9. CASE TimeoutCheck(d)
  <2>1. DaemonTypes' BY <1>0, <1>9, LabelsAreMain DEF TimeoutCheck, Serving, Goto, DaemonTypes
  <2>2. QED BY <2>1, <1>9 DEF TimeoutCheck, TypeOK
<1>10. CASE Accept(d)
  <2>1. DaemonTypes' BY <1>0, <1>10, TypeGoto, LabelsAreMain DEF Accept, Serving
  <2>2. PICK n \in Fds :
          /\ data_socket' = [data_socket EXCEPT ![d] = n]
          /\ fds' = [fds EXCEPT ![d][n] = Head(backlog[d])]
    BY <1>10 DEF Accept
  <2>3. backlog[d] \in Seq(Clients) /\ backlog[d] # <<>>
    BY <1>0, <1>10 DEF Accept, SocketTypes
  <2>4. Head(backlog[d]) \in Clients /\ Tail(backlog[d]) \in Seq(Clients)
    BY <2>3
  <2>5. [fds[d] EXCEPT ![n] = Head(backlog[d])] \in FdTable
    BY <1>0, <2>4 DEF SocketTypes, FdTable
  <2>6. SocketTypes'
    BY <1>0, <1>10, <2>2, <2>4, <2>5 DEF SocketTypes, Accept
  <2>7. QED BY <2>1, <2>6, <1>10 DEF Accept, TypeOK
<1>11. CASE AcceptFails(d)
  <2>1. DaemonTypes' BY <1>0, <1>11, TypeGoto, LabelsAreMain DEF AcceptFails, Serving
  <2>2. SocketTypes' BY <1>0, <1>11 DEF AcceptFails, SocketTypes
  <2>3. QED BY <2>1, <2>2, <1>11 DEF AcceptFails, TypeOK
<1>12. CASE LockThreads(d)
  <2>1. DaemonTypes' BY <1>0, <1>12, TypeGoto, LabelsAreMain DEF LockThreads, Serving
  <2>2. ThreadTypes' BY <1>0, <1>12 DEF LockThreads, ThreadTypes
  <2>3. QED BY <2>1, <2>2, <1>12 DEF LockThreads, TypeOK
<1>13. CASE Spawn(d)
  <2>1. DaemonTypes' BY <1>0, <1>13, TypeGoto, LabelsAreMain DEF Spawn, Serving
  <2>2. ThreadTypes' BY <1>0, <1>13 DEF Spawn, ThreadTypes, SocketTypes, HandlerLabels, HandlerLive
  <2>3. QED BY <2>1, <2>2, <1>13 DEF Spawn, TypeOK
<1>14. CASE Count(d)
  <2>1. DaemonTypes' BY <1>0, <1>14, TypeGoto, LabelsAreMain DEF Count, Serving
  <2>2. ThreadTypes' BY <1>0, <1>14 DEF Count, Increment, Unlock, ThreadTypes, Uint16
  <2>3. QED BY <2>1, <2>2, <1>14 DEF Count, TypeOK
<1>15. CASE Clean(d)
  <2>1. DaemonTypes' BY <1>0, <1>15, TypeGoto, LabelsAreMain DEF Clean, Stopping, Failing
  <2>2. SocketTypes' BY <1>0, <1>15 DEF Clean, SocketTypes
  <2>3. QED BY <2>1, <2>2, <1>15 DEF Clean, TypeOK
<1>16. CASE Close(d)
  <2>1. DaemonTypes' BY <1>0, <1>16, LabelsAreMain DEF Close, Die, Goto, DaemonTypes
  <2>2. SocketTypes' BY <1>0, <1>16 DEF Close, Die, SocketTypes, FdTable, NoFd
  <2>3. ThreadTypes' BY <1>0, <1>16 DEF Close, Die, ThreadTypes, HandlerLabels
  <2>4. QED BY <2>1, <2>2, <2>3, <1>16 DEF Close, TypeOK
<1>17. CASE Crash(d)
  <2>1. DaemonTypes' BY <1>0, <1>17, LabelsAreMain DEF Crash, Die, Goto, DaemonTypes
  <2>2. SocketTypes' BY <1>0, <1>17 DEF Crash, Die, SocketTypes, FdTable, NoFd
  <2>3. ThreadTypes' BY <1>0, <1>17 DEF Crash, Die, ThreadTypes, HandlerLabels
  <2>4. QED BY <2>1, <2>2, <2>3, <1>17 DEF Crash, TypeOK
<1>18. CASE StartupError(d)
  <2>1. DaemonTypes' BY <1>0, <1>18, TypeGoto, LabelsAreMain DEF StartupError, Failing
  <2>2. QED BY <2>1, <1>18 DEF StartupError, TypeOK
<1>19. CASE Signal(d)
  <2>1. DaemonTypes' BY <1>0, <1>19, LabelsAreMain DEF Signal, Serving, Goto, DaemonTypes
  <2>2. QED BY <2>1, <1>19 DEF Signal, TypeOK
<1>20. QED
  BY <1>0, <1>1, <1>2, <1>3, <1>4, <1>5, <1>6, <1>7, <1>8, <1>9, <1>10, <1>11, <1>12, <1>13, <1>14, <1>15, <1>16, <1>17, <1>18, <1>19 DEF DaemonStep, Fault

LEMMA Uint16Step ==
  ASSUME NEW n \in Uint16
  PROVE  (n + 1) % 65536 \in Uint16 /\ (n + 65535) % 65536 \in Uint16
  BY DEF Uint16

\* An update outside the domain of a function changes nothing.
LEMMA UpdateOutside ==
  ASSUME NEW S, NEW T, NEW f \in [S -> T], NEW x, x \notin S, NEW e
  PROVE  [f EXCEPT ![x] = e] \in [S -> T]
  OBVIOUS

LEMMA CloseFdType ==
  ASSUME SocketTypes, ThreadTypes, ClientTypes, NEW c \in Clients, CloseFd(c)
  PROVE  fds' \in [Daemons -> FdTable]
<1>1. CASE fd[c] = NoFd
  BY <1>1 DEF CloseFd, SocketTypes
<1>2. CASE fd[c] # NoFd
  <2>1. fd[c] \in Fds /\ fds \in [Daemons -> FdTable]
    BY <1>2 DEF ThreadTypes, SocketTypes
  <2>2. fds' = [fds EXCEPT ![peer[c]][fd[c]] = None]
    BY <1>2 DEF CloseFd
  <2>3. CASE peer[c] \in Daemons
    <3>1. [fds[peer[c]] EXCEPT ![fd[c]] = None] \in FdTable
      BY <2>1, <2>3 DEF FdTable
    <3>2. QED BY <2>1, <2>2, <2>3, <3>1
  <2>4. CASE peer[c] \notin Daemons
    BY <2>1, <2>2, <2>4
  <2>5. QED BY <2>3, <2>4
<1>3. QED BY <1>1, <1>2

LEMMA TypeClient ==
  ASSUME TypeOK, NEW c \in Clients, HandlerStep(c) \/ ClientStep(c) \/ UserStep(c)
  PROVE  TypeOK'
<1>0. /\ DaemonTypes /\ SocketTypes /\ ThreadTypes /\ ClientTypes
      /\ HandlerStep(c) \/ ClientStep(c) \/ UserStep(c)
  BY DEF TypeOK
<1> USE TypeFrame
<1>1. CASE HandlerRead(c)
  <2>1. ThreadTypes' BY <1>0, <1>1 DEF HandlerRead, ThreadTypes, HandlerGoto, HandlerLabels, HandlerLive
  <2>2. ClientTypes' BY <1>0, <1>1 DEF HandlerRead, ClientTypes
  <2>3. QED BY <2>1, <2>2, <1>1 DEF HandlerRead, TypeOK
<1>2. CASE HandlerReply(c)
  <2>1. ThreadTypes' BY <1>0, <1>2 DEF HandlerReply, CloseAndForget, NoFd, ThreadTypes, HandlerGoto, HandlerLabels, HandlerLive
  <2>2. ClientTypes' BY <1>0, <1>2 DEF HandlerReply, ClientTypes
  <2>3. SocketTypes'
    <3>1. CASE CloseFd(c) BY <1>0, <1>2, <3>1, CloseFdType DEF HandlerReply, SocketTypes
    <3>2. CASE UNCHANGED fds BY <1>0, <1>2, <3>2 DEF HandlerReply, SocketTypes
    <3>3. QED BY <1>2, <3>1, <3>2 DEF HandlerReply, CloseAndForget
  <2>4. QED BY <2>1, <2>2, <2>3, <1>2 DEF HandlerReply, TypeOK
<1>3. CASE CleanupLock(c)
  <2>1. ThreadTypes' BY <1>0, <1>3 DEF CleanupLock, ThreadTypes, HandlerGoto, HandlerLabels, HandlerLive
  <2>2. QED BY <2>1, <1>3 DEF CleanupLock, TypeOK
<1>4. CASE Cleanup(c)
  <2>1. ThreadTypes'
    <3>1. running_threads' \in [Daemons -> Uint16]
      <4>1. CASE peer[c] \in Daemons
        BY <1>0, <1>4, <4>1, Uint16Step DEF Cleanup, Decrement, ThreadTypes
      <4>2. CASE peer[c] \notin Daemons
        <5> DEFINE r == Decrement(running_threads[peer[c]])
        <5>1. running_threads' = [running_threads EXCEPT ![peer[c]] = r]
          BY <1>4 DEF Cleanup
        <5> HIDE DEF r
        <5>2. QED BY <1>0, <4>2, <5>1, UpdateOutside DEF ThreadTypes
      <4>3. QED BY <4>1, <4>2
    <3>2. QED BY <3>1, <1>0, <1>4 DEF Cleanup, Unlock, ThreadTypes, HandlerGoto, HandlerLabels, HandlerLive
  <2>2. SocketTypes' BY <1>0, <1>4, CloseFdType DEF Cleanup, SocketTypes
  <2>3. QED BY <2>1, <2>2, <1>4 DEF Cleanup, TypeOK
<1>5. CASE LaunchReturns(c)
  <2>1. ClientTypes' BY <1>0, <1>5 DEF LaunchReturns, ClientTypes, ClientGoto, ClientLabels, ClientRunning
  <2>2. QED BY <2>1, <1>5 DEF LaunchReturns, TypeOK
<1>6. CASE Probe(c)
  <2>1. ClientTypes' BY <1>0, <1>6 DEF Probe, ClientTypes, ClientGoto, ClientLabels, ClientRunning
  <2>2. QED BY <2>1, <1>6 DEF Probe, TypeOK
<1>7. CASE Connect(c)
  <2>1. ClientTypes' BY <1>0, <1>7 DEF Connect, ClientTypes, ClientGoto, ClientLabels, ClientRunning, SocketTypes
  <2>2. backlog' \in [Daemons -> Seq(Clients)]
    <3>1. CASE UNCHANGED backlog BY <1>0, <3>1 DEF SocketTypes
    <3>2. CASE path \in Daemons /\ backlog' = [backlog EXCEPT ![path] = Append(@, c)]
      <4>1. Append(backlog[path], c) \in Seq(Clients) BY <1>0, <3>2 DEF SocketTypes
      <4>2. QED BY <1>0, <3>2, <4>1 DEF SocketTypes
    <3>3. QED BY <1>0, <1>7, <3>1, <3>2 DEF Connect, SocketTypes
  <2>3. SocketTypes' BY <1>0, <1>7, <2>2 DEF Connect, SocketTypes
  <2>4. QED BY <2>1, <2>3, <1>7 DEF Connect, TypeOK
<1>8. CASE ReceiveReply(c)
  <2>1. ClientTypes' BY <1>0, <1>8 DEF ReceiveReply, ClientTypes, ClientGoto, ClientLabels, ClientRunning
  <2>2. QED BY <2>1, <1>8 DEF ReceiveReply, TypeOK
<1>9. CASE OpenUi(c)
  <2>1. ClientTypes' BY <1>0, <1>9 DEF OpenUi, ClientTypes, ClientGoto, ClientLabels, ClientRunning
  <2>2. QED BY <2>1, <1>9 DEF OpenUi, TypeOK
<1>10. CASE SkipLaunch(c)
  <2>1. ClientTypes' BY <1>0, <1>10 DEF SkipLaunch, ClientTypes, ClientGoto, ClientLabels, ClientRunning
  <2>2. QED BY <2>1, <1>10 DEF SkipLaunch, TypeOK
<1>11. CASE SendRequest(c)
  <2>1. ClientTypes' BY <1>0, <1>11 DEF SendRequest, ClientTypes, ClientGoto, ClientLabels, ClientRunning
  <2>2. QED BY <2>1, <1>11 DEF SendRequest, TypeOK
<1>12. CASE ClientExit(c)
  <2>1. ClientTypes' BY <1>0, <1>12 DEF ClientExit, ClientTypes, ClientGoto, ClientLabels, ClientRunning
  <2>2. QED BY <2>1, <1>12 DEF ClientExit, TypeOK
<1>13. CASE \E d \in Daemons : StartDaemon(c, d)
  <2>1. PICK d \in Daemons : StartDaemon(c, d) BY <1>13
  <2>2. DaemonTypes' BY <1>0, <2>1, TypeGoto, LabelsAreMain DEF StartDaemon, Startup
  <2>3. ClientTypes' BY <1>0, <2>1 DEF StartDaemon, WaitLabel, ClientTypes, ClientGoto, ClientLabels, ClientRunning
  <2>4. QED BY <2>1, <2>2, <2>3 DEF StartDaemon, TypeOK
<1>14. CASE \E k \in Clients : LaunchExecFails(c, k)
  <2>1. PICK k \in Clients : LaunchExecFails(c, k) BY <1>14
  <2>2. ClientTypes' BY <1>0, <2>1 DEF LaunchExecFails, WaitLabel, ClientTypes, ClientGoto, ClientLabels, ClientRunning
  <2>3. QED BY <2>1, <2>2 DEF LaunchExecFails, TypeOK
<1>15. QED
  BY <1>0, <1>1, <1>2, <1>3, <1>4, <1>5, <1>6, <1>7, <1>8, <1>9, <1>10, <1>11, <1>12, <1>13, <1>14
     DEF HandlerStep, ClientStep, UserStep

\* Every variable keeps its type, whatever the number of daemons, clients and descriptors.
THEOREM TypeCorrect == Spec => []TypeOK
<1>1. Init => TypeOK
  BY TypeInit
<1>2. TypeOK /\ [Next]_vars => TypeOK'
  <2> SUFFICES ASSUME TypeOK, [Next]_vars PROVE TypeOK'
    OBVIOUS
  <2>1. CASE Next BY <2>1, TypeDaemon, TypeClient DEF Next
  <2>2. CASE UNCHANGED vars BY <2>2, TypeFrame DEF vars, TypeOK
  <2>3. QED BY <2>1, <2>2
<1>3. QED
  BY <1>1, <1>2, PTL DEF Spec

(***************************************************************************)
(* The inductive invariant.  A step that leaves the variables of a         *)
(* conjunct alone preserves it.                                            *)
(***************************************************************************)
LEMMA HandlersFrame ==
  UNCHANGED <<peer, handler>> => \A d \in Daemons : Handlers(d)' = Handlers(d)
  BY DEF Handlers

LEMMA InvFrame ==
  ASSUME IInv
  PROVE  /\ UNCHANGED <<main, listening, backlog, running_threads, fds, mutex>> => ProcessInv'
         /\ UNCHANGED <<client, peer, handler, main, fd, fds>> => ClientInv'
         /\ UNCHANGED <<backlog, peer, handler, fds>> => QueueInv'
         /\ UNCHANGED <<fds, peer, main, data_socket, handler, fd>> => FdInv'
         /\ UNCHANGED <<main, data_socket, fds, handler>> => InHandInv'
         /\ UNCHANGED <<main, mutex, handler, peer>> => MutexInv'
         /\ UNCHANGED <<main, running_threads, handler, peer>> => CountInv'
         /\ UNCHANGED <<quit_loop, killed, main, handler, peer>> => QuitInv'
         /\ UNCHANGED <<main, quit_loop, exit_status, killed>> => StopInv'
<1> USE DEF IInv
<1>1. UNCHANGED <<main, listening, backlog, running_threads, fds, mutex>> => ProcessInv'
  BY DEF ProcessInv
<1>2. UNCHANGED <<client, peer, handler, main, fd, fds>> => ClientInv'
  BY DEF ClientInv
<1>3. UNCHANGED <<backlog, peer, handler, fds>> => QueueInv'
  BY DEF QueueInv
<1>4. UNCHANGED <<fds, peer, main, data_socket, handler, fd>> => FdInv'
  BY DEF FdInv
<1>5. UNCHANGED <<main, data_socket, fds, handler>> => InHandInv'
  BY DEF InHandInv
<1>6. UNCHANGED <<main, mutex, handler, peer>> => MutexInv'
  BY HandlersFrame DEF MutexInv
<1>7. UNCHANGED <<main, running_threads, handler, peer>> => CountInv'
  BY HandlersFrame DEF CountInv
<1>8. UNCHANGED <<quit_loop, killed, main, handler, peer>> => QuitInv'
  BY HandlersFrame DEF QuitInv
<1>9. UNCHANGED <<main, quit_loop, exit_status, killed>> => StopInv'
  BY DEF StopInv
<1>10. QED
  BY <1>1, <1>2, <1>3, <1>4, <1>5, <1>6, <1>7, <1>8, <1>9

-----------------------------------------------------------------------------
(* Every step keeps IInv.                                                  *)

\* The labels of the main thread between which nothing but main itself changes hands:
\* no data socket is in its hand and it does not hold the mutex.
Quiet == Working \ {"lock", "spawn", "count"}

LEMMA QuietMove ==
  ASSUME IInv, NEW d \in Daemons, NEW label \in Quiet, main[d] \in Quiet, Goto(d, label),
         label = "accept" => backlog[d] # <<>>,
         \A e \in Daemons \ {d} : data_socket'[e] = data_socket[e],
         UNCHANGED <<listening, backlog, fds, threadVars, clientVars>>
  PROVE  /\ ProcessInv' /\ ClientInv' /\ QueueInv' /\ FdInv' /\ InHandInv'
         /\ MutexInv' /\ CountInv'
<1> USE DEF IInv, Quiet, Working, Serving, Stopping, Goto, threadVars,
            clientVars
<1>0. main' = [main EXCEPT ![d] = label] /\ main \in [Daemons -> MainLabels]
  BY DEF TypeOK, DaemonTypes
<1>h. \A e \in Daemons : Handlers(e)' = Handlers(e)
  BY HandlersFrame
<1>1. ProcessInv' BY <1>0 DEF ProcessInv
<1>2. ClientInv' BY <1>0 DEF ClientInv
<1>3. QueueInv' BY InvFrame
<1>4. FdInv' BY <1>0 DEF FdInv
<1>5. InHandInv' BY <1>0 DEF InHandInv
<1>6. MutexInv' BY <1>0, <1>h DEF MutexInv
<1>7. CountInv' BY <1>0, <1>h DEF CountInv, Alive
<1>8. QED BY <1>1, <1>2, <1>3, <1>4, <1>5, <1>6, <1>7

LEMMA NoHandlers ==
  ASSUME IInv, NEW d \in Daemons, main[d] \notin Working
  PROVE  Handlers(d) = {}
  BY DEF IInv, ClientInv, Handlers

\* The steps before the loop and after an error.
LEMMA StartupMove ==
  ASSUME IInv, NEW d \in Daemons, main[d] \notin Working \cup {"dead"},
         NEW label \in Startup \cup Failing \cup {"loop"}, Goto(d, label),
         \/ listening' = listening /\ (label \in {"fork", "loop"} => main[d] = "fork")
                                   /\ (label \in {"remove", "bind", "listen"} =>
                                         main[d] \in {"off", "remove", "bind"})
         \/ listening' = [listening EXCEPT ![d] = TRUE]
               /\ label = "fork" /\ main[d] = "listen",
         UNCHANGED <<backlog, data_socket, fds, threadVars, peer>>,
         \A c \in Clients : client'[c] \in {"new", "wait", "probe", "connect"} =>
                                peer[c] = None
  PROVE  /\ ProcessInv' /\ ClientInv' /\ QueueInv' /\ FdInv' /\ InHandInv'
         /\ MutexInv' /\ CountInv'
<1> USE DEF IInv, Working, Serving, Stopping, Startup, Failing, Goto, threadVars
<1>0. main' = [main EXCEPT ![d] = label] /\ main \in [Daemons -> MainLabels]
  BY DEF TypeOK, DaemonTypes
<1>l. listening \in [Daemons -> BOOLEAN]
  BY DEF TypeOK, SocketTypes
<1>h. \A e \in Daemons : Handlers(e)' = Handlers(e)
  BY HandlersFrame
<1>n. Handlers(d) = {} /\ \A c \in Clients : handler[c] \in HandlerLive => peer[c] # d
  BY NoHandlers DEF Handlers
<1>1. ProcessInv'
  <2>1. ASSUME NEW e \in Daemons \ {d}
        PROVE  main'[e] = main[e] /\ listening'[e] = listening[e]
    BY <1>0, <1>l
  <2>2. /\ main'[d] = label
        /\ label \in {"fork", "loop"} => listening'[d]
        /\ label \in {"remove", "bind", "listen"} => ~listening'[d]
        /\ listening[d] => listening'[d]
    BY <1>0, <1>l DEF ProcessInv
  <2>3. /\ backlog' = backlog /\ running_threads' = running_threads
        /\ fds' = fds /\ mutex' = mutex
    OBVIOUS
  <2>4. ASSUME NEW e \in Daemons \ {d}
        PROVE  /\ main'[e] \in Working \cup {"fork"} => listening'[e]
               /\ main'[e] \in {"off", "dead", "remove", "bind", "listen"} => ~listening'[e]
               /\ ~listening'[e] => backlog'[e] = <<>>
               /\ main'[e] \notin Working \cup {"dead"} => running_threads'[e] = 0
               /\ main'[e] \notin Working => (\A n \in Fds : fds'[e][n] = None) /\ ~mutex'[e]
               /\ main'[e] = "accept" => backlog'[e] # <<>>
    BY <2>1, <2>3 DEF ProcessInv
  <2>5. /\ ~listening'[d] => backlog'[d] = <<>>
        /\ running_threads'[d] = 0
        /\ (\A n \in Fds : fds'[d][n] = None) /\ ~mutex'[d]
    BY <2>2, <2>3 DEF ProcessInv
  <2>6. QED BY <2>2, <2>4, <2>5 DEF ProcessInv
<1>2. ClientInv'
  <2>1. ASSUME NEW c \in Clients, handler[c] \in HandlerLive
        PROVE  main'[peer[c]] = main[peer[c]]
    <3>1. peer[c] \in Daemons /\ peer[c] # d BY <2>1, <1>n DEF ClientInv, HandlerLive
    <3>2. QED BY <3>1, <1>0
  <2>2. ASSUME NEW c \in Clients
        PROVE  /\ handler'[c] # "none" => peer'[c] \in Daemons
               /\ handler'[c] \in HandlerLive => main'[peer'[c]] \in Working
               /\ handler'[c] \in HandlerLive /\ fd'[c] # NoFd => fds'[peer'[c]][fd'[c]] = c
    BY <2>1 DEF ClientInv
  <2>3. QED BY <2>2 DEF ClientInv
<1>3. QueueInv' BY InvFrame
<1>4. FdInv' BY <1>0 DEF FdInv, ProcessInv
<1>5. InHandInv' BY <1>0 DEF InHandInv
<1>6. MutexInv' BY <1>0, <1>h, <1>n DEF MutexInv, ProcessInv
<1>7. CountInv'
  <2>1. running_threads[d] = 0 BY DEF ProcessInv
  <2>2. Cardinality(Handlers(d)) = 0 BY <1>n, FS_EmptySet
  <2>3. QED BY <1>0, <1>h, <2>1, <2>2 DEF CountInv
<1>8. QED BY <1>1, <1>2, <1>3, <1>4, <1>5, <1>6, <1>7

(***************************************************************************)
(* The main thread's steps, in the order of server.cpp.                    *)
(***************************************************************************)
MoveInv ==
  /\ ProcessInv /\ ClientInv /\ QueueInv /\ FdInv /\ InHandInv /\ MutexInv /\ CountInv

LEMMA IInvParts == TypeOK /\ MoveInv /\ QuitInv /\ StopInv <=> IInv
  BY DEF IInv, MoveInv

\* The poll loop: no step of it but TimeoutCheck writes quit_loop.
LEMMA IInvLoop ==
  ASSUME IInv, NEW d \in Daemons,
         Loop(d) \/ PollEnter(d) \/ PollReady(d) \/ PollTimeout(d)
  PROVE  IInv'
<1>0. main \in [Daemons -> MainLabels] BY DEF IInv, TypeOK, DaemonTypes
<1>1. TypeOK' BY TypeDaemon DEF IInv, DaemonStep
<1>2. PICK label \in Quiet : /\ Goto(d, label)
                             /\ label = "clean" => quit_loop[d]
                             /\ label # "loop" /\ label # "close"
                             /\ main[d] = "loop" => label = "poll" \/ quit_loop[d]
                             /\ label = "accept" => backlog[d] # <<>>
  BY DEF Loop, PollEnter, PollReady, PollTimeout, Quiet, Working, Serving, Stopping
<1>3. main[d] \in Quiet /\ main[d] \notin Stopping
  BY DEF Loop, PollEnter, PollReady, PollTimeout, Quiet, Working, Serving, Stopping
<1>4. UNCHANGED <<background, limit, exit_status, quit_loop, killed, socketVars, threadVars,
                  clientVars>>
  BY DEF Loop, PollEnter, PollReady, PollTimeout
<1>5. MoveInv' BY <1>2, <1>3, <1>4, QuietMove DEF MoveInv, socketVars
<1>6. \A e \in Daemons : Handlers(e)' = Handlers(e)
  BY <1>4, HandlersFrame DEF threadVars, clientVars
<1>7. QuitInv'
  <2>1. main[d] # "loop" => ~(quit_loop[d] /\ ~killed[d])
    BY <1>3 DEF IInv, QuitInv, Quiet, Working, Serving, Alive
  <2>2. main[d] = "loop" /\ quit_loop[d] => main'[d] = "clean"
    BY <1>0 DEF Loop, PollEnter, PollReady, PollTimeout, Goto
  <2>3. QED BY <1>0, <1>2, <1>3, <1>4, <1>6, <2>1, <2>2
            DEF IInv, QuitInv, Goto, Quiet, Working, Serving, Stopping, Alive
<1>8. StopInv'
  BY <1>0, <1>2, <1>3, <1>4
     DEF IInv, StopInv, Goto, Quiet, Working, Serving, Stopping, Startup, Failing
<1>9. QED BY <1>1, <1>5, <1>7, <1>8, IInvParts DEF IInv, MoveInv

\* quit_loop becomes TRUE only if the counter is 0, hence no thread is left.
LEMMA IInvTimeoutCheck ==
  ASSUME IInv, NEW d \in Daemons, TimeoutCheck(d)
  PROVE  IInv'
<1>0. main \in [Daemons -> MainLabels] /\ quit_loop \in [Daemons -> BOOLEAN]
  BY DEF IInv, TypeOK, DaemonTypes
<1>1. TypeOK' BY TypeDaemon DEF IInv, DaemonStep
<1>2. main[d] = "timeout" /\ Goto(d, "loop")
  BY DEF TimeoutCheck
<1>4. UNCHANGED <<background, limit, exit_status, killed, socketVars, threadVars, clientVars>>
      /\ quit_loop' = [quit_loop EXCEPT ![d] = (running_threads[d] = 0)]
  BY DEF TimeoutCheck
<1>5. MoveInv'
  BY <1>2, <1>4, QuietMove DEF MoveInv, socketVars, Quiet, Working, Serving, Stopping
<1>6. \A e \in Daemons : Handlers(e)' = Handlers(e)
  BY <1>4, HandlersFrame DEF threadVars, clientVars
<1>7. QuitInv'
  <2>1. running_threads[d] = 0 => Cardinality(Handlers(d)) = 0
    BY <1>2 DEF IInv, CountInv, Alive, Serving, TypeOK, ThreadTypes, Uint16
  <2>2. IsFiniteSet(Handlers(d))
    BY ConstantsAssumption, FS_Subset DEF Handlers
  <2>3. running_threads[d] = 0 => Handlers(d) = {}
    BY <2>1, <2>2, FS_EmptySet
  <2>4. QED BY <1>0, <1>2, <1>4, <1>6, <2>3 DEF IInv, QuitInv, Goto
<1>8. StopInv'
  BY <1>0, <1>2, <1>4 DEF IInv, StopInv, Goto, Stopping, Startup, Failing, Serving
<1>9. QED BY <1>1, <1>5, <1>7, <1>8, IInvParts DEF IInv, MoveInv

\* QuitInv and StopInv for the steps outside the loop: no daemon there decided to stop,
\* and none there is told an exit status.
LEMMA StartupStop ==
  ASSUME IInv, NEW d \in Daemons, main[d] \notin Working \cup {"dead"},
         NEW label \in Startup \cup Failing \cup {"loop"}, Goto(d, label),
         UNCHANGED <<quit_loop, killed, peer, handler>>,
         \/ exit_status' = exit_status
         \/ label = "loop" /\ \E s : exit_status' = [exit_status EXCEPT ![d] = s]
  PROVE  QuitInv' /\ StopInv'
<1>0. main \in [Daemons -> MainLabels]
      /\ exit_status \in [Daemons -> {"none", "ok", "failed", "signalled"}]
  BY DEF IInv, TypeOK, DaemonTypes
<1>1. \A e \in Daemons : Handlers(e)' = Handlers(e)
  BY HandlersFrame
<1>2. ~(quit_loop[d] /\ ~killed[d])
  BY <1>0 DEF IInv, QuitInv, StopInv, Alive, Working, MainLabels, Serving, Stopping
<1>3. Handlers(d) = {}
  BY NoHandlers
<1>4. QuitInv'
  BY <1>0, <1>1, <1>2, <1>3
     DEF IInv, QuitInv, Goto, Startup, Failing, Serving, Stopping, Alive
<1>5. StopInv'
  BY <1>0 DEF IInv, StopInv, Goto, Startup, Failing, Stopping, Serving, Working,
              MainLabels, Alive
<1>6. QED BY <1>4, <1>5

\* Remove, Bind, StartupError and the clean-up after an error.
LEMMA IInvStartup ==
  ASSUME IInv, NEW d \in Daemons,
         \/ Remove(d) \/ Bind(d) \/ StartupError(d)
         \/ Clean(d) /\ main[d] = "errclean"
  PROVE  IInv'
<1>1. TypeOK' BY TypeDaemon DEF IInv, DaemonStep, Fault
<1>2. PICK label \in Startup \cup Failing :
        /\ Goto(d, label)
        /\ label # "fork" /\ label # "remove"
        /\ label \in {"bind", "listen"} => main[d] \in {"remove", "bind"}
  BY DEF Remove, Bind, StartupError, Clean, Startup, Failing
<1>3. main[d] \in Startup \cup Failing
  BY DEF Remove, Bind, StartupError, Clean, Startup, Failing
<1>4. main[d] \notin Working \cup {"dead"}
  BY <1>3 DEF Startup, Failing, Working, Serving, Stopping
<1>5. UNCHANGED <<background, limit, exit_status, quit_loop, killed, listening, backlog,
                  data_socket, fds, threadVars, clientVars>>
  BY DEF Remove, Bind, StartupError, Clean, socketVars
<1>6. \A c \in Clients : client'[c] \in {"new", "wait", "probe", "connect"} => peer[c] = None
  BY <1>5 DEF clientVars, IInv, ClientInv
<1>7. MoveInv'
  <2>1. label # "loop" BY <1>2 DEF Startup, Failing
  <2>2. UNCHANGED <<backlog, data_socket, fds, threadVars, peer, listening>>
    BY <1>5 DEF clientVars
  <2>3. QED BY <1>2, <1>4, <1>6, <2>1, <2>2, StartupMove DEF MoveInv
<1>8. QuitInv' /\ StopInv'
  BY <1>2, <1>4, <1>5, StartupStop DEF threadVars, clientVars
<1>9. QED BY <1>1, <1>7, <1>8, IInvParts DEF IInv, MoveInv

LEMMA IInvListen ==
  ASSUME IInv, NEW d \in Daemons, Listen(d)
  PROVE  IInv'
<1>1. TypeOK' BY TypeDaemon DEF IInv, DaemonStep
<1>2. Goto(d, "fork") /\ main[d] = "listen" /\ "fork" \in Startup
  BY DEF Listen, Startup
<1>4. main[d] \notin Working \cup {"dead"}
  BY <1>2 DEF Working, Serving, Stopping
<1>5. UNCHANGED <<exit_status, quit_loop, killed, backlog, data_socket, fds, threadVars,
                  clientVars>>
      /\ listening' = [listening EXCEPT ![d] = TRUE]
  BY DEF Listen
<1>6. \A c \in Clients : client'[c] \in {"new", "wait", "probe", "connect"} => peer[c] = None
  BY <1>5 DEF clientVars, IInv, ClientInv
<1>7. MoveInv'
  BY <1>2, <1>4, <1>5, <1>6, StartupMove DEF MoveInv, clientVars
<1>8. QuitInv' /\ StopInv'
  BY <1>2, <1>4, <1>5, StartupStop DEF threadVars, clientVars
<1>9. QED BY <1>1, <1>7, <1>8, IInvParts DEF IInv, MoveInv

LEMMA IInvFork ==
  ASSUME IInv, NEW d \in Daemons, Fork(d)
  PROVE  IInv'
<1>1. TypeOK' BY TypeDaemon DEF IInv, DaemonStep
<1>2. Goto(d, "loop") /\ main[d] = "fork"
  BY DEF Fork
<1>4. main[d] \notin Working \cup {"dead"}
  BY <1>2 DEF Working, Serving, Stopping
<1>5. UNCHANGED <<quit_loop, killed, socketVars, threadVars, clientVars>>
      /\ \/ exit_status' = exit_status
         \/ exit_status' = [exit_status EXCEPT ![d] = "ok"]
  BY DEF Fork
<1>6. \A c \in Clients : client'[c] \in {"new", "wait", "probe", "connect"} => peer[c] = None
  BY <1>5 DEF clientVars, IInv, ClientInv
<1>7. MoveInv'
  BY <1>2, <1>4, <1>5, <1>6, StartupMove DEF MoveInv, socketVars, clientVars
<1>8. QuitInv' /\ StopInv'
  BY <1>2, <1>4, <1>5, StartupStop DEF threadVars, clientVars
<1>9. QED BY <1>1, <1>7, <1>8, IInvParts DEF IInv, MoveInv

\* start_daemon() by a program that has no connection, or whose user interface is open.
LEMMA IInvStartDaemon ==
  ASSUME IInv, NEW c \in Clients, NEW d \in Daemons, StartDaemon(c, d)
  PROVE  IInv'
<1>1. TypeOK' BY TypeClient DEF IInv, UserStep
<1>2. Goto(d, "remove") /\ main[d] = "off" /\ "remove" \in Startup
  BY DEF StartDaemon, Startup
<1>4. main[d] \notin Working \cup {"dead"}
  BY <1>2 DEF Working, Serving, Stopping
<1>5. UNCHANGED <<background, limit, exit_status, quit_loop, killed, socketVars, threadVars, peer>>
  BY DEF StartDaemon
<1>6. \A k \in Clients : client'[k] \in {"new", "wait", "probe", "connect"} => peer[k] = None
  BY DEF StartDaemon, MayLaunch, WaitLabel, ClientGoto, IInv, ClientInv, TypeOK, ClientTypes
<1>7. MoveInv'
  BY <1>2, <1>4, <1>5, <1>6, StartupMove DEF MoveInv, socketVars
<1>8. QuitInv' /\ StopInv'
  BY <1>2, <1>4, <1>5, StartupStop DEF threadVars
<1>9. QED BY <1>1, <1>7, <1>8, IInvParts DEF IInv, MoveInv

\* The end of the loop: the mutex is not taken and nothing is in hand.
LEMMA IInvClean ==
  ASSUME IInv, NEW d \in Daemons, Clean(d), main[d] = "clean"
  PROVE  IInv'
<1>0. main \in [Daemons -> MainLabels] BY DEF IInv, TypeOK, DaemonTypes
<1>1. TypeOK' BY TypeDaemon DEF IInv, DaemonStep
<1>2. Goto(d, "close")
  BY DEF Clean
<1>4. UNCHANGED <<background, limit, exit_status, quit_loop, killed, listening, backlog,
                  data_socket, fds, threadVars, clientVars>>
  BY DEF Clean
<1>5. MoveInv'
  BY <1>2, <1>4, QuietMove DEF MoveInv, Quiet, Working, Serving, Stopping
<1>6. \A e \in Daemons : Handlers(e)' = Handlers(e)
  BY <1>4, HandlersFrame DEF threadVars, clientVars
<1>7. QuitInv'
  BY <1>0, <1>2, <1>4, <1>6 DEF IInv, QuitInv, Goto, Stopping, Alive
<1>8. StopInv'
  BY <1>0, <1>2, <1>4 DEF IInv, StopInv, Goto, Stopping, Startup, Failing
<1>9. QED BY <1>1, <1>5, <1>7, <1>8, IInvParts DEF IInv, MoveInv

\* What the main thread may not have decided in the middle of the loop.
LEMMA ServingStop ==
  ASSUME IInv, NEW d \in Daemons, main[d] \in Serving \ {"loop"},
         NEW label \in Serving, Goto(d, label),
         UNCHANGED <<quit_loop, killed, exit_status>>,
         \A e \in Daemons \ {d} : Handlers(e)' = Handlers(e)
  PROVE  QuitInv' /\ StopInv'
<1>0. main' = [main EXCEPT ![d] = label] /\ main \in [Daemons -> MainLabels]
  BY DEF IInv, TypeOK, DaemonTypes, Goto
<1>1. ~(quit_loop[d] /\ ~killed[d])
  BY DEF IInv, QuitInv, Serving, Stopping, Alive
<1>2. QuitInv'
  BY <1>0, <1>1 DEF IInv, QuitInv
<1>3. StopInv'
  BY <1>0 DEF IInv, StopInv, Serving, Stopping, Startup, Failing
<1>4. QED BY <1>2, <1>3

LEMMA IInvAccept ==
  ASSUME IInv, NEW d \in Daemons, Accept(d)
  PROVE  IInv'
<1>0. TypeOK' BY TypeDaemon DEF IInv, DaemonStep
<1> DEFINE c == Head(backlog[d])
<1>1. PICK n \in Fds :
        /\ fds[d][n] = None
        /\ data_socket' = [data_socket EXCEPT ![d] = n]
        /\ fds' = [fds EXCEPT ![d][n] = c]
  BY DEF Accept
<1>2. /\ main[d] = "accept" /\ backlog[d] # <<>>
      /\ backlog' = [backlog EXCEPT ![d] = Tail(backlog[d])]
      /\ Goto(d, "lock") /\ main' = [main EXCEPT ![d] = "lock"]
      /\ UNCHANGED <<exit_status, quit_loop, killed, listening, mutex, running_threads,
                     handler, fd, client, peer>>
  BY DEF Accept, Goto, threadVars, clientVars
<1>3. /\ main \in [Daemons -> MainLabels] /\ backlog \in [Daemons -> Seq(Clients)]
      /\ fds \in [Daemons -> FdTable] /\ data_socket \in [Daemons -> Fds \cup {NoFd}]
      /\ peer \in [Clients -> Daemons \cup {None}]
  BY DEF IInv, TypeOK, DaemonTypes, SocketTypes, ClientTypes
<1>4. \A e \in Daemons : fds[e] \in [Fds -> Clients \cup {None}]
  BY <1>3 DEF FdTable
<1>5. /\ c \in Clients /\ c = backlog[d][1]
      /\ Len(backlog[d]) \in Nat \ {0} /\ Len(Tail(backlog[d])) = Len(backlog[d]) - 1
      /\ \A i \in 1..Len(Tail(backlog[d])) : Tail(backlog[d])[i] = backlog[d][i + 1]
  BY <1>2, <1>3
<1>6. /\ peer[c] = d /\ handler[c] = "none"
      /\ \A m \in Fds : fds[d][m] # c
      /\ \A i \in 1..Len(backlog[d]) : i # 1 => backlog[d][i] # c
  BY <1>5 DEF IInv, QueueInv
<1>7. /\ \A e \in Daemons \ {d} : fds'[e] = fds[e]
      /\ fds'[d][n] = c
      /\ \A m \in Fds \ {n} : fds'[d][m] = fds[d][m]
      /\ data_socket'[d] = n
      /\ \A e \in Daemons \ {d} : data_socket'[e] = data_socket[e]
  BY <1>1, <1>3, <1>4
<1>8. /\ main'[d] = "lock"
      /\ \A e \in Daemons \ {d} : main'[e] = main[e]
      /\ backlog'[d] = Tail(backlog[d])
      /\ \A e \in Daemons \ {d} : backlog'[e] = backlog[e]
  BY <1>2, <1>3
<1> HIDE DEF c
<1>9. \A e \in Daemons : Handlers(e)' = Handlers(e)
  BY <1>2, HandlersFrame
<1>10. None \notin Clients BY ConstantsAssumption
<1>11. ProcessInv'
  BY <1>2, <1>7, <1>8 DEF IInv, ProcessInv, Working, Serving, Stopping
<1>12. ClientInv'
  <2>1. ASSUME NEW k \in Clients, handler[k] \in HandlerLive, fd[k] # NoFd
        PROVE  fds'[peer[k]][fd[k]] = k
    <3>1. fds[peer[k]][fd[k]] = k /\ peer[k] \in Daemons /\ fd[k] \in Fds
      BY <2>1 DEF IInv, ClientInv, HandlerLive, TypeOK, ThreadTypes
    <3>2. QED BY <1>1, <1>7, <1>10, <3>1
  <2>2. QED BY <1>2, <1>8, <2>1 DEF IInv, ClientInv, Working, Serving, Stopping
<1>13. QueueInv'
  <2>1. ASSUME NEW i \in 1..Len(backlog'[d])
        PROVE  /\ i + 1 \in 1..Len(backlog[d]) /\ backlog'[d][i] = backlog[d][i + 1]
    BY <1>5, <1>8
  <2> DEFINE Good(e) == \A i \in 1..Len(backlog'[e]) :
                 /\ peer[backlog'[e][i]] = e /\ handler[backlog'[e][i]] = "none"
                 /\ \A m \in Fds : fds'[e][m] # backlog'[e][i]
                 /\ \A j \in 1..Len(backlog'[e]) : j # i => backlog'[e][j] # backlog'[e][i]
  <2>2. ASSUME NEW i \in 1..Len(backlog'[d])
        PROVE  /\ peer[backlog'[d][i]] = d /\ handler[backlog'[d][i]] = "none"
               /\ \A m \in Fds : fds'[d][m] # backlog'[d][i]
    <3>1. i + 1 # 1 /\ i + 1 \in 1..Len(backlog[d]) BY <2>1
    <3>2. QED BY <1>6, <1>7, <2>1, <3>1 DEF IInv, QueueInv
  <2>3. ASSUME NEW i \in 1..Len(backlog'[d]), NEW j \in 1..Len(backlog'[d]), j # i
        PROVE  backlog'[d][j] # backlog'[d][i]
    <3>1. j + 1 # i + 1 BY <2>3
    <3>2. QED BY <2>1, <2>3, <3>1 DEF IInv, QueueInv
  <2>4. Good(d) BY <2>2, <2>3
  <2>5. ASSUME NEW e \in Daemons \ {d} PROVE Good(e)
    BY <1>7, <1>8 DEF IInv, QueueInv
  <2> HIDE DEF Good
  <2>6. \A e \in Daemons : Good(e) BY <2>4, <2>5
  <2>7. peer' = peer /\ handler' = handler BY <1>2
  <2>8. ASSUME NEW e \in Daemons, NEW i \in 1..Len(backlog'[e])
        PROVE  /\ peer'[backlog'[e][i]] = e
               /\ handler'[backlog'[e][i]] = "none"
               /\ \A m \in Fds : fds'[e][m] # backlog'[e][i]
               /\ \A j \in 1..Len(backlog'[e]) : j # i => backlog'[e][j] # backlog'[e][i]
    <3>1. Good(e) BY <2>6
    <3>2. QED BY <3>1, <2>7 DEF Good
  <2>9. QED BY <2>8 DEF QueueInv
<1>14. FdInv'
  BY <1>2, <1>6, <1>7, <1>8 DEF IInv, FdInv
<1>15. InHandInv'
  BY <1>2, <1>5, <1>6, <1>7, <1>8, <1>10 DEF IInv, InHandInv
<1>16. MutexInv'
  BY <1>2, <1>8, <1>9 DEF IInv, MutexInv
<1>17. CountInv'
  BY <1>2, <1>8, <1>9 DEF IInv, CountInv, Alive, Serving
<1>18. QuitInv' /\ StopInv'
  BY <1>2, <1>9, ServingStop DEF Serving
<1>19. QED
  BY <1>0, <1>11, <1>12, <1>13, <1>14, <1>15, <1>16, <1>17, <1>18 DEF IInv

LEMMA IInvAcceptFails ==
  ASSUME IInv, NEW d \in Daemons, AcceptFails(d)
  PROVE  IInv'
<1>1. TypeOK' BY TypeDaemon DEF IInv, DaemonStep
<1>2. Goto(d, "loop") /\ main[d] = "accept"
  BY DEF AcceptFails
<1>3. UNCHANGED <<exit_status, quit_loop, killed, listening, backlog, fds, threadVars,
                  clientVars>>
  BY DEF AcceptFails
<1>4. \A e \in Daemons \ {d} : data_socket'[e] = data_socket[e]
  BY DEF AcceptFails, IInv, TypeOK, SocketTypes
<1>5. MoveInv'
  BY <1>2, <1>3, <1>4, QuietMove DEF MoveInv, Quiet, Working, Serving, Stopping
<1>6. QuitInv' /\ StopInv'
  BY <1>2, <1>3, HandlersFrame, ServingStop DEF Serving, threadVars, clientVars
<1>7. QED BY <1>1, <1>5, <1>6, IInvParts DEF IInv, MoveInv

\* No thread is in its cleanup when the main thread gets the mutex.
LEMMA IInvLockThreads ==
  ASSUME IInv, NEW d \in Daemons, LockThreads(d)
  PROVE  IInv'
<1>0. TypeOK' BY TypeDaemon DEF IInv, DaemonStep
<1>1. /\ main[d] = "lock" /\ ~mutex[d] /\ Goto(d, "spawn")
      /\ UNCHANGED <<exit_status, quit_loop, killed, path, listening, backlog, data_socket,
                     fds, running_threads, handler, fd, client, peer>>
  BY DEF LockThreads, socketVars, clientVars
<1>2. /\ main'[d] = "spawn" /\ mutex'[d]
      /\ \A e \in Daemons \ {d} : main'[e] = main[e] /\ mutex'[e] = mutex[e]
  BY <1>1 DEF LockThreads, Goto, IInv, TypeOK, DaemonTypes, ThreadTypes
<1>3. \A e \in Daemons : Handlers(e)' = Handlers(e)
  BY <1>1, HandlersFrame
<1>4. ProcessInv'
  BY <1>1, <1>2 DEF IInv, ProcessInv, Working, Serving, Stopping
<1>5. ClientInv'
  <2>1. \A e \in Daemons : main[e] \in Working => main'[e] \in Working
    BY <1>2 DEF Working, Serving
  <2>2. QED BY <1>1, <2>1 DEF IInv, ClientInv, HandlerLive
<1>6. QueueInv' BY <1>1, InvFrame
<1>7. FdInv' BY <1>1, <1>2 DEF IInv, FdInv
<1>8. InHandInv' BY <1>1, <1>2 DEF IInv, InHandInv
<1>9. MutexInv' BY <1>1, <1>2, <1>3 DEF IInv, MutexInv
<1>10. CountInv' BY <1>1, <1>2, <1>3 DEF IInv, CountInv, Alive, Serving
<1>11. QuitInv' /\ StopInv' BY <1>1, <1>3, ServingStop DEF Serving
<1>12. QED
  BY <1>0, <1>4, <1>5, <1>6, <1>7, <1>8, <1>9, <1>10, <1>11 DEF IInv

\* The thread in hand gets the descriptor in hand: one more handler, not yet counted.
LEMMA IInvSpawn ==
  ASSUME IInv, NEW d \in Daemons, Spawn(d)
  PROVE  IInv'
<1>0. TypeOK' BY TypeDaemon DEF IInv, DaemonStep
<1> DEFINE c == fds[d][data_socket[d]]
           n == data_socket[d]
<1>1. /\ main[d] = "spawn" /\ Goto(d, "count")
      /\ handler' = [handler EXCEPT ![c] = "read"]
      /\ fd' = [fd EXCEPT ![c] = n]
      /\ UNCHANGED <<exit_status, quit_loop, killed, listening, backlog, data_socket,
                     fds, mutex, running_threads, client, peer>>
  BY DEF Spawn, socketVars, clientVars
<1>2. /\ n \in Fds /\ c # None /\ handler[c] = "none" /\ fds[d][n] = c
  BY <1>1 DEF IInv, InHandInv
<1>3. c \in Clients /\ peer[c] = d
  <2>1. fds[d] \in [Fds -> Clients \cup {None}]
    BY DEF IInv, TypeOK, SocketTypes, FdTable
  <2>2. QED BY <1>2, <2>1 DEF IInv, FdInv
<1>4. /\ main'[d] = "count"
      /\ \A e \in Daemons \ {d} : main'[e] = main[e]
      /\ handler'[c] = "read" /\ fd'[c] = n
      /\ \A k \in Clients \ {c} : handler'[k] = handler[k] /\ fd'[k] = fd[k]
  BY <1>1, <1>3 DEF Goto, IInv, TypeOK, DaemonTypes, ThreadTypes
<1> HIDE DEF c, n
<1>5. /\ Handlers(d)' = Handlers(d) \cup {c} /\ c \notin Handlers(d)
      /\ \A e \in Daemons \ {d} : Handlers(e)' = Handlers(e)
  BY <1>1, <1>2, <1>3, <1>4 DEF Handlers, HandlerLive
<1>6. ProcessInv'
  BY <1>1, <1>4 DEF IInv, ProcessInv, Working, Serving, Stopping
<1>7. ClientInv'
  BY <1>1, <1>2, <1>3, <1>4 DEF IInv, ClientInv, Working, Serving, Stopping, HandlerLive
<1>8. QueueInv'
  <2>1. \A e \in Daemons : \A i \in 1..Len(backlog[e]) : backlog[e][i] # c
    BY <1>2, <1>3 DEF IInv, QueueInv
  <2>2. \A e \in Daemons : \A i \in 1..Len(backlog[e]) : backlog[e][i] \in Clients
    BY DEF IInv, TypeOK, SocketTypes
  <2>3. \A e \in Daemons : \A i \in 1..Len(backlog[e]) :
            handler'[backlog[e][i]] = handler[backlog[e][i]]
    BY <1>4, <2>1, <2>2
  <2>4. QED BY <1>1, <2>3 DEF IInv, QueueInv
<1>9. FdInv'
  <2>1. ASSUME NEW e \in Daemons, NEW m \in Fds, fds[e][m] # None, fds[e][m] # c
        PROVE  /\ peer[fds[e][m]] = e
               /\ \/ main'[e] \in {"lock", "spawn"} /\ data_socket[e] = m
                     /\ handler'[fds[e][m]] = "none"
                  \/ handler'[fds[e][m]] \in HandlerLive /\ fd'[fds[e][m]] = m
    <3>1. fds[e][m] \in Clients
      BY <2>1 DEF IInv, TypeOK, SocketTypes, FdTable
    <3>2. ~(e = d /\ m = n) BY <1>2, <2>1
    <3>3. QED BY <1>4, <2>1, <3>1, <3>2 DEF IInv, FdInv, n
  <2>2. ASSUME NEW e \in Daemons, NEW m \in Fds, fds[e][m] = c
        PROVE  e = d /\ m = n
    <3>1. e = d BY <1>2, <1>3, <2>2 DEF IInv, FdInv
    <3>2. QED BY <1>2, <2>2, <3>1 DEF IInv, FdInv, HandlerLive, n
  <2>3. QED BY <1>1, <1>3, <1>4, <2>1, <2>2 DEF FdInv, HandlerLive
<1>10. InHandInv'
  <2>1. ASSUME NEW e \in Daemons \ {d}, main[e] \in {"lock", "spawn"}
        PROVE  fds[e][data_socket[e]] # c /\ fds[e][data_socket[e]] \in Clients
    <3>1. data_socket[e] \in Fds /\ fds[e][data_socket[e]] # None
      BY <2>1 DEF IInv, InHandInv
    <3>2. peer[fds[e][data_socket[e]]] = e BY <3>1 DEF IInv, FdInv
    <3>3. QED BY <1>3, <3>1, <3>2 DEF IInv, TypeOK, SocketTypes, FdTable
  <2>2. QED BY <1>1, <1>4, <2>1 DEF IInv, InHandInv
<1>11. MutexInv'
  <2>1. mutex[d] /\ \A k \in Handlers(d) : handler[k] # "cleanup"
    BY <1>1 DEF IInv, MutexInv
  <2>2. \A e \in Daemons : Handlers(e) \subseteq Clients
    BY DEF Handlers
  <2>3. \A k \in Handlers(d)' : handler'[k] # "cleanup"
    BY <1>4, <1>5, <2>1, <2>2
  <2>4. \A e \in Daemons \ {d} : \A k \in Handlers(e) : handler'[k] = handler[k]
    BY <1>3, <1>4 DEF Handlers
  <2>5. QED BY <1>1, <1>4, <1>5, <2>1, <2>3, <2>4 DEF IInv, MutexInv
<1>12. CountInv'
  <2>1. IsFiniteSet(Handlers(d)) BY ConstantsAssumption, FS_Subset DEF Handlers
  <2>2. Cardinality(Handlers(d)') = Cardinality(Handlers(d)) + 1
    BY <1>5, <2>1, FS_AddElement
  <2>3. running_threads[d] \in Nat BY DEF IInv, TypeOK, ThreadTypes, Uint16
  <2>4. running_threads[d] = Cardinality(Handlers(d))
    BY <1>1, <2>3 DEF IInv, CountInv, Alive, Serving
  <2>5. running_threads'[d] + (IF main'[d] = "count" THEN 1 ELSE 0) = Cardinality(Handlers(d)')
    BY <1>1, <1>4, <2>2, <2>3, <2>4
  <2>6. \A e \in Daemons \ {d} : main'[e] \in Alive =>
            running_threads'[e] + (IF main'[e] = "count" THEN 1 ELSE 0)
                = Cardinality(Handlers(e)')
    BY <1>1, <1>4, <1>5 DEF IInv, CountInv
  <2>7. QED BY <2>5, <2>6 DEF CountInv
<1>13. QuitInv' /\ StopInv'
  BY <1>1, <1>5, ServingStop DEF Serving
<1>14. QED
  BY <1>0, <1>6, <1>7, <1>8, <1>9, <1>10, <1>11, <1>12, <1>13 DEF IInv

\* There are fewer threads than a uint16_t can count.
LEMMA FewHandlers ==
  ASSUME NEW d \in Daemons
  PROVE  /\ IsFiniteSet(Handlers(d))
         /\ Cardinality(Handlers(d)) \in Nat
         /\ Cardinality(Handlers(d)) < 65536
<1>1. Handlers(d) \subseteq Clients BY DEF Handlers
<1>2. IsFiniteSet(Clients) BY ConstantsAssumption
<1>3. IsFiniteSet(Handlers(d)) /\ Cardinality(Handlers(d)) <= Cardinality(Clients)
  BY <1>1, <1>2, FS_Subset
<1>4. Cardinality(Handlers(d)) \in Nat /\ Cardinality(Clients) \in Nat
  BY <1>2, <1>3, FS_CardinalityType
<1>5. QED BY <1>3, <1>4, WidthAssumption

LEMMA IInvCount ==
  ASSUME IInv, NEW d \in Daemons, Count(d)
  PROVE  IInv'
<1>0. TypeOK' BY TypeDaemon DEF IInv, DaemonStep
<1>1. /\ main[d] = "count" /\ Goto(d, "loop")
      /\ running_threads' = [running_threads EXCEPT ![d] = (running_threads[d] + 1) % 65536]
      /\ UNCHANGED <<exit_status, quit_loop, killed, listening, backlog, data_socket,
                     fds, handler, fd, client, peer>>
  BY DEF Count, Increment, socketVars, clientVars
<1>2. running_threads[d] \in Nat BY DEF IInv, TypeOK, ThreadTypes, Uint16
<1>3. running_threads[d] + 1 = Cardinality(Handlers(d))
  BY <1>1, <1>2 DEF IInv, CountInv, Alive, Serving
<1>4. (running_threads[d] + 1) % 65536 = running_threads[d] + 1
  BY <1>2, <1>3, FewHandlers
<1>5. /\ main'[d] = "loop" /\ ~mutex'[d] /\ running_threads'[d] = Cardinality(Handlers(d))
      /\ \A e \in Daemons \ {d} : /\ main'[e] = main[e] /\ mutex'[e] = mutex[e]
                                  /\ running_threads'[e] = running_threads[e]
  BY <1>1, <1>3, <1>4 DEF Count, Unlock, Goto, IInv, TypeOK, DaemonTypes, ThreadTypes
<1>6. \A e \in Daemons : Handlers(e)' = Handlers(e)
  BY <1>1, HandlersFrame
<1>7. \A e \in Daemons : main[e] \in Working => main'[e] \in Working
  BY <1>5 DEF Working, Serving
<1>8. ProcessInv'
  BY <1>1, <1>5 DEF IInv, ProcessInv, Working, Serving, Stopping
<1>9. ClientInv' BY <1>1, <1>7 DEF IInv, ClientInv, HandlerLive
<1>10. QueueInv' BY <1>1, InvFrame
<1>11. FdInv' BY <1>1, <1>5 DEF IInv, FdInv
<1>12. InHandInv' BY <1>1, <1>5 DEF IInv, InHandInv
<1>13. MutexInv' BY <1>1, <1>5, <1>6 DEF IInv, MutexInv
<1>14. CountInv'
  BY <1>1, <1>3, <1>2, <1>5, <1>6 DEF IInv, CountInv
<1>15. QuitInv' /\ StopInv' BY <1>1, <1>6, ServingStop DEF Serving
<1>16. QED
  BY <1>0, <1>8, <1>9, <1>10, <1>11, <1>12, <1>13, <1>14, <1>15 DEF IInv

\* The end of a process: nothing of it is left, and nothing of the others changes.
LEMMA DieMove ==
  ASSUME IInv, NEW d \in Daemons, Die(d), UNCHANGED <<running_threads, fd, client, peer>>
  PROVE  MoveInv' /\ main'[d] = "dead" /\ \A e \in Daemons \ {d} :
            main'[e] = main[e] /\ Handlers(e)' = Handlers(e)
<1>1. /\ main'[d] = "dead" /\ ~listening'[d] /\ backlog'[d] = <<>> /\ ~mutex'[d]
      /\ \A n \in Fds : fds'[d][n] = None
      /\ \A e \in Daemons \ {d} :
            /\ main'[e] = main[e] /\ listening'[e] = listening[e]
            /\ backlog'[e] = backlog[e] /\ mutex'[e] = mutex[e] /\ fds'[e] = fds[e]
            /\ data_socket'[e] = data_socket[e]
  BY DEF Die, Goto, IInv, TypeOK, DaemonTypes, SocketTypes, ThreadTypes
<1>2. /\ \A c \in Clients : handler'[c] = IF c \in Handlers(d) THEN "dead" ELSE handler[c]
      /\ UNCHANGED <<running_threads, fd, client, peer>>
  BY DEF Die
<1>3. \A c \in Clients : handler'[c] # handler[c] =>
          peer[c] = d /\ handler[c] \in HandlerLive /\ handler'[c] = "dead"
  BY <1>2 DEF Handlers
<1>4. \A e \in Daemons \ {d} : Handlers(e)' = Handlers(e)
  BY <1>2, <1>3 DEF Handlers
<1>5. \A c \in Clients : peer[c] = d => handler'[c] \notin HandlerLive
  BY <1>2 DEF Handlers, HandlerLive
<1>6. ProcessInv'
  BY <1>1, <1>2 DEF IInv, ProcessInv, Working, Serving, Stopping
<1>7. ClientInv'
  <2>1. ASSUME NEW c \in Clients, handler'[c] \in HandlerLive
        PROVE  peer[c] \in Daemons \ {d} /\ handler'[c] = handler[c]
    BY <1>3, <1>5, <2>1 DEF IInv, ClientInv, HandlerLive
  <2>2. \A c \in Clients : handler'[c] # "none" => handler[c] # "none"
    BY <1>3 DEF HandlerLive
  <2>3. QED BY <1>1, <1>2, <2>1, <2>2 DEF IInv, ClientInv
<1>8. QueueInv'
  <2>1. ASSUME NEW e \in Daemons \ {d}, NEW i \in 1..Len(backlog[e])
        PROVE  handler'[backlog[e][i]] = "none"
    <3>1. handler[backlog[e][i]] = "none" /\ backlog[e][i] \in Clients
      BY <2>1 DEF IInv, QueueInv, TypeOK, SocketTypes
    <3>2. QED BY <1>3, <3>1 DEF HandlerLive
  <2>2. ASSUME NEW e \in Daemons \ {d}, NEW i \in 1..Len(backlog'[e])
        PROVE  /\ peer'[backlog'[e][i]] = e /\ handler'[backlog'[e][i]] = "none"
               /\ \A m \in Fds : fds'[e][m] # backlog'[e][i]
               /\ \A j \in 1..Len(backlog'[e]) : j # i => backlog'[e][j] # backlog'[e][i]
    BY <1>1, <1>2, <2>1 DEF IInv, QueueInv
  <2>3. 1..Len(backlog'[d]) = {}
    BY <1>1
  <2>4. QED BY <2>2, <2>3 DEF QueueInv
<1>9. FdInv'
  <2>1. ASSUME NEW e \in Daemons \ {d}, NEW m \in Fds, fds[e][m] # None
        PROVE  peer[fds[e][m]] = e /\ handler'[fds[e][m]] = handler[fds[e][m]]
    <3>1. fds[e][m] \in Clients /\ peer[fds[e][m]] = e
      BY <2>1 DEF IInv, FdInv, TypeOK, SocketTypes, FdTable
    <3>2. QED BY <1>3, <3>1
  <2>2. QED BY <1>1, <1>2, <2>1 DEF IInv, FdInv
<1>10. InHandInv'
  <2>1. ASSUME NEW e \in Daemons \ {d}, main[e] \in {"lock", "spawn"}
        PROVE  handler'[fds[e][data_socket[e]]] = handler[fds[e][data_socket[e]]]
    <3>1. data_socket[e] \in Fds /\ fds[e][data_socket[e]] # None
      BY <2>1 DEF IInv, InHandInv
    <3>2. fds[e][data_socket[e]] \in Clients /\ peer[fds[e][data_socket[e]]] = e
      BY <3>1 DEF IInv, FdInv, TypeOK, SocketTypes, FdTable
    <3>3. QED BY <1>3, <3>2
  <2>2. QED BY <1>1, <2>1 DEF IInv, InHandInv
<1>11. MutexInv'
  <2>1. \A e \in Daemons \ {d} : \A k \in Handlers(e) : handler'[k] = handler[k]
    BY <1>3 DEF Handlers
  <2>2. Handlers(d)' = {}
    BY <1>2, <1>5 DEF Handlers
  <2>3. QED BY <1>1, <1>4, <2>1, <2>2 DEF IInv, MutexInv
<1>12. CountInv'
  BY <1>1, <1>2, <1>4 DEF IInv, CountInv, Alive, Startup, Serving, Stopping, Failing
<1>13. QED BY <1>1, <1>4, <1>6, <1>7, <1>8, <1>9, <1>10, <1>11, <1>12 DEF MoveInv

LEMMA IInvDie ==
  ASSUME IInv, NEW d \in Daemons, Close(d) \/ Crash(d)
  PROVE  IInv'
<1>0. main \in [Daemons -> MainLabels] /\ killed \in [Daemons -> BOOLEAN]
      /\ exit_status \in [Daemons -> {"none", "ok", "failed", "signalled"}]
  BY DEF IInv, TypeOK, DaemonTypes
<1>1. TypeOK' BY TypeDaemon DEF IInv, DaemonStep, Fault
<1>2. Die(d) /\ UNCHANGED <<running_threads, fd, client, peer, quit_loop>>
  BY DEF Close, Crash, clientVars
<1>3. MoveInv' /\ main'[d] = "dead" /\ \A e \in Daemons \ {d} :
            main'[e] = main[e] /\ Handlers(e)' = Handlers(e)
  BY <1>2, DieMove
<1>4. \A e \in Daemons \ {d} : killed'[e] = killed[e] /\ exit_status'[e] = exit_status[e]
  BY <1>0 DEF Close, Crash
<1>5. exit_status'[d] # "none"
  BY <1>0 DEF Close, Crash
<1>6. QuitInv'
  BY <1>2, <1>3, <1>4 DEF IInv, QuitInv, Alive, Startup, Serving, Stopping, Failing
<1>7. StopInv'
  BY <1>2, <1>3, <1>4, <1>5 DEF IInv, StopInv, Startup, Stopping, Failing
<1>8. QED BY <1>1, <1>3, <1>6, <1>7, IInvParts DEF IInv, MoveInv

\* sighandler(): a stop that no test of the counter preceded; a poll() in progress ends.
LEMMA IInvSignal ==
  ASSUME IInv, NEW d \in Daemons, Signal(d)
  PROVE  IInv'
<1>0. main \in [Daemons -> MainLabels] /\ killed \in [Daemons -> BOOLEAN]
      /\ quit_loop \in [Daemons -> BOOLEAN]
  BY DEF IInv, TypeOK, DaemonTypes
<1>1. TypeOK' BY TypeDaemon DEF IInv, Fault
<1>2. UNCHANGED <<background, limit, exit_status, socketVars, threadVars, clientVars>>
  BY DEF Signal
<1>3. /\ main[d] \in Alive /\ killed'[d] /\ quit_loop'[d]
      /\ \A e \in Daemons \ {d} : killed'[e] = killed[e] /\ quit_loop'[e] = quit_loop[e]
      /\ (Goto(d, "loop") /\ main[d] = "blocked") \/ UNCHANGED main
  BY <1>0 DEF Signal
<1>4. \A e \in Daemons : Handlers(e)' = Handlers(e)
  BY <1>2, HandlersFrame DEF threadVars, clientVars
<1>5. MoveInv'
  <2>1. CASE UNCHANGED main
    BY <1>2, <2>1, InvFrame DEF MoveInv, socketVars, threadVars, clientVars
  <2>2. CASE Goto(d, "loop") /\ main[d] = "blocked"
    BY <1>2, <2>2, QuietMove DEF MoveInv, socketVars, Quiet, Working, Serving, Stopping
  <2>3. QED BY <1>3, <2>1, <2>2
<1>6. \A e \in Daemons \ {d} : main'[e] = main[e]
  BY <1>0, <1>3 DEF Goto
<1>7. /\ main'[d] \in Stopping \/ main'[d] \in Startup \cup Failing \cup {"off"}
            \/ main'[d] = "dead" => main'[d] = main[d]
      /\ main'[d] # "off"
  BY <1>0, <1>3 DEF Goto, Alive, Startup, Serving, Stopping, Failing
<1>8. QuitInv' BY <1>3, <1>4, <1>6 DEF IInv, QuitInv
<1>9. StopInv' BY <1>2, <1>3, <1>6, <1>7 DEF IInv, StopInv
<1>10. QED BY <1>1, <1>5, <1>8, <1>9, IInvParts DEF IInv, MoveInv

(***************************************************************************)
(* The steps of the handler threads and of the clients.                    *)
(***************************************************************************)
LEMMA MainFrame ==
  ASSUME IInv, UNCHANGED <<main, quit_loop, killed, exit_status>>,
         \A d \in Daemons : Handlers(d)' \subseteq Handlers(d)
  PROVE  QuitInv' /\ StopInv'
<1>1. QuitInv' BY DEF IInv, QuitInv
<1>2. StopInv' BY InvFrame
<1>3. QED BY <1>1, <1>2

\* A live thread's number is that of its own connection, so AtFd resolves to it.
LEMMA OwnConnection ==
  ASSUME IInv, NEW c \in Clients, handler[c] \in HandlerLive
  PROVE  /\ peer[c] \in Daemons /\ main[peer[c]] \in Working /\ c \in Handlers(peer[c])
         /\ fd[c] \in Fds \cup {NoFd}
         /\ fd[c] # NoFd => fds[peer[c]][fd[c]] = c
         /\ \A n \in Fds : fds[peer[c]][n] = c => fd[c] = n /\ n # NoFd
<1>1. handler[c] # "none" BY DEF HandlerLive
<1>2. peer[c] \in Daemons /\ main[peer[c]] \in Working /\ c \in Handlers(peer[c])
  BY <1>1 DEF IInv, ClientInv, Handlers
<1>3. fd[c] \in Fds \cup {NoFd} BY DEF IInv, TypeOK, ThreadTypes
<1>4. fd[c] # NoFd => fds[peer[c]][fd[c]] = c BY DEF IInv, ClientInv
<1>5. ASSUME NEW n \in Fds, fds[peer[c]][n] = c
      PROVE  fd[c] = n /\ n # NoFd
  <2>1. c # None BY ConstantsAssumption
  <2>2. fd[c] = n BY <1>1, <1>2, <1>5, <2>1 DEF IInv, FdInv
  <2>3. n # NoFd BY FdsAssumption DEF NoFd
  <2>4. QED BY <2>2, <2>3
<1>6. QED BY <1>2, <1>3, <1>4, <1>5

\* A thread that moves between live labels and neither takes the mutex nor touches fds.
LEMMA HandlerMove ==
  ASSUME IInv, NEW c \in Clients, handler[c] \in HandlerLive \ {"cleanup"},
         NEW label \in HandlerLive \ {"cleanup"}, HandlerGoto(c, label),
         UNCHANGED <<daemonVars, socketVars, mutex, running_threads, fd, client, peer>>
  PROVE  MoveInv' /\ QuitInv' /\ StopInv'
<1>1. /\ handler'[c] = label
      /\ \A k \in Clients \ {c} : handler'[k] = handler[k]
  BY DEF HandlerGoto, IInv, TypeOK, ThreadTypes
<1>2. UNCHANGED <<main, quit_loop, killed, exit_status, listening, backlog, data_socket,
                  fds, mutex, running_threads, fd, client, peer>>
  BY DEF daemonVars, socketVars
<1>3. handler[c] # "none" /\ label # "none" BY DEF HandlerLive
<1>4. \A d \in Daemons : Handlers(d)' = Handlers(d)
  BY <1>1, <1>2 DEF Handlers
<1>5. ProcessInv' BY <1>2, InvFrame
<1>6. ClientInv' BY <1>1, <1>2, <1>3, OwnConnection DEF IInv, ClientInv
<1>7. \A k \in Clients : handler[k] = "none" <=> handler'[k] = "none"
  BY <1>1, <1>3
<1>8. QueueInv'
  <2>1. \A e \in Daemons : \A i \in 1..Len(backlog[e]) : backlog[e][i] \in Clients
    BY DEF IInv, TypeOK, SocketTypes
  <2>2. QED BY <1>2, <1>7, <2>1 DEF IInv, QueueInv
<1>9. \A d \in Daemons : \A n \in Fds : fds[d][n] # None => fds[d][n] \in Clients
  BY DEF IInv, TypeOK, SocketTypes, FdTable
<1>10. FdInv' BY <1>1, <1>2, <1>3, <1>7, <1>9 DEF IInv, FdInv
<1>11. InHandInv' BY <1>2, <1>7, <1>9 DEF IInv, InHandInv
<1>12. MutexInv'
  <2>1. \A k \in Clients : handler[k] = "cleanup" <=> handler'[k] = "cleanup"
    BY <1>1
  <2>2. \A d \in Daemons : Handlers(d) \subseteq Clients BY DEF Handlers
  <2>3. QED BY <1>2, <1>4, <2>1, <2>2 DEF IInv, MutexInv
<1>13. CountInv' BY <1>2, <1>4 DEF IInv, CountInv
<1>14. QuitInv' /\ StopInv' BY <1>2, <1>4, MainFrame
<1>15. QED
  BY <1>5, <1>6, <1>8, <1>10, <1>11, <1>12, <1>13, <1>14 DEF MoveInv

LEMMA IInvHandlerRead ==
  ASSUME IInv, NEW c \in Clients, HandlerRead(c)
  PROVE  IInv'
<1>1. TypeOK' BY TypeClient DEF IInv, HandlerStep
<1>2. /\ handler[c] \in HandlerLive \ {"cleanup"}
      /\ \E label \in HandlerLive \ {"cleanup"} : HandlerGoto(c, label)
      /\ UNCHANGED <<daemonVars, socketVars, mutex, running_threads, fd, client, peer>>
  BY DEF HandlerRead, HandlerLive
<1>3. MoveInv' /\ QuitInv' /\ StopInv' BY <1>2, HandlerMove
<1>4. QED BY <1>1, <1>3, IInvParts DEF IInv, MoveInv

\* close(fd) by a live thread closes its own connection and no other.
LEMMA CloseOwn ==
  ASSUME IInv, NEW c \in Clients, handler[c] \in HandlerLive, CloseFd(c)
  PROVE  \A e \in Daemons, m \in Fds :
            fds'[e][m] = IF fds[e][m] = c THEN None ELSE fds[e][m]
<1>1. /\ peer[c] \in Daemons /\ fd[c] \in Fds \cup {NoFd}
      /\ fd[c] # NoFd => fds[peer[c]][fd[c]] = c
      /\ \A n \in Fds : fds[peer[c]][n] = c => fd[c] = n /\ n # NoFd
  BY OwnConnection
<1>2. \A e \in Daemons, m \in Fds : fds[e][m] = c => e = peer[c]
  BY ConstantsAssumption DEF IInv, FdInv
<1>3. fds \in [Daemons -> FdTable] BY DEF IInv, TypeOK, SocketTypes
<1>4. CASE fd[c] = NoFd
  BY <1>1, <1>2, <1>4 DEF CloseFd
<1>5. CASE fd[c] # NoFd
  <2>1. fds' = [fds EXCEPT ![peer[c]] = [fds[peer[c]] EXCEPT ![fd[c]] = None]]
    BY <1>5 DEF CloseFd
  <2>2. fds[peer[c]] \in [Fds -> Clients \cup {None}]
    BY <1>1, <1>3 DEF FdTable
  <2>3. /\ \A e \in Daemons \ {peer[c]} : fds'[e] = fds[e]
        /\ fds'[peer[c]] = [fds[peer[c]] EXCEPT ![fd[c]] = None]
    BY <1>1, <1>3, <2>1
  <2>4. /\ \A m \in Fds \ {fd[c]} : fds'[peer[c]][m] = fds[peer[c]][m]
        /\ fds'[peer[c]][fd[c]] = None
    BY <1>1, <1>5, <2>2, <2>3
  <2>5. QED BY <1>1, <1>2, <1>5, <2>3, <2>4
<1>6. QED BY <1>4, <1>5

LEMMA IInvHandlerReply ==
  ASSUME IInv, NEW c \in Clients, HandlerReply(c)
  PROVE  IInv'
<1>0. TypeOK' BY TypeClient DEF IInv, HandlerStep
<1>1. /\ handler[c] = "serve" /\ HandlerGoto(c, "read")
      /\ UNCHANGED <<daemonVars, path, listening, backlog, data_socket, mutex,
                     running_threads, client, peer>>
      /\ UNCHANGED <<fds, fd>> \/ CloseAndForget(c)
  BY DEF HandlerReply
<1>2. handler[c] \in HandlerLive \ {"cleanup"} /\ "read" \in HandlerLive \ {"cleanup"}
  BY <1>1 DEF HandlerLive
<1>3. CASE UNCHANGED <<fds, fd>>
  <2>1. UNCHANGED socketVars BY <1>1, <1>3 DEF socketVars
  <2>2. MoveInv' /\ QuitInv' /\ StopInv' BY <1>1, <1>2, <1>3, <2>1, HandlerMove
  <2>3. QED BY <1>0, <2>2, IInvParts DEF IInv, MoveInv
<1>4. CASE CloseAndForget(c)
  <2>1. /\ \A e \in Daemons, m \in Fds :
              fds'[e][m] = IF fds[e][m] = c THEN None ELSE fds[e][m]
        /\ fd' = [fd EXCEPT ![c] = NoFd]
    BY <1>2, <1>4, CloseOwn DEF CloseAndForget
  <2>2. UNCHANGED <<main, quit_loop, killed, exit_status, listening, backlog, data_socket,
                    mutex, running_threads, client, peer>>
    BY <1>1 DEF daemonVars
  <2>3. /\ handler'[c] = "read" /\ fd'[c] = NoFd
        /\ \A k \in Clients \ {c} : handler'[k] = handler[k] /\ fd'[k] = fd[k]
    BY <1>1, <2>1 DEF HandlerGoto, IInv, TypeOK, ThreadTypes
  <2>4. \A d \in Daemons : Handlers(d)' = Handlers(d)
    BY <1>2, <2>2, <2>3 DEF Handlers
  <2>5. None \notin Clients BY ConstantsAssumption
  <2>6. \A d \in Daemons, n \in Fds :
            /\ fds[d][n] # None => fds[d][n] \in Clients
            /\ fds'[d][n] # None => fds'[d][n] = fds[d][n] /\ fds[d][n] # c
    BY <2>1 DEF IInv, TypeOK, SocketTypes, FdTable
  <2>7. \A k \in Clients : handler[k] = "none" <=> handler'[k] = "none"
    BY <1>2, <2>3 DEF HandlerLive
  <2>8. ProcessInv' BY <2>2, <2>6 DEF IInv, ProcessInv
  <2>9. ClientInv'
    <3>1. peer[c] \in Daemons /\ main[peer[c]] \in Working BY <1>2, OwnConnection
    <3>2. ASSUME NEW k \in Clients \ {c}, handler[k] \in HandlerLive, fd[k] # NoFd
          PROVE  fds'[peer[k]][fd[k]] = k
      BY <2>1, <3>2, OwnConnection
    <3>3. QED BY <2>2, <2>3, <2>7, <3>1, <3>2 DEF IInv, ClientInv
  <2>10. QueueInv'
    <3>1. \A e \in Daemons : \A i \in 1..Len(backlog[e]) :
             /\ backlog[e][i] \in Clients
             /\ handler'[backlog[e][i]] = "none"
             /\ \A m \in Fds : fds'[e][m] # backlog[e][i]
      BY <2>5, <2>6, <2>7 DEF IInv, QueueInv, TypeOK, SocketTypes
    <3>2. QED BY <2>2, <3>1 DEF IInv, QueueInv
  <2>11. FdInv' BY <2>2, <2>3, <2>6 DEF IInv, FdInv
  <2>12. InHandInv'
    <3>1. ASSUME NEW e \in Daemons, main[e] \in {"lock", "spawn"}
          PROVE  /\ data_socket[e] \in Fds
                 /\ fds'[e][data_socket[e]] = fds[e][data_socket[e]]
                 /\ fds[e][data_socket[e]] \in Clients \ {c}
      BY <1>1, <2>1, <2>6, <3>1 DEF IInv, InHandInv
    <3>2. QED BY <2>2, <2>3, <3>1 DEF IInv, InHandInv
  <2>13. MutexInv'
    <3>1. \A k \in Clients : handler[k] = "cleanup" <=> handler'[k] = "cleanup"
      BY <1>2, <2>3
    <3>2. \A d \in Daemons : Handlers(d) \subseteq Clients BY DEF Handlers
    <3>3. QED BY <2>2, <2>4, <3>1, <3>2 DEF IInv, MutexInv
  <2>14. CountInv' BY <2>2, <2>4 DEF IInv, CountInv
  <2>15. QuitInv' /\ StopInv' BY <2>2, <2>4, MainFrame
  <2>16. QED
    BY <1>0, <2>8, <2>9, <2>10, <2>11, <2>12, <2>13, <2>14, <2>15 DEF IInv
<1>5. QED BY <1>1, <1>3, <1>4

\* A thread gets the mutex only when neither main nor another thread has it.
LEMMA IInvCleanupLock ==
  ASSUME IInv, NEW c \in Clients, CleanupLock(c)
  PROVE  IInv'
<1>0. TypeOK' BY TypeClient DEF IInv, HandlerStep
<1>1. /\ handler[c] = "lock" /\ ~mutex[peer[c]]
      /\ UNCHANGED <<main, quit_loop, killed, exit_status, listening, backlog, data_socket,
                     fds, running_threads, fd, client, peer>>
  BY DEF CleanupLock, daemonVars, socketVars, clientVars
<1>2. handler[c] \in HandlerLive BY <1>1 DEF HandlerLive
<1>3. peer[c] \in Daemons /\ main[peer[c]] \in Working /\ c \in Handlers(peer[c])
  BY <1>2, OwnConnection
<1>4. /\ handler'[c] = "cleanup" /\ mutex'[peer[c]]
      /\ \A k \in Clients \ {c} : handler'[k] = handler[k]
      /\ \A e \in Daemons \ {peer[c]} : mutex'[e] = mutex[e]
  BY <1>3 DEF CleanupLock, HandlerGoto, IInv, TypeOK, ThreadTypes
<1>5. \A d \in Daemons : Handlers(d)' = Handlers(d)
  BY <1>1, <1>2, <1>4 DEF Handlers, HandlerLive
<1>6. \A k \in Clients : handler[k] = "none" <=> handler'[k] = "none"
  BY <1>1, <1>4
<1>7. \A k \in Clients : handler[k] \in HandlerLive <=> handler'[k] \in HandlerLive
  BY <1>2, <1>4 DEF HandlerLive
<1>8. \A d \in Daemons, n \in Fds : fds[d][n] # None => fds[d][n] \in Clients
  BY DEF IInv, TypeOK, SocketTypes, FdTable
<1>9. ProcessInv' BY <1>1, <1>3, <1>4 DEF IInv, ProcessInv
<1>10. ClientInv' BY <1>1, <1>6, <1>7 DEF IInv, ClientInv
<1>11. QueueInv'
  <2>1. \A e \in Daemons : \A i \in 1..Len(backlog[e]) : backlog[e][i] \in Clients
    BY DEF IInv, TypeOK, SocketTypes
  <2>2. QED BY <1>1, <1>6, <2>1 DEF IInv, QueueInv
<1>12. FdInv' BY <1>1, <1>6, <1>7, <1>8 DEF IInv, FdInv
<1>13. InHandInv' BY <1>1, <1>6, <1>8 DEF IInv, InHandInv
<1>14. MutexInv'
  <2>1. main[peer[c]] \notin {"spawn", "count"}
        /\ \A k \in Handlers(peer[c]) : handler[k] # "cleanup"
    BY <1>1, <1>3 DEF IInv, MutexInv
  <2>2. \A d \in Daemons : Handlers(d) \subseteq Clients BY DEF Handlers
  <2>3. \A k \in Handlers(peer[c]) : handler'[k] = "cleanup" => k = c
    BY <1>3, <1>4, <2>1, <2>2
  <2>4. \A d \in Daemons \ {peer[c]} : \A k \in Handlers(d) : handler'[k] = handler[k]
    BY <1>4 DEF Handlers
  <2>5. ASSUME NEW d \in Daemons \ {peer[c]}
        PROVE  /\ main[d] \in {"spawn", "count"} => mutex[d]
               /\ \A k \in Handlers(d) : handler'[k] = "cleanup" =>
                    /\ mutex[d]
                    /\ main[d] \notin {"spawn", "count"}
                    /\ \A l \in Handlers(d) : handler'[l] = "cleanup" => l = k
               /\ mutex[d] => \/ main[d] \in {"spawn", "count"}
                              \/ \E k \in Handlers(d) : handler'[k] = "cleanup"
    BY <2>4, <2>5 DEF IInv, MutexInv
  <2>6. QED BY <1>1, <1>3, <1>4, <1>5, <2>1, <2>3, <2>5 DEF MutexInv
<1>15. CountInv' BY <1>1, <1>5 DEF IInv, CountInv
<1>16. QuitInv' /\ StopInv' BY <1>1, <1>5, MainFrame
<1>17. QED
  BY <1>0, <1>9, <1>10, <1>11, <1>12, <1>13, <1>14, <1>15, <1>16 DEF IInv

\* The thread that ends was counted: it holds the mutex, so main is not between its
\* creation and its count.
LEMMA CleanupOf ==
  ASSUME IInv, NEW c \in Clients, NEW d \in Daemons, peer[c] = d, Cleanup(c)
  PROVE  IInv'
<1>0. TypeOK' BY TypeClient DEF IInv, HandlerStep
<1>1. /\ handler[c] = "cleanup" /\ CloseFd(c)
      /\ UNCHANGED <<main, quit_loop, killed, exit_status, listening, backlog, data_socket,
                     fd, client, peer>>
  BY DEF Cleanup, daemonVars, clientVars
<1>2. handler[c] \in HandlerLive BY <1>1 DEF HandlerLive
<1>3. main[d] \in Working /\ c \in Handlers(d)
  BY <1>2, OwnConnection
<1>4. mutex[d] /\ main[d] \notin {"spawn", "count"}
      /\ \A k \in Handlers(d) : handler[k] = "cleanup" => k = c
  BY <1>1, <1>3 DEF IInv, MutexInv
<1>5. /\ handler'[c] = "done" /\ ~mutex'[d]
      /\ \A k \in Clients \ {c} : handler'[k] = handler[k]
      /\ \A e \in Daemons \ {d} : mutex'[e] = mutex[e]
  BY <1>3 DEF Cleanup, Unlock, HandlerGoto, IInv, TypeOK, ThreadTypes
<1>6. \A e \in Daemons, m \in Fds :
          fds'[e][m] = IF fds[e][m] = c THEN None ELSE fds[e][m]
  BY <1>1, <1>2, CloseOwn
<1>7. /\ Handlers(d)' = Handlers(d) \ {c}
      /\ \A e \in Daemons \ {d} : Handlers(e)' = Handlers(e)
  BY <1>1, <1>3, <1>5 DEF Handlers, HandlerLive
<1>8. running_threads[d] = Cardinality(Handlers(d)) /\ running_threads[d] \in Nat
  BY <1>3, <1>4 DEF IInv, CountInv, Working, Alive, TypeOK, ThreadTypes, Uint16
<1>9. Cardinality(Handlers(d)) < 65536 /\ IsFiniteSet(Handlers(d))
  BY <1>3, FewHandlers
<1>10. Cardinality(Handlers(d) \ {c}) = Cardinality(Handlers(d)) - 1
  <2>1. c \in Handlers(d) /\ IsFiniteSet(Handlers(d)) BY <1>3, <1>9
  <2>2. QED BY <2>1, FS_RemoveElement
<1>11. Cardinality(Handlers(d) \ {c}) \in Nat
  BY <1>9, FS_RemoveElement, FS_CardinalityType
<1>12. /\ running_threads'[d] = Cardinality(Handlers(d) \ {c})
       /\ \A e \in Daemons \ {d} : running_threads'[e] = running_threads[e]
  <2>1. Decrement(running_threads[d]) = running_threads[d] - 1
    BY <1>8, <1>9, <1>10, <1>11 DEF Decrement
  <2>2. running_threads \in [Daemons -> Uint16]
    BY DEF IInv, TypeOK, ThreadTypes
  <2>3. running_threads' = [running_threads EXCEPT ![d] = running_threads[d] - 1]
    BY <2>1 DEF Cleanup
  <2>4. QED BY <1>3, <1>8, <1>10, <2>2, <2>3
<1>13. \A k \in Clients : handler[k] = "none" <=> handler'[k] = "none"
  BY <1>1, <1>5
<1>14. \A e \in Daemons, n \in Fds :
          /\ fds[e][n] # None => fds[e][n] \in Clients
          /\ fds'[e][n] # None => fds'[e][n] = fds[e][n] /\ fds[e][n] # c
  BY <1>6, ConstantsAssumption DEF IInv, TypeOK, SocketTypes, FdTable
<1>15. ProcessInv' BY <1>1, <1>3, <1>5, <1>12, <1>14 DEF IInv, ProcessInv
<1>16. ClientInv'
  <2>1. ASSUME NEW k \in Clients \ {c}, handler[k] \in HandlerLive, fd[k] # NoFd
        PROVE  fds'[peer[k]][fd[k]] = k
    BY <1>6, <2>1, OwnConnection
  <2>2. handler'[c] \notin HandlerLive BY <1>5 DEF HandlerLive
  <2>3. QED BY <1>1, <1>5, <1>13, <2>1, <2>2 DEF IInv, ClientInv
<1>17. QueueInv'
  <2>1. \A e \in Daemons : \A i \in 1..Len(backlog[e]) : backlog[e][i] \in Clients
    BY DEF IInv, TypeOK, SocketTypes
  <2>2. \A e \in Daemons : \A i \in 1..Len(backlog[e]) : backlog[e][i] # None
    BY <2>1, ConstantsAssumption
  <2>3. \A e \in Daemons : \A i \in 1..Len(backlog[e]) :
           /\ handler'[backlog[e][i]] = "none"
           /\ \A m \in Fds : fds'[e][m] # backlog[e][i]
    BY <1>13, <1>14, <2>1, <2>2 DEF IInv, QueueInv
  <2>4. QED BY <1>1, <2>3 DEF IInv, QueueInv
<1>18. FdInv' BY <1>1, <1>5, <1>14 DEF IInv, FdInv
<1>19. InHandInv'
  <2>1. ASSUME NEW e \in Daemons, main[e] \in {"lock", "spawn"}
        PROVE  /\ data_socket[e] \in Fds
               /\ fds'[e][data_socket[e]] = fds[e][data_socket[e]]
               /\ fds[e][data_socket[e]] \in Clients \ {c}
    BY <1>1, <1>6, <1>14, <2>1 DEF IInv, InHandInv
  <2>2. QED BY <1>1, <1>5, <2>1 DEF IInv, InHandInv
<1>20. MutexInv'
  <2>1. ASSUME NEW e \in Daemons
        PROVE  \A k \in Handlers(e)' : k \in Handlers(e) /\ k # c /\ handler'[k] = handler[k]
    BY <1>3, <1>5, <1>7 DEF Handlers
  <2>2. \A k \in Handlers(d)' : handler'[k] # "cleanup"
    BY <1>3, <1>4, <2>1
  <2>3. ASSUME NEW e \in Daemons \ {d}
        PROVE  /\ main[e] \in {"spawn", "count"} => mutex[e]
               /\ \A k \in Handlers(e) : handler'[k] = "cleanup" =>
                    /\ mutex[e]
                    /\ main[e] \notin {"spawn", "count"}
                    /\ \A l \in Handlers(e) : handler'[l] = "cleanup" => l = k
               /\ mutex[e] => \/ main[e] \in {"spawn", "count"}
                              \/ \E k \in Handlers(e) : handler'[k] = "cleanup"
    BY <1>7, <2>1, <2>3 DEF IInv, MutexInv
  <2>4. QED BY <1>1, <1>3, <1>4, <1>5, <1>7, <2>2, <2>3 DEF MutexInv
<1>21. CountInv'
  <2>1. running_threads'[d] + (IF main[d] = "count" THEN 1 ELSE 0) = Cardinality(Handlers(d)')
    BY <1>4, <1>7, <1>11, <1>12
  <2>2. \A e \in Daemons \ {d} : main[e] \in Alive =>
            running_threads'[e] + (IF main[e] = "count" THEN 1 ELSE 0)
                = Cardinality(Handlers(e)')
    BY <1>7, <1>12 DEF IInv, CountInv
  <2>3. QED BY <1>1, <2>1, <2>2 DEF CountInv
<1>22. QuitInv' /\ StopInv' BY <1>1, <1>7, MainFrame
<1>23. QED
  BY <1>0, <1>15, <1>16, <1>17, <1>18, <1>19, <1>20, <1>21, <1>22 DEF IInv

LEMMA IInvCleanup ==
  ASSUME IInv, NEW c \in Clients, Cleanup(c)
  PROVE  IInv'
<1>1. handler[c] \in HandlerLive BY DEF Cleanup, HandlerLive
<1>2. peer[c] \in Daemons BY <1>1, OwnConnection
<1>3. QED BY <1>2, CleanupOf

Unconnected == {"new", "wait", "probe", "connect"}

\* A program's own steps: nothing of a daemon changes.
LEMMA ClientMove ==
  ASSUME IInv, UNCHANGED <<daemonVars, socketVars, threadVars, peer>>,
         \A c \in Clients : client'[c] \in Unconnected => peer[c] = None
  PROVE  MoveInv' /\ QuitInv' /\ StopInv'
<1>1. ClientInv'
  BY DEF IInv, ClientInv, Unconnected, daemonVars, socketVars, threadVars
<1>2. QED BY <1>1, InvFrame DEF MoveInv, daemonVars, socketVars, threadVars

LEMMA IInvClient ==
  ASSUME IInv, NEW c \in Clients,
         \/ SkipLaunch(c) \/ LaunchReturns(c) \/ Probe(c) \/ OpenUi(c) \/ ClientExit(c)
         \/ SendRequest(c) \/ ReceiveReply(c)
         \/ \E k \in Clients : LaunchExecFails(c, k)
  PROVE  IInv'
<1>1. TypeOK' BY TypeClient DEF IInv, ClientStep, UserStep
<1>2. UNCHANGED <<daemonVars, socketVars, threadVars, peer>>
  BY DEF SkipLaunch, LaunchReturns, Probe, OpenUi, ClientExit, SendRequest, ReceiveReply,
         LaunchExecFails
<1>3. client \in [Clients -> ClientLabels] BY DEF IInv, TypeOK, ClientTypes
<1>4. \A k \in Clients : client'[k] \in Unconnected => client[k] \in Unconnected
  <2>1. CASE SkipLaunch(c) \/ LaunchReturns(c) \/ Probe(c) \/ OpenUi(c) \/ ClientExit(c)
    BY <1>3, <2>1 DEF SkipLaunch, LaunchReturns, Probe, OpenUi, ClientExit, ClientGoto,
                      Unconnected
  <2>2. CASE SendRequest(c) \/ ReceiveReply(c)
    BY <2>2 DEF SendRequest, ReceiveReply
  <2>3. CASE \E k \in Clients : LaunchExecFails(c, k)
    BY <1>3, <2>3 DEF LaunchExecFails, MayLaunch, WaitLabel, Unconnected
  <2>4. QED BY <2>1, <2>2, <2>3
<1>5. \A k \in Clients : client'[k] \in Unconnected => peer[k] = None
  BY <1>4 DEF IInv, ClientInv, Unconnected
<1>6. MoveInv' /\ QuitInv' /\ StopInv' BY <1>2, <1>5, ClientMove
<1>7. QED BY <1>1, <1>6, IInvParts DEF IInv, MoveInv

\* A connection that is made joins the end of the queue; nothing else holds it yet.
LEMMA ConnectOf ==
  ASSUME IInv, NEW c \in Clients, Connect(c), NEW d \in Daemons, path = d, listening[d]
  PROVE  MoveInv' /\ QuitInv' /\ StopInv'
<1>1. /\ client[c] = "connect" /\ ClientGoto(c, "fill")
      /\ peer' = [peer EXCEPT ![c] = d]
      /\ backlog' = [backlog EXCEPT ![d] = Append(backlog[d], c)]
      /\ UNCHANGED <<main, quit_loop, killed, exit_status, listening, data_socket, fds,
                     mutex, running_threads, handler, fd>>
  BY ConstantsAssumption DEF Connect, daemonVars, threadVars
<1>2. None \notin Daemons /\ None \notin Clients BY ConstantsAssumption
<1>3. peer[c] = None /\ handler[c] = "none"
  BY <1>1, <1>2 DEF IInv, ClientInv
<1>4. /\ \A e \in Daemons, n \in Fds : fds[e][n] # c
      /\ \A e \in Daemons : \A i \in 1..Len(backlog[e]) : backlog[e][i] # c
  BY <1>2, <1>3 DEF IInv, FdInv, QueueInv
<1>5. /\ peer'[c] = d /\ client'[c] = "fill"
      /\ \A k \in Clients \ {c} : peer'[k] = peer[k] /\ client'[k] = client[k]
  BY <1>1 DEF ClientGoto, IInv, TypeOK, ClientTypes
<1>6. backlog \in [Daemons -> Seq(Clients)] BY DEF IInv, TypeOK, SocketTypes
<1>7. /\ backlog'[d] = Append(backlog[d], c)
      /\ \A e \in Daemons \ {d} : backlog'[e] = backlog[e]
  BY <1>1, <1>6
<1>8. /\ Len(backlog[d]) \in Nat /\ Len(backlog'[d]) = Len(backlog[d]) + 1
      /\ backlog'[d][Len(backlog[d]) + 1] = c
      /\ \A i \in 1..Len(backlog[d]) : backlog'[d][i] = backlog[d][i]
  BY <1>6, <1>7
<1>9. \A e \in Daemons : Handlers(e)' = Handlers(e)
  BY <1>1, <1>3, <1>5 DEF Handlers, HandlerLive
<1>10. ProcessInv'
  <2>1. \A e \in Daemons : /\ ~listening[e] => e # d
                           /\ main[e] = "accept" /\ e # d => backlog'[e] # <<>>
    BY <1>7 DEF IInv, ProcessInv
  <2>2. backlog'[d] # <<>> BY <1>6, <1>7
  <2>3. QED BY <1>1, <1>7, <2>1, <2>2 DEF IInv, ProcessInv
<1>11. ClientInv' BY <1>1, <1>3, <1>5 DEF IInv, ClientInv, HandlerLive
<1>12. QueueInv'
  <2>1. \A e \in Daemons : \A i \in 1..Len(backlog[e]) : backlog[e][i] \in Clients \ {c}
    BY <1>4, <1>6
  <2>2. ASSUME NEW i \in 1..Len(backlog'[d])
        PROVE  \/ i \in 1..Len(backlog[d]) /\ backlog'[d][i] = backlog[d][i]
               \/ i = Len(backlog[d]) + 1 /\ backlog'[d][i] = c
    BY <1>8
  <2>3. ASSUME NEW i \in 1..Len(backlog'[d])
        PROVE  /\ peer'[backlog'[d][i]] = d /\ handler[backlog'[d][i]] = "none"
               /\ \A m \in Fds : fds[d][m] # backlog'[d][i]
    BY <1>3, <1>4, <1>5, <2>1, <2>2 DEF IInv, QueueInv
  <2>4. ASSUME NEW i \in 1..Len(backlog'[d]), NEW j \in 1..Len(backlog'[d]), j # i
        PROVE  backlog'[d][j] # backlog'[d][i]
    BY <1>4, <2>2, <2>4 DEF IInv, QueueInv
  <2>5. ASSUME NEW e \in Daemons, NEW i \in 1..Len(backlog'[e])
        PROVE  /\ peer'[backlog'[e][i]] = e /\ handler'[backlog'[e][i]] = "none"
               /\ \A m \in Fds : fds'[e][m] # backlog'[e][i]
               /\ \A j \in 1..Len(backlog'[e]) : j # i => backlog'[e][j] # backlog'[e][i]
    <3>1. CASE e = d BY <1>1, <2>3, <2>4, <2>5, <3>1
    <3>2. CASE e # d BY <1>1, <1>5, <1>7, <2>1, <2>5, <3>2 DEF IInv, QueueInv
    <3>3. QED BY <3>1, <3>2
  <2>6. QED BY <2>5 DEF QueueInv
<1>13. \A e \in Daemons, n \in Fds : fds[e][n] # None => fds[e][n] \in Clients \ {c}
  BY <1>4 DEF IInv, TypeOK, SocketTypes, FdTable
<1>14. FdInv' BY <1>1, <1>5, <1>13 DEF IInv, FdInv
<1>15. InHandInv' BY <1>1, InvFrame
<1>16. MutexInv' BY <1>1, <1>9 DEF IInv, MutexInv
<1>17. CountInv' BY <1>1, <1>9 DEF IInv, CountInv
<1>18. QuitInv' /\ StopInv' BY <1>1, <1>9, MainFrame
<1>19. QED
  BY <1>10, <1>11, <1>12, <1>14, <1>15, <1>16, <1>17, <1>18 DEF MoveInv

LEMMA IInvConnect ==
  ASSUME IInv, NEW c \in Clients, Connect(c)
  PROVE  IInv'
<1>1. TypeOK' BY TypeClient DEF IInv, ClientStep
<1>2. CASE path # None /\ listening[path]
  <2>1. path \in Daemons BY <1>2 DEF IInv, TypeOK, SocketTypes
  <2>2. MoveInv' /\ QuitInv' /\ StopInv' BY <1>2, <2>1, ConnectOf
  <2>3. QED BY <1>1, <2>2, IInvParts DEF IInv, MoveInv
<1>3. CASE ~(path # None /\ listening[path])
  <2>1. UNCHANGED <<daemonVars, socketVars, threadVars, peer>>
    BY <1>3 DEF Connect, socketVars
  <2>2. \A k \in Clients : client'[k] \in Unconnected => client[k] \in Unconnected
    BY DEF Connect, ClientGoto, Unconnected, IInv, TypeOK, ClientTypes
  <2>3. \A k \in Clients : client'[k] \in Unconnected => peer[k] = None
    BY <2>2 DEF IInv, ClientInv, Unconnected
  <2>4. MoveInv' /\ QuitInv' /\ StopInv' BY <2>1, <2>3, ClientMove
  <2>5. QED BY <1>1, <2>4, IInvParts DEF IInv, MoveInv
<1>4. QED BY <1>2, <1>3
=============================================================================
