------------------------------ MODULE Protocol ------------------------------
(***************************************************************************)
(* The packets inside one connection of Daemon: a cpu-x that calls the     *)
(* functions of client side (call_libcpuid_msr_*, call_dmidecode,          *)
(* find_devices, can_access_sys_debug_dri, load_module) and the            *)
(* request_handler thread that executes the commands.                      *)
(*                                                                         *)
(* The socket is SOCK_SEQPACKET: two queues of packets, neither lost nor   *)
(* reordered.  read() takes one packet: a packet larger than the buffer is *)
(* cut and read() returns the size of the buffer, which RECEIVE_DATA takes *)
(* for success; a smaller one is an error.  A packet is known by the data  *)
(* it was made of; its tag "of" is the call it belongs to (history).       *)
(***************************************************************************)
EXTENDS Integers, Sequences

CONSTANTS Machines,      \* the machines to try: what dmidecode() may return in the daemon, 0 if
                         \* it succeeds, and the packets one direction of the socket holds
                         \* before write() blocks
          MaxSticks,     \* bound: memory devices in the DMI tables
          MaxCalls       \* bound: calls the client makes

ASSUME ProtocolAssumption ==
    /\ \A m \in Machines : m.rets \subseteq Int /\ m.rets # {} /\ m.capacity \in Nat \ {0}
    /\ MaxSticks \in Nat /\ MaxCalls \in Nat

VARIABLES
    machine,   \* the machine, chosen at the start
    socket_fd, \* the client's descriptor: "up", or "down" when it is -1
    fd,        \* the thread's descriptor, likewise
    toServer,  \* packets written by the client and not yet read
    toClient,
    reset,     \* ends whose next read() reports that the peer closed with unread packets
    call,      \* the number of the client's current or last call
    last,      \* the last start-up call made, in the order of fill_labels()
    todo,      \* what the client's current call still has to write and read
    handler,   \* "read" a command, "serve" it, "done"
    handling,  \* the call whose command the thread has read
    serving    \* what the command's function still has to read and write

clientVars == <<socket_fd, call, last, todo>>
serverVars == <<fd, handler, handling, serving>>
vars == <<machine, clientVars, serverVars, toServer, toClient, reset>>

DmidecodeRets == machine.rets
Capacity      == machine.capacity

-----------------------------------------------------------------------------
(* Packets.                                                                *)

Commands == {"LIBCPUID_MSR_DEBUG", "LIBCPUID_MSR_STATIC", "LIBCPUID_MSR_DYNAMIC",
             "DMIDECODE", "ACCESS_DEV_PCI", "ACCESS_SYS_DEBUG", "LOAD_MODULE"}

\* sizeof() of what a packet is made of; a module name has at most 8 letters.
Size == [cmd |-> 4, u16 |-> 2, len |-> 8, module |-> 9, ret |-> 4, static |-> 12,
         dynamic |-> 8, processor |-> 88, mb |-> 240, bios |-> 320, stick_count |-> 1,
         stick |-> 1040]

Kinds == DOMAIN Size

\* One write() or read() of a function: what it carries, and its value where it matters.
Write(kind, value) == [op |-> "write", kind |-> kind, value |-> value]
Read(kind) == [op |-> "read", kind |-> kind, value |-> 0]

Packet(step, n) == [kind |-> step.kind, value |-> step.value, of |-> n]

-----------------------------------------------------------------------------
(* What each function of the client writes and reads, after its command.   *)

call_libcpuid_msr_debug   == <<Write("u16", 0)>>
call_libcpuid_msr_static  == <<Write("u16", 0), Read("static")>>
call_libcpuid_msr_dynamic == <<Write("u16", 0), Read("dynamic")>>
call_dmidecode            == <<Read("ret"), Read("processor"), Read("mb"), Read("bios"),
                               Read("stick_count")>>
find_devices              == <<Read("ret")>>
can_access_sys_debug_dri  == <<Read("ret")>>
load_module               == <<Write("len", 0), Write("module", 0), Read("ret")>>

ClientSteps(cmd) ==
    <<Write("cmd", cmd)>> \o
    CASE cmd = "LIBCPUID_MSR_DEBUG"   -> call_libcpuid_msr_debug
      [] cmd = "LIBCPUID_MSR_STATIC"  -> call_libcpuid_msr_static
      [] cmd = "LIBCPUID_MSR_DYNAMIC" -> call_libcpuid_msr_dynamic
      [] cmd = "DMIDECODE"            -> call_dmidecode
      [] cmd = "ACCESS_DEV_PCI"       -> find_devices
      [] cmd = "ACCESS_SYS_DEBUG"     -> can_access_sys_debug_dri
      [] cmd = "LOAD_MODULE"          -> load_module

(* What each function of the daemon reads and writes.  The value of a "ret" *)
(* matters to call_dmidecode() only.                                       *)

serve_msr_debug   == <<Read("u16")>>
serve_msr_static  == <<Read("u16"), Write("static", 0)>>
serve_msr_dynamic == <<Read("u16"), Write("dynamic", 0)>>

\* Everything it has, whatever dmidecode() returned.
serve_dmidecode(ret, sticks) ==
    <<Write("ret", ret), Write("processor", 0), Write("mb", 0), Write("bios", 0),
      Write("stick_count", sticks)>> \o [i \in 1..sticks |-> Write("stick", 0)]

serve_find_devices             == <<Write("ret", 0)>>
serve_can_access_sys_debug_dri == <<Write("ret", 0)>>

\* As serve_load_module would be if it refused a length without reading the name.
serve_load_module_unread == <<Read("len"), Write("ret", 0)>>

serve_load_module == <<Read("len"), Read("module"), Write("ret", 0)>>

ServerSteps(cmd, ret, sticks) ==
    CASE cmd = "LIBCPUID_MSR_DEBUG"   -> serve_msr_debug
      [] cmd = "LIBCPUID_MSR_STATIC"  -> serve_msr_static
      [] cmd = "LIBCPUID_MSR_DYNAMIC" -> serve_msr_dynamic
      [] cmd = "DMIDECODE"            -> serve_dmidecode(ret, sticks)
      [] cmd = "ACCESS_DEV_PCI"       -> serve_find_devices
      [] cmd = "ACCESS_SYS_DEBUG"     -> serve_can_access_sys_debug_dri
      [] cmd = "LOAD_MODULE"          -> serve_load_module

\* The order of fill_labels(); the other calls come with any refresh.
StartupOrder == <<"LOAD_MODULE", "LIBCPUID_MSR_DEBUG", "LIBCPUID_MSR_STATIC", "DMIDECODE",
                  "ACCESS_DEV_PCI">>
RefreshCommands == {"LIBCPUID_MSR_DYNAMIC", "ACCESS_SYS_DEBUG", "LOAD_MODULE"}

-----------------------------------------------------------------------------
WellFormed(steps) ==
    \A i \in DOMAIN steps : steps[i].op \in {"read", "write"} /\ steps[i].kind \in Kinds

TypeOK ==
    /\ machine \in Machines
    /\ socket_fd \in {"up", "down"} /\ fd \in {"up", "down"}
    /\ \A q \in {toServer, toClient} : \A i \in DOMAIN q :
         q[i].kind \in Kinds /\ q[i].of \in 1..MaxCalls
    /\ Len(toServer) <= Capacity /\ Len(toClient) <= Capacity
    /\ reset \subseteq {"client", "server"}
    /\ call \in 0..MaxCalls
    /\ last \in 0..Len(StartupOrder)
    /\ WellFormed(todo) /\ WellFormed(serving)
    /\ handler \in {"read", "serve", "done"}
    /\ handling \in 0..MaxCalls
    /\ handler = "serve" <=> serving # <<>>

Init ==
    /\ machine \in Machines
    /\ socket_fd = "up" /\ fd = "up"
    /\ toServer = <<>> /\ toClient = <<>>
    /\ reset = {}
    /\ call = 0 /\ last = 0
    /\ todo = <<>>
    /\ handler = "read"
    /\ handling = 0
    /\ serving = <<>>

\* close() of one end: its unread packets are dropped, and its peer learns of them.
ClientCloses(unread) ==
    /\ socket_fd' = "down"
    /\ toClient' = <<>>
    /\ reset' = IF unread = <<>> THEN reset ELSE reset \cup {"server"}

ServerCloses(unread) ==
    /\ fd' = "down"
    /\ toServer' = <<>>
    /\ reset' = IF unread = <<>> THEN reset ELSE reset \cup {"client"}

\* What read() finds at an end: an error or the end of the stream, a packet, or one that
\* is smaller than what the step wants.
Readable(end, queue) == end \notin reset /\ queue # <<>>
ReadErrorNotEnd(end, queue, peer_fd) == end \in reset \* the end of the stream ignored

ReadError(end, queue, peer_fd) == end \in reset \/ (queue = <<>> /\ peer_fd = "down")
Short(queue, step) == Size[Head(queue).kind] < Size[step.kind]

-----------------------------------------------------------------------------
(* The client.                                                             *)

\* A call starts, if DAEMON_UP: at start-up in order, later on a refresh.
Call(cmd) ==
    /\ socket_fd = "up" /\ todo = <<>> /\ call < MaxCalls
    /\ \/ \E i \in DOMAIN StartupOrder : i > last /\ StartupOrder[i] = cmd /\ last' = i
       \/ cmd \in RefreshCommands /\ last' = Len(StartupOrder)
    /\ call' = call + 1
    /\ todo' = ClientSteps(cmd)
    /\ UNCHANGED <<socket_fd, serverVars, toServer, toClient, reset>>

\* The failure of SEND_DATA and RECEIVE_DATA: close, -1, return 1.
CallFails(unread) == ClientCloses(unread) /\ todo' = <<>>

ClientWrite ==
    /\ todo # <<>> /\ Head(todo).op = "write"
    /\ IF fd = "up"
       THEN /\ Len(toServer) < Capacity
            /\ toServer' = Append(toServer, Packet(Head(todo), call))
            /\ todo' = Tail(todo)
            /\ UNCHANGED <<socket_fd, toClient, reset>>
       ELSE CallFails(toClient) /\ UNCHANGED toServer
    /\ UNCHANGED <<call, last, serverVars>>

\* What is left of a call once it has read the packet p as Head(todo): call_dmidecode()
\* returns on an error code, and reads one packet more per memory device.  The first
\* bytes of another kind of packet may be any number.
Values(p) == IF p.kind = Head(todo).kind THEN {p.value}
             ELSE IF Head(todo).kind = "stick_count" THEN 0..MaxSticks ELSE DmidecodeRets

\* As AfterRead would be with an off-by-one in the loop over memory devices.
AfterReadOneLess(value) ==
    CASE Head(todo).kind = "ret" /\ value # 0 -> <<>>
      [] Head(todo).kind = "stick_count"      -> [i \in 1..(value - 1) |-> Read("stick")]
      [] OTHER                                -> Tail(todo)

AfterRead(value) ==
    CASE Head(todo).kind = "ret" /\ value # 0 -> <<>>
      [] Head(todo).kind = "stick_count"      -> [i \in 1..value |-> Read("stick")]
      [] OTHER                                -> Tail(todo)

ClientRead ==
    /\ todo # <<>> /\ Head(todo).op = "read"
    /\ \/ /\ ReadError("client", toClient, fd)
          /\ CallFails(toClient)
       \/ /\ Readable("client", toClient)
          /\ Short(toClient, Head(todo))
          /\ CallFails(Tail(toClient))
       \/ /\ Readable("client", toClient)
          /\ ~Short(toClient, Head(todo))
          /\ toClient' = Tail(toClient)
          /\ \E value \in Values(Head(toClient)) : todo' = AfterRead(value)
          /\ UNCHANGED <<socket_fd, reset>>
    /\ UNCHANGED <<call, last, serverVars, toServer>>

\* The program ends or is killed, in the middle of a call too.
ClientQuit ==
    /\ socket_fd = "up"
    /\ ClientCloses(toClient)
    /\ todo' = <<>>
    /\ UNCHANGED <<call, last, serverVars, toServer>>

-----------------------------------------------------------------------------
(* The request_handler thread.                                             *)

\* The loop ends: cleanup_thread() closes what SEND_DATA or RECEIVE_DATA did not.
ThreadEnds ==
    /\ handler' = "done"
    /\ ServerCloses(toServer)

\* read() of a command; one that the switch does not know is ignored.
ReadCommand ==
    /\ handler = "read" /\ fd = "up"
    /\ Readable("server", toServer)
    /\ ~Short(toServer, Read("cmd"))
    /\ LET p == Head(toServer) IN
         /\ toServer' = Tail(toServer)
         /\ handling' = p.of
         /\ IF p.kind = "cmd"
            THEN /\ handler' = "serve"
                 /\ \E ret \in DmidecodeRets, sticks \in 0..MaxSticks :
                      serving' = ServerSteps(p.value, ret, sticks)
            ELSE UNCHANGED <<handler, serving>>
    /\ UNCHANGED <<fd, clientVars, toClient, reset>>

Break ==
    /\ handler = "read"
    /\ \/ fd = "down"
       \/ ReadError("server", toServer, socket_fd)
       \/ Readable("server", toServer) /\ Short(toServer, Read("cmd"))
    /\ ThreadEnds
    /\ UNCHANGED <<handling, serving, clientVars, toClient>>

\* A step of a function is done; the last one returns to the loop.
StepDone ==
    /\ serving' = Tail(serving)
    /\ handler' = IF Tail(serving) = <<>> THEN "read" ELSE "serve"
    /\ UNCHANGED fd

\* As ServeFails would be if the macros did not make the function return.
ServeGoesOn(unread) == ServerCloses(unread) /\ UNCHANGED serving /\ handler' = "read"

\* SEND_DATA or RECEIVE_DATA fails: the function returns with the descriptor at -1.
ServeFails(unread) ==
    /\ ServerCloses(unread)
    /\ serving' = <<>>
    /\ handler' = "read"

\* read() in a function.  The u16 is read unchecked ("Core 0 on failure").
ServeRead ==
    /\ handler = "serve" /\ Head(serving).op = "read"
    /\ LET checked == Head(serving).kind # "u16" IN
         \/ /\ ReadError("server", toServer, socket_fd)
            /\ checked
            /\ ServeFails(toServer)
         \/ /\ ReadError("server", toServer, socket_fd)
            /\ ~checked
            /\ StepDone
            /\ reset' = reset \ {"server"}
            /\ UNCHANGED toServer
         \/ /\ Readable("server", toServer)
            /\ checked /\ Short(toServer, Head(serving))
            /\ ServeFails(Tail(toServer))
         \/ /\ Readable("server", toServer)
            /\ checked => ~Short(toServer, Head(serving))
            /\ StepDone
            /\ toServer' = Tail(toServer)
            /\ UNCHANGED reset
    /\ UNCHANGED <<handling, clientVars, toClient>>

ServeWrite ==
    /\ handler = "serve" /\ Head(serving).op = "write"
    /\ IF socket_fd = "up"
       THEN /\ Len(toClient) < Capacity
            /\ toClient' = Append(toClient, Packet(Head(serving), handling))
            /\ StepDone
            /\ UNCHANGED <<toServer, reset>>
       ELSE ServeFails(toServer) /\ UNCHANGED toClient
    /\ UNCHANGED <<handling, clientVars>>

\* The daemon's process ends (a signal, a crash).
Kill ==
    /\ handler # "done"
    /\ ThreadEnds
    /\ serving' = <<>>
    /\ UNCHANGED <<handling, clientVars, toClient>>

-----------------------------------------------------------------------------
ClientStep == ClientWrite \/ ClientRead
ServerStep == ReadCommand \/ Break \/ ServeRead \/ ServeWrite
Step == (\E cmd \in Commands : Call(cmd)) \/ ClientStep \/ ClientQuit \/ ServerStep \/ Kill
Next == Step /\ UNCHANGED machine

Spec == Init /\ [][Next]_vars

\* Both threads go on when the socket lets them; nobody has to call, quit or die.
FairSpec == Spec /\ WF_vars(ClientStep /\ UNCHANGED machine) /\ WF_vars(ServerStep /\ UNCHANGED machine)

-----------------------------------------------------------------------------
(* Properties.                                                             *)

\* Every packet that the thread reads in a command's function is an argument of that
\* command, and every packet it reads as a command is one: an error of either side in the
\* middle of a command never leaves half of it for the next read().
ServerInSync ==
    Readable("server", toServer) /\ handler # "done" /\ fd = "up" =>
        LET p == Head(toServer) IN
            /\ handler = "read" => p.kind = "cmd"
            /\ handler = "serve" /\ Head(serving).op = "read" =>
                 p.kind = Head(serving).kind /\ p.of = handling

\* What a call reads was written by the daemon for this call and is what it expects.
\* "MSRs dynamic values provided by libcpuid" (libcpuid.cpp) and "Receive return value"
\* (util.cpp) say so of the values they read.
ReceivesItsAnswer ==
    todo # <<>> /\ Head(todo).op = "read" /\ Readable("client", toClient) =>
        Head(toClient).kind = Head(todo).kind /\ Head(toClient).of = call

\* It holds on a machine whose dmidecode() succeeds.
ReceivesItsAnswerUnlessDmiFails == DmidecodeRets = {0} => ReceivesItsAnswer

\* A call returns, with an answer or an error, however slowly the other side reads and
\* wherever it dies: the two never wait for each other's full queue, however short it is as
\* long as dmidecode() succeeds, and if it may fail as long as the socket holds the packets
\* that the client leaves unread.  Once its client is gone the thread gets to
\* cleanup_thread() from inside any command.
CallReturns     == (todo # <<>>) ~> (todo = <<>>)
HandlerFinishes == (socket_fd = "down") ~> (handler = "done")
NobodyWaits     == CallReturns /\ HandlerFinishes
=============================================================================
