--------------------------- MODULE ProtocolProofs ---------------------------
(***************************************************************************)
(* The safety of Protocol for every machine, capacity of the socket,       *)
(* number of calls and of memory devices.                                  *)
(***************************************************************************)
EXTENDS Protocol, SequenceTheorems, TLAPS

-----------------------------------------------------------------------------
(* Requests: what the client has written and will write in its call.       *)

ArgKinds    == {"u16", "len", "module"}
ClientKinds == {"cmd"} \cup ArgKinds
AnswerKinds == Kinds \ ClientKinds
MsrCommands == {"LIBCPUID_MSR_DEBUG", "LIBCPUID_MSR_STATIC", "LIBCPUID_MSR_DYNAMIC"}

StepType   == [op : {"read", "write"}, kind : Kinds, value : Commands \cup Int]
PacketType == [kind : Kinds, value : Commands \cup Int, of : 1..MaxCalls]

SeqInv ==
    /\ machine \in Machines
    /\ toServer \in Seq(PacketType) /\ toClient \in Seq(PacketType)
    /\ todo \in Seq(StepType) /\ serving \in Seq(StepType)
    /\ todo # <<>> => call \in 1..MaxCalls
    /\ serving # <<>> => handling \in 1..MaxCalls
    /\ \A s \in {toClient, serving} : \A i \in DOMAIN s : s[i].kind = "stick_count" => s[i].value \in Nat

\* The packets q on their way, then those of the steps t that are left of the call n.
Joined(q, t, n) ==
    [i \in 1..(Len(q) + Len(t)) |-> IF i <= Len(q) THEN q[i] ELSE Packet(t[i - Len(q)], n)]

\* The packets on their way to the daemon and those of the steps left, the reads among them.
Out == Joined(toServer, todo, call)

\* The argument that has to follow a packet of a request.
ArgAfter(p) == CASE p.kind = "cmd" /\ p.value \in MsrCommands   -> "u16"
                 [] p.kind = "cmd" /\ p.value = "LOAD_MODULE"   -> "len"
                 [] p.kind = "len"                              -> "module"
                 [] OTHER                                       -> "none"

Follows(p, q) ==
    IF ArgAfter(p) = "none"
    THEN q.kind \notin ArgKinds /\ (p.kind \in AnswerKinds => q.kind \in AnswerKinds)
    ELSE q.kind = ArgAfter(p) /\ q.of = p.of

\* Every request is whole, and only the last may be cut, by the end of the client.
Linked(s) == \A i \in DOMAIN s : i + 1 \in DOMAIN s => Follows(s[i], s[i + 1])
Whole(s)  == \A i \in DOMAIN s : i + 1 \notin DOMAIN s => ArgAfter(s[i]) = "none"

\* The commands are in the order of the calls, of which c is the last, and say how far the
\* start-up got.
Dated(s, c, l) ==
    \A i \in DOMAIN s :
        /\ s[i].of <= c
        /\ s[i].kind = "cmd" =>
             /\ s[i].value \in Commands
             /\ s[i].value = "LIBCPUID_MSR_DEBUG" => l >= 2
             /\ s[i].value = "DMIDECODE" => l >= 4
Ordered(s) ==
    \A i, j \in DOMAIN s : i < j /\ s[i].kind = "cmd" /\ s[j].kind = "cmd" => s[i].of < s[j].of

OutInv ==
    /\ Linked(Out) /\ Dated(Out, call, last) /\ Ordered(Out)
    /\ socket_fd = "up" => Whole(Out)
    /\ \A i \in DOMAIN toServer : toServer[i].kind \in ClientKinds

-----------------------------------------------------------------------------
(* Answers.                                                                *)

DropWrite(s) == IF s # <<>> /\ Head(s).op = "write" THEN Tail(s) ELSE s
DropRead(s)  == IF s # <<>> /\ Head(s).op = "read" THEN Tail(s) ELSE s

\* The reads of a call come after at most three writes, the writes of a function after at most
\* two reads.
ReadsOf(s)  == DropWrite(DropWrite(DropWrite(s)))
WritesOf(s) == DropRead(DropRead(s))

TodoInv ==
    /\ \A i \in DOMAIN todo : (todo[i].op = "write") <=> (todo[i].kind \in ClientKinds)
    /\ \A i \in DOMAIN ReadsOf(todo) : ReadsOf(todo)[i].op = "read"

Served(s) ==
    /\ \A i \in DOMAIN s :
         /\ s[i].op = "read" => s[i].kind \in ArgKinds /\ s[i] = Read(s[i].kind)
         /\ s[i].op = "write" => s[i].kind \in AnswerKinds
         /\ s[i].kind = "len" => i + 1 \in DOMAIN s /\ s[i + 1].kind = "module"
         /\ s[i].kind # "len" /\ i + 1 \in DOMAIN s => s[i + 1].op = "write"
    /\ \A i \in DOMAIN WritesOf(s) : WritesOf(s)[i].op = "write"

\* The answers on their way to the client and those of the function that runs.
Ans == Joined(toClient, WritesOf(serving), handling)

\* The answers w are the first of what the reads r wait for; all of it if "all" holds.
Answers(w, r, all) ==
    /\ \A i \in DOMAIN w : i \in DOMAIN r => w[i].kind = r[i].kind
    /\ \A i \in DOMAIN w : w[i].kind = "ret" => w[i].value = 0
    /\ \A i \in DOMAIN w : i \notin DOMAIN r => w[i].kind = "stick"
    /\ \A i \in DOMAIN r : r[i].kind = "stick_count" => i = Len(r)
    /\ \A i \in DOMAIN w : w[i].kind = "stick_count" =>
         w[i].value \in Nat /\ Len(w) <= i + w[i].value /\ (all => Len(w) = i + w[i].value)
    /\ (\A i \in DOMAIN r : r[i].kind # "stick_count") => Len(w) <= Len(r)
    /\ all => Len(w) >= Len(r)

\* Nothing has made dmidecode() fail yet.
Clean == DmidecodeRets = {0} \/ last < 4

Unread(i) == i \in DOMAIN Out /\ Out[i].kind = "cmd" /\ Out[i].of = call

AnswerInv ==
    socket_fd = "up" /\ Clean =>
        /\ \A i \in DOMAIN Out : Out[i].kind = "cmd" /\ Out[i].of # call => Out[i].value = "LIBCPUID_MSR_DEBUG"
        /\ \A i \in DOMAIN toClient : toClient[i].of = call
        /\ fd = "up" => \A i \in DOMAIN Out : Unread(i) =>
             /\ toClient = <<>> /\ WritesOf(serving) = <<>>
             /\ ReadsOf(todo) = ReadsOf(ClientSteps(Out[i].value))
        /\ fd = "up" /\ (\A i \in DOMAIN Out : ~Unread(i)) =>
             /\ WritesOf(serving) # <<>> => handling = call
             /\ Answers(Ans, ReadsOf(todo), TRUE)
        /\ fd = "down" => Answers(toClient, ReadsOf(todo), FALSE)

-----------------------------------------------------------------------------
(* The daemon's side.                                                      *)

\* The ends and their flags.
EndsInv ==
    /\ socket_fd = "down" => todo = <<>> /\ toClient = <<>>
    /\ fd = "down" => toServer = <<>>
    /\ handler = "serve" => fd = "up"
    /\ handler = "done" => fd = "down"
    /\ "server" \in reset => socket_fd = "down"

\* The packet that the daemon reads next is what it wants, and comes if the client lives.
SyncInv ==
    fd = "up" =>
        /\ handler = "read" /\ 1 \in DOMAIN Out => Out[1].kind \notin ArgKinds
        /\ handler = "serve" /\ Head(serving).op = "read" =>
             /\ 1 \in DOMAIN Out => Out[1].kind = Head(serving).kind /\ Out[1].of = handling
             /\ socket_fd = "up" => 1 \in DOMAIN Out
        /\ handler = "serve" /\ Head(serving).op = "write" /\ socket_fd = "up" /\ 1 \in DOMAIN Out =>
             Out[1].kind \notin ArgKinds

ServesDebug == serving = serve_msr_debug
DebugAt(i)  == i \in DOMAIN Out /\ Out[i].kind = "cmd" /\ Out[i].value = "LIBCPUID_MSR_DEBUG"

\* The u16 of LIBCPUID_MSR_DEBUG is read unchecked and nothing is written after it: no unread
\* answer may make that read() fail and leave the packet for the loop.
DebugInv ==
    fd = "up" =>
        /\ ServesDebug \/ (\E i \in DOMAIN Out : DebugAt(i)) =>
             toClient = <<>> /\ "server" \notin reset /\ WritesOf(serving) = <<>> /\ last >= 2
        /\ \A i, j \in DOMAIN Out : DebugAt(j) /\ i < j => Out[i].kind # "cmd"
        /\ ServesDebug => \A i \in DOMAIN Out : ~DebugAt(i)

\* What TypeOK says besides SeqInv.
Scalars ==
    /\ socket_fd \in {"up", "down"} /\ fd \in {"up", "down"}
    /\ Len(toServer) <= Capacity /\ Len(toClient) <= Capacity
    /\ reset \subseteq {"client", "server"}
    /\ call \in 0..MaxCalls
    /\ last \in 0..Len(StartupOrder)
    /\ handler \in {"read", "serve", "done"}
    /\ handling \in 0..MaxCalls
    /\ handler = "serve" <=> serving # <<>>

Inv == /\ Scalars /\ SeqInv /\ OutInv /\ TodoInv /\ Served(serving)
       /\ EndsInv /\ SyncInv /\ DebugInv /\ AnswerInv

-----------------------------------------------------------------------------
(* Steps and packets.                                                      *)

LEMMA KindNames ==
    /\ Kinds = {"cmd", "u16", "len", "module", "ret", "static", "dynamic", "processor", "mb",
                "bios", "stick_count", "stick"}
    /\ AnswerKinds = {"ret", "static", "dynamic", "processor", "mb", "bios", "stick_count", "stick"}
    /\ ClientKinds = {"cmd", "u16", "len", "module"}
<1>1. Kinds = {"cmd", "u16", "len", "module", "ret", "static", "dynamic", "processor", "mb",
               "bios", "stick_count", "stick"}
    BY DEF Kinds, Size
<1>2. QED BY <1>1 DEF AnswerKinds, ClientKinds, ArgKinds

\* A sequence that is the end of another from its element k + 1 on, or its first k elements.
IsSuffix(t, s, n, k) ==
    DOMAIN s = 1..n /\ k \in 0..n /\ DOMAIN t = 1..(n - k) /\ \A i \in 1..(n - k) : t[i] = s[i + k]
IsPrefixOf(t, s, n, k) ==
    DOMAIN s = 1..n /\ k \in 0..n /\ DOMAIN t = 1..k /\ \A i \in 1..k : t[i] = s[i]

LEMMA SuffixKeeps ==
    ASSUME NEW s, NEW t, NEW n \in Nat, NEW k, IsSuffix(t, s, n, k), NEW c, NEW l
    PROVE  /\ Linked(s) => Linked(t)
           /\ Whole(s) => Whole(t)
           /\ Dated(s, c, l) => Dated(t, c, l)
           /\ Ordered(s) => Ordered(t)
<1>1. k \in Nat /\ k <= n /\ DOMAIN s = 1..n /\ DOMAIN t = 1..(n - k) BY DEF IsSuffix
<1>2. \A i \in DOMAIN t : i + k \in DOMAIN s /\ t[i] = s[i + k] /\ (i + 1 \in DOMAIN t <=> (i + k) + 1 \in DOMAIN s)
    BY <1>1 DEF IsSuffix
<1>3. \A i \in DOMAIN t : i + 1 \in DOMAIN t => t[i + 1] = s[(i + k) + 1]
    BY <1>1 DEF IsSuffix
<1>4. Linked(s) => Linked(t) BY <1>2, <1>3 DEF Linked
<1>5. Whole(s) => Whole(t) BY <1>2 DEF Whole
<1>6. Dated(s, c, l) => Dated(t, c, l) BY <1>2 DEF Dated
<1>7. ASSUME Ordered(s), NEW i \in DOMAIN t, NEW j \in DOMAIN t, i < j, t[i].kind = "cmd", t[j].kind = "cmd"
      PROVE  t[i].of < t[j].of
    <2>1. i + k \in DOMAIN s /\ j + k \in DOMAIN s /\ i + k < j + k BY <1>1, <1>2, <1>7
    <2>2. QED BY <1>2, <1>7, <2>1 DEF Ordered
<1>8. QED BY <1>4, <1>5, <1>6, <1>7 DEF Ordered

LEMMA PrefixKeeps ==
    ASSUME NEW s, NEW t, NEW n \in Nat, NEW k, IsPrefixOf(t, s, n, k), NEW c, NEW l
    PROVE  /\ Linked(s) => Linked(t)
           /\ Dated(s, c, l) => Dated(t, c, l)
           /\ Ordered(s) => Ordered(t)
<1>1. \A i \in DOMAIN t : i \in DOMAIN s /\ t[i] = s[i] BY DEF IsPrefixOf
<1>2. QED BY <1>1 DEF Linked, Dated, Ordered

LEMMA ReadsAre ==
    ASSUME NEW s \in Seq(StepType), NEW n \in 0..3, n <= Len(s), \A i \in 1..n : s[i].op = "write",
           n < Len(s) => s[n + 1].op = "read"
    PROVE  /\ ReadsOf(s) \in Seq(StepType) /\ Len(ReadsOf(s)) = Len(s) - n
           /\ \A i \in 1..(Len(s) - n) : ReadsOf(s)[i] = s[i + n]
<1>1. ASSUME NEW t \in Seq(StepType), t # <<>>, t[1].op = "write"
      PROVE  /\ DropWrite(t) \in Seq(StepType) /\ Len(DropWrite(t)) = Len(t) - 1
             /\ \A i \in 1..(Len(t) - 1) : DropWrite(t)[i] = t[i + 1]
    BY <1>1 DEF DropWrite
<1>2. ASSUME NEW t \in Seq(StepType), t # <<>> => t[1].op = "read"
      PROVE  DropWrite(t) = t
    BY <1>2 DEF DropWrite
<1> DEFINE a == DropWrite(s)
           b == DropWrite(a)
           c == DropWrite(b)
<1>3. ReadsOf(s) = c BY DEF ReadsOf
<1>4. CASE n = 0
    <2>1. s # <<>> => s[1].op = "read" BY <1>4
    <2>2. a = s BY <1>2, <2>1
    <2> QED BY <1>2, <1>3, <1>4, <2>1, <2>2
<1>5. CASE n = 1
    <2>1. s # <<>> /\ s[1].op = "write" BY <1>5
    <2>2. a \in Seq(StepType) /\ Len(a) = Len(s) - 1 /\ \A i \in 1..(Len(s) - 1) : a[i] = s[i + 1] BY <1>1, <2>1
    <2> HIDE DEF a
    <2>3. a # <<>> => a[1].op = "read" BY <1>5, <2>2
    <2>4. b = a BY <1>2, <2>2, <2>3
    <2>5. c = a BY <1>2, <2>2, <2>3, <2>4
    <2> QED BY <1>3, <1>5, <2>2, <2>5
<1>6. CASE n = 2
    <2>1. s # <<>> /\ s[1].op = "write" BY <1>6
    <2>2. a \in Seq(StepType) /\ Len(a) = Len(s) - 1 /\ \A i \in 1..(Len(s) - 1) : a[i] = s[i + 1] BY <1>1, <2>1
    <2> HIDE DEF a
    <2>3. a # <<>> /\ a[1].op = "write" BY <1>6, <2>2
    <2>4. b \in Seq(StepType) /\ Len(b) = Len(a) - 1 /\ \A i \in 1..(Len(a) - 1) : b[i] = a[i + 1]
        BY <1>1, <2>2, <2>3
    <2> HIDE DEF b
    <2>5. b # <<>> => b[1].op = "read" BY <1>6, <2>2, <2>4
    <2>6. c = b BY <1>2, <2>4, <2>5
    <2> QED BY <1>3, <1>6, <2>2, <2>4, <2>6
<1>7. CASE n = 3
    <2>1. s # <<>> /\ s[1].op = "write" BY <1>7
    <2>2. a \in Seq(StepType) /\ Len(a) = Len(s) - 1 /\ \A i \in 1..(Len(s) - 1) : a[i] = s[i + 1] BY <1>1, <2>1
    <2> HIDE DEF a
    <2>3. a # <<>> /\ a[1].op = "write" BY <1>7, <2>2
    <2>4. b \in Seq(StepType) /\ Len(b) = Len(a) - 1 /\ \A i \in 1..(Len(a) - 1) : b[i] = a[i + 1]
        BY <1>1, <2>2, <2>3
    <2> HIDE DEF b
    <2>5. b # <<>> /\ b[1].op = "write" BY <1>7, <2>2, <2>4
    <2>6. c \in Seq(StepType) /\ Len(c) = Len(b) - 1 /\ \A i \in 1..(Len(b) - 1) : c[i] = b[i + 1]
        BY <1>1, <2>4, <2>5
    <2> HIDE DEF c
    <2> QED BY <1>3, <1>7, <2>2, <2>4, <2>6
<1>8. QED BY <1>4, <1>5, <1>6, <1>7

\* The steps s of a call: n writes, which make a whole request of the command, then the reads.
Request(s, n, cmd) ==
    /\ s \in Seq(StepType) /\ n \in 1..3 /\ n <= Len(s) /\ s[1] = Write("cmd", cmd)
    /\ \A i \in 1..n : s[i].op = "write"
    /\ \A i \in 2..n : s[i].kind \in ArgKinds
    /\ \A i \in (n + 1)..Len(s) :
         /\ s[i].op = "read" /\ s[i].kind \in AnswerKinds
         /\ s[i].kind = "stick_count" => i = Len(s)
    /\ n = Len(s) <=> cmd = "LIBCPUID_MSR_DEBUG"
    /\ \A c : /\ \A i \in 1..(Len(s) - 1) : Follows(Packet(s[i], c), Packet(s[i + 1], c))
              /\ ArgAfter(Packet(s[Len(s)], c)) = "none"

LEMMA StepTypes ==
    /\ \A k \in Kinds, v \in Commands \cup Int : Write(k, v) \in StepType
    /\ \A k \in Kinds : Read(k) \in StepType
BY DEF Write, Read, StepType

\* What each call writes and reads.
LEMMA ClientStepsAre ==
    ASSUME NEW cmd \in Commands, NEW s, s = ClientSteps(cmd)
    PROVE  /\ s \in Seq(StepType)
           /\ cmd = "LIBCPUID_MSR_DEBUG" =>
                  s \in Seq(StepType) /\ Len(s) = 2
                  /\ s[1] = Write("cmd", cmd) /\ s[2] = Write("u16", 0)
           /\ cmd = "LIBCPUID_MSR_STATIC" =>
                  s \in Seq(StepType) /\ Len(s) = 3
                  /\ s[1] = Write("cmd", cmd) /\ s[2] = Write("u16", 0) /\ s[3] = Read("static")
           /\ cmd = "LIBCPUID_MSR_DYNAMIC" =>
                  s \in Seq(StepType) /\ Len(s) = 3
                  /\ s[1] = Write("cmd", cmd) /\ s[2] = Write("u16", 0) /\ s[3] = Read("dynamic")
           /\ cmd = "DMIDECODE" =>
                  s \in Seq(StepType) /\ Len(s) = 6
                  /\ s[1] = Write("cmd", cmd) /\ s[2] = Read("ret") /\ s[3] = Read("processor")
                  /\ s[4] = Read("mb") /\ s[5] = Read("bios") /\ s[6] = Read("stick_count")
           /\ cmd \in {"ACCESS_DEV_PCI", "ACCESS_SYS_DEBUG"} =>
                  s \in Seq(StepType) /\ Len(s) = 2
                  /\ s[1] = Write("cmd", cmd) /\ s[2] = Read("ret")
           /\ cmd = "LOAD_MODULE" =>
                  s \in Seq(StepType) /\ Len(s) = 4
                  /\ s[1] = Write("cmd", cmd) /\ s[2] = Write("len", 0) /\ s[3] = Write("module", 0)
                  /\ s[4] = Read("ret")
<1>0. Write("cmd", cmd) \in StepType /\ <<Write("cmd", cmd)>> \in Seq(StepType) BY StepTypes, KindNames
<1>1. CASE cmd = "LIBCPUID_MSR_DEBUG"
    <2>1. Write("u16", 0) \in StepType
        BY StepTypes, KindNames
    <2>2. call_libcpuid_msr_debug \in Seq(StepType)
        BY <2>1 DEF call_libcpuid_msr_debug
    <2>3. s \in Seq(StepType) BY <1>0, <1>1, <2>2 DEF ClientSteps
    <2>4. Len(s) = 2 /\ s[1] = Write("cmd", cmd) /\ s[2] = Write("u16", 0)
        BY <1>1 DEF ClientSteps, call_libcpuid_msr_debug
    <2> QED BY <1>1, <2>3, <2>4
<1>2. CASE cmd = "LIBCPUID_MSR_STATIC"
    <2>1. Write("u16", 0) \in StepType /\ Read("static") \in StepType
        BY StepTypes, KindNames
    <2>2. call_libcpuid_msr_static \in Seq(StepType)
        BY <2>1 DEF call_libcpuid_msr_static
    <2>3. s \in Seq(StepType) BY <1>0, <1>2, <2>2 DEF ClientSteps
    <2>4. Len(s) = 3 /\ s[1] = Write("cmd", cmd) /\ s[2] = Write("u16", 0)
          /\ s[3] = Read("static")
        BY <1>2 DEF ClientSteps, call_libcpuid_msr_static
    <2> QED BY <1>2, <2>3, <2>4
<1>3. CASE cmd = "LIBCPUID_MSR_DYNAMIC"
    <2>1. Write("u16", 0) \in StepType /\ Read("dynamic") \in StepType
        BY StepTypes, KindNames
    <2>2. call_libcpuid_msr_dynamic \in Seq(StepType)
        BY <2>1 DEF call_libcpuid_msr_dynamic
    <2>3. s \in Seq(StepType) BY <1>0, <1>3, <2>2 DEF ClientSteps
    <2>4. Len(s) = 3 /\ s[1] = Write("cmd", cmd) /\ s[2] = Write("u16", 0)
          /\ s[3] = Read("dynamic")
        BY <1>3 DEF ClientSteps, call_libcpuid_msr_dynamic
    <2> QED BY <1>3, <2>3, <2>4
<1>4. CASE cmd = "DMIDECODE"
    <2>1. Read("ret") \in StepType /\ Read("processor") \in StepType
          /\ Read("mb") \in StepType /\ Read("bios") \in StepType
          /\ Read("stick_count") \in StepType
        BY StepTypes, KindNames
    <2>2. call_dmidecode \in Seq(StepType)
        BY <2>1 DEF call_dmidecode
    <2>3. s \in Seq(StepType) BY <1>0, <1>4, <2>2 DEF ClientSteps
    <2>4. Len(s) = 6 /\ s[1] = Write("cmd", cmd) /\ s[2] = Read("ret")
          /\ s[3] = Read("processor") /\ s[4] = Read("mb") /\ s[5] = Read("bios")
          /\ s[6] = Read("stick_count")
        BY <1>4 DEF ClientSteps, call_dmidecode
    <2> QED BY <1>4, <2>3, <2>4
<1>5. CASE cmd \in {"ACCESS_DEV_PCI", "ACCESS_SYS_DEBUG"}
    <2>1. Read("ret") \in StepType
        BY StepTypes, KindNames
    <2>2. find_devices \in Seq(StepType) /\ can_access_sys_debug_dri \in Seq(StepType)
        BY <2>1 DEF find_devices, can_access_sys_debug_dri
    <2>3. s \in Seq(StepType) BY <1>0, <1>5, <2>2 DEF ClientSteps
    <2>4. Len(s) = 2 /\ s[1] = Write("cmd", cmd) /\ s[2] = Read("ret")
        BY <1>5 DEF ClientSteps, find_devices, can_access_sys_debug_dri
    <2> QED BY <1>5, <2>3, <2>4
<1>6. CASE cmd = "LOAD_MODULE"
    <2>1. Write("len", 0) \in StepType /\ Write("module", 0) \in StepType
          /\ Read("ret") \in StepType
        BY StepTypes, KindNames
    <2>2. load_module \in Seq(StepType)
        BY <2>1 DEF load_module
    <2>3. s \in Seq(StepType) BY <1>0, <1>6, <2>2 DEF ClientSteps
    <2>4. Len(s) = 4 /\ s[1] = Write("cmd", cmd) /\ s[2] = Write("len", 0)
          /\ s[3] = Write("module", 0) /\ s[4] = Read("ret")
        BY <1>6 DEF ClientSteps, load_module
    <2> QED BY <1>6, <2>3, <2>4
<1> QED BY <1>1, <1>2, <1>3, <1>4, <1>5, <1>6 DEF Commands

LEMMA ClientTable ==
    ASSUME NEW cmd \in Commands
    PROVE  \E n \in 1..3 : Request(ClientSteps(cmd), n, cmd)
<1> DEFINE s == ClientSteps(cmd)
<1>1. CASE cmd = "LIBCPUID_MSR_DEBUG"
    <2>1. s \in Seq(StepType) /\ Len(s) = 2
          /\ s[1] = Write("cmd", cmd) /\ s[2] = Write("u16", 0)
        BY <1>1, ClientStepsAre
    <2> HIDE DEF s
    <2>2. Request(s, 2, cmd)
        BY <1>1, <2>1, KindNames DEF Request, Write, Read, Follows, ArgAfter, Packet, ArgKinds, MsrCommands
    <2> QED BY <2>2 DEF s
<1>2. CASE cmd = "LIBCPUID_MSR_STATIC"
    <2>1. s \in Seq(StepType) /\ Len(s) = 3
          /\ s[1] = Write("cmd", cmd) /\ s[2] = Write("u16", 0) /\ s[3] = Read("static")
        BY <1>2, ClientStepsAre
    <2> HIDE DEF s
    <2>2. Request(s, 2, cmd)
        BY <1>2, <2>1, KindNames DEF Request, Write, Read, Follows, ArgAfter, Packet, ArgKinds, MsrCommands
    <2> QED BY <2>2 DEF s
<1>3. CASE cmd = "LIBCPUID_MSR_DYNAMIC"
    <2>1. s \in Seq(StepType) /\ Len(s) = 3
          /\ s[1] = Write("cmd", cmd) /\ s[2] = Write("u16", 0) /\ s[3] = Read("dynamic")
        BY <1>3, ClientStepsAre
    <2> HIDE DEF s
    <2>2. Request(s, 2, cmd)
        BY <1>3, <2>1, KindNames DEF Request, Write, Read, Follows, ArgAfter, Packet, ArgKinds, MsrCommands
    <2> QED BY <2>2 DEF s
<1>4. CASE cmd = "DMIDECODE"
    <2>1. s \in Seq(StepType) /\ Len(s) = 6
          /\ s[1] = Write("cmd", cmd) /\ s[2] = Read("ret") /\ s[3] = Read("processor")
          /\ s[4] = Read("mb") /\ s[5] = Read("bios") /\ s[6] = Read("stick_count")
        BY <1>4, ClientStepsAre
    <2> HIDE DEF s
    <2>2. Request(s, 1, cmd)
        BY <1>4, <2>1, KindNames DEF Request, Write, Read, Follows, ArgAfter, Packet, ArgKinds, MsrCommands
    <2> QED BY <2>2 DEF s
<1>5. CASE cmd \in {"ACCESS_DEV_PCI", "ACCESS_SYS_DEBUG"}
    <2>1. s \in Seq(StepType) /\ Len(s) = 2
          /\ s[1] = Write("cmd", cmd) /\ s[2] = Read("ret")
        BY <1>5, ClientStepsAre
    <2> HIDE DEF s
    <2>2. Request(s, 1, cmd)
        BY <1>5, <2>1, KindNames DEF Request, Write, Read, Follows, ArgAfter, Packet, ArgKinds, MsrCommands
    <2> QED BY <2>2 DEF s
<1>6. CASE cmd = "LOAD_MODULE"
    <2>1. s \in Seq(StepType) /\ Len(s) = 4
          /\ s[1] = Write("cmd", cmd) /\ s[2] = Write("len", 0) /\ s[3] = Write("module", 0)
          /\ s[4] = Read("ret")
        BY <1>6, ClientStepsAre
    <2> HIDE DEF s
    <2>2. Request(s, 3, cmd)
        BY <1>6, <2>1, KindNames DEF Request, Write, Read, Follows, ArgAfter, Packet, ArgKinds, MsrCommands
    <2> QED BY <2>2 DEF s
<1> QED BY <1>1, <1>2, <1>3, <1>4, <1>5, <1>6 DEF Commands

LEMMA PacketTypes == ASSUME NEW s \in StepType, NEW c \in 1..MaxCalls PROVE Packet(s, c) \in PacketType
BY DEF Packet, StepType, PacketType

LEMMA JoinedIs ==
    ASSUME NEW q \in Seq(PacketType), NEW t \in Seq(StepType), NEW c
    PROVE  /\ DOMAIN Joined(q, t, c) = 1..(Len(q) + Len(t)) /\ Len(q) \in Nat /\ Len(t) \in Nat
           /\ \A i \in 1..Len(q) : Joined(q, t, c)[i] = q[i]
           /\ \A i \in 1..Len(t) : Joined(q, t, c)[Len(q) + i] = Packet(t[i], c)
           /\ \A i \in 1..(Len(q) + Len(t)) : i > Len(q) =>
                  i - Len(q) \in 1..Len(t) /\ Joined(q, t, c)[i] = Packet(t[i - Len(q)], c)
           /\ c \in 1..MaxCalls \/ t = <<>> =>
                  Joined(q, t, c) \in Seq(PacketType) /\ Len(Joined(q, t, c)) = Len(q) + Len(t)
<1>1. Len(q) \in Nat /\ Len(t) \in Nat /\ Len(q) + Len(t) \in Nat OBVIOUS
<1>2. \A i \in 1..(Len(q) + Len(t)) : i > Len(q) => i - Len(q) \in 1..Len(t) BY <1>1
<1>3. ASSUME c \in 1..MaxCalls \/ t = <<>>
      PROVE  Joined(q, t, c) \in Seq(PacketType) /\ Len(Joined(q, t, c)) = Len(q) + Len(t)
    <2>1. \A i \in 1..Len(t) : Packet(t[i], c) \in PacketType
        <3> SUFFICES ASSUME NEW i \in 1..Len(t) PROVE Packet(t[i], c) \in PacketType OBVIOUS
        <3>1. t[i] \in StepType OBVIOUS
        <3>2. c \in 1..MaxCalls BY <1>3
        <3> QED BY <3>1, <3>2, PacketTypes
    <2>2. \A i \in 1..(Len(q) + Len(t)) : i <= Len(q) => q[i] \in PacketType BY <1>1
    <2>3. Joined(q, t, c) \in [1..(Len(q) + Len(t)) -> PacketType] BY <1>1, <1>2, <2>1, <2>2 DEF Joined
    <2> QED BY <1>1, <2>3
<1>4. QED BY <1>1, <1>2, <1>3 DEF Joined

LEMMA JoinedFirst ==
    ASSUME NEW q \in Seq(PacketType), NEW t \in Seq(StepType), NEW c, NEW i \in 1..Len(q)
    PROVE  Joined(q, t, c)[i] = q[i]
BY JoinedIs

LEMMA JoinedRest ==
    ASSUME NEW q \in Seq(PacketType), NEW t \in Seq(StepType), NEW c, NEW i \in 1..Len(t)
    PROVE  Joined(q, t, c)[Len(q) + i] = Packet(t[i], c)
BY JoinedIs

LEMMA JoinedAfter ==
    ASSUME NEW q \in Seq(PacketType), NEW t \in Seq(StepType), NEW c,
           NEW i \in DOMAIN Joined(q, t, c), i > Len(q)
    PROVE  i - Len(q) \in 1..Len(t) /\ Joined(q, t, c)[i] = Packet(t[i - Len(q)], c)
BY JoinedIs

\* A step that leaves nothing to write, or to read, changes nothing.
LEMMA ReadsTail ==
    ASSUME NEW s \in Seq(StepType), s # <<>>, Head(s).op = "write",
           \A i \in DOMAIN ReadsOf(s) : ReadsOf(s)[i].op = "read"
    PROVE  ReadsOf(Tail(s)) = ReadsOf(s)
<1>1. DropWrite(s) = Tail(s) BY DEF DropWrite
<1>2. ReadsOf(Tail(s)) = DropWrite(ReadsOf(s)) BY <1>1 DEF ReadsOf
<1>3. \A t \in Seq(StepType) : DropWrite(t) \in Seq(StepType) BY DEF DropWrite
<1>4. ReadsOf(s) \in Seq(StepType) BY <1>3 DEF ReadsOf
<1>5. DropWrite(ReadsOf(s)) = ReadsOf(s) BY <1>4 DEF DropWrite
<1> QED BY <1>2, <1>5

LEMMA ReadsHead ==
    ASSUME NEW s \in Seq(StepType), s # <<>> => Head(s).op = "read"
    PROVE  ReadsOf(s) = s
BY DEF ReadsOf, DropWrite

LEMMA WritesAre ==
    ASSUME NEW s \in Seq(StepType), NEW n \in 0..2, n <= Len(s), \A i \in 1..n : s[i].op = "read",
           n < Len(s) => s[n + 1].op = "write"
    PROVE  /\ WritesOf(s) \in Seq(StepType) /\ Len(WritesOf(s)) = Len(s) - n
           /\ \A i \in 1..(Len(s) - n) : WritesOf(s)[i] = s[i + n]
<1>1. ASSUME NEW t \in Seq(StepType), t # <<>>, t[1].op = "read"
      PROVE  /\ DropRead(t) \in Seq(StepType) /\ Len(DropRead(t)) = Len(t) - 1
             /\ \A i \in 1..(Len(t) - 1) : DropRead(t)[i] = t[i + 1]
    BY <1>1 DEF DropRead
<1>2. ASSUME NEW t \in Seq(StepType), t # <<>> => t[1].op = "write"
      PROVE  DropRead(t) = t
    BY <1>2 DEF DropRead
<1> DEFINE a == DropRead(s)
           b == DropRead(a)
<1>3. WritesOf(s) = b BY DEF WritesOf
<1>4. CASE n = 0
    <2>1. s # <<>> => s[1].op = "write" BY <1>4
    <2>2. a = s BY <1>2, <2>1
    <2> QED BY <1>2, <1>3, <1>4, <2>1, <2>2
<1>5. CASE n = 1
    <2>1. s # <<>> /\ s[1].op = "read" BY <1>5
    <2>2. a \in Seq(StepType) /\ Len(a) = Len(s) - 1 /\ \A i \in 1..(Len(s) - 1) : a[i] = s[i + 1] BY <1>1, <2>1
    <2> HIDE DEF a
    <2>3. a # <<>> => a[1].op = "write" BY <1>5, <2>2
    <2>4. b = a BY <1>2, <2>2, <2>3
    <2> QED BY <1>3, <1>5, <2>2, <2>4
<1>6. CASE n = 2
    <2>1. s # <<>> /\ s[1].op = "read" BY <1>6
    <2>2. a \in Seq(StepType) /\ Len(a) = Len(s) - 1 /\ \A i \in 1..(Len(s) - 1) : a[i] = s[i + 1] BY <1>1, <2>1
    <2> HIDE DEF a
    <2>3. a # <<>> /\ a[1].op = "read" BY <1>6, <2>2
    <2>4. b \in Seq(StepType) /\ Len(b) = Len(a) - 1 /\ \A i \in 1..(Len(a) - 1) : b[i] = a[i + 1]
        BY <1>1, <2>2, <2>3
    <2> HIDE DEF b
    <2> QED BY <1>3, <1>6, <2>2, <2>4
<1>8. QED BY <1>4, <1>5, <1>6

LEMMA WritesTail ==
    ASSUME NEW s \in Seq(StepType), s # <<>>, Head(s).op = "read",
           \A i \in DOMAIN WritesOf(s) : WritesOf(s)[i].op = "write"
    PROVE  WritesOf(Tail(s)) = WritesOf(s)
<1>1. DropRead(s) = Tail(s) BY DEF DropRead
<1>2. WritesOf(Tail(s)) = DropRead(WritesOf(s)) BY <1>1 DEF WritesOf
<1>3. \A t \in Seq(StepType) : DropRead(t) \in Seq(StepType) BY DEF DropRead
<1>4. WritesOf(s) \in Seq(StepType) BY <1>3 DEF WritesOf
<1>5. DropRead(WritesOf(s)) = WritesOf(s) BY <1>4 DEF DropRead
<1> QED BY <1>2, <1>5

LEMMA WritesHead ==
    ASSUME NEW s \in Seq(StepType), s # <<>> => Head(s).op = "write"
    PROVE  WritesOf(s) = s
BY DEF WritesOf, DropRead

LEMMA DropTypes ==
    ASSUME NEW s \in Seq(StepType)
    PROVE  ReadsOf(s) \in Seq(StepType) /\ WritesOf(s) \in Seq(StepType)
<1>1. \A t \in Seq(StepType) : DropRead(t) \in Seq(StepType) /\ DropWrite(t) \in Seq(StepType)
    BY DEF DropRead, DropWrite
<1> QED BY <1>1 DEF ReadsOf, WritesOf

\* A function of the daemon: it reads its n arguments and then writes its answers.
Function(s, n) ==
    /\ s \in Seq(StepType) /\ s # <<>> /\ n \in 0..2 /\ n <= Len(s)
    /\ \A i \in 1..n : s[i].op = "read" /\ s[i].kind \in ArgKinds /\ s[i] = Read(s[i].kind)
    /\ n >= 1 => (s[1].kind = "len" <=> n = 2)
    /\ n = 2 => s[2].kind = "module"
    /\ \A i \in (n + 1)..Len(s) :
         s[i].op = "write" /\ s[i].kind \in AnswerKinds /\ (s[i].kind = "stick_count" => s[i].value \in Nat)

LEMMA FunctionServes ==
    ASSUME NEW s, NEW n, Function(s, n)
    PROVE  /\ Served(s)
           /\ Len(WritesOf(s)) = Len(s) - n /\ \A i \in 1..(Len(s) - n) : WritesOf(s)[i] = s[i + n]
           /\ \A i \in DOMAIN s : s[i].kind = "stick_count" => s[i].value \in Nat
<1>1. /\ WritesOf(s) \in Seq(StepType) /\ Len(WritesOf(s)) = Len(s) - n
      /\ \A i \in 1..(Len(s) - n) : WritesOf(s)[i] = s[i + n]
    <2>1. /\ s \in Seq(StepType) /\ n \in 0..2 /\ n <= Len(s) /\ \A i \in 1..n : s[i].op = "read"
          /\ n < Len(s) => s[n + 1].op = "write"
        BY DEF Function
    <2> QED BY <2>1, WritesAre
<1>2. \A i \in DOMAIN WritesOf(s) : WritesOf(s)[i].op = "write" BY <1>1 DEF Function
<1>3. ASSUME NEW i \in DOMAIN s
      PROVE  /\ s[i].op = "read" => s[i].kind \in ArgKinds /\ s[i] = Read(s[i].kind)
             /\ s[i].op = "write" => s[i].kind \in AnswerKinds
             /\ s[i].kind = "len" => i + 1 \in DOMAIN s /\ s[i + 1].kind = "module"
             /\ s[i].kind # "len" /\ i + 1 \in DOMAIN s => s[i + 1].op = "write"
             /\ s[i].kind = "stick_count" => s[i].value \in Nat
    <2>1. i \in 1..n \/ i \in (n + 1)..Len(s) BY <1>3 DEF Function
    <2>2. CASE i \in (n + 1)..Len(s)
        <3>1. s[i].op = "write" /\ s[i].kind \in AnswerKinds BY <2>2 DEF Function
        <3>2. i + 1 \in DOMAIN s => s[i + 1].op = "write" BY <2>2 DEF Function
        <3>3. s[i].kind # "len" BY <3>1, KindNames
        <3> QED BY <2>2, <3>1, <3>2, <3>3 DEF Function
    <2>3. CASE i \in 1..n
        <3>1. s[i].op = "read" /\ s[i].kind \in ArgKinds /\ s[i] = Read(s[i].kind) BY <2>3 DEF Function
        <3>2. s[i].kind # "stick_count" BY <3>1 DEF ArgKinds
        <3>3. n \in {1, 2} /\ n <= Len(s) /\ s \in Seq(StepType) BY <2>3 DEF Function
        <3>4. CASE n = 1
            <4>1. i = 1 /\ s[i].kind # "len" BY <2>3, <3>4 DEF Function
            <4>2. i + 1 \in DOMAIN s => s[i + 1].op = "write" BY <3>3, <3>4, <4>1 DEF Function
            <4> QED BY <3>1, <3>2, <4>1, <4>2
        <3>5. CASE n = 2 /\ i = 1
            <4>1. s[1].kind = "len" /\ s[2].kind = "module" /\ 2 \in DOMAIN s BY <3>5, <3>3 DEF Function
            <4> QED BY <3>1, <3>2, <3>5, <4>1
        <3>6. CASE n = 2 /\ i = 2
            <4>1. s[2].kind = "module" BY <3>6 DEF Function
            <4>2. 3 \in DOMAIN s => s[3].op = "write" BY <3>3, <3>6 DEF Function
            <4> QED BY <3>1, <3>2, <3>6, <4>1, <4>2
        <3> QED BY <2>3, <3>3, <3>4, <3>5, <3>6
    <2> QED BY <2>1, <2>2, <2>3
<1> QED BY <1>1, <1>2, <1>3 DEF Served

LEMMA SmallFunctions ==
    ASSUME NEW cmd \in Commands \ {"DMIDECODE"}, NEW ret, NEW sticks, NEW s, s = ServerSteps(cmd, ret, sticks)
    PROVE  /\ cmd = "LIBCPUID_MSR_DEBUG" => Function(s, 1) /\ Len(s) = 1 /\ s[1] = Read("u16")
           /\ cmd = "LIBCPUID_MSR_STATIC" =>
                  Function(s, 1) /\ Len(s) = 2 /\ s[1] = Read("u16") /\ s[2] = Write("static", 0)
           /\ cmd = "LIBCPUID_MSR_DYNAMIC" =>
                  Function(s, 1) /\ Len(s) = 2 /\ s[1] = Read("u16") /\ s[2] = Write("dynamic", 0)
           /\ cmd \in {"ACCESS_DEV_PCI", "ACCESS_SYS_DEBUG"} =>
                  Function(s, 0) /\ Len(s) = 1 /\ s[1] = Write("ret", 0)
           /\ cmd = "LOAD_MODULE" =>
                  /\ Function(s, 2) /\ Len(s) = 3
                  /\ s[1] = Read("len") /\ s[2] = Read("module") /\ s[3] = Write("ret", 0)
<1>0. /\ Read("u16") \in StepType /\ Read("len") \in StepType /\ Read("module") \in StepType
      /\ Write("static", 0) \in StepType /\ Write("dynamic", 0) \in StepType /\ Write("ret", 0) \in StepType
    BY StepTypes, KindNames
<1>1. CASE cmd = "LIBCPUID_MSR_DEBUG"
    <2>1. s \in Seq(StepType) /\ Len(s) = 1 /\ s[1] = Read("u16")
        BY <1>0, <1>1 DEF ServerSteps, serve_msr_debug
    <2>2. Function(s, 1) BY <2>1 DEF Function, Read, Write, ArgKinds
    <2> QED BY <1>1, <2>1, <2>2
<1>2. CASE cmd = "LIBCPUID_MSR_STATIC"
    <2>1. s \in Seq(StepType) /\ Len(s) = 2 /\ s[1] = Read("u16") /\ s[2] = Write("static", 0)
        BY <1>0, <1>2 DEF ServerSteps, serve_msr_static
    <2>2. /\ s[1].op = "read" /\ s[1].kind = "u16" /\ s[1] = Read(s[1].kind)
          /\ s[2].op = "write" /\ s[2].kind \in AnswerKinds /\ s[2].kind # "stick_count"
        BY <2>1, KindNames DEF Read, Write
    <2>3. Function(s, 1) BY <2>1, <2>2 DEF Function, ArgKinds
    <2> QED BY <1>2, <2>1, <2>3
<1>3. CASE cmd = "LIBCPUID_MSR_DYNAMIC"
    <2>1. s \in Seq(StepType) /\ Len(s) = 2 /\ s[1] = Read("u16") /\ s[2] = Write("dynamic", 0)
        BY <1>0, <1>3 DEF ServerSteps, serve_msr_dynamic
    <2>2. /\ s[1].op = "read" /\ s[1].kind = "u16" /\ s[1] = Read(s[1].kind)
          /\ s[2].op = "write" /\ s[2].kind \in AnswerKinds /\ s[2].kind # "stick_count"
        BY <2>1, KindNames DEF Read, Write
    <2>3. Function(s, 1) BY <2>1, <2>2 DEF Function, ArgKinds
    <2> QED BY <1>3, <2>1, <2>3
<1>4. CASE cmd \in {"ACCESS_DEV_PCI", "ACCESS_SYS_DEBUG"}
    <2>1. s \in Seq(StepType) /\ Len(s) = 1 /\ s[1] = Write("ret", 0)
        BY <1>0, <1>4 DEF ServerSteps, serve_find_devices, serve_can_access_sys_debug_dri
    <2>2. s[1].op = "write" /\ s[1].kind \in AnswerKinds /\ s[1].kind # "stick_count"
        BY <2>1, KindNames DEF Write
    <2>3. Function(s, 0)
        <3>1. s # <<>> /\ 0 \in 0..2 /\ 0 <= Len(s) BY <2>1
        <3>2. \A i \in 1..0 : s[i].op = "read" /\ s[i].kind \in ArgKinds /\ s[i] = Read(s[i].kind) OBVIOUS
        <3>3. \A i \in (0 + 1)..Len(s) : i = 1 BY <2>1
        <3> QED BY <2>1, <2>2, <3>1, <3>2, <3>3 DEF Function
    <2> QED BY <1>4, <2>1, <2>3
<1>5. CASE cmd = "LOAD_MODULE"
    <2>1. s \in Seq(StepType) /\ Len(s) = 3 /\ s[1] = Read("len") /\ s[2] = Read("module") /\ s[3] = Write("ret", 0)
        BY <1>0, <1>5 DEF ServerSteps, serve_load_module
    <2>2. /\ s[1].op = "read" /\ s[1].kind = "len" /\ s[1] = Read(s[1].kind)
          /\ s[2].op = "read" /\ s[2].kind = "module" /\ s[2] = Read(s[2].kind)
          /\ s[3].op = "write" /\ s[3].kind \in AnswerKinds /\ s[3].kind # "stick_count"
        BY <2>1, KindNames DEF Read, Write
    <2>3. \A i \in 1..2 : s[i].op = "read" /\ s[i].kind \in ArgKinds /\ s[i] = Read(s[i].kind)
        <3> SUFFICES ASSUME NEW i \in 1..2
                     PROVE  s[i].op = "read" /\ s[i].kind \in ArgKinds /\ s[i] = Read(s[i].kind)
            OBVIOUS
        <3>1. i = 1 \/ i = 2 OBVIOUS
        <3> QED BY <2>2, <3>1 DEF ArgKinds
    <2>4. \A i \in (2 + 1)..Len(s) :
             s[i].op = "write" /\ s[i].kind \in AnswerKinds /\ (s[i].kind = "stick_count" => s[i].value \in Nat)
        <3>1. \A i \in (2 + 1)..Len(s) : i = 3 BY <2>1
        <3> QED BY <2>2, <3>1
    <2>5. s \in Seq(StepType) /\ s # <<>> /\ 2 \in 0..2 /\ 2 <= Len(s) BY <2>1
    <2>6. s[1].kind = "len" /\ s[2].kind = "module" BY <2>2
    <2>7. Function(s, 2) BY <2>3, <2>4, <2>5, <2>6 DEF Function
    <2> QED BY <1>5, <2>1, <2>7
<1> QED BY <1>1, <1>2, <1>3, <1>4, <1>5 DEF Commands

LEMMA DmiFunction ==
    ASSUME NEW ret \in Int, NEW sticks \in Nat, NEW s, s = ServerSteps("DMIDECODE", ret, sticks)
    PROVE  /\ Function(s, 0) /\ Len(s) = 5 + sticks
           /\ s[1] = Write("ret", ret) /\ s[2] = Write("processor", 0) /\ s[3] = Write("mb", 0)
           /\ s[4] = Write("bios", 0) /\ s[5] = Write("stick_count", sticks)
           /\ \A i \in 6..Len(s) : s[i] = Write("stick", 0)
<1> DEFINE a == <<Write("ret", ret), Write("processor", 0), Write("mb", 0), Write("bios", 0),
                  Write("stick_count", sticks)>>
           b == [i \in 1..sticks |-> Write("stick", 0)]
<1>1. s = a \o b BY DEF ServerSteps, serve_dmidecode
<1>2. /\ Write("ret", ret) \in StepType /\ Write("processor", 0) \in StepType /\ Write("mb", 0) \in StepType
      /\ Write("bios", 0) \in StepType /\ Write("stick_count", sticks) \in StepType /\ Write("stick", 0) \in StepType
    BY StepTypes, KindNames
<1>3. a \in Seq(StepType) /\ Len(a) = 5 BY <1>2
<1>4. b \in [1..sticks -> StepType] BY <1>2
<1>5. b \in Seq(StepType) /\ Len(b) = sticks BY <1>4
<1>6. \A i \in 1..sticks : b[i] = Write("stick", 0) OBVIOUS
<1>7. /\ a[1] = Write("ret", ret) /\ a[2] = Write("processor", 0) /\ a[3] = Write("mb", 0)
      /\ a[4] = Write("bios", 0) /\ a[5] = Write("stick_count", sticks)
    OBVIOUS
<1> HIDE DEF a, b
<1>8. s \in Seq(StepType) /\ Len(s) = 5 + sticks
    <2>1. a \o b \in Seq(StepType) /\ Len(a \o b) = Len(a) + Len(b) BY <1>3, <1>5, ConcatProperties
    <2> QED BY <1>1, <1>3, <1>5, <2>1
<1>9. \A i \in 1..5 : s[i] = a[i]
    <2> DEFINE ab == a \o b
    <2>1. \A i \in 1..(Len(a) + Len(b)) : ab[i] = IF i <= Len(a) THEN a[i] ELSE b[i - Len(a)]
        BY <1>3, <1>5, ConcatProperties
    <2>2. s = ab BY <1>1
    <2> HIDE DEF ab
    <2> QED BY <1>3, <1>5, <2>1, <2>2
<1>10. ASSUME NEW i \in 6..Len(s) PROVE s[i] = Write("stick", 0)
    <2>1. i - 5 \in 1..sticks /\ s[i] = b[i - 5] BY <1>1, <1>3, <1>5, <1>8, ConcatProperties
    <2> QED BY <1>6, <2>1
<1>11. /\ s[1] = Write("ret", ret) /\ s[2] = Write("processor", 0) /\ s[3] = Write("mb", 0)
       /\ s[4] = Write("bios", 0) /\ s[5] = Write("stick_count", sticks)
    BY <1>7, <1>9
<1>12. ASSUME NEW i \in 1..Len(s)
       PROVE  s[i].op = "write" /\ s[i].kind \in AnswerKinds /\ (s[i].kind = "stick_count" => s[i].value \in Nat)
    <2>1. i \in {1, 2, 3, 4, 5} \/ i \in 6..Len(s) BY <1>8
    <2> QED BY <1>10, <1>11, <2>1, KindNames DEF Write
<1> QED BY <1>8, <1>10, <1>11, <1>12 DEF Function

\* The function of a command reads the arguments that follow it.
LEMMA ServerTable ==
    ASSUME NEW cmd \in Commands, NEW ret \in Int, NEW sticks \in Nat,
           NEW p, p.kind = "cmd", p.value = cmd, NEW s, s = ServerSteps(cmd, ret, sticks)
    PROVE  /\ s \in Seq(StepType) /\ s # <<>> /\ Served(s)
           /\ \A i \in DOMAIN s : s[i].kind = "stick_count" => s[i].value \in Nat
           /\ Head(s).op = "write" => ArgAfter(p) = "none"
           /\ Head(s).op = "read" => ArgAfter(p) = Head(s).kind
           /\ s = serve_msr_debug <=> cmd = "LIBCPUID_MSR_DEBUG"
           /\ cmd = "LIBCPUID_MSR_DEBUG" => WritesOf(s) = <<>>
<1>1. \E n : Function(s, n) BY SmallFunctions, DmiFunction DEF Commands
<1>2. s \in Seq(StepType) /\ s # <<>> BY <1>1 DEF Function
<1>3. Served(s) /\ \A i \in DOMAIN s : s[i].kind = "stick_count" => s[i].value \in Nat
    BY <1>1, FunctionServes
<1>4. Head(s) = s[1] BY <1>2
<1>5. CASE cmd = "LIBCPUID_MSR_DEBUG"
    <2>1. Function(s, 1) /\ Len(s) = 1 /\ s[1] = Read("u16") BY <1>5, SmallFunctions
    <2>2. Len(WritesOf(s)) = 0 BY <2>1, FunctionServes
    <2>3. WritesOf(s) = <<>> BY <1>2, <2>2, DropTypes
    <2>4. s = serve_msr_debug BY <1>5 DEF ServerSteps
    <2> QED BY <1>2, <1>3, <1>4, <1>5, <2>1, <2>3, <2>4 DEF ArgAfter, MsrCommands, Read
<1>6. CASE cmd # "LIBCPUID_MSR_DEBUG"
    <2>1. Len(s) # 1 \/ s[1] = Write("ret", 0)
        <3>1. CASE cmd = "DMIDECODE"
            <4>1. Len(s) = 5 + sticks BY <3>1, DmiFunction
            <4> QED BY <4>1
        <3>2. CASE cmd # "DMIDECODE" BY <1>6, <3>2, SmallFunctions DEF Commands
        <3> QED BY <3>1, <3>2
    <2>2. s # serve_msr_debug
        <3>1. Len(serve_msr_debug) = 1 /\ serve_msr_debug[1] = Read("u16") BY DEF serve_msr_debug
        <3>2. Read("u16") # Write("ret", 0) BY DEF Read, Write
        <3> QED BY <2>1, <3>1, <3>2
    <2>3. /\ s[1].op = "write" => ArgAfter(p) = "none"
          /\ s[1].op = "read" => ArgAfter(p) = s[1].kind
        <3>1. CASE cmd = "DMIDECODE"
            <4>1. s[1] = Write("ret", ret) BY <3>1, DmiFunction
            <4> QED BY <3>1, <4>1 DEF ArgAfter, MsrCommands, Write
        <3>2. CASE cmd \in {"LIBCPUID_MSR_STATIC", "LIBCPUID_MSR_DYNAMIC"}
            <4>1. s[1] = Read("u16") BY <3>2, SmallFunctions
            <4> QED BY <3>2, <4>1 DEF ArgAfter, MsrCommands, Read
        <3>3. CASE cmd \in {"ACCESS_DEV_PCI", "ACCESS_SYS_DEBUG"}
            <4>1. s[1] = Write("ret", 0) BY <3>3, SmallFunctions
            <4> QED BY <3>3, <4>1 DEF ArgAfter, MsrCommands, Write
        <3>4. CASE cmd = "LOAD_MODULE"
            <4>1. s[1] = Read("len") BY <3>4, SmallFunctions
            <4> QED BY <3>4, <4>1 DEF ArgAfter, MsrCommands, Read
        <3> QED BY <1>6, <3>1, <3>2, <3>3, <3>4 DEF Commands
    <2> QED BY <1>2, <1>3, <1>4, <1>6, <2>2, <2>3
<1> QED BY <1>5, <1>6

LEMMA ClientReadsAre ==
    ASSUME NEW cmd \in Commands, NEW r, r = ReadsOf(ClientSteps(cmd))
    PROVE  /\ r \in Seq(StepType)
           /\ cmd = "LIBCPUID_MSR_DEBUG" <=> Len(r) = 0
           /\ cmd = "LIBCPUID_MSR_STATIC" => Len(r) = 1 /\ r[1] = Read("static")
           /\ cmd = "LIBCPUID_MSR_DYNAMIC" => Len(r) = 1 /\ r[1] = Read("dynamic")
           /\ cmd = "DMIDECODE" => /\ Len(r) = 5 /\ r[1] = Read("ret") /\ r[2] = Read("processor")
                                   /\ r[3] = Read("mb") /\ r[4] = Read("bios") /\ r[5] = Read("stick_count")
           /\ cmd \in {"ACCESS_DEV_PCI", "ACCESS_SYS_DEBUG", "LOAD_MODULE"} => Len(r) = 1 /\ r[1] = Read("ret")
           /\ \A i \in 1..Len(r) : r[i].kind = "stick_count" => i = Len(r)
<1> DEFINE s == ClientSteps(cmd)
<1>1. PICK n \in 1..3 : Request(s, n, cmd) BY ClientTable
<1>2. s \in Seq(StepType) BY <1>1 DEF Request
<1>3. /\ n <= Len(s) /\ \A i \in 1..n : s[i].op = "write"
      /\ n < Len(s) => s[n + 1].op = "read"
    BY <1>1 DEF Request
<1>4. /\ r \in Seq(StepType) /\ Len(r) = Len(s) - n
      /\ \A i \in 1..(Len(s) - n) : r[i] = s[i + n]
    BY <1>2, <1>3, ReadsAre
<1>5. \A i \in 1..Len(r) : r[i].kind = "stick_count" => i = Len(r)
    <2> SUFFICES ASSUME NEW i \in 1..Len(r), r[i].kind = "stick_count" PROVE i = Len(r) OBVIOUS
    <2>1. i + n \in (n + 1)..Len(s) /\ s[i + n].kind = "stick_count" BY <1>2, <1>4
    <2>2. i + n = Len(s) BY <1>1, <2>1 DEF Request
    <2> QED BY <1>2, <1>4, <2>2
<1>6. cmd = "LIBCPUID_MSR_DEBUG" <=> Len(r) = 0 BY <1>1, <1>2, <1>4 DEF Request
<1>7. ASSUME NEW i \in 1..Len(s), s[i].op = "read", i = 1 \/ s[i - 1].op = "write"
      PROVE  n = i - 1
    <2>1. i > n BY <1>3, <1>7 DEF Request
    <2>2. ASSUME n < i - 1 PROVE FALSE
        <3>1. i - 1 \in (n + 1)..Len(s) BY <1>2, <2>2
        <3>2. s[i - 1].op = "read" BY <1>1, <3>1 DEF Request
        <3>3. i # 1 BY <2>2
        <3> QED BY <1>7, <3>2, <3>3
    <2> QED BY <2>1, <2>2
<1>8. CASE cmd \in {"LIBCPUID_MSR_STATIC", "LIBCPUID_MSR_DYNAMIC"}
    <2>1. /\ Len(s) = 3 /\ s[2] = Write("u16", 0)
          /\ cmd = "LIBCPUID_MSR_STATIC" => s[3] = Read("static")
          /\ cmd = "LIBCPUID_MSR_DYNAMIC" => s[3] = Read("dynamic")
        BY <1>8, ClientStepsAre
    <2> HIDE DEF s
    <2>2. s[3].op = "read" /\ s[3 - 1].op = "write" BY <1>8, <2>1 DEF Read, Write
    <2>3. n = 3 - 1 BY <1>7, <2>1, <2>2
    <2> QED BY <1>4, <1>5, <1>6, <1>8, <2>1, <2>3
<1>9. CASE cmd \in {"ACCESS_DEV_PCI", "ACCESS_SYS_DEBUG"}
    <2>1. Len(s) = 2 /\ s[1] = Write("cmd", cmd) /\ s[2] = Read("ret") BY <1>9, ClientStepsAre
    <2> HIDE DEF s
    <2>2. s[2].op = "read" /\ s[2 - 1].op = "write" BY <2>1 DEF Read, Write
    <2>3. n = 2 - 1 BY <1>7, <2>1, <2>2
    <2> QED BY <1>4, <1>5, <1>6, <1>9, <2>1, <2>3
<1>10. CASE cmd = "LOAD_MODULE"
    <2>1. Len(s) = 4 /\ s[3] = Write("module", 0) /\ s[4] = Read("ret") BY <1>10, ClientStepsAre
    <2> HIDE DEF s
    <2>2. s[4].op = "read" /\ s[4 - 1].op = "write" BY <2>1 DEF Read, Write
    <2>3. n = 4 - 1 BY <1>7, <2>1, <2>2
    <2> QED BY <1>4, <1>5, <1>6, <1>10, <2>1, <2>3
<1>11. CASE cmd = "DMIDECODE"
    <2>1. /\ Len(s) = 6 /\ s[1] = Write("cmd", cmd) /\ s[2] = Read("ret") /\ s[3] = Read("processor")
          /\ s[4] = Read("mb") /\ s[5] = Read("bios") /\ s[6] = Read("stick_count")
        BY <1>11, ClientStepsAre
    <2> HIDE DEF s
    <2>2. s[2].op = "read" /\ s[2 - 1].op = "write" BY <2>1 DEF Read, Write
    <2>3. n = 2 - 1 BY <1>7, <2>1, <2>2
    <2> QED BY <1>4, <1>5, <1>6, <1>11, <2>1, <2>3
<1>12. CASE cmd = "LIBCPUID_MSR_DEBUG" BY <1>4, <1>5, <1>6, <1>12
<1> QED BY <1>8, <1>9, <1>10, <1>11, <1>12 DEF Commands

\* What a function writes answers the call, if dmidecode() succeeds.
LEMMA CommandAnswers ==
    ASSUME NEW cmd \in Commands, NEW ret \in Int, NEW sticks \in Nat, cmd = "DMIDECODE" => ret = 0,
           NEW w, w = WritesOf(ServerSteps(cmd, ret, sticks)), NEW r, r = ReadsOf(ClientSteps(cmd))
    PROVE  Answers(w, r, TRUE)
<1> DEFINE s == ServerSteps(cmd, ret, sticks)
<1>0. s \in Seq(StepType)
    <2>1. \E n : Function(s, n) BY SmallFunctions, DmiFunction DEF Commands
    <2> QED BY <2>1 DEF Function
<1>1. w \in Seq(StepType) BY <1>0, DropTypes
<1>2. r \in Seq(StepType) BY ClientReadsAre
<1>3. CASE cmd = "LIBCPUID_MSR_DEBUG"
    <2>1. Function(s, 1) /\ Len(s) = 1 BY <1>3, SmallFunctions
    <2>2. Len(w) = 0 BY <2>1, FunctionServes
    <2>3. Len(r) = 0 BY <1>3, ClientReadsAre
    <2> QED BY <1>1, <1>2, <2>2, <2>3 DEF Answers
<1>4. CASE cmd \in {"LIBCPUID_MSR_STATIC", "LIBCPUID_MSR_DYNAMIC"}
    <2>1. /\ Function(s, 1) /\ Len(s) = 2
          /\ cmd = "LIBCPUID_MSR_STATIC" => s[2] = Write("static", 0)
          /\ cmd = "LIBCPUID_MSR_DYNAMIC" => s[2] = Write("dynamic", 0)
        BY <1>4, SmallFunctions
    <2>2. Len(w) = Len(s) - 1 /\ \A i \in 1..(Len(s) - 1) : w[i] = s[i + 1]
        <3>1. w = WritesOf(s) OBVIOUS
        <3>2. Function(s, 1) BY <2>1
        <3> HIDE DEF s
        <3> QED BY <3>1, <3>2, FunctionServes
    <2>3. Len(w) = 1 /\ w[1] = s[2] BY <2>1, <2>2
    <2>4. Len(r) = 1 /\ (cmd = "LIBCPUID_MSR_STATIC" => r[1] = Read("static"))
          /\ (cmd = "LIBCPUID_MSR_DYNAMIC" => r[1] = Read("dynamic"))
        BY <1>4, ClientReadsAre
    <2>5. w[1].kind = r[1].kind /\ w[1].kind \in {"static", "dynamic"}
        BY <1>4, <2>1, <2>3, <2>4 DEF Read, Write
    <2> QED BY <1>1, <1>2, <2>3, <2>4, <2>5 DEF Answers
<1>5. CASE cmd \in {"ACCESS_DEV_PCI", "ACCESS_SYS_DEBUG", "LOAD_MODULE"}
    <2>1. Len(w) = 1 /\ w[1] = Write("ret", 0)
        <3>1. CASE cmd = "LOAD_MODULE"
            <4>1. Function(s, 2) /\ Len(s) = 3 /\ s[3] = Write("ret", 0) BY <3>1, SmallFunctions
            <4>2. Len(w) = Len(s) - 2 /\ \A i \in 1..(Len(s) - 2) : w[i] = s[i + 2] BY <4>1, FunctionServes
            <4>3. Len(w) = 1 /\ w[1] = s[3] BY <4>1, <4>2
            <4> QED BY <4>1, <4>3
        <3>2. CASE cmd \in {"ACCESS_DEV_PCI", "ACCESS_SYS_DEBUG"}
            <4>1. Function(s, 0) /\ Len(s) = 1 /\ s[1] = Write("ret", 0) BY <3>2, SmallFunctions
            <4>2. Len(w) = 1 /\ w[1] = s[1] BY <4>1, FunctionServes
            <4> QED BY <4>1, <4>2
        <3> QED BY <1>5, <3>1, <3>2
    <2>2. Len(r) = 1 /\ r[1] = Read("ret") BY <1>5, ClientReadsAre
    <2>3. w[1].kind = "ret" /\ w[1].value = 0 /\ r[1].kind = "ret" BY <2>1, <2>2 DEF Read, Write
    <2> QED BY <1>1, <1>2, <2>1, <2>2, <2>3 DEF Answers
<1>6. CASE cmd = "DMIDECODE"
    <2>1. /\ Function(s, 0) /\ Len(s) = 5 + sticks
          /\ s[1] = Write("ret", ret) /\ s[2] = Write("processor", 0) /\ s[3] = Write("mb", 0)
          /\ s[4] = Write("bios", 0) /\ s[5] = Write("stick_count", sticks)
          /\ \A i \in 6..Len(s) : s[i] = Write("stick", 0)
        BY <1>6, DmiFunction
    <2>2. Len(w) = Len(s) - 0 /\ \A i \in 1..(Len(s) - 0) : w[i] = s[i + 0] BY <2>1, FunctionServes
    <2> HIDE DEF s
    <2>3. Len(w) = 5 + sticks /\ \A i \in 1..(5 + sticks) : w[i] = s[i] BY <2>1, <2>2
    <2>4. /\ Len(r) = 5 /\ r[1] = Read("ret") /\ r[2] = Read("processor")
          /\ r[3] = Read("mb") /\ r[4] = Read("bios") /\ r[5] = Read("stick_count")
        BY <1>6, ClientReadsAre
    <2>5. /\ w[1].kind = "ret" /\ w[1].value = 0 /\ r[1].kind = "ret"
          /\ w[2].kind = "processor" /\ r[2].kind = "processor" /\ w[3].kind = "mb" /\ r[3].kind = "mb"
          /\ w[4].kind = "bios" /\ r[4].kind = "bios"
          /\ w[5].kind = "stick_count" /\ w[5].value = sticks /\ r[5].kind = "stick_count"
          /\ \A i \in 6..Len(w) : w[i].kind = "stick"
        <3>1. w[1] = Write("ret", 0) /\ w[2] = Write("processor", 0) /\ w[3] = Write("mb", 0)
              /\ w[4] = Write("bios", 0) /\ w[5] = Write("stick_count", sticks)
            BY <1>6, <2>1, <2>3
        <3>2. \A i \in 6..Len(w) : w[i] = Write("stick", 0) BY <2>1, <2>3
        <3> QED BY <2>4, <3>1, <3>2 DEF Read, Write
    <2>6. DOMAIN w = 1..(5 + sticks) /\ DOMAIN r = 1..5 BY <1>1, <1>2, <2>3, <2>4
    <2>7. \A i \in DOMAIN w : i \in {1, 2, 3, 4, 5} \/ i \in 6..Len(w) BY <2>3, <2>6
    <2>8. \A i \in DOMAIN r : i \in {1, 2, 3, 4, 5} BY <2>6
    <2> QED BY <2>3, <2>4, <2>5, <2>6, <2>7, <2>8 DEF Answers
<1> QED BY <1>3, <1>4, <1>5, <1>6 DEF Commands

-----------------------------------------------------------------------------
(* Answers.                                                                *)

LEMMA HasFirst == ASSUME NEW S, NEW w \in Seq(S), w # <<>> PROVE 1 \in DOMAIN w /\ Head(w) = w[1]
OBVIOUS

LEMMA AnswersSame ==
    ASSUME NEW S, NEW w \in Seq(S), NEW T, NEW v \in Seq(T), NEW r, NEW all \in BOOLEAN, Len(v) = Len(w),
           \A i \in 1..Len(w) : v[i].kind = w[i].kind /\ v[i].value = w[i].value, Answers(w, r, all)
    PROVE  Answers(v, r, all)
<1>1. DOMAIN v = 1..Len(w) /\ DOMAIN w = 1..Len(w) OBVIOUS
<1> QED BY <1>1 DEF Answers

LEMMA AnswersPrefix ==
    ASSUME NEW S, NEW w \in Seq(S), NEW v \in Seq(S), NEW r \in Seq(StepType), NEW all \in BOOLEAN, Len(v) <= Len(w),
           \A i \in 1..Len(v) : v[i] = w[i], Answers(w, r, all)
    PROVE  Answers(v, r, FALSE)
<1>1. DOMAIN v = 1..Len(v) /\ DOMAIN w = 1..Len(w) /\ Len(v) \in Nat /\ Len(w) \in Nat /\ Len(r) \in Nat OBVIOUS
<1>2. \A i \in DOMAIN v : i \in DOMAIN w /\ v[i] = w[i] BY <1>1
<1>3. ASSUME NEW i \in DOMAIN v, v[i].kind = "stick_count"
      PROVE  v[i].value \in Nat /\ Len(v) <= i + v[i].value
    <2>1. w[i].value \in Nat /\ Len(w) <= i + w[i].value BY <1>2, <1>3 DEF Answers
    <2> QED BY <1>1, <1>2, <2>1
<1>4. (\A i \in DOMAIN r : r[i].kind # "stick_count") => Len(v) <= Len(r)
    <2>1. (\A i \in DOMAIN r : r[i].kind # "stick_count") => Len(w) <= Len(r) BY DEF Answers
    <2> QED BY <1>1, <2>1
<1> QED BY <1>2, <1>3, <1>4 DEF Answers

LEMMA AnswersNone ==
    ASSUME NEW S, NEW w \in Seq(S), NEW all \in BOOLEAN, Answers(w, <<>>, all)
    PROVE  w = <<>>
<1>1. Len(w) <= Len(<<>>) BY DEF Answers
<1> QED BY <1>1

LEMMA AnswersNotYet ==
    ASSUME NEW S, NEW w \in Seq(S), Len(w) = 0,
           NEW r \in Seq(StepType), \A i \in 1..Len(r) : r[i].kind = "stick_count" => i = Len(r)
    PROVE  Answers(w, r, FALSE)
<1>1. \A i \in DOMAIN w : FALSE OBVIOUS
<1>2. \A i \in DOMAIN r : r[i].kind = "stick_count" => i = Len(r) OBVIOUS
<1>3. Len(w) <= Len(r) OBVIOUS
<1> QED BY <1>1, <1>2, <1>3, Zenon DEF Answers

\* The client takes the first answer: it is what it reads, and its number of memory devices is
\* that of the answers that follow.
FirstTaken(w, v, r, u) ==
    /\ w # <<>> /\ r # <<>> /\ Len(v) = Len(w) - 1 /\ \A i \in 1..(Len(w) - 1) : v[i] = w[i + 1]
    /\ w[1].kind # "stick_count" => u = Tail(r)
    /\ w[1].kind = "stick_count" => Len(u) = w[1].value /\ \A i \in 1..Len(u) : u[i].kind = "stick"

LEMMA AnswersTaken ==
    ASSUME NEW w \in Seq(PacketType), NEW v \in Seq(PacketType), NEW r \in Seq(StepType), NEW u \in Seq(StepType),
           NEW all \in BOOLEAN, FirstTaken(w, v, r, u), Answers(w, r, all)
    PROVE  Answers(v, u, all)
<1>a. /\ w # <<>> /\ r # <<>> /\ Len(v) = Len(w) - 1 /\ \A i \in 1..(Len(w) - 1) : v[i] = w[i + 1]
      /\ w[1].kind # "stick_count" => u = Tail(r)
      /\ w[1].kind = "stick_count" => Len(u) = w[1].value /\ \A i \in 1..Len(u) : u[i].kind = "stick"
    BY DEF FirstTaken
<1>1. /\ DOMAIN v = 1..(Len(w) - 1) /\ DOMAIN w = 1..Len(w) /\ Len(w) \in Nat /\ Len(w) >= 1
      /\ DOMAIN r = 1..Len(r) /\ Len(r) \in Nat /\ Len(r) >= 1 /\ DOMAIN u = 1..Len(u) /\ Len(u) \in Nat
      /\ Len(v) = Len(w) - 1 /\ \A i \in 1..(Len(w) - 1) : v[i] = w[i + 1]
    BY <1>a
<1>0. \A i \in DOMAIN v : i \in Nat /\ i + 1 \in DOMAIN w /\ v[i] = w[i + 1]
    BY <1>a
<1>2. w[1].kind = r[1].kind
    <2>1. 1 \in DOMAIN w BY <1>1
    <2>2. 1 \in DOMAIN r BY <1>1
    <2> QED BY <2>1, <2>2 DEF Answers
<1>3. CASE w[1].kind # "stick_count"
    <2>1. Len(u) = Len(r) - 1 /\ \A i \in 1..(Len(r) - 1) : u[i] = r[i + 1] BY <1>a, <1>3
    <2>2. \A i \in DOMAIN v : i \in DOMAIN u => v[i].kind = u[i].kind
        <3> SUFFICES ASSUME NEW i \in DOMAIN v, i \in DOMAIN u PROVE v[i].kind = u[i].kind OBVIOUS
        <3>1. i + 1 \in DOMAIN w /\ i + 1 \in DOMAIN r /\ v[i] = w[i + 1] /\ u[i] = r[i + 1] BY <1>1, <2>1
        <3> QED BY <3>1 DEF Answers
    <2>3. \A i \in DOMAIN v : v[i].kind = "ret" => v[i].value = 0
        <3> SUFFICES ASSUME NEW i \in DOMAIN v, v[i].kind = "ret" PROVE v[i].value = 0 OBVIOUS
        <3>1. i + 1 \in DOMAIN w /\ v[i] = w[i + 1] BY <1>0
        <3> QED BY <3>1 DEF Answers
    <2>4. \A i \in DOMAIN v : i \notin DOMAIN u => v[i].kind = "stick"
        <3> SUFFICES ASSUME NEW i \in DOMAIN v, i \notin DOMAIN u PROVE v[i].kind = "stick" OBVIOUS
        <3>1. i + 1 \in DOMAIN w /\ i + 1 \notin DOMAIN r /\ v[i] = w[i + 1] BY <1>1, <2>1
        <3> QED BY <3>1 DEF Answers
    <2>5. \A i \in DOMAIN u : u[i].kind = "stick_count" => i = Len(u)
        <3> SUFFICES ASSUME NEW i \in DOMAIN u, u[i].kind = "stick_count" PROVE i = Len(u) OBVIOUS
        <3>1. i + 1 \in DOMAIN r /\ r[i + 1].kind = "stick_count" BY <1>1, <2>1
        <3>2. i + 1 = Len(r) BY <3>1 DEF Answers
        <3> QED BY <1>1, <2>1, <3>2
    <2>6. \A i \in DOMAIN v : v[i].kind = "stick_count" =>
             v[i].value \in Nat /\ Len(v) <= i + v[i].value /\ (all => Len(v) = i + v[i].value)
        <3> SUFFICES ASSUME NEW i \in DOMAIN v, v[i].kind = "stick_count"
                     PROVE  v[i].value \in Nat /\ Len(v) <= i + v[i].value /\ (all => Len(v) = i + v[i].value)
            OBVIOUS
        <3>1. i + 1 \in DOMAIN w /\ w[i + 1] = v[i] BY <1>0
        <3>2. v[i].value \in Nat /\ Len(w) <= (i + 1) + v[i].value /\ (all => Len(w) = (i + 1) + v[i].value)
            BY <3>1 DEF Answers
        <3>3. i \in Nat BY <1>0
        <3> DEFINE x == v[i].value
        <3>4. x \in Nat /\ Len(w) <= (i + 1) + x /\ (all => Len(w) = (i + 1) + x) BY <3>2
        <3> HIDE DEF x
        <3>5. Len(v) <= i + x
            <4>1. Len(v) = Len(w) - 1 /\ Len(w) \in Nat BY <1>1
            <4> QED BY <3>3, <3>4, <4>1
        <3>6. ASSUME all PROVE Len(v) = i + x
            <4>1. Len(v) = Len(w) - 1 /\ Len(w) \in Nat BY <1>1
            <4>2. Len(w) = (i + 1) + x BY <3>4, <3>6
            <4> QED BY <3>3, <3>4, <4>1, <4>2
        <3> QED BY <3>4, <3>5, <3>6 DEF x
    <2>7. ASSUME \A i \in DOMAIN u : u[i].kind # "stick_count" PROVE Len(v) <= Len(u)
        <3>1. ASSUME NEW i \in DOMAIN r PROVE r[i].kind # "stick_count"
            <4>1. CASE i = 1 BY <1>2, <1>3, <4>1
            <4>2. CASE i # 1
                <5>1. i - 1 \in DOMAIN u /\ u[i - 1] = r[i] BY <1>1, <2>1, <4>2
                <5> QED BY <2>7, <5>1
            <4> QED BY <4>1, <4>2
        <3>2. Len(w) <= Len(r) BY <3>1 DEF Answers
        <3> QED BY <1>1, <2>1, <3>2
    <2>8. all => Len(v) >= Len(u)
        <3>1. all => Len(w) >= Len(r) BY DEF Answers
        <3> QED BY <1>1, <2>1, <3>1
    <2> QED BY <2>2, <2>3, <2>4, <2>5, <2>6, <2>7, <2>8 DEF Answers
<1>4. CASE w[1].kind = "stick_count"
    <2>1. Len(r) = 1
        <3>1. 1 \in DOMAIN r /\ r[1].kind = "stick_count" BY <1>1, <1>2, <1>4
        <3> QED BY <3>1, Zenon DEF Answers
    <2>2. w[1].value \in Nat /\ Len(w) <= 1 + w[1].value /\ (all => Len(w) = 1 + w[1].value)
        <3>1. 1 \in DOMAIN w BY <1>1
        <3>2. \A i \in DOMAIN w : w[i].kind = "stick_count" =>
                 w[i].value \in Nat /\ Len(w) <= i + w[i].value /\ (all => Len(w) = i + w[i].value)
            BY DEF Answers
        <3> QED BY ONLY <1>4, <3>1, <3>2
    <2>3. ASSUME NEW i \in DOMAIN v PROVE v[i].kind = "stick" /\ i \in DOMAIN u
        <3>1. i + 1 \in DOMAIN w /\ i + 1 \notin DOMAIN r /\ v[i] = w[i + 1] BY <1>1, <2>1
        <3>2. v[i].kind = "stick" BY <3>1 DEF Answers
        <3> QED BY <1>a, <1>1, <1>4, <2>2, <3>2
    <2>4. \A i \in DOMAIN u : u[i].kind = "stick" BY <1>a, <1>1, <1>4
    <2>5. Len(v) <= Len(u) /\ (all => Len(v) = Len(u)) BY <1>a, <1>1, <1>4, <2>2
    <2> QED BY <1>1, <2>3, <2>4, <2>5 DEF Answers
<1> QED BY <1>3, <1>4

-----------------------------------------------------------------------------
(* Queues.                                                                 *)

LEMMA JoinedMoved ==
    ASSUME NEW q \in Seq(PacketType), NEW t \in Seq(StepType), t # <<>>, NEW c \in 1..MaxCalls,
           NEW p, p = Packet(Head(t), c)
    PROVE  Append(q, p) \in Seq(PacketType) /\ Joined(Append(q, p), Tail(t), c) = Joined(q, t, c)
<1>0. t[1] \in StepType /\ Head(t) = t[1] BY HasFirst
<1>1. p \in PacketType BY <1>0, PacketTypes
<1> DEFINE r == Append(q, p)
           u == Tail(t)
<1>2. r \in Seq(PacketType) /\ Len(r) = Len(q) + 1 /\ r[Len(q) + 1] = p /\ \A i \in 1..Len(q) : r[i] = q[i]
    BY <1>1
<1>3. u \in Seq(StepType) /\ Len(u) = Len(t) - 1 /\ \A i \in 1..(Len(t) - 1) : u[i] = t[i + 1]
    OBVIOUS
<1>4. Len(q) \in Nat /\ Len(t) \in Nat /\ Len(t) >= 1 OBVIOUS
<1>5. p = Packet(t[1], c) BY <1>0
<1> HIDE DEF r, u
<1>6. Len(r) + Len(u) = Len(q) + Len(t) BY <1>2, <1>3, <1>4
<1>7. ASSUME NEW i \in 1..(Len(q) + Len(t))
      PROVE  (IF i <= Len(r) THEN r[i] ELSE Packet(u[i - Len(r)], c))
             = (IF i <= Len(q) THEN q[i] ELSE Packet(t[i - Len(q)], c))
    <2>1. CASE i <= Len(q)
        <3>1. i <= Len(r) /\ i \in 1..Len(q) BY <1>2, <1>4, <2>1
        <3> QED BY <1>2, <2>1, <3>1
    <2>2. CASE i = Len(q) + 1
        <3>1. i - Len(q) = 1 /\ ~(i <= Len(q)) /\ i <= Len(r) BY <1>2, <1>4, <2>2
        <3>2. r[i] = p BY <1>2, <2>2
        <3> QED BY <1>5, <3>1, <3>2
    <2>3. CASE i > Len(q) + 1
        <3>1. ~(i <= Len(q)) /\ ~(i <= Len(r)) BY <1>2, <1>4, <2>3
        <3>2. i - Len(r) \in 1..(Len(t) - 1) /\ (i - Len(r)) + 1 = i - Len(q) BY <1>2, <1>4, <2>3
        <3>3. u[i - Len(r)] = t[i - Len(q)] BY <1>3, <3>2
        <3> QED BY <3>1, <3>3
    <2> QED BY <1>4, <2>1, <2>2, <2>3
<1>8. Joined(r, u, c) = Joined(q, t, c) BY <1>6, <1>7, Zenon DEF Joined
<1> QED BY <1>2, <1>8 DEF r, u

LEMMA JoinedDropped ==
    ASSUME NEW q \in Seq(PacketType), NEW t \in Seq(StepType), NEW c, NEW k \in 0..Len(q),
           NEW p \in Seq(PacketType), Len(p) = Len(q) - k, \A i \in 1..(Len(q) - k) : p[i] = q[i + k]
    PROVE  IsSuffix(Joined(p, t, c), Joined(q, t, c), Len(q) + Len(t), k)
<1>1. Len(q) \in Nat /\ Len(t) \in Nat /\ k \in Nat /\ k <= Len(q) OBVIOUS
<1>2. DOMAIN Joined(q, t, c) = 1..(Len(q) + Len(t)) /\ DOMAIN Joined(p, t, c) = 1..((Len(q) + Len(t)) - k)
    <2>1. Len(p) + Len(t) = (Len(q) + Len(t)) - k BY <1>1
    <2> QED BY <2>1 DEF Joined
<1>3. ASSUME NEW i \in 1..((Len(q) + Len(t)) - k)
      PROVE  Joined(p, t, c)[i] = Joined(q, t, c)[i + k]
    <2>1. i \in 1..(Len(p) + Len(t)) /\ i + k \in 1..(Len(q) + Len(t)) BY <1>1
    <2>2. CASE i <= Len(p)
        <3>1. i + k <= Len(q) /\ p[i] = q[i + k] BY <1>1, <2>2
        <3> QED BY <2>1, <2>2, <3>1 DEF Joined
    <2>3. CASE ~(i <= Len(p))
        <3>1. ~(i + k <= Len(q)) /\ (i + k) - Len(q) = i - Len(p) BY <1>1, <2>3
        <3> QED BY <2>1, <2>3, <3>1 DEF Joined
    <2> QED BY <2>2, <2>3
<1>4. k \in 0..(Len(q) + Len(t)) BY <1>1
<1> QED BY <1>2, <1>3, <1>4 DEF IsSuffix

LEMMA JoinedCut ==
    ASSUME NEW q \in Seq(PacketType), NEW t \in Seq(StepType), NEW c, NEW u \in Seq(StepType), Len(u) = 0
    PROVE  IsPrefixOf(Joined(q, u, c), Joined(q, t, c), Len(q) + Len(t), Len(q))
<1>1. Len(q) \in Nat /\ Len(t) \in Nat OBVIOUS
<1>2. DOMAIN Joined(q, u, c) = 1..Len(q) /\ DOMAIN Joined(q, t, c) = 1..(Len(q) + Len(t))
    <2>1. DOMAIN Joined(q, u, c) = 1..(Len(q) + Len(u)) BY <1>1, JoinedIs
    <2>2. Len(q) + Len(u) = Len(q) BY <1>1
    <2> QED BY <2>1, <2>2, JoinedIs
<1>3. \A i \in 1..Len(q) : Joined(q, u, c)[i] = q[i] /\ Joined(q, t, c)[i] = q[i]
    <2>1. \A i \in 1..Len(q) : Joined(q, u, c)[i] = q[i] BY JoinedFirst
    <2>2. \A i \in 1..Len(q) : Joined(q, t, c)[i] = q[i] BY JoinedFirst
    <2> QED BY <2>1, <2>2
<1>4. Len(q) \in 0..(Len(q) + Len(t)) BY <1>1
<1>5. \A i \in 1..Len(q) : Joined(q, u, c)[i] = Joined(q, t, c)[i] BY <1>3
<1> QED BY <1>2, <1>4, <1>5, Zenon DEF IsPrefixOf

LEMMA NoArgument ==
    ASSUME NEW p, p.kind \in AnswerKinds \/ p.kind \in {"u16", "module"}
    PROVE  ArgAfter(p) = "none"
BY KindNames DEF ArgAfter

LEMMA ArgNames == ASSUME NEW p PROVE ArgAfter(p) \in ArgKinds \cup {"none"}
BY DEF ArgAfter, ArgKinds

\* A call adds its request to the packets of the calls before it.
LEMMA CallLinks ==
    ASSUME NEW q \in Seq(PacketType), \A i \in 1..Len(q) : q[i].kind \in ClientKinds,
           NEW s, NEW n, NEW cmd \in Commands, Request(s, n, cmd),
           NEW a, DOMAIN a = 1..Len(q), \A i \in 1..Len(q) : a[i] = q[i],
           NEW c \in Nat, NEW l \in Nat, NEW m \in Nat, l <= m,
           cmd = "LIBCPUID_MSR_DEBUG" => m >= 2, cmd = "DMIDECODE" => m >= 4,
           Linked(a), Whole(a), Dated(a, c, l), Ordered(a),
           NEW b, b = Joined(q, s, c + 1)
    PROVE  Linked(b) /\ Whole(b) /\ Dated(b, c + 1, m) /\ Ordered(b)
<1> DEFINE x == Len(q)
           y == Len(s)
<1>1. s \in Seq(StepType) /\ x \in Nat /\ y \in Nat /\ y >= 1 BY DEF Request
<1>2. /\ DOMAIN b = 1..(x + y) /\ \A i \in 1..x : b[i] = q[i]
      /\ \A i \in 1..y : b[x + i] = Packet(s[i], c + 1)
    <2> DEFINE j == Joined(q, s, c + 1)
    <2>1. /\ DOMAIN j = 1..(Len(q) + Len(s)) /\ \A i \in 1..Len(q) : j[i] = q[i]
          /\ \A i \in 1..Len(s) : j[Len(q) + i] = Packet(s[i], c + 1)
        BY <1>1, JoinedIs
    <2>2. b = j OBVIOUS
    <2> HIDE DEF j
    <2> QED BY <2>1, <2>2
<1>3. \A i \in 1..x : a[i] = q[i] OBVIOUS
<1>4. DOMAIN a = 1..x OBVIOUS
<1>5. b[x + 1].kind = "cmd" /\ b[x + 1].value = cmd /\ b[x + 1].of = c + 1
    <2>1. s[1] = Write("cmd", cmd) BY DEF Request
    <2>2. b[x + 1] = Packet(s[1], c + 1) BY <1>1, <1>2
    <2> QED BY <2>1, <2>2 DEF Packet, Write
<1>6. ASSUME NEW i \in 2..y PROVE b[x + i].kind # "cmd" /\ b[x + i].of = c + 1
    <2>1. s[i].kind \in ArgKinds \cup AnswerKinds BY <1>1 DEF Request
    <2>2. b[x + i] = Packet(s[i], c + 1) BY <1>2
    <2>3. s[i].kind # "cmd" BY <2>1, KindNames DEF ArgKinds
    <2> QED BY <2>2, <2>3 DEF Packet
<1>7. \A i \in 1..(y - 1) : Follows(b[x + i], b[(x + i) + 1])
    <2> SUFFICES ASSUME NEW i \in 1..(y - 1) PROVE Follows(b[x + i], b[(x + i) + 1]) OBVIOUS
    <2>0. i \in 1..y /\ i + 1 \in 1..y BY <1>1
    <2>1. b[x + i] = Packet(s[i], c + 1) /\ b[x + (i + 1)] = Packet(s[i + 1], c + 1) BY <1>2, <2>0
    <2>2. x + (i + 1) = (x + i) + 1 BY <1>1
    <2>3. Follows(Packet(s[i], c + 1), Packet(s[i + 1], c + 1)) BY DEF Request
    <2> QED BY <2>1, <2>2, <2>3
<1>8. ArgAfter(b[x + y]) = "none"
    <2>1. b[x + y] = Packet(s[y], c + 1) BY <1>1, <1>2
    <2> QED BY <2>1 DEF Request
<1>9. \A i \in 1..x : i + 1 \in 1..x => Follows(b[i], b[i + 1])
    BY <1>2, <1>3, <1>4 DEF Linked
<1>10. x >= 1 => Follows(b[x], b[x + 1])
    <2> SUFFICES ASSUME x >= 1 PROVE Follows(b[x], b[x + 1]) OBVIOUS
    <2>1. x \in 1..x /\ x + 1 \notin 1..x BY <1>1
    <2>2. ArgAfter(a[x]) = "none" BY <1>4, <2>1 DEF Whole
    <2>3. b[x] = a[x] /\ b[x].kind \in ClientKinds BY <1>2, <1>3, <2>1
    <2>4. b[x].kind \notin AnswerKinds BY <2>3 DEF AnswerKinds
    <2>5. b[x + 1].kind \notin ArgKinds BY <1>5 DEF ArgKinds
    <2> QED BY <2>2, <2>3, <2>4, <2>5 DEF Follows
<1>11. \A i \in DOMAIN b : i \in 1..x \/ (i - x \in 1..y /\ i = x + (i - x)) BY <1>1, <1>2
<1>12. \A i \in DOMAIN a : /\ a[i].of <= c
                           /\ a[i].kind = "cmd" => /\ a[i].value \in Commands
                                                   /\ a[i].value = "LIBCPUID_MSR_DEBUG" => l >= 2
                                                   /\ a[i].value = "DMIDECODE" => l >= 4
    BY DEF Dated
<1>13. \A i \in 1..x : q[i].of \in Int
    <2> SUFFICES ASSUME NEW i \in 1..x PROVE q[i].of \in Int OBVIOUS
    <2>1. q[i] \in PacketType OBVIOUS
    <2> QED BY <2>1 DEF PacketType
<1> HIDE DEF x, y
<1>14. Linked(b)
    <2> SUFFICES ASSUME NEW i \in DOMAIN b, i + 1 \in DOMAIN b PROVE Follows(b[i], b[i + 1]) BY DEF Linked
    <2>1. CASE i \in 1..x /\ i + 1 \in 1..x BY <1>9, <2>1
    <2>2. CASE i = x BY <1>1, <1>2, <1>10, <2>2
    <2>3. CASE i > x
        <3>1. i - x \in 1..(y - 1) /\ x + (i - x) = i BY <1>1, <1>2, <2>3
        <3> QED BY <1>7, <3>1
    <2> QED BY <1>1, <1>2, <2>1, <2>2, <2>3
<1>15. Whole(b)
    <2> SUFFICES ASSUME NEW i \in DOMAIN b, i + 1 \notin DOMAIN b PROVE ArgAfter(b[i]) = "none" BY DEF Whole
    <2>1. i \in 1..(x + y) /\ i + 1 \notin 1..(x + y) BY <1>2
    <2>2. i = x + y BY <1>1, <2>1
    <2> QED BY <1>8, <2>2
<1>16. Dated(b, c + 1, m)
    <2> SUFFICES ASSUME NEW i \in DOMAIN b
                 PROVE  /\ b[i].of <= c + 1
                        /\ b[i].kind = "cmd" => /\ b[i].value \in Commands
                                                /\ b[i].value = "LIBCPUID_MSR_DEBUG" => m >= 2
                                                /\ b[i].value = "DMIDECODE" => m >= 4
        BY DEF Dated
    <2>1. CASE i \in 1..x
        <3>1. b[i] = q[i] /\ q[i] = a[i] /\ q[i].of \in Int BY <1>2, <1>3, <1>13, <2>1
        <3>2. /\ a[i].of <= c
              /\ a[i].kind = "cmd" => /\ a[i].value \in Commands
                                      /\ a[i].value = "LIBCPUID_MSR_DEBUG" => l >= 2
                                      /\ a[i].value = "DMIDECODE" => l >= 4
            BY <1>4, <1>12, <2>1
        <3>3. b[i] = a[i] BY <3>1
        <3>4. b[i].of <= c + 1 BY <3>1, <3>2, <3>3
        <3>5. (l >= 2 => m >= 2) /\ (l >= 4 => m >= 4) OBVIOUS
        <3> QED BY <3>2, <3>3, <3>4, <3>5, Zenon
    <2>2. CASE i = x + 1 BY <1>5, <2>2
    <2>3. CASE i - x \in 2..y /\ i = x + (i - x) BY <1>6, <2>3
    <2> QED BY <1>1, <1>11, <2>1, <2>2, <2>3
<1>17. Ordered(b)
    <2> SUFFICES ASSUME NEW i \in DOMAIN b, NEW j \in DOMAIN b, i < j, b[i].kind = "cmd", b[j].kind = "cmd"
                 PROVE  b[i].of < b[j].of
        BY DEF Ordered
    <2>1. ASSUME NEW k \in DOMAIN b, b[k].kind = "cmd" PROVE k \in 1..x \/ k = x + 1
        <3>1. CASE k - x \in 2..y /\ k = x + (k - x) BY <1>6, <2>1, <3>1
        <3> QED BY <1>1, <1>11, <3>1
    <2>2. i \in 1..x BY <1>1, <2>1
    <2>3. CASE j \in 1..x BY <1>2, <1>3, <1>4, <2>2, <2>3 DEF Ordered
    <2>4. CASE j = x + 1
        <3>1. b[i] = q[i] /\ q[i] = a[i] /\ q[i].of \in Int BY <1>2, <1>3, <1>13, <2>2
        <3>2. a[i].of <= c BY <1>4, <1>12, <2>2
        <3> QED BY <1>5, <2>4, <3>1, <3>2
    <2> QED BY <2>1, <2>3, <2>4
<1> QED BY <1>14, <1>15, <1>16, <1>17

\* A read replaces the reads at the end by others.
LEMMA ReadLinks ==
    ASSUME NEW a, NEW b, NEW x \in Nat, NEW y \in Nat \ {0}, NEW z \in Nat, NEW c, NEW l,
           DOMAIN a = 1..(x + y), DOMAIN b = 1..(x + z), \A i \in 1..x : a[i] = b[i],
           \A i \in 1..(x + y) : i > x => a[i].kind \in AnswerKinds,
           \A i \in 1..(x + z) : i > x => b[i].kind \in AnswerKinds /\ b[i].of <= c,
           Linked(a), Dated(a, c, l), Ordered(a)
    PROVE  Linked(b) /\ Whole(b) /\ Dated(b, c, l) /\ Ordered(b)
<1>1. \A i \in 1..(x + y) : i + 1 \in 1..(x + y) => Follows(a[i], a[i + 1]) BY DEF Linked
<1>2. x >= 1 => ArgAfter(b[x]) = "none"
    <2> SUFFICES ASSUME x >= 1 PROVE ArgAfter(b[x]) = "none" OBVIOUS
    <2>1. x \in 1..(x + y) /\ x + 1 \in 1..(x + y) /\ x \in 1..x OBVIOUS
    <2>2. Follows(a[x], a[x + 1]) /\ a[x + 1].kind \in AnswerKinds BY <1>1, <2>1
    <2>3. a[x + 1].kind \notin ArgKinds /\ "none" \notin AnswerKinds BY <2>2, KindNames DEF ArgKinds
    <2>4. ArgAfter(a[x]) \in ArgKinds \cup {"none"} BY ArgNames
    <2>5. ArgAfter(a[x]) = "none" BY <2>2, <2>3, <2>4 DEF Follows
    <2> QED BY <2>1, <2>5
<1>3. \A i \in 1..(x + z) : i > x => ArgAfter(b[i]) = "none" BY NoArgument
<1>4. \A i \in 1..(x + z) : i > x => b[i].kind \notin ArgKinds /\ b[i].kind # "cmd" BY KindNames DEF ArgKinds
<1>5. Linked(b)
    <2> SUFFICES ASSUME NEW i \in 1..(x + z), i + 1 \in 1..(x + z) PROVE Follows(b[i], b[i + 1]) BY DEF Linked
    <2>1. CASE i + 1 <= x
        <3>1. a[i] = b[i] /\ a[i + 1] = b[i + 1] /\ i \in 1..(x + y) /\ i + 1 \in 1..(x + y) BY <2>1
        <3> QED BY <1>1, <3>1
    <2>2. CASE i >= x
        <3>1. ArgAfter(b[i]) = "none" BY <1>2, <1>3, <2>2
        <3>2. b[i + 1].kind \in AnswerKinds /\ b[i + 1].kind \notin ArgKinds BY <1>4, <2>2
        <3> QED BY <3>1, <3>2 DEF Follows
    <2> QED BY <2>1, <2>2
<1>6. Whole(b)
    <2> SUFFICES ASSUME NEW i \in 1..(x + z), i + 1 \notin 1..(x + z) PROVE ArgAfter(b[i]) = "none" BY DEF Whole
    <2>1. i = x + z OBVIOUS
    <2>2. CASE z = 0 BY <1>2, <2>1, <2>2
    <2>3. CASE z # 0 BY <1>3, <2>1, <2>3
    <2> QED BY <2>2, <2>3
<1>7. \A i \in 1..x : i \in DOMAIN a /\ a[i] = b[i] OBVIOUS
<1>8. \A i \in DOMAIN b : i \in 1..x \/ i > x OBVIOUS
<1>9. Dated(b, c, l) BY <1>4, <1>7, <1>8 DEF Dated
<1>10. \A i \in DOMAIN b : b[i].kind = "cmd" => i \in 1..x BY <1>4, <1>8
<1>11. Ordered(b) BY <1>7, <1>10 DEF Ordered
<1> QED BY <1>5, <1>6, <1>9, <1>11

-----------------------------------------------------------------------------
(* The ends close.                                                         *)

LEMMA Empty == <<>> \in Seq(StepType) /\ <<>> \in Seq(PacketType) /\ Len(<<>>) = 0 /\ DOMAIN <<>> = {}
OBVIOUS

LEMMA WellFormedIs == ASSUME NEW s \in Seq(StepType) PROVE WellFormed(s)
<1> SUFFICES ASSUME NEW i \in DOMAIN s PROVE s[i].op \in {"read", "write"} /\ s[i].kind \in Kinds
    BY DEF WellFormed
<1>1. s[i] \in StepType OBVIOUS
<1> QED BY <1>1 DEF StepType

LEMMA PacketsAre ==
    ASSUME NEW q \in Seq(PacketType)
    PROVE  \A i \in DOMAIN q : q[i].kind \in Kinds /\ q[i].of \in 1..MaxCalls
<1> SUFFICES ASSUME NEW i \in DOMAIN q PROVE q[i].kind \in Kinds /\ q[i].of \in 1..MaxCalls
    OBVIOUS
<1>1. q[i] \in PacketType OBVIOUS
<1> QED BY <1>1 DEF PacketType

LEMMA TypeFrom == SeqInv /\ Scalars <=> SeqInv /\ TypeOK
<1>1. SeqInv => /\ WellFormed(todo) /\ WellFormed(serving)
                /\ \A i \in DOMAIN toServer : toServer[i].kind \in Kinds /\ toServer[i].of \in 1..MaxCalls
                /\ \A i \in DOMAIN toClient : toClient[i].kind \in Kinds /\ toClient[i].of \in 1..MaxCalls
    BY WellFormedIs, PacketsAre DEF SeqInv
<1>2. SeqInv => machine \in Machines BY DEF SeqInv
<1>3. SeqInv => \A q \in {toServer, toClient} : \A i \in DOMAIN q : q[i].kind \in Kinds /\ q[i].of \in 1..MaxCalls
    BY <1>1
<1> QED BY <1>1, <1>2, <1>3, Zenon DEF TypeOK, Scalars

LEMMA CapacityIs == ASSUME SeqInv PROVE Capacity \in Nat \ {0} /\ DmidecodeRets \subseteq Int
BY ProtocolAssumption DEF SeqInv, Capacity, DmidecodeRets

LEMMA OutIs ==
    ASSUME SeqInv
    PROVE  /\ DOMAIN Out = 1..(Len(toServer) + Len(todo)) /\ Len(toServer) \in Nat /\ Len(todo) \in Nat
           /\ \A i \in 1..Len(toServer) : Out[i] = toServer[i]
           /\ \A i \in 1..Len(todo) : Out[Len(toServer) + i] = Packet(todo[i], call)
           /\ DOMAIN toServer = 1..Len(toServer)
<1>1. toServer \in Seq(PacketType) /\ todo \in Seq(StepType) BY DEF SeqInv
<1> QED BY <1>1, JoinedIs DEF Out

\* The client's call fails, or the client ends.
LEMMA ClientGone ==
    ASSUME Inv, socket_fd' = "down", toClient' = <<>>, todo' = <<>>,
           reset' \in {reset, reset \cup {"server"}}, toClient = <<>> => reset' = reset,
           UNCHANGED <<machine, call, last, serverVars, toServer>>
    PROVE  Inv'
<1> DEFINE n == Len(toServer)
<1>0. /\ Scalars /\ SeqInv /\ OutInv /\ TodoInv /\ Served(serving)
      /\ EndsInv /\ SyncInv /\ DebugInv /\ AnswerInv
    BY DEF Inv
<1>1. UNCHANGED <<machine, call, last, fd, handler, handling, serving, toServer>> BY DEF serverVars
<1>2. Scalars' BY <1>0, <1>1, Empty, CapacityIs DEF Scalars, Capacity
<1>3. SeqInv' BY <1>0, <1>1, Empty DEF SeqInv
<1>4. toServer \in Seq(PacketType) /\ todo \in Seq(StepType) BY <1>0 DEF SeqInv
<1>5. IsPrefixOf(Out', Out, Len(toServer) + Len(todo), n)
    BY <1>1, <1>4, Empty, JoinedCut DEF Out
<1>6. Len(toServer) + Len(todo) \in Nat BY <1>4
<1>7. Linked(Out') /\ Dated(Out', call, last) /\ Ordered(Out')
    BY <1>0, <1>5, <1>6, PrefixKeeps DEF OutInv
<1>8. OutInv' BY <1>0, <1>1, <1>7 DEF OutInv
<1>9. \A i \in DOMAIN Out' : i \in DOMAIN Out /\ Out'[i] = Out[i]
    BY <1>4, <1>5 DEF IsPrefixOf
<1>10. TodoInv'
    <2>1. ReadsOf(todo') = <<>> BY DEF ReadsOf, DropWrite
    <2> QED BY <2>1, Empty DEF TodoInv
<1>11. Served(serving)' BY <1>0, <1>1
<1>12. EndsInv' BY <1>0, <1>1 DEF EndsInv
<1>13. SyncInv' BY <1>0, <1>1, <1>9 DEF SyncInv
<1>14. DebugInv'
    <2> SUFFICES ASSUME fd = "up" PROVE DebugInv' BY <1>1 DEF DebugInv
    <2>1. \A i \in DOMAIN Out' : DebugAt(i)' => i \in DOMAIN Out /\ DebugAt(i) BY <1>9 DEF DebugAt
    <2>2. ServesDebug' = ServesDebug BY <1>1 DEF ServesDebug
    <2>3. ServesDebug' \/ (\E i \in DOMAIN Out' : DebugAt(i)') =>
             toClient' = <<>> /\ "server" \notin reset' /\ WritesOf(serving') = <<>> /\ last' >= 2
        BY <1>0, <1>1, <2>1, <2>2 DEF DebugInv
    <2>4. \A i, j \in DOMAIN Out' : DebugAt(j)' /\ i < j => Out'[i].kind # "cmd"
        BY <1>0, <1>9, <2>1 DEF DebugInv
    <2>5. ServesDebug' => \A i \in DOMAIN Out' : ~DebugAt(i)'
        BY <1>0, <2>1, <2>2 DEF DebugInv
    <2> QED BY <2>3, <2>4, <2>5 DEF DebugInv
<1>15. AnswerInv' BY DEF AnswerInv
<1> QED BY <1>2, <1>3, <1>8, <1>10, <1>11, <1>12, <1>13, <1>14, <1>15 DEF Inv

\* The thread's function fails, or the thread ends.
LEMMA ServerGone ==
    ASSUME Inv, fd' = "down", toServer' = <<>>, serving' = <<>>, handler' \in {"read", "done"},
           reset' \in {reset, reset \cup {"client"}}, UNCHANGED <<machine, clientVars, handling, toClient>>
    PROVE  Inv'
<1> DEFINE n == Len(toServer)
<1>0. /\ Scalars /\ SeqInv /\ OutInv /\ TodoInv /\ Served(serving)
      /\ EndsInv /\ SyncInv /\ DebugInv /\ AnswerInv
    BY DEF Inv
<1>1. UNCHANGED <<machine, socket_fd, call, last, todo, handling, toClient>> BY DEF clientVars
<1>2. Scalars' BY <1>0, <1>1, Empty, CapacityIs DEF Scalars, Capacity
<1>3. SeqInv' BY <1>0, <1>1, Empty DEF SeqInv
<1>4. toServer \in Seq(PacketType) /\ todo \in Seq(StepType) BY <1>0 DEF SeqInv
<1>5. IsSuffix(Out', Out, Len(toServer) + Len(todo), n)
    <2>1. n \in 0..Len(toServer) /\ Len(toServer) - n = 0 BY <1>4
    <2>2. toServer' \in Seq(PacketType) /\ Len(toServer') = Len(toServer) - n
          /\ \A i \in 1..(Len(toServer) - n) : toServer'[i] = toServer[i + n]
        BY <2>1, Empty
    <2> HIDE DEF n
    <2>3. IsSuffix(Joined(toServer', todo, call), Joined(toServer, todo, call), Len(toServer) + Len(todo), n)
        BY <1>4, <2>1, <2>2, JoinedDropped
    <2> QED BY <1>1, <2>3 DEF Out
<1>6. Len(toServer) + Len(todo) \in Nat BY <1>4
<1>7. /\ Linked(Out') /\ Dated(Out', call, last) /\ Ordered(Out')
      /\ Whole(Out) => Whole(Out')
    BY <1>0, <1>5, <1>6, SuffixKeeps DEF OutInv
<1>8. OutInv' BY <1>0, <1>1, <1>7, Empty DEF OutInv
<1>9. \A i \in DOMAIN Out' : i + n \in DOMAIN Out /\ Out'[i] = Out[i + n]
    BY <1>4, <1>5 DEF IsSuffix
<1>10. TodoInv' BY <1>0, <1>1 DEF TodoInv
<1>11. Served(serving)'
    <2>1. WritesOf(serving') = <<>> BY DEF WritesOf, DropRead
    <2> QED BY <2>1, Empty DEF Served
<1>12. EndsInv' BY <1>0, <1>1 DEF EndsInv
<1>13. SyncInv' BY DEF SyncInv
<1>14. DebugInv' BY DEF DebugInv
<1>15. AnswerInv'
    <2> SUFFICES ASSUME socket_fd = "up", Clean PROVE AnswerInv' BY <1>1 DEF AnswerInv, Clean, DmidecodeRets
    <2> DEFINE r == ReadsOf(todo)
    <2>1. /\ \A i \in DOMAIN Out : Out[i].kind = "cmd" /\ Out[i].of # call => Out[i].value = "LIBCPUID_MSR_DEBUG"
          /\ \A i \in DOMAIN toClient : toClient[i].of = call
          /\ fd = "up" => \A i \in DOMAIN Out : Unread(i) =>
               /\ toClient = <<>> /\ WritesOf(serving) = <<>>
               /\ r = ReadsOf(ClientSteps(Out[i].value))
          /\ fd = "up" /\ (\A i \in DOMAIN Out : ~Unread(i)) => Answers(Ans, r, TRUE)
          /\ fd = "down" => Answers(toClient, r, FALSE)
        BY <1>0 DEF AnswerInv
    <2>2. \A i \in DOMAIN Out' : Out'[i].kind = "cmd" /\ Out'[i].of # call' => Out'[i].value = "LIBCPUID_MSR_DEBUG"
        BY <1>1, <1>9, <2>1
    <2>3. toClient \in Seq(PacketType) /\ serving \in Seq(StepType) /\ r \in Seq(StepType)
        BY <1>0, DropTypes DEF SeqInv
    <2>4. Answers(toClient, r, FALSE)
        <3>1. CASE fd = "down" BY <2>1, <3>1
        <3>2. ASSUME fd = "up", NEW i \in DOMAIN Out, Unread(i) PROVE Answers(toClient, r, FALSE)
            <4>1. toClient = <<>> /\ r = ReadsOf(ClientSteps(Out[i].value)) BY <2>1, <3>2
            <4>2. Out[i].value \in Commands BY <1>0, <3>2 DEF Unread, OutInv, Dated
            <4>3. \A k \in 1..Len(r) : r[k].kind = "stick_count" => k = Len(r) BY <4>1, <4>2, ClientReadsAre
            <4> HIDE DEF r
            <4>4. Len(toClient) = 0 BY <4>1, Empty
            <4> QED BY <2>3, <4>3, <4>4, AnswersNotYet
        <3>3. ASSUME fd = "up", \A i \in DOMAIN Out : ~Unread(i) PROVE Answers(toClient, r, FALSE)
            <4>1. Answers(Ans, r, TRUE) BY <2>1, <3>3
            <4>2. WritesOf(serving) \in Seq(StepType) BY <2>3, DropTypes
            <4>3. handling \in 1..MaxCalls \/ WritesOf(serving) = <<>>
                <5>1. serving = <<>> => WritesOf(serving) = <<>> BY DEF WritesOf, DropRead
                <5> QED BY <1>0, <5>1 DEF SeqInv
            <4> DEFINE w == WritesOf(serving)
            <4> HIDE DEF r, w
            <4>8. w \in Seq(StepType) /\ (handling \in 1..MaxCalls \/ w = <<>>) BY <4>2, <4>3 DEF w
            <4>9. \A i \in 1..Len(toClient) : Joined(toClient, w, handling)[i] = toClient[i]
                BY <2>3, <4>8, JoinedFirst
            <4>4. /\ Joined(toClient, w, handling) \in Seq(PacketType)
                  /\ Len(Joined(toClient, w, handling)) = Len(toClient) + Len(w)
                BY <2>3, <4>8, JoinedIs
            <4>5. Len(toClient) \in Nat /\ Len(w) \in Nat BY <2>3, <4>2 DEF w
            <4>6. Ans \in Seq(PacketType) /\ Len(toClient) <= Len(Ans)
                BY <4>4, <4>5 DEF Ans, w
            <4>7. \A i \in 1..Len(toClient) : toClient[i] = Ans[i]
                BY <4>9 DEF Ans, w
            <4> QED BY <2>3, <4>1, <4>6, <4>7, AnswersPrefix
        <3>4. fd \in {"up", "down"} BY <1>0 DEF Scalars
        <3> QED BY <3>1, <3>2, <3>3, <3>4
    <2> QED BY <1>1, <2>1, <2>2, <2>4 DEF AnswerInv
<1> QED BY <1>2, <1>3, <1>8, <1>10, <1>11, <1>12, <1>13, <1>14, <1>15 DEF Inv

-----------------------------------------------------------------------------
(* The client's steps.                                                     *)

LEMMA WriteKeeps ==
    ASSUME Inv, ClientWrite, machine' = machine
    PROVE  Inv'
<1>0. /\ Scalars /\ SeqInv /\ OutInv /\ TodoInv /\ Served(serving)
      /\ EndsInv /\ SyncInv /\ DebugInv /\ AnswerInv
    BY DEF Inv
<1>1. todo # <<>> /\ Head(todo).op = "write" /\ UNCHANGED <<call, last, serverVars>> BY DEF ClientWrite
<1>2. CASE fd # "up"
    <2>1. /\ socket_fd' = "down" /\ toClient' = <<>> /\ todo' = <<>> /\ UNCHANGED toServer
          /\ reset' = IF toClient = <<>> THEN reset ELSE reset \cup {"server"}
        BY <1>2 DEF ClientWrite, CallFails, ClientCloses
    <2> QED BY <1>1, <2>1, ClientGone
<1>3. CASE fd = "up"
    <2> DEFINE p == Packet(Head(todo), call)
    <2>1. /\ Len(toServer) < Capacity /\ toServer' = Append(toServer, p) /\ todo' = Tail(todo)
          /\ UNCHANGED <<machine, socket_fd, toClient, reset, call, last, fd, handler, handling, serving>>
        BY <1>1, <1>3 DEF ClientWrite, serverVars
    <2>2. /\ toServer \in Seq(PacketType) /\ todo \in Seq(StepType) /\ call \in 1..MaxCalls
        BY <1>0, <1>1 DEF SeqInv
    <2>3. toServer' \in Seq(PacketType) /\ Out' = Out
        BY <1>1, <2>1, <2>2, JoinedMoved DEF Out
    <2>4. todo' \in Seq(StepType) /\ \A i \in DOMAIN todo' : i + 1 \in DOMAIN todo /\ todo'[i] = todo[i + 1]
        BY <1>1, <2>1, <2>2
    <2>5. ReadsOf(todo') = ReadsOf(todo)
        BY <1>0, <1>1, <2>1, <2>2, ReadsTail DEF TodoInv
    <2>6. Scalars'
        <3>1. Len(toServer') = Len(toServer) + 1 BY <2>1, <2>2
        <3>2. Len(toServer') <= Capacity BY <1>0, <2>1, <2>2, <3>1, CapacityIs
        <3> QED BY <1>0, <2>1, <3>2 DEF Scalars, Capacity
    <2>7. SeqInv' BY <1>0, <2>1, <2>2, <2>3, <2>4 DEF SeqInv
    <2>8. OutInv'
        <3>1. p.kind \in ClientKinds
            <4>1. 1 \in DOMAIN todo /\ Head(todo) = todo[1] BY <1>1, <2>2, HasFirst
            <4>2. Head(todo).kind \in ClientKinds BY <1>0, <1>1, <4>1 DEF TodoInv
            <4> QED BY <4>2 DEF Packet
        <3> HIDE DEF p
        <3>2. \A i \in DOMAIN toServer' : toServer'[i] = p \/ (i \in DOMAIN toServer /\ toServer'[i] = toServer[i])
            BY <2>1, <2>2
        <3>3. \A i \in DOMAIN toServer' : toServer'[i].kind \in ClientKinds
            BY <1>0, <3>1, <3>2 DEF OutInv
        <3> QED BY <1>0, <2>1, <2>3, <3>3 DEF OutInv
    <2>9. TodoInv' BY <1>0, <2>4, <2>5 DEF TodoInv
    <2>10. Served(serving)' BY <1>0, <2>1
    <2>11. EndsInv' BY <1>0, <1>1, <1>3, <2>1 DEF EndsInv
    <2>12. SyncInv' BY <1>0, <2>1, <2>3 DEF SyncInv
    <2>13. DebugInv' BY <1>0, <2>1, <2>3 DEF DebugInv, ServesDebug, DebugAt
    <2>14. AnswerInv'
        <3>1. Ans' = Ans BY <2>1 DEF Ans
        <3>2. Clean' = Clean BY <2>1 DEF Clean, DmidecodeRets
        <3> QED BY <1>0, <2>1, <2>3, <2>5, <3>1, <3>2 DEF AnswerInv, Unread
    <2> QED BY <2>6, <2>7, <2>8, <2>9, <2>10, <2>11, <2>12, <2>13, <2>14 DEF Inv
<1> QED BY <1>2, <1>3

\* What is left to read is read.
LEMMA ReadLeaves ==
    ASSUME SeqInv, TodoInv, todo # <<>>, Head(todo).op = "read", toClient # <<>>,
           NEW value \in Values(Head(toClient)), NEW u, u = AfterRead(value)
    PROVE  /\ u \in Seq(StepType) /\ ReadsOf(u) = u /\ ReadsOf(todo) = todo
           /\ \A i \in DOMAIN u : u[i].op = "read" /\ u[i].kind \in AnswerKinds
           /\ \A i \in DOMAIN todo : todo[i].op = "read" /\ todo[i].kind \in AnswerKinds
           /\ Head(todo).kind = "stick_count" =>
                value \in Nat /\ Len(u) = value /\ \A i \in 1..Len(u) : u[i].kind = "stick"
           /\ Head(todo).kind # "stick_count" /\ (Head(todo).kind = "ret" => value = 0) => u = Tail(todo)
<1>1. todo \in Seq(StepType) BY DEF SeqInv
<1>2. ReadsOf(todo) = todo BY <1>1, ReadsHead
<1>3. ASSUME NEW i \in DOMAIN todo PROVE todo[i].op = "read" /\ todo[i].kind \in AnswerKinds
    <2>1. todo[i].op = "read" BY <1>2 DEF TodoInv
    <2>2. todo[i].kind \notin ClientKinds BY <2>1 DEF TodoInv
    <2>3. todo[i] \in StepType BY <1>1
    <2>4. todo[i].kind \in Kinds BY <2>3 DEF StepType
    <2> QED BY <2>1, <2>2, <2>4 DEF AnswerKinds
<1>4. Head(todo).kind = "stick_count" => value \in Nat
    <2> SUFFICES ASSUME Head(todo).kind = "stick_count" PROVE value \in Nat OBVIOUS
    <2>1. 1 \in DOMAIN toClient /\ Head(toClient) = toClient[1]
        <3>1. toClient \in Seq(PacketType) BY DEF SeqInv
        <3> QED BY <3>1, HasFirst
    <2>2. CASE Head(toClient).kind = "stick_count"
        <3>1. value = Head(toClient).value BY <2>2 DEF Values
        <3>2. Head(toClient).value \in Nat BY <2>1, <2>2 DEF SeqInv
        <3> QED BY <3>1, <3>2
    <2>3. CASE Head(toClient).kind # "stick_count"
        <3>1. value \in 0..MaxSticks BY <2>3 DEF Values
        <3> QED BY <3>1, ProtocolAssumption
    <2> QED BY <2>2, <2>3
<1>5. CASE Head(todo).kind = "ret" /\ value # 0
    <2>1. u = <<>> BY <1>5 DEF AfterRead
    <2>2. u \in Seq(StepType) /\ \A i \in DOMAIN u : FALSE BY <2>1, Empty
    <2>3. ReadsOf(u) = u BY <2>1, <2>2, ReadsHead
    <2> QED BY <1>2, <1>3, <1>5, <2>2, <2>3
<1>6. CASE Head(todo).kind = "stick_count"
    <2>1. u = [i \in 1..value |-> Read("stick")] BY <1>6 DEF AfterRead
    <2>2. Read("stick") \in StepType /\ Read("stick").op = "read" /\ Read("stick").kind = "stick"
        BY StepTypes, KindNames DEF Read
    <2>3. u \in [1..value -> StepType] /\ \A i \in 1..value : u[i] = Read("stick") BY <2>1, <2>2
    <2>4. value \in Nat BY <1>4, <1>6
    <2>5. u \in Seq(StepType) /\ Len(u) = value BY <2>3, <2>4
    <2>6. \A i \in DOMAIN u : u[i].op = "read" /\ u[i].kind = "stick" BY <2>2, <2>3
    <2>7. "stick" \in AnswerKinds BY KindNames
    <2>8. ReadsOf(u) = u
        <3>1. u # <<>> => Head(u).op = "read" BY <2>5, <2>6, HasFirst
        <3> QED BY <2>5, <3>1, ReadsHead
    <2>9. \A i \in 1..Len(u) : u[i].kind = "stick" BY <2>5, <2>6
    <2> QED BY <1>2, <1>3, <1>6, <2>4, <2>5, <2>6, <2>7, <2>8, <2>9
<1>7. CASE Head(todo).kind # "stick_count" /\ ~(Head(todo).kind = "ret" /\ value # 0)
    <2>1. u = Tail(todo) BY <1>7 DEF AfterRead
    <2>2. u \in Seq(StepType) /\ \A i \in DOMAIN u : i + 1 \in DOMAIN todo /\ u[i] = todo[i + 1]
        BY <1>1, <2>1
    <2>3. \A i \in DOMAIN u : u[i].op = "read" /\ u[i].kind \in AnswerKinds BY <1>3, <2>2
    <2>4. ReadsOf(u) = u
        <3>1. u # <<>> => Head(u).op = "read" BY <2>2, <2>3, HasFirst
        <3> QED BY <2>2, <3>1, ReadsHead
    <2> QED BY <1>2, <1>3, <1>7, <2>1, <2>2, <2>3, <2>4
<1> QED BY <1>5, <1>6, <1>7

\* The answers left, once the first has been read.
LEMMA AnswersLeft ==
    ASSUME NEW w \in Seq(PacketType), NEW v \in Seq(PacketType), NEW all \in BOOLEAN, w # <<>>,
           Len(v) = Len(w) - 1, \A i \in 1..(Len(w) - 1) : v[i] = w[i + 1],
           SeqInv, TodoInv, todo # <<>>, Head(todo).op = "read", toClient # <<>>, w[1] = Head(toClient),
           Answers(w, todo, all),
           NEW value \in Values(Head(toClient)), NEW u, u = AfterRead(value)
    PROVE  Answers(v, u, all)
<1>1. todo \in Seq(StepType) BY DEF SeqInv
<1>2. 1 \in DOMAIN w /\ 1 \in DOMAIN todo /\ Head(todo) = todo[1] BY <1>1, HasFirst
<1>3. w[1].kind = Head(todo).kind BY <1>2 DEF Answers
<1>4. value = w[1].value BY <1>3 DEF Values
<1>5. Head(todo).kind = "ret" => value = 0 BY <1>2, <1>3, <1>4 DEF Answers
<1>6. /\ u \in Seq(StepType)
      /\ w[1].kind = "stick_count" => Len(u) = w[1].value /\ \A i \in 1..Len(u) : u[i].kind = "stick"
      /\ w[1].kind # "stick_count" => u = Tail(todo)
    BY <1>3, <1>4, <1>5, ReadLeaves
<1> DEFINE t == todo
           k == w[1].kind
           x == w[1].value
<1>7. /\ t \in Seq(StepType) /\ t # <<>> /\ Answers(w, t, all) /\ u \in Seq(StepType)
      /\ k # "stick_count" => u = Tail(t)
      /\ k = "stick_count" => Len(u) = x /\ \A i \in 1..Len(u) : u[i].kind = "stick"
    BY <1>1, <1>6
<1>8. k = w[1].kind /\ x = w[1].value OBVIOUS
<1> HIDE DEF t, k, x
<1>9. FirstTaken(w, v, t, u)
    <2>1. w[1].kind # "stick_count" => u = Tail(t) BY <1>7, <1>8
    <2>2. w[1].kind = "stick_count" => Len(u) = w[1].value /\ \A i \in 1..Len(u) : u[i].kind = "stick"
        BY <1>7, <1>8
    <2> QED BY <1>7, <2>1, <2>2, Zenon DEF FirstTaken
<1> QED BY <1>7, <1>9, AnswersTaken

LEMMA ReadKeeps ==
    ASSUME Inv, ClientRead, machine' = machine
    PROVE  Inv'
<1>0. /\ Scalars /\ SeqInv /\ OutInv /\ TodoInv /\ Served(serving)
      /\ EndsInv /\ SyncInv /\ DebugInv /\ AnswerInv
    BY DEF Inv
<1>1. todo # <<>> /\ Head(todo).op = "read" /\ UNCHANGED <<call, last, serverVars, toServer>> BY DEF ClientRead
<1>2. CASE ReadError("client", toClient, fd) /\ CallFails(toClient)
    <2>1. /\ socket_fd' = "down" /\ toClient' = <<>> /\ todo' = <<>>
          /\ reset' = IF toClient = <<>> THEN reset ELSE reset \cup {"server"}
        BY <1>2 DEF CallFails, ClientCloses
    <2> QED BY <1>1, <2>1, ClientGone
<1>3. CASE Readable("client", toClient) /\ Short(toClient, Head(todo)) /\ CallFails(Tail(toClient))
    <2>1. /\ socket_fd' = "down" /\ toClient' = <<>> /\ todo' = <<>> /\ toClient # <<>>
          /\ reset' = IF Tail(toClient) = <<>> THEN reset ELSE reset \cup {"server"}
        BY <1>3 DEF CallFails, ClientCloses, Readable
    <2> QED BY <1>1, <2>1, ClientGone
<1>4. CASE /\ Readable("client", toClient) /\ toClient' = Tail(toClient)
           /\ \E value \in Values(Head(toClient)) : todo' = AfterRead(value)
           /\ UNCHANGED <<socket_fd, reset>>
    <2>1. PICK value \in Values(Head(toClient)) : todo' = AfterRead(value) BY <1>4
    <2>2. /\ toClient # <<>> /\ toClient' = Tail(toClient)
          /\ UNCHANGED <<machine, socket_fd, reset, call, last, fd, handler, handling, serving, toServer>>
        BY <1>1, <1>4 DEF Readable, serverVars
    <2>3. /\ toServer \in Seq(PacketType) /\ toClient \in Seq(PacketType) /\ todo \in Seq(StepType)
          /\ call \in 1..MaxCalls
        BY <1>0, <1>1 DEF SeqInv
    <2>4. /\ todo' \in Seq(StepType) /\ ReadsOf(todo') = todo' /\ ReadsOf(todo) = todo
          /\ \A i \in DOMAIN todo' : todo'[i].op = "read" /\ todo'[i].kind \in AnswerKinds
          /\ \A i \in DOMAIN todo : todo[i].op = "read" /\ todo[i].kind \in AnswerKinds
        BY <1>0, <1>1, <2>1, <2>2, ReadLeaves
    <2>5. socket_fd = "up" BY <1>0, <1>1 DEF EndsInv, Scalars
    <2>6. toClient' \in Seq(PacketType) /\ Len(toClient') = Len(toClient) - 1
          /\ \A i \in 1..(Len(toClient) - 1) : toClient'[i] = toClient[i + 1]
        BY <2>2, <2>3
    <2>7. Len(toServer) \in Nat /\ Len(toClient) \in Nat /\ Len(todo) \in Nat \ {0} /\ Len(todo') \in Nat
        BY <1>1, <2>3, <2>4
    <2>8. /\ DOMAIN Out = 1..(Len(toServer) + Len(todo)) /\ DOMAIN Out' = 1..(Len(toServer) + Len(todo'))
          /\ \A i \in 1..Len(toServer) : Out[i] = toServer[i] /\ Out'[i] = toServer[i]
        <3>1. DOMAIN Out = 1..(Len(toServer) + Len(todo)) BY <2>3, JoinedIs DEF Out
        <3>2. DOMAIN Out' = 1..(Len(toServer) + Len(todo')) BY <2>2, <2>3, <2>4, JoinedIs DEF Out
        <3>3. \A i \in 1..Len(toServer) : Out[i] = toServer[i] BY <2>3, JoinedFirst DEF Out
        <3>4. \A i \in 1..Len(toServer) : Out'[i] = toServer[i] BY <2>2, <2>3, <2>4, JoinedFirst DEF Out
        <3> QED BY <3>1, <3>2, <3>3, <3>4
    <2>9. ASSUME NEW i \in DOMAIN Out, i > Len(toServer) PROVE Out[i].kind \in AnswerKinds
        <3>1. i - Len(toServer) \in 1..Len(todo) /\ Out[i] = Packet(todo[i - Len(toServer)], call)
            BY <2>3, <2>9, JoinedAfter DEF Out
        <3> QED BY <2>3, <2>4, <3>1 DEF Packet
    <2>10. ASSUME NEW i \in DOMAIN Out', i > Len(toServer) PROVE Out'[i].kind \in AnswerKinds /\ Out'[i].of = call
        <3>1. i - Len(toServer) \in 1..Len(todo') /\ Out'[i] = Packet(todo'[i - Len(toServer)], call)
            BY <2>2, <2>3, <2>4, <2>10, JoinedAfter DEF Out
        <3> QED BY <2>4, <3>1 DEF Packet
    <2>11. Linked(Out') /\ Whole(Out') /\ Dated(Out', call, last) /\ Ordered(Out')
        <3> DEFINE a == Out
                   b == Out'
                   x == Len(toServer)
                   y == Len(todo)
                   z == Len(todo')
        <3>1. /\ x \in Nat /\ y \in Nat \ {0} /\ z \in Nat /\ DOMAIN a = 1..(x + y) /\ DOMAIN b = 1..(x + z)
              /\ \A i \in 1..x : a[i] = b[i]
            BY <2>7, <2>8
        <3>2. \A i \in 1..(x + y) : i > x => a[i].kind \in AnswerKinds BY <2>8, <2>9
        <3>3. \A i \in 1..(x + z) : i > x => b[i].kind \in AnswerKinds /\ b[i].of <= call BY <2>3, <2>8, <2>10
        <3>4. Linked(a) /\ Dated(a, call, last) /\ Ordered(a) BY <1>0 DEF OutInv
        <3> HIDE DEF a, b, x, y, z
        <3>5. Linked(b) /\ Whole(b) /\ Dated(b, call, last) /\ Ordered(b)
            BY <3>1, <3>2, <3>3, <3>4, ReadLinks
        <3> QED BY <3>5 DEF b
    <2>12. \A i \in DOMAIN Out : Out[i].kind = "cmd" => i \in 1..Len(toServer)
        BY <2>7, <2>8, <2>9, KindNames
    <2>13. \A i \in DOMAIN Out' : Out'[i].kind = "cmd" => i \in DOMAIN Out /\ Out'[i] = Out[i]
        BY <2>7, <2>8, <2>10, KindNames
    <2>14. \A i \in DOMAIN Out : Out[i].kind = "cmd" => i \in DOMAIN Out' /\ Out'[i] = Out[i]
        BY <2>7, <2>8, <2>12
    <2>15. Scalars'
        <3>1. Len(toClient') <= Capacity' BY <1>0, <2>2, <2>6, <2>7, CapacityIs DEF Scalars, Capacity
        <3> QED BY <1>0, <2>2, <3>1 DEF Scalars, Capacity
    <2>16. SeqInv'
        <3>1. \A i \in DOMAIN toClient' : i + 1 \in DOMAIN toClient /\ toClient'[i] = toClient[i + 1]
            BY <2>2, <2>3
        <3>2. \A i \in DOMAIN toClient' : toClient'[i].kind = "stick_count" => toClient'[i].value \in Nat
            BY <1>0, <3>1 DEF SeqInv
        <3> QED BY <1>0, <2>2, <2>3, <2>4, <2>6, <3>2 DEF SeqInv
    <2>17. OutInv' BY <1>0, <2>2, <2>11 DEF OutInv
    <2>18. TodoInv'
        <3>1. \A i \in DOMAIN todo' : todo'[i].op # "write" /\ todo'[i].kind \notin ClientKinds
            BY <2>4 DEF AnswerKinds
        <3> QED BY <2>4, <3>1 DEF TodoInv
    <2>19. Served(serving)' BY <1>0, <2>2
    <2>20. EndsInv' BY <1>0, <2>2, <2>5 DEF EndsInv
    <2>21. SyncInv'
        <3> SUFFICES ASSUME fd = "up" PROVE SyncInv' BY <2>2 DEF SyncInv
        <3>1. CASE Len(toServer) # 0
            <4>1. 1 \in 1..Len(toServer) /\ 1 \in DOMAIN Out /\ 1 \in DOMAIN Out' /\ Out'[1] = Out[1]
                BY <2>7, <2>8, <3>1
            <4> QED BY <1>0, <2>2, <4>1 DEF SyncInv
        <3>2. CASE Len(toServer) = 0
            <4>1. 1 \in DOMAIN Out /\ Out[1].kind \in AnswerKinds BY <2>7, <2>8, <2>9, <3>2
            <4>2. 1 \in DOMAIN Out' => Out'[1].kind \notin ArgKinds
                BY <2>10, <3>2, KindNames DEF ArgKinds
            <4>3. ~(handler = "serve" /\ Head(serving).op = "read")
                <5> SUFFICES ASSUME handler = "serve", Head(serving).op = "read" PROVE FALSE OBVIOUS
                <5>1. Out[1].kind = Head(serving).kind BY <1>0, <4>1 DEF SyncInv
                <5>2. 1 \in DOMAIN serving /\ Head(serving) = serving[1] BY <1>0, HasFirst DEF Scalars, SeqInv
                <5>3. Head(serving).kind \in ArgKinds BY <1>0, <5>2 DEF Served
                <5> QED BY <4>1, <5>1, <5>3, KindNames DEF ArgKinds
            <4> QED BY <2>2, <4>2, <4>3 DEF SyncInv
        <3> QED BY <3>1, <3>2
    <2>22. DebugInv'
        <3> SUFFICES ASSUME fd = "up" PROVE DebugInv' BY <2>2 DEF DebugInv
        <3>1. ~ServesDebug /\ \A i \in DOMAIN Out : ~DebugAt(i) BY <1>0, <2>2 DEF DebugInv
        <3>2. ~ServesDebug' BY <2>2, <3>1 DEF ServesDebug
        <3>3. \A i \in DOMAIN Out' : ~DebugAt(i)' BY <2>13, <3>1 DEF DebugAt
        <3> QED BY <3>2, <3>3 DEF DebugInv
    <2>23. AnswerInv'
        <3> SUFFICES ASSUME Clean PROVE AnswerInv' BY <2>2 DEF AnswerInv, Clean, DmidecodeRets
        <3>1. /\ \A i \in DOMAIN Out : Out[i].kind = "cmd" /\ Out[i].of # call => Out[i].value = "LIBCPUID_MSR_DEBUG"
              /\ \A i \in DOMAIN toClient : toClient[i].of = call
              /\ fd = "up" => \A i \in DOMAIN Out : ~Unread(i)
              /\ fd = "up" /\ (\A i \in DOMAIN Out : ~Unread(i)) =>
                   /\ WritesOf(serving) # <<>> => handling = call
                   /\ Answers(Ans, todo, TRUE)
              /\ fd = "down" => Answers(toClient, todo, FALSE)
            BY <1>0, <2>2, <2>4, <2>5 DEF AnswerInv
        <3>2. \A i \in DOMAIN Out' : Out'[i].kind = "cmd" /\ Out'[i].of # call => Out'[i].value = "LIBCPUID_MSR_DEBUG"
            BY <2>13, <3>1
        <3>3. \A i \in DOMAIN toClient' : toClient'[i].of = call
            <4>1. \A i \in DOMAIN toClient' : i + 1 \in DOMAIN toClient /\ toClient'[i] = toClient[i + 1]
                BY <2>2, <2>3
            <4> QED BY <3>1, <4>1
        <3>4. fd = "up" => \A i \in DOMAIN Out' : ~Unread(i)' BY <2>2, <2>13, <3>1 DEF Unread
        <3>5. toClient[1] = Head(toClient) BY <2>2, <2>3, HasFirst
        <3>6. fd = "down" => Answers(toClient', todo', FALSE)
            <4> DEFINE w == toClient
                       v == toClient'
                       u == todo'
            <4>1. /\ w \in Seq(PacketType) /\ v \in Seq(PacketType) /\ w # <<>> /\ Len(v) = Len(w) - 1
                  /\ \A i \in 1..(Len(w) - 1) : v[i] = w[i + 1]
                BY <2>2, <2>3, <2>6
            <4>2. w[1] = Head(toClient) /\ u = AfterRead(value) BY <2>1, <3>5
            <4>3. fd = "down" => Answers(w, todo, FALSE) BY <3>1
            <4>4. toClient # <<>> BY <2>2
            <4> HIDE DEF w, v, u
            <4>5. fd = "down" => Answers(v, u, FALSE)
                BY <1>0, <1>1, <2>1, <4>1, <4>2, <4>3, <4>4, AnswersLeft
            <4> QED BY <4>5 DEF v, u
        <3>7. ASSUME fd = "up" PROVE Answers(Ans', todo', TRUE)
            <4> DEFINE w == Ans
                       v == Ans'
                       u == todo'
                       x == WritesOf(serving)
            <4>1. x \in Seq(StepType) /\ (handling \in 1..MaxCalls \/ x = <<>>)
                <5>1. serving \in Seq(StepType) BY <1>0 DEF SeqInv
                <5>2. serving = <<>> => x = <<>> BY DEF WritesOf, DropRead
                <5> QED BY <1>0, <5>1, <5>2, DropTypes DEF SeqInv
            <4>2. w = Joined(toClient, x, handling) /\ v = Joined(toClient', x, handling) BY <2>2 DEF Ans
            <4> HIDE DEF w, v, u, x
            <4>3. w \in Seq(PacketType) /\ Len(w) = Len(toClient) + Len(x) /\ Len(x) \in Nat
                BY <2>3, <4>1, <4>2, JoinedIs
            <4>4. v \in Seq(PacketType) /\ Len(v) = Len(toClient') + Len(x)
                BY <2>6, <4>1, <4>2, JoinedIs
            <4>5. Len(v) = Len(w) - 1 BY <2>6, <2>7, <4>3, <4>4
            <4>6. Len(toClient) >= 1 BY <2>2, <2>3
            <4>7. w # <<>> BY <2>7, <4>3, <4>6
            <4>8. w[1] = Head(toClient)
                <5>1. 1 \in 1..Len(toClient) BY <2>7, <4>6
                <5> QED BY <2>3, <3>5, <4>1, <4>2, <5>1, JoinedFirst
            <4>9. \A i \in 1..(Len(w) - 1) : v[i] = w[i + 1]
                <5>1. 1 \in 0..Len(toClient) BY <2>7, <4>6
                <5>2. IsSuffix(v, w, Len(toClient) + Len(x), 1)
                    BY <2>3, <2>6, <4>1, <4>2, <5>1, JoinedDropped
                <5> QED BY <4>3, <5>2 DEF IsSuffix
            <4>10. Answers(w, todo, TRUE) BY <3>1, <3>7 DEF w
            <4>11. u = AfterRead(value) BY <2>1 DEF u
            <4>12. Answers(v, u, TRUE)
                BY <1>0, <1>1, <2>1, <2>2, <4>3, <4>4, <4>5, <4>7, <4>8, <4>9, <4>10, <4>11, AnswersLeft
            <4> QED BY <4>12 DEF v, u
        <3>8. fd = "up" /\ WritesOf(serving') # <<>> => handling' = call BY <2>2, <3>1
        <3> QED BY <2>2, <2>4, <3>2, <3>3, <3>4, <3>6, <3>7, <3>8 DEF AnswerInv
    <2> QED BY <2>15, <2>16, <2>17, <2>18, <2>19, <2>20, <2>21, <2>22, <2>23 DEF Inv
<1> QED BY <1>2, <1>3, <1>4 DEF ClientRead

LEMMA QuitKeeps ==
    ASSUME Inv, ClientQuit, machine' = machine
    PROVE  Inv'
<1>1. /\ socket_fd' = "down" /\ toClient' = <<>> /\ todo' = <<>>
      /\ reset' = IF toClient = <<>> THEN reset ELSE reset \cup {"server"}
      /\ UNCHANGED <<call, last, serverVars, toServer>>
    BY DEF ClientQuit, ClientCloses
<1> QED BY <1>1, ClientGone

\* Nothing is on its way to a client that has no call, unless dmidecode() failed: the commands that
\* the daemon has not read are LIBCPUID_MSR_DEBUG, which has no answer.
LEMMA NothingOwed ==
    ASSUME Inv, socket_fd = "up", todo = <<>>, Clean
    PROVE  /\ toClient = <<>>
           /\ fd = "up" => WritesOf(serving) = <<>>
           /\ \A i \in DOMAIN Out : Out[i].kind = "cmd" => Out[i].value = "LIBCPUID_MSR_DEBUG" /\ last >= 2
<1> DEFINE x == WritesOf(serving)
<1>0. Scalars /\ SeqInv /\ OutInv /\ EndsInv /\ AnswerInv BY DEF Inv
<1>1. /\ toServer \in Seq(PacketType) /\ toClient \in Seq(PacketType) /\ serving \in Seq(StepType)
      /\ fd \in {"up", "down"}
    BY <1>0 DEF SeqInv, Scalars
<1>2. ReadsOf(todo) = <<>> BY DEF ReadsOf, DropWrite
<1>3. ASSUME fd = "down"
      PROVE  toClient = <<>> /\ DOMAIN Out = {}
    <2>1. Answers(toClient, <<>>, FALSE) BY <1>0, <1>2, <1>3 DEF AnswerInv
    <2>2. toClient = <<>> BY <1>1, <2>1, AnswersNone
    <2>3. toServer = <<>> /\ todo = <<>> BY <1>0, <1>3 DEF EndsInv
    <2>4. Len(toServer) = 0 /\ Len(todo) = 0 BY <2>3
    <2>5. DOMAIN Out = 1..0 BY <1>0, <2>4, OutIs
    <2> QED BY <2>2, <2>5
<1>4. x \in Seq(StepType) /\ (handling \in 1..MaxCalls \/ x = <<>>)
    <2>1. serving = <<>> => x = <<>> BY DEF WritesOf, DropRead
    <2> QED BY <1>0, <1>1, <2>1, DropTypes DEF SeqInv
<1>5. ASSUME fd = "up", \A i \in DOMAIN Out : ~Unread(i) PROVE toClient = <<>> /\ x = <<>>
    <2>1. Ans = Joined(toClient, x, handling) BY DEF Ans
    <2> HIDE DEF x
    <2>2. Ans \in Seq(PacketType) /\ Len(Ans) = Len(toClient) + Len(x) BY <1>1, <1>4, <2>1, JoinedIs
    <2>3. Answers(Ans, <<>>, TRUE) BY <1>0, <1>2, <1>5 DEF AnswerInv
    <2>4. Ans = <<>> BY <2>2, <2>3, AnswersNone
    <2>5. Len(Ans) = 0 BY <2>4
    <2>6. Len(toClient) \in Nat /\ Len(x) \in Nat BY <1>1, <1>4
    <2>7. Len(toClient) = 0 /\ Len(x) = 0 BY <2>2, <2>5, <2>6
    <2> QED BY <1>1, <1>4, <2>7
<1>6. ASSUME fd = "up", NEW i \in DOMAIN Out, Unread(i)
      PROVE  toClient = <<>> /\ x = <<>> /\ Out[i].value = "LIBCPUID_MSR_DEBUG"
    <2>1. toClient = <<>> /\ x = <<>> /\ <<>> = ReadsOf(ClientSteps(Out[i].value))
        BY <1>0, <1>2, <1>6 DEF AnswerInv
    <2>2. Out[i].value \in Commands BY <1>0, <1>6 DEF Unread, OutInv, Dated
    <2>3. Len(ReadsOf(ClientSteps(Out[i].value))) = 0 BY <2>1, Empty
    <2>4. Out[i].value = "LIBCPUID_MSR_DEBUG" BY <2>2, <2>3, ClientReadsAre
    <2> QED BY <2>1, <2>4
<1>7. ASSUME NEW i \in DOMAIN Out, Out[i].kind = "cmd"
      PROVE  Out[i].value = "LIBCPUID_MSR_DEBUG" /\ last >= 2
    <2>1. fd = "up" BY <1>1, <1>3, <1>7
    <2>2. Out[i].of # call => Out[i].value = "LIBCPUID_MSR_DEBUG" BY <1>0, <1>7 DEF AnswerInv
    <2>3. Out[i].of = call => Unread(i) BY <1>7 DEF Unread
    <2>4. Out[i].value = "LIBCPUID_MSR_DEBUG" BY <1>6, <2>1, <2>2, <2>3
    <2>5. Out[i].value = "LIBCPUID_MSR_DEBUG" => last >= 2 BY <1>0, <1>7 DEF OutInv, Dated
    <2> QED BY <2>4, <2>5
<1> QED BY <1>1, <1>3, <1>5, <1>6, <1>7

LEMMA StartupIs ==
    ASSUME Scalars, NEW cmd \in Commands, Call(cmd)
    PROVE  /\ last \in 0..5 /\ last' \in 0..5 /\ last <= last'
           /\ cmd = "LIBCPUID_MSR_DEBUG" => last < 2 /\ last' >= 2
           /\ cmd = "DMIDECODE" => last' >= 4
<1>1. /\ Len(StartupOrder) = 5 /\ DOMAIN StartupOrder = 1..5
      /\ StartupOrder[1] = "LOAD_MODULE" /\ StartupOrder[2] = "LIBCPUID_MSR_DEBUG"
      /\ StartupOrder[3] = "LIBCPUID_MSR_STATIC" /\ StartupOrder[4] = "DMIDECODE"
      /\ StartupOrder[5] = "ACCESS_DEV_PCI"
    BY DEF StartupOrder
<1>2. last \in 0..5 BY <1>1 DEF Scalars
<1>3. \/ \E i \in DOMAIN StartupOrder : i > last /\ StartupOrder[i] = cmd /\ last' = i
      \/ cmd \in RefreshCommands /\ last' = Len(StartupOrder)
    BY DEF Call
<1>4. CASE cmd \in RefreshCommands /\ last' = Len(StartupOrder)
    <2>1. cmd # "LIBCPUID_MSR_DEBUG" /\ cmd # "DMIDECODE" BY <1>4 DEF RefreshCommands
    <2> QED BY <1>1, <1>2, <1>4, <2>1
<1>5. CASE \E i \in DOMAIN StartupOrder : i > last /\ StartupOrder[i] = cmd /\ last' = i
    <2>1. PICK i \in 1..5 : i > last /\ StartupOrder[i] = cmd /\ last' = i BY <1>1, <1>5
    <2>2. cmd = "LIBCPUID_MSR_DEBUG" => i = 2 BY <1>1, <2>1
    <2>3. cmd = "DMIDECODE" => i = 4 BY <1>1, <2>1
    <2> QED BY <1>2, <2>1, <2>2, <2>3
<1> QED BY <1>3, <1>4, <1>5

LEMMA CallKeeps ==
    ASSUME Inv, NEW cmd \in Commands, Call(cmd), machine' = machine
    PROVE  Inv'
<1> DEFINE x == Len(toServer)
<1>0. /\ Scalars /\ SeqInv /\ OutInv /\ TodoInv /\ Served(serving)
      /\ EndsInv /\ SyncInv /\ DebugInv /\ AnswerInv
    BY DEF Inv
<1>1. /\ socket_fd = "up" /\ todo = <<>> /\ call < MaxCalls /\ call' = call + 1 /\ todo' = ClientSteps(cmd)
      /\ UNCHANGED <<machine, socket_fd, reset, fd, handler, handling, serving, toServer, toClient>>
    BY DEF Call, serverVars
<1>2. /\ last \in 0..5 /\ last' \in 0..5 /\ last <= last'
      /\ cmd = "LIBCPUID_MSR_DEBUG" => last < 2 /\ last' >= 2
      /\ cmd = "DMIDECODE" => last' >= 4
    BY <1>0, StartupIs
<1>3. PICK n \in 1..3 : Request(todo', n, cmd) BY <1>1, ClientTable
<1>4. /\ call \in Nat /\ call + 1 \in 1..MaxCalls
      /\ toServer \in Seq(PacketType) /\ toClient \in Seq(PacketType) /\ todo' \in Seq(StepType)
      /\ serving \in Seq(StepType) /\ fd \in {"up", "down"}
    BY <1>0, <1>1, <1>3, ProtocolAssumption DEF SeqInv, Scalars, Request
<1>5. DOMAIN Out = 1..x /\ \A i \in 1..x : Out[i] = toServer[i]
    <2>1. Len(todo) = 0 BY <1>1
    <2>2. DOMAIN Out = 1..(x + Len(todo)) /\ \A i \in 1..x : Out[i] = toServer[i] BY <1>0, OutIs
    <2> QED BY <1>4, <2>1, <2>2
<1>6. x \in Nat /\ Len(todo') \in Nat /\ Len(todo') >= 1 BY <1>3, <1>4 DEF Request
<1>7. Out' = Joined(toServer, todo', call + 1) BY <1>1 DEF Out
<1>8. Linked(Out') /\ Whole(Out') /\ Dated(Out', call + 1, last') /\ Ordered(Out')
    <2> DEFINE a == Out
               b == Out'
               s == todo'
               q == toServer
               c == call
               l == last
               m == last'
    <2>1. q \in Seq(PacketType) /\ Len(q) = x /\ DOMAIN q = 1..x /\ DOMAIN a = 1..x BY <1>4, <1>5
    <2>2. \A i \in 1..Len(q) : q[i].kind \in ClientKinds BY <1>0, <2>1 DEF OutInv
    <2>3. \A i \in 1..Len(q) : a[i] = q[i] BY <1>5
    <2>4. Linked(a) /\ Whole(a) /\ Dated(a, c, l) /\ Ordered(a) BY <1>0, <1>1 DEF OutInv
    <2>5. /\ c \in Nat /\ l \in Nat /\ m \in Nat /\ l <= m /\ b = Joined(q, s, c + 1)
          /\ cmd = "LIBCPUID_MSR_DEBUG" => m >= 2
          /\ cmd = "DMIDECODE" => m >= 4
        BY <1>2, <1>4, <1>7
    <2>6. Request(s, n, cmd) /\ DOMAIN a = 1..Len(q) BY <1>3, <2>1
    <2> HIDE DEF a, b, s, q, c, l, m, x
    <2>7. Linked(b) /\ Whole(b) /\ Dated(b, c + 1, m) /\ Ordered(b)
        BY <2>1, <2>2, <2>3, <2>4, <2>5, <2>6, CallLinks
    <2> QED BY <2>7 DEF b, c, m
<1>9. /\ DOMAIN Out' = 1..(x + Len(todo')) /\ \A i \in 1..x : Out'[i] = Out[i]
      /\ \A i \in 1..Len(todo') : Out'[x + i] = Packet(todo'[i], call + 1)
    <2> DEFINE q == toServer
               s == todo'
               c == call + 1
    <2>1. q \in Seq(PacketType) /\ s \in Seq(StepType) BY <1>4
    <2> HIDE DEF q, s, c
    <2>2. /\ DOMAIN Joined(q, s, c) = 1..(Len(q) + Len(s))
          /\ \A i \in 1..Len(s) : Joined(q, s, c)[Len(q) + i] = Packet(s[i], c)
        BY <2>1, JoinedIs
    <2>3. \A i \in 1..Len(q) : Joined(q, s, c)[i] = q[i] BY <2>1, JoinedFirst
    <2> QED BY <1>5, <1>7, <2>2, <2>3 DEF q, s, c
<1>10. x + 1 \in DOMAIN Out' /\ Out'[x + 1] = [kind |-> "cmd", value |-> cmd, of |-> call + 1]
    <2>1. todo'[1] = Write("cmd", cmd) BY <1>3 DEF Request
    <2>2. 1 \in 1..Len(todo') /\ x + 1 \in 1..(x + Len(todo')) BY <1>6
    <2>3. Out'[x + 1] = Packet(todo'[1], call + 1) BY <1>9, <2>2
    <2> QED BY <1>9, <2>1, <2>2, <2>3 DEF Packet, Write
<1>11. ASSUME NEW i \in 1..Len(todo')
       PROVE  /\ todo'[i].op = "write" <=> todo'[i].kind \in ClientKinds
              /\ i # 1 => todo'[i].kind # "cmd"
    <2>1. i \in 1..n \/ i \in (n + 1)..Len(todo') BY <1>3 DEF Request
    <2>2. CASE i = 1 BY <1>3, <2>2, KindNames DEF Request, Write
    <2>3. CASE i # 1 /\ i \in 1..n
        <3>1. i \in 2..n BY <2>3
        <3>2. todo'[i].op = "write" /\ todo'[i].kind \in ArgKinds BY <1>3, <2>3, <3>1 DEF Request
        <3> QED BY <3>2 DEF ClientKinds, ArgKinds
    <2>4. CASE i \in (n + 1)..Len(todo')
        <3>1. todo'[i].op = "read" /\ todo'[i].kind \in AnswerKinds BY <1>3, <2>4 DEF Request
        <3> QED BY <3>1, KindNames
    <2> QED BY <2>1, <2>2, <2>3, <2>4
<1>12. ASSUME NEW i \in DOMAIN Out', Out'[i].kind = "cmd"
       PROVE  \/ i \in DOMAIN Out /\ i \in 1..x /\ Out'[i] = Out[i]
              \/ i = x + 1
    <2>1. CASE i \in 1..x BY <1>5, <1>9, <2>1
    <2>2. CASE i \notin 1..x /\ i # x + 1
        <3>1. i - x \in 1..Len(todo') /\ i - x # 1 /\ x + (i - x) = i BY <1>6, <1>9, <2>2
        <3>2. Out'[i] = Packet(todo'[i - x], call + 1) BY <1>9, <3>1
        <3>3. todo'[i - x].kind # "cmd" BY <1>11, <3>1
        <3> QED BY <1>12, <3>2, <3>3 DEF Packet
    <2> QED BY <2>1, <2>2
<1>13. ASSUME NEW i \in DOMAIN Out PROVE Out[i].of <= call /\ Out[i].of \in Int /\ i \in 1..x /\ i < x + 1
    <2>1. Out[i].of <= call BY <1>0 DEF OutInv, Dated
    <2>2. toServer[i] \in PacketType BY <1>4, <1>5
    <2> QED BY <1>5, <1>6, <2>1, <2>2 DEF PacketType
<1>14. Clean' => Clean BY <1>1, <1>2 DEF Clean, DmidecodeRets
<1>15. cmd = "LIBCPUID_MSR_DEBUG" => Clean BY <1>2 DEF Clean
<1>16. Clean => /\ toClient = <<>>
                /\ fd = "up" => WritesOf(serving) = <<>>
                /\ \A i \in DOMAIN Out : Out[i].kind = "cmd" => Out[i].value = "LIBCPUID_MSR_DEBUG" /\ last >= 2
    BY <1>1, NothingOwed
<1> HIDE DEF x
<1>17. Scalars'
    <2>1. Len(StartupOrder) = 5 BY DEF StartupOrder
    <2>2. last' \in 0..Len(StartupOrder) BY <1>2, <2>1
    <2>3. call' \in 0..MaxCalls BY <1>1, <1>4
    <2> QED BY <1>0, <1>1, <2>2, <2>3 DEF Scalars, Capacity
<1>18. SeqInv' BY <1>0, <1>1, <1>4 DEF SeqInv
<1>19. OutInv' BY <1>0, <1>1, <1>8 DEF OutInv
<1>20. TodoInv'
    <2> DEFINE s == todo'
    <2>1. /\ s \in Seq(StepType) /\ n <= Len(s) /\ \A i \in 1..n : s[i].op = "write"
          /\ n < Len(s) => s[n + 1].op = "read" /\ \A i \in (n + 1)..Len(s) : s[i].op = "read"
        BY <1>3 DEF Request
    <2>2. DOMAIN s = 1..Len(s) BY <1>4
    <2> HIDE DEF s
    <2>3. /\ ReadsOf(s) \in Seq(StepType) /\ Len(ReadsOf(s)) = Len(s) - n
          /\ \A i \in 1..(Len(s) - n) : ReadsOf(s)[i] = s[i + n]
        BY <2>1, ReadsAre
    <2>4. ASSUME NEW i \in DOMAIN ReadsOf(s) PROVE ReadsOf(s)[i].op = "read"
        <3>1. i \in 1..(Len(s) - n) BY <2>3
        <3>2. i + n \in (n + 1)..Len(s) /\ n < Len(s) BY <2>1, <3>1
        <3> QED BY <2>1, <2>3, <3>1, <3>2
    <2>5. \A i \in DOMAIN todo' : (todo'[i].op = "write") <=> (todo'[i].kind \in ClientKinds)
        BY <1>11, <2>2 DEF s
    <2> QED BY <2>4, <2>5 DEF TodoInv, s
<1>21. Served(serving)' BY <1>0, <1>1
<1>22. EndsInv' BY <1>0, <1>1 DEF EndsInv
<1>23. SyncInv'
    <2> SUFFICES ASSUME fd = "up" PROVE SyncInv' BY <1>1 DEF SyncInv
    <2>1. 1 \in DOMAIN Out'
        <3>1. 1 \in 1..(x + Len(todo')) BY <1>6
        <3> QED BY <1>9, <3>1
    <2>2. CASE 1 \in DOMAIN Out
        <3>1. Out'[1] = Out[1] BY <1>5, <1>9, <2>2
        <3> QED BY <1>0, <1>1, <2>1, <2>2, <3>1 DEF SyncInv
    <2>3. CASE 1 \notin DOMAIN Out
        <3>1. x = 0 BY <1>5, <1>6, <2>3
        <3>2. Out'[1].kind = "cmd" BY <1>10, <3>1
        <3>3. ~(handler = "serve" /\ Head(serving).op = "read") BY <1>0, <1>1, <2>3 DEF SyncInv
        <3> QED BY <1>1, <3>2, <3>3 DEF SyncInv, ArgKinds
    <2> QED BY <2>2, <2>3
<1>24. DebugInv'
    <2> SUFFICES ASSUME fd = "up" PROVE DebugInv' BY <1>1 DEF DebugInv
    <2>1. ServesDebug' = ServesDebug BY <1>1 DEF ServesDebug
    <2>2. ASSUME NEW i \in DOMAIN Out', DebugAt(i)'
          PROVE  (i \in DOMAIN Out /\ DebugAt(i)) \/ (i = x + 1 /\ cmd = "LIBCPUID_MSR_DEBUG")
        <3>1. Out'[i].kind = "cmd" /\ Out'[i].value = "LIBCPUID_MSR_DEBUG" BY <2>2 DEF DebugAt
        <3>2. CASE i \in DOMAIN Out /\ Out'[i] = Out[i] BY <3>1, <3>2 DEF DebugAt
        <3>3. CASE i = x + 1 BY <1>10, <3>1, <3>3
        <3> QED BY <1>12, <3>1, <3>2, <3>3
    <2>3. "server" \notin reset BY <1>0, <1>1 DEF EndsInv
    <2>4. ServesDebug' \/ (\E i \in DOMAIN Out' : DebugAt(i)') =>
             toClient' = <<>> /\ "server" \notin reset' /\ WritesOf(serving') = <<>> /\ last' >= 2
        <3>1. CASE ServesDebug \/ \E i \in DOMAIN Out : DebugAt(i)
            <4>1. toClient = <<>> /\ WritesOf(serving) = <<>> /\ last >= 2 BY <1>0, <3>1 DEF DebugInv
            <4> QED BY <1>1, <1>2, <2>3, <4>1
        <3>2. CASE cmd = "LIBCPUID_MSR_DEBUG" BY <1>1, <1>2, <1>15, <1>16, <2>3, <3>2
        <3> QED BY <2>1, <2>2, <3>1, <3>2
    <2>5. ASSUME NEW i \in DOMAIN Out', NEW j \in DOMAIN Out', DebugAt(j)', i < j, Out'[i].kind = "cmd" PROVE FALSE
        <3>1. i \in DOMAIN Out /\ Out'[i] = Out[i]
            <4>1. j = x + 1 \/ j \in 1..x BY <1>13, <2>2, <2>5
            <4>2. i # x + 1 BY <1>6, <1>9, <2>5, <4>1
            <4> QED BY <1>12, <2>5, <4>2
        <3>2. CASE j \in DOMAIN Out /\ DebugAt(j) BY <1>0, <2>5, <3>1, <3>2 DEF DebugInv
        <3>3. CASE cmd = "LIBCPUID_MSR_DEBUG"
            <4>1. last < 2 /\ last >= 2 BY <1>2, <1>15, <1>16, <2>5, <3>1, <3>3
            <4> QED BY <1>2, <4>1
        <3> QED BY <2>2, <2>5, <3>2, <3>3
    <2>6. ASSUME ServesDebug, NEW i \in DOMAIN Out', DebugAt(i)' PROVE FALSE
        <3>1. CASE i \in DOMAIN Out /\ DebugAt(i) BY <1>0, <2>6, <3>1 DEF DebugInv
        <3>2. CASE cmd = "LIBCPUID_MSR_DEBUG"
            <4>1. last >= 2 BY <1>0, <2>6 DEF DebugInv
            <4> QED BY <1>2, <3>2, <4>1
        <3> QED BY <2>2, <2>6, <3>1, <3>2
    <2> QED BY <2>1, <2>4, <2>5, <2>6 DEF DebugInv
<1>25. AnswerInv'
    <2> SUFFICES ASSUME Clean' PROVE AnswerInv' BY DEF AnswerInv
    <2>1. Clean BY <1>14
    <2>2. toClient' = <<>> /\ (fd' = "up" => WritesOf(serving') = <<>>) BY <1>1, <1>16, <2>1
    <2>3. ASSUME NEW i \in DOMAIN Out', Out'[i].kind = "cmd", Out'[i].of # call'
          PROVE  Out'[i].value = "LIBCPUID_MSR_DEBUG"
        <3>1. i # x + 1 BY <1>1, <1>10, <2>3
        <3>2. i \in DOMAIN Out /\ Out'[i] = Out[i] BY <1>12, <2>3, <3>1
        <3> QED BY <1>16, <2>1, <2>3, <3>2
    <2>4. ASSUME NEW i \in DOMAIN Out', Unread(i)' PROVE i = x + 1
        <3>1. Out'[i].kind = "cmd" /\ Out'[i].of = call + 1 BY <1>1, <2>4 DEF Unread
        <3>2. CASE i \in DOMAIN Out /\ Out'[i] = Out[i]
            <4>1. Out[i].of <= call /\ Out[i].of = call + 1 BY <1>13, <3>1, <3>2
            <4> QED BY <1>4, <4>1
        <3> QED BY <1>12, <3>1, <3>2
    <2>5. ReadsOf(todo') = ReadsOf(ClientSteps(Out'[x + 1].value)) BY <1>1, <1>10
    <2>6. Unread(x + 1)'
        <3>1. x' = x BY <1>1 DEF x
        <3>2. x' + 1 \in DOMAIN Out' /\ Out'[x' + 1].kind = "cmd" /\ Out'[x' + 1].of = call' BY <1>1, <1>10, <3>1
        <3> QED BY <3>2 DEF Unread
    <2>7. Answers(toClient', ReadsOf(todo'), FALSE)
        <3> DEFINE r == ReadsOf(todo')
                   w == toClient'
        <3>1. r \in Seq(StepType) /\ \A k \in 1..Len(r) : r[k].kind = "stick_count" => k = Len(r)
            BY <1>1, ClientReadsAre
        <3>2. w \in Seq(PacketType) /\ Len(w) = 0 BY <2>2, Empty
        <3> HIDE DEF r, w
        <3>3. Answers(w, r, FALSE) BY <3>1, <3>2, AnswersNotYet
        <3> QED BY <3>3 DEF r, w
    <2>8. \A i \in DOMAIN toClient' : toClient'[i].of = call' BY <2>2, Empty
    <2>9. ~(\A i \in DOMAIN Out' : ~Unread(i)')
        <3>1. x' = x BY <1>1 DEF x
        <3> QED BY <1>10, <2>6, <3>1
    <2>10. \A i \in DOMAIN Out' : Unread(i)' => ReadsOf(todo') = ReadsOf(ClientSteps(Out'[i].value))
        BY <2>4, <2>5
    <2> QED BY <2>2, <2>3, <2>7, <2>8, <2>9, <2>10 DEF AnswerInv
<1> QED BY <1>17, <1>18, <1>19, <1>20, <1>21, <1>22, <1>23, <1>24, <1>25 DEF Inv

-----------------------------------------------------------------------------
(* The thread's steps.                                                     *)

\* What is left of a function after a step.
LEMMA ServedTail ==
    ASSUME NEW s \in Seq(StepType), s # <<>>, Served(s), NEW t, t = Tail(s)
    PROVE  /\ t \in Seq(StepType) /\ Served(t)
           /\ \A i \in DOMAIN t : i + 1 \in DOMAIN s /\ t[i] = s[i + 1]
           /\ t # <<>> => 2 \in DOMAIN s /\ Head(t) = s[2]
           /\ Head(s).op = "read" => WritesOf(t) = WritesOf(s)
           /\ Head(s).op = "write" => WritesOf(s) = s /\ WritesOf(t) = t
           /\ Head(s).op = "write" /\ t # <<>> => Head(t).op = "write"
<1>1. t \in Seq(StepType) /\ Len(t) = Len(s) - 1 /\ \A i \in 1..(Len(s) - 1) : t[i] = s[i + 1] BY DEF Seq
<1>2. Len(s) \in Nat /\ DOMAIN s = 1..Len(s) /\ DOMAIN t = 1..(Len(s) - 1) BY <1>1
<1>3. \A i \in DOMAIN t : i \in Nat /\ i + 1 \in DOMAIN s /\ t[i] = s[i + 1] BY <1>1, <1>2
<1>4. ASSUME t # <<>> PROVE 2 \in DOMAIN s /\ Head(t) = s[2]
    <2>1. 1 \in DOMAIN t /\ Head(t) = t[1] BY <1>1, <1>4, HasFirst
    <2> QED BY <1>3, <2>1
<1>5. \A i \in DOMAIN WritesOf(s) : WritesOf(s)[i].op = "write" BY DEF Served
<1>6. Head(s).op = "read" => WritesOf(t) = WritesOf(s) BY <1>5, WritesTail
<1>7. ASSUME Head(s).op = "write"
      PROVE  WritesOf(s) = s /\ WritesOf(t) = t /\ (t # <<>> => Head(t).op = "write")
    <2>1. WritesOf(s) = s BY <1>7, WritesHead
    <2>2. t # <<>> => Head(t).op = "write" BY <1>4, <1>5, <2>1
    <2>3. WritesOf(t) = t BY <1>1, <2>2, WritesHead
    <2> QED BY <2>1, <2>2, <2>3
<1>8. \A i \in DOMAIN WritesOf(t) : WritesOf(t)[i].op = "write"
    <2>1. CASE Head(s).op = "read" BY <1>5, <1>6, <2>1
    <2>2. CASE Head(s).op = "write" BY <1>3, <1>5, <1>7, <2>2
    <2>3. Head(s).op \in {"read", "write"}
        <3>1. s[1] \in StepType /\ Head(s) = s[1] BY HasFirst
        <3> QED BY <3>1 DEF StepType
    <2> QED BY <2>1, <2>2, <2>3
<1>9. ASSUME NEW i \in DOMAIN t
      PROVE  /\ t[i].op = "read" => t[i].kind \in ArgKinds /\ t[i] = Read(t[i].kind)
             /\ t[i].op = "write" => t[i].kind \in AnswerKinds
             /\ t[i].kind = "len" => i + 1 \in DOMAIN t /\ t[i + 1].kind = "module"
             /\ t[i].kind # "len" /\ i + 1 \in DOMAIN t => t[i + 1].op = "write"
    <2> DEFINE j == i + 1
    <2>1. j \in DOMAIN s /\ t[i] = s[j] BY <1>3
    <2>2. i + 1 \in DOMAIN t <=> j + 1 \in DOMAIN s BY <1>2
    <2>3. i + 1 \in DOMAIN t => t[i + 1] = s[j + 1] BY <1>3
    <2> HIDE DEF j
    <2>4. /\ s[j].op = "read" => s[j].kind \in ArgKinds /\ s[j] = Read(s[j].kind)
          /\ s[j].op = "write" => s[j].kind \in AnswerKinds
          /\ s[j].kind = "len" => j + 1 \in DOMAIN s /\ s[j + 1].kind = "module"
          /\ s[j].kind # "len" /\ j + 1 \in DOMAIN s => s[j + 1].op = "write"
        BY <2>1 DEF Served
    <2> QED BY <2>1, <2>2, <2>3, <2>4
<1>10. Served(t) BY <1>8, <1>9 DEF Served
<1> QED BY <1>1, <1>3, <1>4, <1>6, <1>7, <1>10

\* A packet is read.
LEMMA PacketTaken ==
    ASSUME SeqInv, OutInv, toServer # <<>>, toServer' = Tail(toServer), UNCHANGED <<todo, call, last, socket_fd>>
    PROVE  /\ OutInv' /\ toServer' \in Seq(PacketType) /\ Len(toServer') = Len(toServer) - 1
           /\ 1 \in DOMAIN Out /\ Out[1] = Head(toServer) /\ Head(toServer) \in PacketType
           /\ Out[1].kind \in ClientKinds
           /\ \A i \in DOMAIN Out' : i \in Nat /\ i >= 1 /\ i + 1 \in DOMAIN Out /\ Out'[i] = Out[i + 1]
           /\ \A i \in DOMAIN Out : i # 1 => i - 1 \in DOMAIN Out' /\ Out'[i - 1] = Out[i]
           /\ 2 \in DOMAIN Out <=> 1 \in DOMAIN Out'
<1>1. toServer \in Seq(PacketType) /\ todo \in Seq(StepType) BY DEF SeqInv
<1> DEFINE q == toServer
           p == toServer'
           n == Len(q) + Len(todo)
<1>2. /\ q \in Seq(PacketType) /\ p \in Seq(PacketType) /\ Len(p) = Len(q) - 1 /\ 1 \in 0..Len(q)
      /\ \A i \in 1..(Len(q) - 1) : p[i] = q[i + 1]
    BY <1>1
<1>3. Out = Joined(q, todo, call) /\ Out' = Joined(p, todo, call) BY DEF Out
<1>4. q # <<>> /\ q = toServer /\ p = toServer' /\ DOMAIN p = 1..(Len(q) - 1) /\ DOMAIN q = 1..Len(q) BY <1>1
<1> HIDE DEF q, p
<1>5. IsSuffix(Out', Out, n, 1) BY <1>1, <1>2, <1>3, JoinedDropped
<1>6. n \in Nat BY <1>1, <1>2
<1>7. 1 \in 1..Len(q) BY <1>2, <1>4, HasFirst
<1>8. Out[1] = q[1] /\ Head(q) = q[1] /\ q[1] \in PacketType
    <2>1. Out[1] = q[1] BY <1>1, <1>2, <1>3, <1>7, JoinedFirst
    <2> QED BY <1>2, <1>4, <1>7, <2>1, HasFirst
<1>9. q[1].kind \in ClientKinds BY <1>4, <1>7 DEF OutInv
<1>10. DOMAIN Out = 1..n /\ DOMAIN Out' = 1..(n - 1) /\ \A i \in 1..(n - 1) : Out'[i] = Out[i + 1] /\ n >= 1
    BY <1>5, <1>6 DEF IsSuffix
<1>11. n >= 1 BY <1>5, <1>6 DEF IsSuffix
<1> HIDE DEF n
<1>12. /\ \A i \in DOMAIN Out' : i \in Nat /\ i >= 1 /\ i + 1 \in DOMAIN Out /\ Out'[i] = Out[i + 1]
       /\ 1 \in DOMAIN Out
       /\ 2 \in DOMAIN Out <=> 1 \in DOMAIN Out'
    BY <1>6, <1>10, <1>11
<1>13. ASSUME NEW i \in DOMAIN Out, i # 1 PROVE i - 1 \in DOMAIN Out' /\ Out'[i - 1] = Out[i]
    <2>1. i - 1 \in 1..(n - 1) /\ (i - 1) + 1 = i BY <1>6, <1>10, <1>13
    <2> QED BY <1>10, <2>1
<1>14. /\ Linked(Out') /\ Dated(Out', call, last) /\ Ordered(Out')
       /\ Whole(Out) => Whole(Out')
    BY <1>5, <1>6, SuffixKeeps DEF OutInv
<1>15. \A i \in DOMAIN p : p[i].kind \in ClientKinds
    <2> SUFFICES ASSUME NEW i \in DOMAIN p PROVE p[i].kind \in ClientKinds OBVIOUS
    <2>1. i + 1 \in DOMAIN q /\ p[i] = q[i + 1] BY <1>2, <1>4
    <2> QED BY <1>4, <2>1 DEF OutInv
<1>16. OutInv' BY <1>4, <1>14, <1>15 DEF OutInv
<1> QED BY <1>2, <1>4, <1>8, <1>9, <1>12, <1>13, <1>16

LEMMA KillKeeps ==
    ASSUME Inv, Kill, machine' = machine
    PROVE  Inv'
<1>1. /\ fd' = "down" /\ toServer' = <<>> /\ serving' = <<>> /\ handler' = "done"
      /\ reset' = IF toServer = <<>> THEN reset ELSE reset \cup {"client"}
      /\ UNCHANGED <<handling, clientVars, toClient>>
    BY DEF Kill, ThreadEnds, ServerCloses
<1> QED BY <1>1, ServerGone

LEMMA BreakKeeps ==
    ASSUME Inv, Break, machine' = machine
    PROVE  Inv'
<1>1. /\ fd' = "down" /\ toServer' = <<>> /\ handler' = "done" /\ serving' = serving /\ handler = "read"
      /\ reset' = IF toServer = <<>> THEN reset ELSE reset \cup {"client"}
      /\ UNCHANGED <<handling, clientVars, toClient>>
    BY DEF Break, ThreadEnds, ServerCloses
<1>2. serving = <<>> BY <1>1 DEF Inv, Scalars
<1> QED BY <1>1, <1>2, ServerGone

LEMMA JoinedNothing ==
    ASSUME NEW q \in Seq(PacketType), NEW t \in Seq(StepType), Len(t) = 0, NEW c, NEW d
    PROVE  Joined(q, t, c) = Joined(q, t, d)
<1>1. Len(q) \in Nat OBVIOUS
<1>2. \A i \in 1..(Len(q) + Len(t)) :
         (IF i <= Len(q) THEN q[i] ELSE Packet(t[i - Len(q)], c))
         = (IF i <= Len(q) THEN q[i] ELSE Packet(t[i - Len(q)], d))
    BY <1>1
<1> QED BY <1>2, Zenon DEF Joined

\* The answers of a function, before the first is written, are those of its steps.
LEMMA AnswersWritten ==
    ASSUME NEW q \in Seq(PacketType), Len(q) = 0, NEW t \in Seq(StepType), NEW c \in 1..MaxCalls,
           NEW r, Answers(t, r, TRUE)
    PROVE  Answers(Joined(q, t, c), r, TRUE)
<1> DEFINE v == Joined(q, t, c)
<1>1. v \in Seq(PacketType) /\ Len(v) = Len(q) + Len(t) BY JoinedIs
<1>2. \A i \in 1..Len(t) : v[Len(q) + i] = Packet(t[i], c) BY JoinedRest
<1>3. Len(t) \in Nat OBVIOUS
<1> HIDE DEF v
<1>4. Len(v) = Len(t) BY <1>1, <1>3
<1>5. \A i \in 1..Len(t) : v[i].kind = t[i].kind /\ v[i].value = t[i].value
    <2> SUFFICES ASSUME NEW i \in 1..Len(t) PROVE v[i].kind = t[i].kind /\ v[i].value = t[i].value OBVIOUS
    <2>1. Len(q) + i = i BY <1>3
    <2>2. v[i] = Packet(t[i], c) BY <1>2, <2>1
    <2> QED BY <2>2 DEF Packet
<1>6. Answers(v, r, TRUE) BY <1>1, <1>4, <1>5, AnswersSame
<1> QED BY <1>6 DEF v

LEMMA ReadCommandKeeps ==
    ASSUME Inv, ReadCommand, machine' = machine
    PROVE  Inv'
<1> DEFINE p == Out[1]
<1>0. /\ Scalars /\ SeqInv /\ OutInv /\ TodoInv /\ Served(serving)
      /\ EndsInv /\ SyncInv /\ DebugInv /\ AnswerInv
    BY DEF Inv
<1>1. /\ handler = "read" /\ fd = "up" /\ toServer # <<>> /\ toServer' = Tail(toServer)
      /\ handling' = Head(toServer).of
      /\ UNCHANGED <<machine, fd, socket_fd, call, last, todo, toClient, reset>>
    BY DEF ReadCommand, Readable, clientVars
<1>2. /\ OutInv' /\ toServer' \in Seq(PacketType) /\ Len(toServer') = Len(toServer) - 1
      /\ 1 \in DOMAIN Out /\ p = Head(toServer) /\ p \in PacketType
      /\ p.kind \in ClientKinds
      /\ \A i \in DOMAIN Out' : i \in Nat /\ i >= 1 /\ i + 1 \in DOMAIN Out /\ Out'[i] = Out[i + 1]
      /\ \A i \in DOMAIN Out : i # 1 => i - 1 \in DOMAIN Out' /\ Out'[i - 1] = Out[i]
      /\ 2 \in DOMAIN Out <=> 1 \in DOMAIN Out'
    BY <1>0, <1>1, PacketTaken
<1>3. p.kind = "cmd"
    <2>1. p.kind \notin ArgKinds BY <1>0, <1>1, <1>2 DEF SyncInv
    <2> QED BY <1>2, <2>1 DEF ClientKinds
<1>4. /\ p.value \in Commands /\ p.of <= call
      /\ p.value = "LIBCPUID_MSR_DEBUG" => last >= 2
      /\ p.value = "DMIDECODE" => last >= 4
    BY <1>0, <1>2, <1>3 DEF OutInv, Dated
<1> DEFINE cmd == p.value
<1>5. PICK ret \in DmidecodeRets, sticks \in 0..MaxSticks :
          handler' = "serve" /\ serving' = ServerSteps(cmd, ret, sticks)
    BY <1>2, <1>3 DEF ReadCommand
<1>6. ret \in Int /\ sticks \in Nat BY <1>0, CapacityIs, ProtocolAssumption
<1>7. serving = <<>> BY <1>0, <1>1 DEF Scalars
<1>8. WritesOf(serving) = <<>> BY <1>7 DEF WritesOf, DropRead
<1> DEFINE s == serving'
<1>9. /\ s \in Seq(StepType) /\ s # <<>> /\ Served(s)
      /\ \A i \in DOMAIN s : s[i].kind = "stick_count" => s[i].value \in Nat
      /\ Head(s).op = "write" => ArgAfter(p) = "none"
      /\ Head(s).op = "read" => ArgAfter(p) = Head(s).kind
      /\ s = serve_msr_debug <=> cmd = "LIBCPUID_MSR_DEBUG"
      /\ cmd = "LIBCPUID_MSR_DEBUG" => WritesOf(s) = <<>>
    BY <1>3, <1>4, <1>5, <1>6, ServerTable
<1>10. p.of \in 1..MaxCalls BY <1>2 DEF PacketType
<1> HIDE DEF p, s
<1>11. 2 \in DOMAIN Out => Follows(p, Out[2])
    <2>1. 1 + 1 = 2 OBVIOUS
    <2> QED BY <1>0, <1>2, <2>1 DEF OutInv, Linked, p
<1>12. socket_fd = "up" /\ 2 \notin DOMAIN Out => ArgAfter(p) = "none"
    <2>1. 1 + 1 = 2 OBVIOUS
    <2> QED BY <1>0, <1>2, <2>1 DEF OutInv, Whole, p
<1>13. 1 \in DOMAIN Out' => Out'[1] = Out[2]
    <2>1. 1 + 1 = 2 OBVIOUS
    <2> QED BY <1>2, <2>1
<1>14. Scalars'
    <2>1. toServer \in Seq(PacketType) /\ Len(toServer) \in Nat BY <1>0 DEF SeqInv
    <2>2. Len(toServer') <= Capacity BY <1>0, <1>2, <2>1, CapacityIs DEF Scalars
    <2>3. handling' \in 0..MaxCalls BY <1>1, <1>2, <1>10
    <2> QED BY <1>0, <1>1, <1>5, <1>9, <2>2, <2>3 DEF Scalars, Capacity, s
<1>15. SeqInv'
    <2>1. handling' \in 1..MaxCalls BY <1>1, <1>2, <1>10
    <2> QED BY <1>0, <1>1, <1>2, <1>9, <2>1 DEF SeqInv, s
<1>16. TodoInv' BY <1>0, <1>1 DEF TodoInv
<1>17. Served(serving)' BY <1>9 DEF s
<1>18. EndsInv' BY <1>0, <1>1, <1>5 DEF EndsInv
<1>19. SyncInv'
    <2>1. handler' = "serve" BY <1>5
    <2>2. ASSUME Head(s).op = "read"
          PROVE  /\ 1 \in DOMAIN Out' => Out'[1].kind = Head(s).kind /\ Out'[1].of = p.of
                 /\ socket_fd = "up" => 1 \in DOMAIN Out'
        <3>1. ArgAfter(p) = Head(s).kind BY <1>9, <2>2
        <3>2. 1 \in DOMAIN s /\ Head(s) = s[1] BY <1>9, HasFirst
        <3>3. Head(s).kind \in ArgKinds BY <1>9, <2>2, <3>2 DEF Served
        <3>4. ArgAfter(p) # "none" BY <3>1, <3>3 DEF ArgKinds
        <3> QED BY <1>2, <1>11, <1>12, <1>13, <3>1, <3>4 DEF Follows
    <2>3. ASSUME Head(s).op = "write", 1 \in DOMAIN Out' PROVE Out'[1].kind \notin ArgKinds
        BY <1>2, <1>9, <1>11, <1>13, <2>3 DEF Follows
    <2> QED BY <1>1, <1>2, <2>1, <2>2, <2>3 DEF SyncInv, s
<1>20. \A i \in DOMAIN Out' : ~DebugAt(i)'
    <2> SUFFICES ASSUME NEW i \in DOMAIN Out', DebugAt(i)' PROVE FALSE OBVIOUS
    <2>1. i + 1 \in DOMAIN Out /\ Out'[i] = Out[i + 1] /\ 1 < i + 1 BY <1>2
    <2>2. DebugAt(i + 1) BY <2>1 DEF DebugAt
    <2> QED BY <1>0, <1>1, <1>2, <1>3, <2>1, <2>2 DEF DebugInv, p
<1>21. DebugInv'
    <2>1. ASSUME ServesDebug'
          PROVE  toClient' = <<>> /\ "server" \notin reset' /\ WritesOf(serving') = <<>> /\ last' >= 2
        <3>1. cmd = "LIBCPUID_MSR_DEBUG" BY <1>9, <2>1 DEF ServesDebug, s
        <3>2. DebugAt(1) BY <1>2, <1>3, <3>1 DEF DebugAt, p
        <3>3. toClient = <<>> /\ "server" \notin reset /\ last >= 2 BY <1>0, <1>1, <1>2, <3>2 DEF DebugInv
        <3> QED BY <1>1, <1>9, <3>1, <3>3 DEF s
    <2> QED BY <1>20, <2>1 DEF DebugInv
<1>22. AnswerInv'
    <2> SUFFICES ASSUME socket_fd = "up", Clean PROVE AnswerInv' BY <1>1 DEF AnswerInv, Clean, DmidecodeRets
    <2>1. /\ \A i \in DOMAIN Out : Out[i].kind = "cmd" /\ Out[i].of # call => Out[i].value = "LIBCPUID_MSR_DEBUG"
          /\ \A i \in DOMAIN toClient : toClient[i].of = call
          /\ \A i \in DOMAIN Out : Unread(i) =>
               /\ toClient = <<>>
               /\ ReadsOf(todo) = ReadsOf(ClientSteps(Out[i].value))
          /\ (\A i \in DOMAIN Out : ~Unread(i)) => Answers(Ans, ReadsOf(todo), TRUE)
        BY <1>0, <1>1 DEF AnswerInv
    <2>2. \A i \in DOMAIN Out' : Out'[i].kind = "cmd" /\ Out'[i].of # call' => Out'[i].value = "LIBCPUID_MSR_DEBUG"
        BY <1>1, <1>2, <2>1
    <2>3. p.of # call => cmd = "LIBCPUID_MSR_DEBUG" BY <1>2, <1>3, <2>1 DEF p
    <2>4. ASSUME NEW i \in DOMAIN Out', Unread(i)'
          PROVE  /\ toClient' = <<>> /\ WritesOf(serving') = <<>>
                 /\ ReadsOf(todo') = ReadsOf(ClientSteps(Out'[i].value))
        <3>1. i + 1 \in DOMAIN Out /\ Out'[i] = Out[i + 1] /\ 1 < i + 1 BY <1>2
        <3>2. Unread(i + 1) BY <1>1, <2>4, <3>1 DEF Unread
        <3>3. p.of < Out[i + 1].of BY <1>0, <1>2, <1>3, <3>1, <3>2 DEF OutInv, Ordered, Unread, p
        <3>4. p.of # call BY <1>10, <3>2, <3>3 DEF Unread
        <3>5. WritesOf(serving') = <<>> BY <1>9, <2>3, <3>4 DEF s
        <3> QED BY <1>1, <2>1, <3>1, <3>2, <3>5
    <2>5. ASSUME \A i \in DOMAIN Out' : ~Unread(i)'
          PROVE  /\ WritesOf(serving') # <<>> => handling' = call'
                 /\ Answers(Ans', ReadsOf(todo'), TRUE)
        <3>1. ASSUME NEW i \in DOMAIN Out, i # 1 PROVE ~Unread(i)
            <4>1. i - 1 \in DOMAIN Out' /\ Out'[i - 1] = Out[i] BY <1>2, <3>1
            <4>2. ~Unread(i - 1)' BY <2>5, <4>1
            <4> QED BY <1>1, <4>1, <4>2 DEF Unread
        <3>2. toClient \in Seq(PacketType) BY <1>0 DEF SeqInv
        <3> DEFINE w == WritesOf(s)
                   r == ReadsOf(todo)
        <3>3. w \in Seq(StepType) BY <1>9, DropTypes
        <3>4. Ans' = Joined(toClient, w, p.of) BY <1>1, <1>2 DEF Ans, s
        <3>5. CASE p.of = call
            <4>1. Unread(1) BY <1>2, <1>3, <3>5 DEF Unread, p
            <4>2. toClient = <<>> /\ r = ReadsOf(ClientSteps(cmd)) BY <1>2, <2>1, <4>1 DEF p
            <4>3. cmd = "DMIDECODE" => ret = 0
                <5> SUFFICES ASSUME cmd = "DMIDECODE" PROVE ret = 0 OBVIOUS
                <5>1. last >= 4 /\ last \in Int BY <1>0, <1>4 DEF Scalars
                <5>2. DmidecodeRets = {0} BY <5>1 DEF Clean
                <5> QED BY <1>5, <5>2
            <4>4. w = WritesOf(ServerSteps(cmd, ret, sticks)) BY <1>5 DEF s
            <4>5. Answers(w, r, TRUE) BY <1>4, <1>6, <4>2, <4>3, <4>4, CommandAnswers
            <4>6. Len(toClient) = 0 BY <4>2, Empty
            <4> HIDE DEF w, r
            <4>7. Answers(Joined(toClient, w, p.of), r, TRUE)
                BY <1>10, <3>2, <3>3, <4>5, <4>6, AnswersWritten
            <4> QED BY <1>1, <1>2, <3>4, <3>5, <4>7 DEF r
        <3>6. CASE p.of # call
            <4>1. ~Unread(1) BY <1>2, <3>6 DEF Unread, p
            <4>2. Answers(Ans, r, TRUE) BY <2>1, <3>1, <4>1
            <4>3. w = <<>> /\ Len(w) = 0 BY <1>9, <2>3, <3>6, Empty
            <4>4. Ans = Joined(toClient, w, handling) BY <1>8, <4>3 DEF Ans
            <4>5. WritesOf(serving') = <<>> BY <4>3 DEF s
            <4> HIDE DEF w, r
            <4>6. Joined(toClient, w, handling) = Joined(toClient, w, p.of) BY <3>2, <3>3, <4>3, JoinedNothing
            <4> QED BY <1>1, <3>4, <4>2, <4>4, <4>5, <4>6 DEF r
        <3> QED BY <3>5, <3>6
    <2> QED BY <1>1, <2>1, <2>2, <2>4, <2>5 DEF AnswerInv
<1> QED BY <1>2, <1>14, <1>15, <1>16, <1>17, <1>18, <1>19, <1>21, <1>22 DEF Inv

\* What the thread's read() of an argument leaves, when the function goes on.
LEMMA ServeReadLeaves ==
    ASSUME Inv, handler = "serve", Head(serving).op = "read", StepDone
    PROVE  /\ serving # <<>> /\ serving \in Seq(StepType) /\ fd = "up" /\ fd' = "up"
           /\ serving' \in Seq(StepType) /\ Served(serving)' /\ WritesOf(serving') = WritesOf(serving)
           /\ \A i \in DOMAIN serving' : serving'[i].kind = "stick_count" => serving'[i].value \in Nat
           /\ handler' \in {"read", "serve"} /\ (handler' = "serve" <=> serving' # <<>>)
           /\ Head(serving).kind \in ArgKinds /\ Head(serving) = Read(Head(serving).kind)
           /\ Head(serving).kind = "len" =>
                serving' # <<>> /\ Head(serving').op = "read" /\ Head(serving').kind = "module"
           /\ Head(serving).kind # "len" /\ serving' # <<>> => Head(serving').op = "write"
           /\ ~ServesDebug'
<1>0. Scalars /\ SeqInv /\ Served(serving) /\ EndsInv BY DEF Inv
<1>1. serving # <<>> /\ serving \in Seq(StepType) /\ fd = "up" BY <1>0 DEF Scalars, SeqInv, EndsInv
<1>2. /\ serving' = Tail(serving) /\ fd' = fd
      /\ handler' = IF serving' = <<>> THEN "read" ELSE "serve"
    BY DEF StepDone
<1> DEFINE s == serving
           t == serving'
<1>3. s # <<>> /\ s \in Seq(StepType) /\ Served(s) /\ t = Tail(s) /\ Head(s).op = "read"
    BY <1>0, <1>1, <1>2
<1>4. \A i \in DOMAIN s : s[i].kind = "stick_count" => s[i].value \in Nat BY <1>0 DEF SeqInv
<1> HIDE DEF s, t
<1>5. /\ t \in Seq(StepType) /\ Served(t)
      /\ \A i \in DOMAIN t : i + 1 \in DOMAIN s /\ t[i] = s[i + 1]
      /\ t # <<>> => 2 \in DOMAIN s /\ Head(t) = s[2]
      /\ WritesOf(t) = WritesOf(s)
    BY <1>3, ServedTail
<1>6. 1 \in DOMAIN s /\ Head(s) = s[1] /\ DOMAIN s = 1..Len(s) /\ Len(t) = Len(s) - 1 /\ Len(s) \in Nat
    BY <1>3, HasFirst
<1>7. /\ s[1].kind \in ArgKinds /\ s[1] = Read(s[1].kind)
      /\ s[1].kind = "len" => 2 \in DOMAIN s /\ s[2].kind = "module"
      /\ s[1].kind # "len" /\ 2 \in DOMAIN s => s[2].op = "write"
    <2>1. 1 + 1 = 2 OBVIOUS
    <2> QED BY <1>3, <1>6, <2>1 DEF Served
<1>8. \A i \in DOMAIN t : t[i].kind = "stick_count" => t[i].value \in Nat BY <1>4, <1>5
<1>9. ASSUME s[1].kind = "len" PROVE t # <<>> /\ Head(t).op = "read" /\ Head(t).kind = "module"
    <2>1. 2 \in 1..Len(s) BY <1>6, <1>7, <1>9
    <2>2. t # <<>> BY <1>5, <1>6, <2>1
    <2>3. Head(t) = s[2] /\ s[2].kind = "module" /\ s[2] \in StepType BY <1>3, <1>5, <1>7, <1>9, <2>1, <2>2
    <2>4. s[2].op = "write" => s[2].kind \in AnswerKinds BY <1>3, <1>6, <2>1 DEF Served
    <2>5. s[2].op = "read" BY <2>3, <2>4, KindNames DEF StepType
    <2> QED BY <2>2, <2>3, <2>5
<1>10. s[1].kind # "len" /\ t # <<>> => Head(t).op = "write" BY <1>5, <1>7
<1>11. t # serve_msr_debug
    <2> SUFFICES ASSUME t = serve_msr_debug PROVE FALSE OBVIOUS
    <2>1. t # <<>> /\ Head(t) = Read("u16") BY DEF serve_msr_debug
    <2>2. Head(t).op = "read" /\ Head(t).kind = "u16" BY <2>1 DEF Read
    <2> QED BY <1>9, <1>10, <2>1, <2>2
<1>12. /\ s[1].kind \in ArgKinds /\ s[1] = Read(s[1].kind) /\ Head(s) = s[1] BY <1>6, <1>7
<1>13. ~ServesDebug' BY <1>11 DEF ServesDebug, t
<1>14. /\ Head(serving).kind \in ArgKinds /\ Head(serving) = Read(Head(serving).kind)
       /\ Head(serving).kind = "len" =>
            serving' # <<>> /\ Head(serving').op = "read" /\ Head(serving').kind = "module"
       /\ Head(serving).kind # "len" /\ serving' # <<>> => Head(serving').op = "write"
    BY <1>9, <1>10, <1>12 DEF s, t
<1>15. serving' \in Seq(StepType) /\ Served(serving)' /\ WritesOf(serving') = WritesOf(serving)
    BY <1>5 DEF s, t
<1>16. \A i \in DOMAIN serving' : serving'[i].kind = "stick_count" => serving'[i].value \in Nat
    BY <1>8 DEF t
<1>17. handler' \in {"read", "serve"} /\ (handler' = "serve" <=> serving' # <<>>) BY <1>2
<1> QED BY <1>1, <1>2, <1>13, <1>14, <1>15, <1>16, <1>17

\* The u16, read unchecked from a client that is gone.
LEMMA UncheckedKeeps ==
    ASSUME Inv, handler = "serve", Head(serving).op = "read", Head(serving).kind = "u16",
           ReadError("server", toServer, socket_fd), StepDone, reset' = reset \ {"server"},
           UNCHANGED <<machine, toServer, handling, clientVars, toClient>>
    PROVE  Inv'
<1>0. /\ Scalars /\ SeqInv /\ OutInv /\ TodoInv /\ Served(serving)
      /\ EndsInv /\ SyncInv /\ DebugInv /\ AnswerInv
    BY DEF Inv
<1>1. UNCHANGED <<machine, toServer, toClient, handling, socket_fd, call, last, todo>> BY DEF clientVars
<1>2. socket_fd = "down" /\ todo = <<>> /\ ("server" \in reset \/ toServer = <<>>)
    BY <1>0 DEF EndsInv, ReadError, Scalars
<1>3. /\ serving # <<>> /\ serving \in Seq(StepType) /\ fd = "up" /\ fd' = "up"
      /\ serving' \in Seq(StepType) /\ Served(serving)' /\ WritesOf(serving') = WritesOf(serving)
      /\ \A i \in DOMAIN serving' : serving'[i].kind = "stick_count" => serving'[i].value \in Nat
      /\ handler' \in {"read", "serve"} /\ (handler' = "serve" <=> serving' # <<>>)
      /\ Head(serving) = Read(Head(serving).kind)
      /\ Head(serving).kind # "len" /\ serving' # <<>> => Head(serving').op = "write"
      /\ ~ServesDebug'
    BY ServeReadLeaves
<1>4. Out' = Out BY <1>1 DEF Out
<1>5. Scalars' BY <1>0, <1>1, <1>3 DEF Scalars, Capacity
<1>6. SeqInv' BY <1>0, <1>1, <1>3 DEF SeqInv
<1>7. OutInv' BY <1>0, <1>1, <1>4 DEF OutInv
<1>8. TodoInv' BY <1>0, <1>1 DEF TodoInv
<1>9. EndsInv' BY <1>0, <1>1, <1>3 DEF EndsInv
<1>10. SyncInv'
    <2>1. ASSUME handler' = "read", 1 \in DOMAIN Out PROVE FALSE
        <3>1. Tail(serving) = <<>> BY <1>3, <2>1 DEF StepDone
        <3>2. Len(serving) = 1 /\ serving[1] = Head(serving)
            <4>1. Len(Tail(serving)) = 0 BY <3>1, Empty
            <4>2. Len(Tail(serving)) = Len(serving) - 1 /\ Len(serving) \in Nat BY <1>3
            <4>3. Len(serving) = 1 BY <4>1, <4>2
            <4> QED BY <1>3, <4>3, HasFirst
        <3>3. serving = <<Read("u16")>>
            <4>1. serving[1] = Read("u16") BY <1>3, <3>2
            <4> QED BY <1>3, <3>2, <4>1
        <3>4. ServesDebug BY <3>3 DEF ServesDebug, serve_msr_debug
        <3>5. toServer = <<>> BY <1>0, <1>2, <1>3, <3>4 DEF DebugInv
        <3>6. Len(toServer) = 0 /\ Len(todo) = 0 BY <1>2, <3>5
        <3>7. DOMAIN Out = 1..0 BY <1>0, <3>6, OutIs
        <3> QED BY <2>1, <3>7
    <2>2. handler' = "serve" => Head(serving').op = "write" BY <1>3
    <2> QED BY <1>1, <1>2, <1>4, <2>1, <2>2 DEF SyncInv
<1>11. DebugInv'
    <2>1. \A i : DebugAt(i)' <=> DebugAt(i) BY <1>4 DEF DebugAt
    <2>2. (\E i \in DOMAIN Out' : DebugAt(i)') =>
             toClient' = <<>> /\ "server" \notin reset' /\ WritesOf(serving') = <<>> /\ last' >= 2
        BY <1>0, <1>1, <1>3, <1>4, <2>1 DEF DebugInv
    <2>3. \A i, j \in DOMAIN Out' : DebugAt(j)' /\ i < j => Out'[i].kind # "cmd"
        BY <1>0, <1>3, <1>4, <2>1 DEF DebugInv
    <2> QED BY <1>3, <2>2, <2>3 DEF DebugInv
<1>12. AnswerInv' BY <1>1, <1>2 DEF AnswerInv
<1> QED BY <1>3, <1>5, <1>6, <1>7, <1>8, <1>9, <1>10, <1>11, <1>12 DEF Inv

\* The packet that an argument is read from.
LEMMA ArgumentKeeps ==
    ASSUME Inv, handler = "serve", Head(serving).op = "read", toServer # <<>>, toServer' = Tail(toServer),
           StepDone, UNCHANGED <<machine, reset, handling, clientVars, toClient>>
    PROVE  Inv'
<1> DEFINE p == Out[1]
           k == Head(serving).kind
<1>0. /\ Scalars /\ SeqInv /\ OutInv /\ TodoInv /\ Served(serving)
      /\ EndsInv /\ SyncInv /\ DebugInv /\ AnswerInv
    BY DEF Inv
<1>1. UNCHANGED <<machine, reset, toClient, handling, socket_fd, call, last, todo>> BY DEF clientVars
<1>2. /\ OutInv' /\ toServer' \in Seq(PacketType) /\ Len(toServer') = Len(toServer) - 1
      /\ 1 \in DOMAIN Out
      /\ \A i \in DOMAIN Out' : i \in Nat /\ i >= 1 /\ i + 1 \in DOMAIN Out /\ Out'[i] = Out[i + 1]
      /\ \A i \in DOMAIN Out : i # 1 => i - 1 \in DOMAIN Out' /\ Out'[i - 1] = Out[i]
      /\ 2 \in DOMAIN Out <=> 1 \in DOMAIN Out'
    BY <1>0, <1>1, PacketTaken
<1>3. /\ serving # <<>> /\ serving \in Seq(StepType) /\ fd = "up" /\ fd' = "up"
      /\ serving' \in Seq(StepType) /\ Served(serving)' /\ WritesOf(serving') = WritesOf(serving)
      /\ \A i \in DOMAIN serving' : serving'[i].kind = "stick_count" => serving'[i].value \in Nat
      /\ handler' \in {"read", "serve"} /\ (handler' = "serve" <=> serving' # <<>>)
      /\ k \in ArgKinds
      /\ k = "len" => serving' # <<>> /\ Head(serving').op = "read" /\ Head(serving').kind = "module"
      /\ k # "len" /\ serving' # <<>> => Head(serving').op = "write"
      /\ ~ServesDebug'
    BY ServeReadLeaves
<1>4. p.kind = k /\ p.of = handling BY <1>0, <1>2, <1>3 DEF SyncInv
<1> HIDE DEF p, k
<1>5. p.kind # "cmd" BY <1>3, <1>4 DEF ArgKinds
<1>6. 2 \in DOMAIN Out => Follows(p, Out[2])
    <2>1. 1 + 1 = 2 OBVIOUS
    <2> QED BY <1>0, <1>2, <2>1 DEF OutInv, Linked, p
<1>7. socket_fd = "up" /\ 2 \notin DOMAIN Out => ArgAfter(p) = "none"
    <2>1. 1 + 1 = 2 OBVIOUS
    <2> QED BY <1>0, <1>2, <2>1 DEF OutInv, Whole, p
<1>8. 1 \in DOMAIN Out' => Out'[1] = Out[2]
    <2>1. 1 + 1 = 2 OBVIOUS
    <2> QED BY <1>2, <2>1
<1>9. Scalars'
    <2>1. toServer \in Seq(PacketType) /\ Len(toServer) \in Nat BY <1>0 DEF SeqInv
    <2>2. Len(toServer') <= Capacity BY <1>0, <1>2, <2>1, CapacityIs DEF Scalars
    <2> QED BY <1>0, <1>1, <1>3, <2>2 DEF Scalars, Capacity
<1>10. SeqInv' BY <1>0, <1>1, <1>2, <1>3 DEF SeqInv
<1>11. TodoInv' BY <1>0, <1>1 DEF TodoInv
<1>12. EndsInv' BY <1>0, <1>1, <1>3 DEF EndsInv
<1>13. SyncInv'
    <2>1. CASE k = "len"
        <3>1. ArgAfter(p) = "module" BY <1>4, <2>1 DEF ArgAfter
        <3>2. 2 \in DOMAIN Out => Out[2].kind = "module" /\ Out[2].of = handling BY <1>4, <1>6, <3>1 DEF Follows
        <3>3. socket_fd = "up" => 1 \in DOMAIN Out' BY <1>2, <1>7, <3>1
        <3>4. handler' = "serve" /\ Head(serving').op = "read" /\ Head(serving').kind = "module" BY <1>3, <2>1
        <3> QED BY <1>1, <1>2, <1>8, <3>2, <3>3, <3>4 DEF SyncInv
    <2>2. CASE k # "len"
        <3>1. p.kind \in {"u16", "module"} BY <1>3, <1>4, <2>2 DEF ArgKinds
        <3>2. ArgAfter(p) = "none" BY <3>1, NoArgument
        <3>3. 1 \in DOMAIN Out' => Out'[1].kind \notin ArgKinds BY <1>2, <1>6, <1>8, <3>2 DEF Follows
        <3>4. handler' = "serve" => Head(serving').op = "write" BY <1>3, <2>2
        <3> QED BY <3>3, <3>4 DEF SyncInv
    <2> QED BY <2>1, <2>2
<1>14. \A i \in DOMAIN Out' : DebugAt(i)' => i + 1 \in DOMAIN Out /\ DebugAt(i + 1)
    BY <1>2 DEF DebugAt
<1>15. DebugInv'
    <2>1. (\E i \in DOMAIN Out' : DebugAt(i)') =>
             toClient' = <<>> /\ "server" \notin reset' /\ WritesOf(serving') = <<>> /\ last' >= 2
        BY <1>0, <1>1, <1>3, <1>14 DEF DebugInv
    <2>2. ASSUME NEW i \in DOMAIN Out', NEW j \in DOMAIN Out', DebugAt(j)', i < j PROVE Out'[i].kind # "cmd"
        <3>1. i + 1 \in DOMAIN Out /\ j + 1 \in DOMAIN Out /\ i + 1 < j + 1 /\ Out'[i] = Out[i + 1] BY <1>2, <2>2
        <3>2. DebugAt(j + 1) BY <1>14, <2>2
        <3> QED BY <1>0, <1>3, <3>1, <3>2 DEF DebugInv
    <2> QED BY <1>3, <2>1, <2>2 DEF DebugInv
<1>16. AnswerInv'
    <2> SUFFICES ASSUME socket_fd = "up", Clean PROVE AnswerInv' BY <1>1 DEF AnswerInv, Clean, DmidecodeRets
    <2>1. /\ \A i \in DOMAIN Out : Out[i].kind = "cmd" /\ Out[i].of # call => Out[i].value = "LIBCPUID_MSR_DEBUG"
          /\ \A i \in DOMAIN toClient : toClient[i].of = call
          /\ \A i \in DOMAIN Out : Unread(i) =>
               /\ toClient = <<>> /\ WritesOf(serving) = <<>>
               /\ ReadsOf(todo) = ReadsOf(ClientSteps(Out[i].value))
          /\ (\A i \in DOMAIN Out : ~Unread(i)) =>
               /\ WritesOf(serving) # <<>> => handling = call
               /\ Answers(Ans, ReadsOf(todo), TRUE)
        BY <1>0, <1>3 DEF AnswerInv
    <2>2. \A i \in DOMAIN Out' : Out'[i].kind = "cmd" /\ Out'[i].of # call' => Out'[i].value = "LIBCPUID_MSR_DEBUG"
        BY <1>1, <1>2, <2>1
    <2>3. \A i \in DOMAIN Out' : Unread(i)' => i + 1 \in DOMAIN Out /\ Unread(i + 1) /\ Out'[i] = Out[i + 1]
        BY <1>1, <1>2 DEF Unread
    <2>4. (\A i \in DOMAIN Out' : ~Unread(i)') => \A i \in DOMAIN Out : ~Unread(i)
        <3> SUFFICES ASSUME \A i \in DOMAIN Out' : ~Unread(i)', NEW i \in DOMAIN Out PROVE ~Unread(i) OBVIOUS
        <3>1. CASE i = 1 BY <1>5, <3>1 DEF Unread, p
        <3>2. CASE i # 1
            <4>1. i - 1 \in DOMAIN Out' /\ Out'[i - 1] = Out[i] BY <1>2, <3>2
            <4>2. ~Unread(i - 1)' BY <4>1
            <4> QED BY <1>1, <4>1, <4>2 DEF Unread
        <3> QED BY <3>1, <3>2
    <2>5. Ans' = Ans BY <1>1, <1>3 DEF Ans
    <2>6. \A i \in DOMAIN Out' : Unread(i)' =>
             /\ toClient' = <<>> /\ WritesOf(serving') = <<>>
             /\ ReadsOf(todo') = ReadsOf(ClientSteps(Out'[i].value))
        BY <1>1, <1>3, <2>1, <2>3
    <2>7. (\A i \in DOMAIN Out' : ~Unread(i)') =>
             /\ WritesOf(serving') # <<>> => handling' = call'
             /\ Answers(Ans', ReadsOf(todo'), TRUE)
        BY <1>1, <1>3, <2>1, <2>4, <2>5
    <2> QED BY <1>1, <1>3, <2>1, <2>2, <2>6, <2>7 DEF AnswerInv
<1> QED BY <1>2, <1>3, <1>9, <1>10, <1>11, <1>12, <1>13, <1>15, <1>16 DEF Inv

LEMMA ServeReadKeeps ==
    ASSUME Inv, ServeRead, machine' = machine
    PROVE  Inv'
<1>1. /\ handler = "serve" /\ Head(serving).op = "read"
      /\ UNCHANGED <<handling, clientVars, toClient>>
    BY DEF ServeRead
<1>2. CASE \E unread \in {toServer, Tail(toServer)} : ServeFails(unread)
    <2>1. PICK unread \in {toServer, Tail(toServer)} : ServeFails(unread) BY <1>2
    <2>2. /\ fd' = "down" /\ toServer' = <<>> /\ serving' = <<>> /\ handler' = "read"
          /\ reset' = IF unread = <<>> THEN reset ELSE reset \cup {"client"}
        BY <2>1 DEF ServeFails, ServerCloses
    <2> QED BY <1>1, <2>2, ServerGone
<1>3. CASE /\ ReadError("server", toServer, socket_fd) /\ Head(serving).kind = "u16"
           /\ StepDone /\ reset' = reset \ {"server"} /\ UNCHANGED toServer
    BY <1>1, <1>3, UncheckedKeeps
<1>4. CASE /\ Readable("server", toServer) /\ StepDone /\ toServer' = Tail(toServer) /\ UNCHANGED reset
    <2>1. toServer # <<>> BY <1>4 DEF Readable
    <2> QED BY <1>1, <1>4, <2>1, ArgumentKeeps
<1> QED BY <1>2, <1>3, <1>4 DEF ServeRead

LEMMA ServeWriteKeeps ==
    ASSUME Inv, ServeWrite, machine' = machine
    PROVE  Inv'
<1>0. /\ Scalars /\ SeqInv /\ OutInv /\ TodoInv /\ Served(serving)
      /\ EndsInv /\ SyncInv /\ DebugInv /\ AnswerInv
    BY DEF Inv
<1>1. /\ handler = "serve" /\ Head(serving).op = "write"
      /\ UNCHANGED <<handling, clientVars>>
    BY DEF ServeWrite
<1>2. CASE socket_fd # "up"
    <2>1. /\ fd' = "down" /\ toServer' = <<>> /\ serving' = <<>> /\ handler' = "read" /\ UNCHANGED toClient
          /\ reset' = IF toServer = <<>> THEN reset ELSE reset \cup {"client"}
        BY <1>2 DEF ServeWrite, ServeFails, ServerCloses
    <2> QED BY <1>1, <2>1, ServerGone
<1>3. CASE socket_fd = "up"
    <2> DEFINE p == Packet(Head(serving), handling)
               s == serving
               t == serving'
    <2>1. /\ Len(toClient) < Capacity /\ toClient' = Append(toClient, p) /\ t = Tail(s)
          /\ handler' = IF t = <<>> THEN "read" ELSE "serve"
          /\ UNCHANGED <<machine, fd, reset, toServer, handling, socket_fd, call, last, todo>>
        BY <1>1, <1>3 DEF ServeWrite, StepDone, clientVars
    <2>2. /\ s # <<>> /\ s \in Seq(StepType) /\ Served(s) /\ Head(s).op = "write"
          /\ fd = "up" /\ handling \in 1..MaxCalls /\ toClient \in Seq(PacketType)
        BY <1>0, <1>1 DEF Scalars, SeqInv, EndsInv
    <2> HIDE DEF s, t, p
    <2>3. /\ t \in Seq(StepType) /\ Served(t)
          /\ \A i \in DOMAIN t : i + 1 \in DOMAIN s /\ t[i] = s[i + 1]
          /\ WritesOf(s) = s /\ WritesOf(t) = t
          /\ t # <<>> => Head(t).op = "write"
        BY <2>1, <2>2, ServedTail
    <2>4. p = Packet(Head(s), handling) BY DEF p, s
    <2>5. toClient' \in Seq(PacketType) /\ Joined(toClient', t, handling) = Joined(toClient, s, handling)
        BY <2>1, <2>2, <2>4, JoinedMoved
    <2>6. Ans' = Ans
        <3>1. WritesOf(serving) = s /\ WritesOf(serving') = t BY <2>3 DEF s, t
        <3> QED BY <2>1, <2>5, <3>1 DEF Ans
    <2>7. Out' = Out BY <2>1 DEF Out
    <2>8. 1 \in DOMAIN s /\ Head(s) = s[1] BY <2>2, HasFirst
    <2>9. \A i \in DOMAIN toClient' : toClient'[i] = p \/ (i \in DOMAIN toClient /\ toClient'[i] = toClient[i])
        <3>1. toClient' = Append(toClient, p) BY <2>1
        <3> QED BY <2>2, <3>1
    <2>10. Scalars'
        <3>1. Len(toClient') = Len(toClient) + 1 /\ Len(toClient) \in Nat BY <2>1, <2>2
        <3>2. Len(toClient') <= Capacity BY <1>0, <2>1, <3>1, CapacityIs
        <3> QED BY <1>0, <2>1, <3>2 DEF Scalars, Capacity, t
    <2>11. SeqInv'
        <3>1. \A i \in DOMAIN s : s[i].kind = "stick_count" => s[i].value \in Nat BY <1>0 DEF SeqInv, s
        <3>2. \A i \in DOMAIN t : t[i].kind = "stick_count" => t[i].value \in Nat BY <2>3, <3>1
        <3>3. p.kind = "stick_count" => p.value \in Nat BY <2>4, <2>8, <3>1 DEF Packet
        <3>4. \A i \in DOMAIN toClient' : toClient'[i].kind = "stick_count" => toClient'[i].value \in Nat
            BY <1>0, <2>9, <3>3 DEF SeqInv
        <3> QED BY <1>0, <2>1, <2>2, <2>3, <2>5, <3>2, <3>4 DEF SeqInv, t
    <2>12. OutInv' BY <1>0, <2>1, <2>7 DEF OutInv
    <2>13. TodoInv' BY <1>0, <2>1 DEF TodoInv
    <2>14. Served(serving)' BY <2>3 DEF t
    <2>15. EndsInv' BY <1>0, <1>3, <2>1, <2>2 DEF EndsInv
    <2>16. SyncInv'
        <3>1. 1 \in DOMAIN Out => Out[1].kind \notin ArgKinds BY <1>0, <1>1, <1>3, <2>2 DEF SyncInv
        <3>2. handler' = "serve" => Head(serving').op = "write" BY <2>1, <2>3 DEF t
        <3> QED BY <2>7, <3>1, <3>2 DEF SyncInv
    <2>17. DebugInv'
        <3>1. ~(\E i \in DOMAIN Out : DebugAt(i))
            <4>1. WritesOf(serving) # <<>> BY <2>2, <2>3 DEF s
            <4> QED BY <1>0, <2>2, <4>1 DEF DebugInv
        <3>2. \A i \in DOMAIN Out' : ~DebugAt(i)' BY <2>7, <3>1 DEF DebugAt
        <3>3. ~ServesDebug'
            <4> SUFFICES ASSUME t = serve_msr_debug PROVE FALSE BY DEF ServesDebug, t
            <4>1. t # <<>> /\ Head(t) = Read("u16") BY DEF serve_msr_debug
            <4>2. Head(t).op = "read" BY <4>1 DEF Read
            <4> QED BY <2>3, <4>1, <4>2
        <3> QED BY <3>2, <3>3 DEF DebugInv
    <2>18. AnswerInv'
        <3> SUFFICES ASSUME Clean PROVE AnswerInv' BY <2>1 DEF AnswerInv, Clean, DmidecodeRets
        <3>1. WritesOf(serving) # <<>> BY <2>2, <2>3 DEF s
        <3>2. \A i \in DOMAIN Out : ~Unread(i) BY <1>0, <1>3, <2>2, <3>1 DEF AnswerInv
        <3>3. /\ \A i \in DOMAIN Out : Out[i].kind = "cmd" /\ Out[i].of # call => Out[i].value = "LIBCPUID_MSR_DEBUG"
              /\ \A i \in DOMAIN toClient : toClient[i].of = call
              /\ handling = call /\ Answers(Ans, ReadsOf(todo), TRUE)
            BY <1>0, <1>3, <2>2, <3>1, <3>2 DEF AnswerInv
        <3>4. p.of = call BY <2>4, <3>3 DEF Packet
        <3>5. \A i \in DOMAIN toClient' : toClient'[i].of = call' BY <2>1, <2>9, <3>3, <3>4
        <3>6. \A i \in DOMAIN Out' : ~Unread(i)' BY <2>1, <2>7, <3>2 DEF Unread
        <3> QED BY <2>1, <2>2, <2>6, <2>7, <3>3, <3>5, <3>6 DEF AnswerInv
    <2> QED BY <2>10, <2>11, <2>12, <2>13, <2>14, <2>15, <2>16, <2>17, <2>18 DEF Inv
<1> QED BY <1>2, <1>3

-----------------------------------------------------------------------------
(* The specification.                                                      *)

LEMMA InitInv == ASSUME Init PROVE Inv
<1>1. /\ machine \in Machines /\ socket_fd = "up" /\ fd = "up" /\ toServer = <<>> /\ toClient = <<>>
      /\ reset = {} /\ call = 0 /\ last = 0 /\ todo = <<>> /\ handler = "read" /\ handling = 0 /\ serving = <<>>
    BY DEF Init
<1>2. SeqInv BY <1>1, Empty DEF SeqInv
<1>3. Scalars
    <2>1. Capacity \in Nat \ {0} BY <1>2, CapacityIs
    <2>2. MaxCalls \in Nat /\ 0 \in 0..MaxCalls BY ProtocolAssumption
    <2>3. 0 \in 0..Len(StartupOrder) BY DEF StartupOrder
    <2>4. Len(toServer) <= Capacity /\ Len(toClient) <= Capacity BY <1>1, <2>1, Empty
    <2> QED BY <1>1, <2>2, <2>3, <2>4 DEF Scalars
<1>4. DOMAIN Out = {}
    <2>1. Len(toServer) = 0 /\ Len(todo) = 0 BY <1>1
    <2>2. DOMAIN Out = 1..0 BY <1>2, <2>1, OutIs
    <2> QED BY <2>2
<1>5. ReadsOf(todo) = <<>> /\ WritesOf(serving) = <<>> BY <1>1 DEF ReadsOf, DropWrite, WritesOf, DropRead
<1>6. OutInv BY <1>1, <1>4, Empty DEF OutInv, Linked, Whole, Dated, Ordered
<1>7. TodoInv BY <1>1, <1>5, Empty DEF TodoInv
<1>8. Served(serving) BY <1>1, <1>5, Empty DEF Served
<1>9. EndsInv BY <1>1 DEF EndsInv
<1>10. SyncInv BY <1>1, <1>4 DEF SyncInv
<1>11. DebugInv
    <2>1. ~ServesDebug BY <1>1 DEF ServesDebug, serve_msr_debug
    <2> QED BY <1>4, <2>1 DEF DebugInv
<1>12. AnswerInv
    <2> DEFINE w == Ans
               r == ReadsOf(todo)
    <2>1. DOMAIN w = 1..0 /\ Len(w) = 0
        <3> DEFINE q == toClient
                   t == WritesOf(serving)
        <3>1. q \in Seq(PacketType) /\ t \in Seq(StepType) /\ Len(q) = 0 /\ Len(t) = 0 /\ t = <<>>
            BY <1>1, <1>5, Empty
        <3>2. w = Joined(q, t, handling) BY DEF Ans
        <3> HIDE DEF w, q, t
        <3>3. DOMAIN Joined(q, t, handling) = 1..(Len(q) + Len(t)) BY <3>1, JoinedIs
        <3>4. Len(Joined(q, t, handling)) = Len(q) + Len(t) BY <3>1, JoinedIs
        <3>5. Len(q) + Len(t) = 0 BY <3>1
        <3> QED BY <3>2, <3>3, <3>4, <3>5
    <2>2. DOMAIN r = {} /\ Len(r) = 0 BY <1>5, Empty
    <2>3. DOMAIN w = {} BY <2>1
    <2> HIDE DEF w, r
    <2>4. Len(w) <= Len(r) /\ Len(w) >= Len(r) BY <2>1, <2>2
    <2>5. Answers(w, r, TRUE) BY <2>2, <2>3, <2>4 DEF Answers
    <2> QED BY <1>1, <1>4, <1>5, <2>5, Empty DEF AnswerInv, w, r
<1> QED BY <1>2, <1>3, <1>6, <1>7, <1>8, <1>9, <1>10, <1>11, <1>12 DEF Inv

LEMMA StutterKeeps == ASSUME Inv, UNCHANGED vars PROVE Inv'
<1>0. /\ Scalars /\ SeqInv /\ OutInv /\ TodoInv /\ Served(serving)
      /\ EndsInv /\ SyncInv /\ DebugInv /\ AnswerInv
    BY DEF Inv
<1>1. UNCHANGED <<machine, socket_fd, call, last, todo, fd, handler, handling, serving, toServer, toClient, reset>>
    BY DEF vars, clientVars, serverVars
<1>2. Out' = Out /\ Ans' = Ans BY <1>1 DEF Out, Ans
<1>3. Scalars' BY <1>0, <1>1 DEF Scalars, Capacity
<1>4. SeqInv' BY <1>0, <1>1 DEF SeqInv
<1>5. OutInv' BY <1>0, <1>1, <1>2 DEF OutInv
<1>6. TodoInv' BY <1>0, <1>1 DEF TodoInv
<1>7. Served(serving)' BY <1>0, <1>1
<1>8. EndsInv' BY <1>0, <1>1 DEF EndsInv
<1>9. SyncInv' BY <1>0, <1>1, <1>2 DEF SyncInv
<1>10. DebugInv' BY <1>0, <1>1, <1>2 DEF DebugInv, ServesDebug, DebugAt
<1>11. AnswerInv' BY <1>0, <1>1, <1>2 DEF AnswerInv, Clean, DmidecodeRets, Unread
<1> QED BY <1>3, <1>4, <1>5, <1>6, <1>7, <1>8, <1>9, <1>10, <1>11 DEF Inv

LEMMA NextKeeps == ASSUME Inv, [Next]_vars PROVE Inv'
<1>1. CASE UNCHANGED vars BY <1>1, StutterKeeps
<1>2. CASE Next
    <2>1. machine' = machine BY <1>2 DEF Next
    <2>2. CASE \E cmd \in Commands : Call(cmd)
        <3>1. PICK cmd \in Commands : Call(cmd) BY <2>2
        <3> QED BY <2>1, <3>1, CallKeeps
    <2>3. CASE ClientWrite BY <2>1, <2>3, WriteKeeps
    <2>4. CASE ClientRead BY <2>1, <2>4, ReadKeeps
    <2>5. CASE ClientQuit BY <2>1, <2>5, QuitKeeps
    <2>6. CASE ReadCommand BY <2>1, <2>6, ReadCommandKeeps
    <2>7. CASE Break BY <2>1, <2>7, BreakKeeps
    <2>8. CASE ServeRead BY <2>1, <2>8, ServeReadKeeps
    <2>9. CASE ServeWrite BY <2>1, <2>9, ServeWriteKeeps
    <2>10. CASE Kill BY <2>1, <2>10, KillKeeps
    <2> QED BY <1>2, <2>2, <2>3, <2>4, <2>5, <2>6, <2>7, <2>8, <2>9, <2>10
            DEF Next, Step, ClientStep, ServerStep
<1> QED BY <1>1, <1>2

LEMMA Always == Spec => []Inv
<1>1. Init => Inv BY InitInv
<1>2. Inv /\ [Next]_vars => Inv' BY NextKeeps
<1> QED BY <1>1, <1>2, PTL DEF Spec

\* The packet at the head of a queue is the first of the joined sequence.
LEMMA SyncHolds == ASSUME Inv PROVE ServerInSync
<1> SUFFICES ASSUME Readable("server", toServer), handler # "done", fd = "up"
             PROVE  /\ handler = "read" => Head(toServer).kind = "cmd"
                    /\ handler = "serve" /\ Head(serving).op = "read" =>
                         Head(toServer).kind = Head(serving).kind /\ Head(toServer).of = handling
    BY DEF ServerInSync
<1>1. SeqInv /\ OutInv /\ SyncInv BY DEF Inv
<1>2. toServer \in Seq(PacketType) /\ toServer # <<>> BY <1>1 DEF SeqInv, Readable
<1>3. 1 \in DOMAIN toServer /\ Head(toServer) = toServer[1] /\ Len(toServer) \in Nat BY <1>2, HasFirst
<1>4. /\ DOMAIN Out = 1..(Len(toServer) + Len(todo)) /\ Len(todo) \in Nat
      /\ \A i \in 1..Len(toServer) : Out[i] = toServer[i]
      /\ DOMAIN toServer = 1..Len(toServer)
    BY <1>1, OutIs
<1>5. 1 \in DOMAIN Out /\ Out[1] = Head(toServer) BY <1>3, <1>4
<1>6. Head(toServer).kind \in ClientKinds BY <1>1, <1>3 DEF OutInv
<1> QED BY <1>1, <1>5, <1>6 DEF SyncInv, ClientKinds

LEMMA AnswerHolds == ASSUME Inv, Clean PROVE ReceivesItsAnswer
<1> SUFFICES ASSUME todo # <<>>, Head(todo).op = "read", Readable("client", toClient)
             PROVE  Head(toClient).kind = Head(todo).kind /\ Head(toClient).of = call
    BY DEF ReceivesItsAnswer
<1>1. Scalars /\ SeqInv /\ EndsInv /\ AnswerInv BY DEF Inv
<1>2. toClient \in Seq(PacketType) /\ toClient # <<>> /\ todo \in Seq(StepType) /\ serving \in Seq(StepType)
    BY <1>1 DEF SeqInv, Readable
<1>3. /\ 1 \in DOMAIN toClient /\ Head(toClient) = toClient[1] /\ Len(toClient) \in Nat /\ 1 \in 1..Len(toClient)
      /\ 1 \in DOMAIN todo /\ Head(todo) = todo[1]
    BY <1>2, HasFirst
<1>4. socket_fd = "up" /\ fd \in {"up", "down"} BY <1>1 DEF EndsInv, Scalars
<1>5. Head(toClient).of = call BY <1>1, <1>3, <1>4 DEF AnswerInv
<1>6. ReadsOf(todo) = todo BY <1>2, ReadsHead
<1>7. CASE fd = "down"
    <2>1. Answers(toClient, todo, FALSE) BY <1>1, <1>4, <1>6, <1>7 DEF AnswerInv
    <2> QED BY <1>3, <1>5, <2>1 DEF Answers
<1>8. CASE fd = "up"
    <2>1. \A i \in DOMAIN Out : ~Unread(i) BY <1>1, <1>2, <1>4, <1>8 DEF AnswerInv
    <2>2. Answers(Ans, todo, TRUE) BY <1>1, <1>4, <1>6, <1>8, <2>1 DEF AnswerInv
    <2> DEFINE x == WritesOf(serving)
               w == Ans
    <2>3. x \in Seq(StepType) /\ w = Joined(toClient, x, handling) BY <1>2, DropTypes DEF Ans
    <2> HIDE DEF x, w
    <2>4. w[1] = toClient[1] BY <1>2, <1>3, <2>3, JoinedFirst
    <2>5. 1 \in DOMAIN w
        <3>1. DOMAIN w = 1..(Len(toClient) + Len(x)) /\ Len(x) \in Nat BY <1>2, <2>3, JoinedIs
        <3> QED BY <1>3, <3>1
    <2>6. Answers(w, todo, TRUE) BY <2>2 DEF w
    <2>7. w[1].kind = todo[1].kind BY <1>3, <2>5, <2>6 DEF Answers
    <2> QED BY <1>3, <1>5, <2>4, <2>7
<1> QED BY <1>4, <1>7, <1>8

\* The queues hold packets of the calls made, within the capacity of the socket, and a function of
\* the daemon is left with steps exactly while the thread serves.
THEOREM ProtocolTypeCorrect == Spec => []TypeOK
<1>1. Inv => TypeOK BY TypeFrom DEF Inv
<1> QED BY <1>1, Always, PTL

\* No failure of either side leaves half of a command for the next read() of request_handler(): its
\* packets are whole in the order of the calls, and the thread reads an argument only where one comes.
THEOREM ServerStaysInSync == Spec => []ServerInSync
<1>1. Inv => ServerInSync BY SyncHolds
<1> QED BY <1>1, Always, PTL

\* Where dmidecode() succeeds, RECEIVE_DATA of every call reads what the daemon wrote for this call.
THEOREM ReceivesItsAnswerHolds == Spec => []ReceivesItsAnswerUnlessDmiFails
<1>1. Inv => ReceivesItsAnswerUnlessDmiFails
    BY AnswerHolds DEF ReceivesItsAnswerUnlessDmiFails, Clean
<1> QED BY <1>1, Always, PTL

\* On every machine it does until call_dmidecode(), the only call whose answers may stay unread.
THEOREM AnswersUntilDmidecode == Spec => [](last < 4 => ReceivesItsAnswer)
<1>1. Inv => (last < 4 => ReceivesItsAnswer) BY AnswerHolds DEF Clean
<1> QED BY <1>1, Always, PTL
=============================================================================
