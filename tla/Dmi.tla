-------------------------------- MODULE Dmi --------------------------------
(***************************************************************************)
(* What the daemon reads from the DMI table: __call_dmidecode()            *)
(* (src/daemon/server.cpp), dmidecode(), dmi_table_decode() and            *)
(* dmi_decode_cpux() (src/core/dmidecode/dmidecode.c).                     *)
(*                                                                         *)
(* Every request thread of the daemon may run dmidecode(), without a lock. *)
(* The answer under construction is reached through the global cpux_data,  *)
(* the wanted types are in the global opt.type, and the functions that     *)
(* write a size, a speed or a voltage return a static buffer, which they   *)
(* leave as it is when the table gives no value.                           *)
(***************************************************************************)
EXTENDS Integers, Sequences, FiniteSets

CONSTANTS Calls,    \* the DMIDECODE commands the daemon serves in its life
          Tables,   \* the DMI tables to try: sequences of structures, see StructureOK
          Width,    \* bits of stick_count, 8 in the code
          None

NoValue   == 0      \* an unknown speed or voltage, an empty slot
Unknown16 == 65535  \* 0xFFFF, an unknown size, or a speed in the extended field
UseExt    == 32767  \* 0x7FFF, the size is in the extended field

BufferNames == {"size", "ext", "speed", "voltage"}

\* 16-bit codes, and the extended size, whose bit 31 is reserved.
Codes16 == 0..65535
Codes31 == {code \in Nat : code <= 2147483647}

\* The codes of a memory device: for each speed its 16 bits and its extended field.
StructureOK(s) ==
    /\ s.type \in 0..255 /\ s.length \in 4..255
    /\ s.type = 0 => s.runtime \in Codes16 /\ s.rom \in 0..254
    /\ s.type = 17 =>
        /\ s.form \in BOOLEAN   \* the form factor is known
        /\ s.size \in Codes16 /\ s.ext \in Codes31
        /\ s.speed \in Seq(Nat) /\ Len(s.speed) = 2
        /\ s.conf \in Seq(Nat) /\ Len(s.conf) = 2
        /\ s.volts \in Seq(Codes16) /\ Len(s.volts) = 3

ASSUME DmiAssumption ==
    /\ None \notin Calls
    /\ Width \in Nat \ {0}
    /\ \A t \in Tables : /\ Len(t) \in Nat /\ DOMAIN t = 1..Len(t)
                        /\ \A i \in DOMAIN t : StructureOK(t[i])

VARIABLES
    table,     \* this machine's table
    call,      \* where each command is: "wait", "decode", "send" or "done"
    position,  \* the structure its decoding has reached
    cpux_data, \* the call whose message dmi_decode_cpux() fills, or None
    opt_type,  \* opt.type: the call that allocated it, or None for NULL
    buffers,   \* the static buffers
    msg,       \* the DmidecodeData on each request thread's stack
    answer,    \* what each thread has sent
    alone      \* the calls during which no other call decoded

decoder == <<position, cpux_data, opt_type, buffers>>
vars == <<table, call, decoder, msg, answer, alone>>

\* What a field shows: nothing, or the code of a structure read by a call.
Empty == [call |-> None, index |-> 0, code |-> 0]
Own(c, i, code) == [call |-> c, index |-> i, code |-> code]
Value == [call : Calls \cup {None}, index : Nat, code : Nat]

Fields == {"size", "speed_maximum", "part_number", "speed_configured",
           "voltage_minimum", "voltage_maximum", "voltage_configured"}

\* The structures that the bios, board and processor parts come from, 0 if none, and the
\* sticks; stick_count is as many of memory as are sent.
NoMessage == [bios |-> 0, mb |-> 0, processor |-> 0, stick_count |-> 0, memory |-> <<>>]

-----------------------------------------------------------------------------
(* How much of a structure dmi_decode_cpux() reads before it breaks off.   *)

IsStick(s) == s.type = 17 /\ s.length >= 21 /\ s.form

HasModule(s) == s.length >= 23 /\ s.size # NoValue
HasPart(s)   == HasModule(s) /\ s.length >= 27
HasConf(s)   == HasModule(s) /\ s.length >= 34
HasVolts(s)  == HasModule(s) /\ s.length >= 40

\* dmi_print_memory_size_str(): a size in kB below 2^30 is shown in the highest unit that is
\* not 0, or in the one below if that is not 0 either: the number and the unit (in kB).
Unit == <<1, 1024, 1048576>>
Digit(kb, i) == (kb \div Unit[i]) % 1024
memory_size(kb) ==
    LET top == IF Digit(kb, 3) # 0 THEN 3 ELSE IF Digit(kb, 2) # 0 THEN 2 ELSE 1 IN
    IF top > 1 /\ Digit(kb, top - 1) # 0
    THEN [number |-> Digit(kb, top - 1) + 1024 * Digit(kb, top), unit |-> Unit[top - 1]]
    ELSE [number |-> Digit(kb, top), unit |-> Unit[top]]

\* dmi_memory_device_size_str(): 15 bits of MiB, or of kB with the highest bit set.
device_kb(code) == IF code >= 32768 THEN code - 32768 ELSE 1024 * code

\* As extended_size would be if GiB were tried before MiB.
extended_size_rounded(code) ==
    IF code % 1048576 # 0 THEN [number |-> code \div 1024, unit |-> 1024]
    ELSE [number |-> code \div 1048576, unit |-> 1048576]

\* dmi_memory_device_extended_size_str(): 31 bits of MiB, the number and the unit (in MiB).
extended_size(code) ==
    IF code % 1024 # 0 THEN [number |-> code, unit |-> 1]
    ELSE IF code % 1048576 # 0 THEN [number |-> code \div 1024, unit |-> 1024]
    ELSE [number |-> code \div 1048576, unit |-> 1048576]

\* dmi_bios_runtime_size_str() of the segment code, the number and the unit (in bytes), and
\* dmi_bios_rom_size_str() in kB; a rom code of 255 leads to the extended field.
runtime_bytes(code) == (65536 - code) * 16
runtime_size(code) ==
    IF runtime_bytes(code) % 1024 # 0 THEN [number |-> runtime_bytes(code), unit |-> 1]
    ELSE [number |-> runtime_bytes(code) \div 1024, unit |-> 1024]
rom_kb(code) == (code + 1) * 64

\* The code a speed is written from.
SpeedCode(s, codes) == IF codes[1] # Unknown16 THEN codes[1]
                       ELSE IF s.length >= 92 THEN codes[2] ELSE NoValue

UsesExt(s)   == s.length >= 32 /\ s.size = UseExt
SizeKnown(s) == UsesExt(s) \/ s.size \notin {NoValue, Unknown16}

\* A function that leaves its buffer alone when the code has no value.
Keep(buffer, value) == IF value.code = NoValue THEN buffer ELSE value

\* As Voltages would be if the three pointers were taken before the first copy.
VoltagesLate(buffer, c, i, s) ==
    LET last == Keep(Keep(Keep(buffer, Own(c, i, s.volts[1])), Own(c, i, s.volts[2])),
                     Own(c, i, s.volts[3]))
    IN <<last, last, last>>

\* The minimum, the maximum and the configured voltage, each copied before the next one.
Voltages(buffer, c, i, s) ==
    LET min == Keep(buffer, Own(c, i, s.volts[1]))
        max == Keep(min, Own(c, i, s.volts[2]))
    IN <<min, max, Keep(max, Own(c, i, s.volts[3]))>>

\* The stick of a memory device and the buffers after it.
decode_stick(b, c, i, s) ==
    LET size  == IF SizeKnown(s) THEN Own(c, i, s.size) ELSE b.size
        ext   == Own(c, i, s.ext)
        max   == Keep(b.speed, Own(c, i, SpeedCode(s, s.speed)))
        conf  == Keep(max, Own(c, i, SpeedCode(s, s.conf)))
        volts == Voltages(b.voltage, c, i, s)
        If(read, value, otherwise) == IF read THEN value ELSE otherwise
    IN [stick |-> [size               |-> If(UsesExt(s), ext, size),
                   speed_maximum      |-> If(HasModule(s), max, Empty),
                   part_number        |-> If(HasPart(s), Own(c, i, 1), Empty),
                   speed_configured   |-> If(HasConf(s), conf, Empty),
                   voltage_minimum    |-> If(HasVolts(s), volts[1], Empty),
                   voltage_maximum    |-> If(HasVolts(s), volts[2], Empty),
                   voltage_configured |-> If(HasVolts(s), volts[3], Empty)],
        buffers |-> [size    |-> If(UsesExt(s), b.size, size),
                     ext     |-> If(UsesExt(s), ext, b.ext),
                     speed   |-> If(HasConf(s), conf, If(HasModule(s), max, b.speed)),
                     voltage |-> If(HasVolts(s), volts[3], b.voltage)]]

\* As Grow would be if stick_count were not advanced with the array.
GrowNot(m, stick) == [m EXCEPT !.memory = Append(SubSeq(@, 1, m.stick_count), stick)]

\* As Grow would be if a failed realloc() were counted.
GrowCountOnly(m, stick) == [m EXCEPT !.stick_count = (@ + 1) % 2^Width]

\* realloc() to one element more than stick_count, which has Width bits.
Grow(m, stick) == [m EXCEPT !.memory = Append(SubSeq(@, 1, m.stick_count), stick),
                            !.stick_count = (@ + 1) % 2^Width]

\* The message m after the structure s, the i-th, which call c has reached.
dmi_decode_cpux(m, b, c, i, s) ==
    CASE s.type = 0 /\ s.length >= 18 -> [m EXCEPT !.bios = i]
      [] s.type = 2 /\ s.length >= 8  -> [m EXCEPT !.mb = i]
      [] s.type = 4 /\ s.length >= 26 -> [m EXCEPT !.processor = i]
      [] IsStick(s)                   -> Grow(m, decode_stick(b, c, i, s).stick)
      [] OTHER                        -> m

-----------------------------------------------------------------------------
TypeOK ==
    /\ table \in Tables
    /\ call \in [Calls -> {"wait", "decode", "send", "done"}]
    /\ position \in [Calls -> 1..(Len(table) + 1)]
    /\ cpux_data \in Calls \cup {None} /\ opt_type \in Calls \cup {None}
    /\ buffers \in [BufferNames -> Value]
    /\ \A m \in {msg[c] : c \in Calls} \cup {answer[c] : c \in Calls} :
         /\ {m.bios, m.mb, m.processor} \subseteq 0..Len(table)
         /\ m.stick_count \in 0..(2^Width - 1) /\ m.stick_count <= Len(m.memory)
         /\ \A j \in DOMAIN m.memory : m.memory[j] \in [Fields -> Value]
    /\ alone \subseteq Calls

Init ==
    /\ table \in Tables
    /\ call = [c \in Calls |-> "wait"]
    /\ position = [c \in Calls |-> 1]
    /\ cpux_data = None /\ opt_type = None
    /\ buffers = [n \in BufferNames |-> Empty]
    /\ msg = [c \in Calls |-> NoMessage]
    /\ answer = [c \in Calls |-> NoMessage]
    /\ alone = Calls

Decoding == {c \in Calls : call[c] = "decode"}

\* dmidecode(): the globals are set for this call, whoever uses them.
Begin(c) ==
    /\ call[c] = "wait"
    /\ call' = [call EXCEPT ![c] = "decode"]
    /\ cpux_data' = c /\ opt_type' = c
    /\ alone' = IF Decoding = {} THEN alone ELSE alone \ (Decoding \cup {c})
    /\ UNCHANGED <<table, position, buffers, msg, answer>>

\* The end of table marker ends a quiet decoding.
AtEnd(c) == position[c] \in DOMAIN table => table[position[c]].type = 127

\* One structure.  With a NULL opt.type the other types are decoded as well, to nothing.  A
\* message whose thread has returned is no more: what is written there is lost at best.
Decode(c) ==
    /\ call[c] = "decode" /\ ~AtEnd(c)
    /\ LET i == position[c]
           s == table[i] IN
       /\ position' = [position EXCEPT ![c] = i + 1]
       /\ msg' = IF call[cpux_data] = "done" THEN msg
                 ELSE [msg EXCEPT ![cpux_data] = dmi_decode_cpux(@, buffers, c, i, s)]
       /\ buffers' = IF IsStick(s) THEN decode_stick(buffers, c, i, s).buffers ELSE buffers
    /\ UNCHANGED <<table, call, cpux_data, opt_type, answer, alone>>

End(c) ==
    /\ call[c] = "decode" /\ AtEnd(c)
    /\ call' = [call EXCEPT ![c] = "send"]
    /\ opt_type' = None
    /\ UNCHANGED <<table, position, cpux_data, buffers, msg, answer, alone>>

\* __call_dmidecode() sends what the message holds now and returns.
Send(c) ==
    /\ call[c] = "send"
    /\ answer' = [answer EXCEPT ![c] = [msg[c] EXCEPT !.memory =
                                            SubSeq(@, 1, msg[c].stick_count)]]
    /\ msg' = [msg EXCEPT ![c] = NoMessage]
    /\ call' = [call EXCEPT ![c] = "done"]
    /\ UNCHANGED <<table, decoder, alone>>

Next == \E c \in Calls : Begin(c) \/ Decode(c) \/ End(c) \/ Send(c)

Spec == Init /\ [][Next]_vars

-----------------------------------------------------------------------------
(* Properties.                                                             *)

\* The memory devices before the end of the table.
Ends    == {i \in DOMAIN table : table[i].type = 127}
Read    == {i \in DOMAIN table : \A e \in Ends : i < e}
Devices == {i \in Read : IsStick(table[i])}
Device(j) == CHOOSE i \in Devices : Cardinality({k \in Devices : k <= i}) = j

Answered == {c \in Calls : call[c] = "done" /\ c \in alone}

\* An answer decoded while no other was has one stick for each memory device, in the order of
\* the table and whatever was decoded before, as long as stick_count can count them
\* (dmidecode.c:5774-5784, server.cpp:161-163).
OneStickPerDevice ==
    \A c \in Answered : Cardinality(Devices) < 2^Width =>
        /\ Len(answer[c].memory) = Cardinality(Devices)
        /\ \A j \in DOMAIN answer[c].memory :
             answer[c].memory[j].part_number.index \in {0, Device(j)}

\* The code a field of a device has in the table, NoValue if none.
Code(s, f) ==
    CASE f = "size"             -> IF UsesExt(s) THEN s.ext
                                   ELSE IF SizeKnown(s) THEN s.size ELSE NoValue
      [] f = "speed_maximum"    -> IF HasModule(s) THEN SpeedCode(s, s.speed) ELSE NoValue
      [] f = "part_number"      -> IF HasPart(s) THEN 1 ELSE NoValue
      [] f = "speed_configured" -> IF HasConf(s) THEN SpeedCode(s, s.conf) ELSE NoValue
      [] OTHER -> IF ~HasVolts(s) THEN NoValue
                  ELSE s.volts[CASE f = "voltage_minimum" -> 1 [] f = "voltage_maximum" -> 2
                                 [] f = "voltage_configured" -> 3]

\* In an answer decoded while no other was, of a table whose devices stick_count can count,
\* a field whose code the table has shows that code, whatever the static buffers held: it is no
\* other device's or call's (dmidecode.c:5786-5809).  A field without a code is left out; what
\* an empty slot shows is EmptySlotHasNoSize.
KnownIsOwn ==
    \A c \in Answered : Cardinality(Devices) < 2^Width =>
        \A j \in DOMAIN answer[c].memory, f \in Fields :
            LET code == Code(table[Device(j)], f) IN
            code # NoValue => answer[c].memory[j][f] = Own(c, Device(j), code)

\* The number shown is the exact size, for every size of a device and of the BIOS
\* (dmidecode.c:335-360, 411-450, 2871-2925).
Shows(shown, size) == shown.number * shown.unit = size
SizesExact ==
    \A i \in DOMAIN table :
        /\ table[i].type = 0 => /\ Shows(runtime_size(table[i].runtime),
                                         runtime_bytes(table[i].runtime))
                                /\ Shows(memory_size(rom_kb(table[i].rom)), rom_kb(table[i].rom))
        /\ table[i].type = 17 =>
             IF UsesExt(table[i]) THEN Shows(extended_size(table[i].ext), table[i].ext)
             ELSE Shows(memory_size(device_kb(table[i].size)), device_kb(table[i].size))

\* "No Module Installed" (dmidecode.c:2876): a slot without a module shows no size.
EmptySlotHasNoSize ==
    \A c \in Answered : Cardinality(Devices) < 2^Width =>
        \A j \in DOMAIN answer[c].memory :
            table[Device(j)].size = NoValue => answer[c].memory[j].size = Empty
=============================================================================
