----------------------------- MODULE DmiProofs -----------------------------
(***************************************************************************)
(* For every table, every number of calls and every width of stick_count:  *)
(* the sizes that dmidecode.c shows are exact, and an answer decoded while *)
(* no other was has the sticks of the table, each with its own values.     *)
(***************************************************************************)
EXTENDS Dmi, FiniteSetTheorems, TLAPS

\* A size of the highest unit and, below it, one unit that is not 0: the sizes of whole kB.
LEMMA MemorySize ==
    ASSUME NEW kb \in Nat, kb < 1073741824, Digit(kb, 1) = 0 \/ Digit(kb, 3) = 0
    PROVE  Shows(memory_size(kb), kb)
<1> DEFINE d1 == kb % 1024
           d2 == (kb \div 1024) % 1024
           d3 == (kb \div 1048576) % 1024
<1>1. kb = d1 + 1024 * d2 + 1048576 * d3
    OBVIOUS
<1>2. Digit(kb, 1) = d1 /\ Digit(kb, 2) = d2 /\ Digit(kb, 3) = d3
    BY DEF Digit, Unit
<1>3. d1 \in Nat /\ d2 \in Nat /\ d3 \in Nat
    OBVIOUS
<1> HIDE DEF d1, d2, d3
<1>4. CASE d3 # 0
    <2>1. d1 = 0
        BY <1>2, <1>4
    <2>2. CASE d2 # 0
        <3>1. memory_size(kb) = [number |-> d2 + 1024 * d3, unit |-> 1024]
            BY <1>2, <1>4, <2>2 DEF memory_size, Unit
        <3> QED BY <1>1, <1>3, <2>1, <3>1 DEF Shows
    <2>3. CASE d2 = 0
        <3>1. memory_size(kb) = [number |-> d3, unit |-> 1048576]
            BY <1>2, <1>4, <2>3 DEF memory_size, Unit
        <3> QED BY <1>1, <1>3, <2>1, <2>3, <3>1 DEF Shows
    <2> QED BY <2>2, <2>3
<1>5. CASE d3 = 0 /\ d2 # 0
    <2>1. CASE d1 # 0
        <3>1. memory_size(kb) = [number |-> d1 + 1024 * d2, unit |-> 1]
            BY <1>2, <1>5, <2>1 DEF memory_size, Unit
        <3> QED BY <1>1, <1>3, <1>5, <3>1 DEF Shows
    <2>2. CASE d1 = 0
        <3>1. memory_size(kb) = [number |-> d2, unit |-> 1024]
            BY <1>2, <1>5, <2>2 DEF memory_size, Unit
        <3> QED BY <1>1, <1>3, <1>5, <2>2, <3>1 DEF Shows
    <2> QED BY <2>1, <2>2
<1>6. CASE d3 = 0 /\ d2 = 0
    <2>1. memory_size(kb) = [number |-> d1, unit |-> 1]
        BY <1>2, <1>6 DEF memory_size, Unit
    <2> QED BY <1>1, <1>3, <1>6, <2>1 DEF Shows
<1> QED BY <1>4, <1>5, <1>6

LEMMA DeviceSize == ASSUME NEW code \in Codes16
                    PROVE  Shows(memory_size(device_kb(code)), device_kb(code))
<1> DEFINE kb == device_kb(code)
<1>1. kb \in Nat /\ kb < 1073741824 /\ (kb % 1024 = 0 \/ kb < 1048576)
    <2>1. CASE code >= 32768
        <3>1. kb = code - 32768
            BY <2>1 DEF device_kb
        <3> HIDE DEF kb
        <3>2. code \in Nat /\ code >= 32768 /\ code < 65536
            BY <2>1 DEF Codes16
        <3> QED BY <3>1, <3>2
    <2>2. CASE ~(code >= 32768)
        <3>1. kb = 1024 * code
            BY <2>2 DEF device_kb, Codes16
        <3> HIDE DEF kb
        <3>2. code \in Nat /\ code < 32768
            BY <2>2 DEF Codes16
        <3>3. kb % 1024 = 0
            BY <3>1, <3>2
        <3> QED BY <3>1, <3>2, <3>3
    <2> QED BY <2>1, <2>2
<1> HIDE DEF kb
<1>2. kb < 1048576 => (kb \div 1048576) % 1024 = 0
    BY <1>1
<1>3. Digit(kb, 1) = 0 \/ Digit(kb, 3) = 0
    BY <1>1, <1>2 DEF Digit, Unit
<1>4. Shows(memory_size(kb), kb)
    BY <1>1, <1>3, MemorySize
<1> QED BY <1>4 DEF kb

LEMMA RomSize == ASSUME NEW code \in 0..254
                 PROVE  Shows(memory_size(rom_kb(code)), rom_kb(code))
<1> DEFINE kb == rom_kb(code)
<1>1. kb \in Nat /\ kb < 1048576
    BY DEF rom_kb
<1> HIDE DEF kb
<1>2. (kb \div 1048576) % 1024 = 0
    BY <1>1
<1>3. Digit(kb, 3) = 0
    BY <1>2 DEF Digit, Unit
<1>4. Shows(memory_size(kb), kb)
    BY <1>1, <1>3, MemorySize
<1> QED BY <1>4 DEF kb

LEMMA ExtendedSize == ASSUME NEW code \in Nat PROVE Shows(extended_size(code), code)
<1>1. code % 1048576 = 0 => code = (code \div 1048576) * 1048576
    OBVIOUS
<1>2. code % 1024 = 0 => code = (code \div 1024) * 1024
    OBVIOUS
<1>3. CASE code % 1024 # 0
    BY <1>3 DEF extended_size, Shows
<1>4. CASE code % 1024 = 0 /\ code % 1048576 # 0
    BY <1>2, <1>4 DEF extended_size, Shows
<1>5. CASE code % 1024 = 0 /\ code % 1048576 = 0
    BY <1>1, <1>5 DEF extended_size, Shows
<1> QED BY <1>3, <1>4, <1>5

LEMMA RuntimeSize == ASSUME NEW code \in Codes16
                     PROVE  Shows(runtime_size(code), runtime_bytes(code))
<1> DEFINE b == runtime_bytes(code)
<1>1. b \in Nat
    BY DEF runtime_bytes, Codes16
<1> HIDE DEF b
<1>2. b % 1024 = 0 => b = (b \div 1024) * 1024
    BY <1>1
<1>3. b % 1024 # 0 => runtime_size(code) = [number |-> b, unit |-> 1]
    BY DEF runtime_size, b
<1>4. b % 1024 = 0 => runtime_size(code) = [number |-> b \div 1024, unit |-> 1024]
    BY DEF runtime_size, b
<1>5. Shows(runtime_size(code), b)
    BY <1>1, <1>2, <1>3, <1>4 DEF Shows
<1> QED BY <1>5 DEF b

LEMMA Codes ==
    ASSUME NEW s, StructureOK(s)
    PROVE  /\ s.type = 0 => s.runtime \in Codes16 /\ s.rom \in 0..254
           /\ s.type = 17 => s.size \in Codes16 /\ s.ext \in Codes31
BY Zenon DEF StructureOK

LEMMA TableIsOne == Spec => [](table \in Tables)
<1>1. Init => table \in Tables
    BY DEF Init
<1>2. table \in Tables /\ [Next]_vars => (table \in Tables)'
    BY DEF Next, Begin, Decode, End, Send, vars
<1> QED BY <1>1, <1>2, PTL DEF Spec

\* Whatever sizes a machine's table holds, the numbers shown are exact
\* (dmidecode.c:335-360, 411-450, 2871-2925).
THEOREM SizesAreExact == Spec => []SizesExact
<1>1. table \in Tables => SizesExact
    <2> SUFFICES ASSUME table \in Tables, NEW i \in DOMAIN table
                 PROVE  /\ table[i].type = 0 =>
                            /\ Shows(runtime_size(table[i].runtime), runtime_bytes(table[i].runtime))
                            /\ Shows(memory_size(rom_kb(table[i].rom)), rom_kb(table[i].rom))
                        /\ table[i].type = 17 =>
                             IF UsesExt(table[i]) THEN Shows(extended_size(table[i].ext), table[i].ext)
                             ELSE Shows(memory_size(device_kb(table[i].size)),
                                        device_kb(table[i].size))
        BY DEF SizesExact
    <2>1. StructureOK(table[i])
        BY DmiAssumption, Zenon
    <2>2. table[i].type = 0 => table[i].runtime \in Codes16 /\ table[i].rom \in 0..254
        BY <2>1, Codes, Zenon
    <2>3. table[i].type = 17 => table[i].size \in Codes16 /\ table[i].ext \in Codes31
        BY <2>1, Codes, Zenon
    <2>4. \A code \in Codes31 : code \in Nat
        BY DEF Codes31
    <2> QED BY <2>2, <2>3, <2>4, RuntimeSize, RomSize, ExtendedSize, DeviceSize
<1> QED BY TableIsOne, <1>1, PTL

-----------------------------------------------------------------------------
(* Counting the memory devices.                                            *)

\* The values of stick_count: 2^Width, the number of sets of Width elements, is a number.
LEMMA Counts == 2^Width \in Nat /\ 2^Width >= 1
<1> DEFINE S == 1..Width
<1>1. Width \in Nat
    BY DmiAssumption
<1>2. IsFiniteSet(S) /\ Cardinality(S) = Width
    <2>1. /\ IsFiniteSet(S)
          /\ Cardinality(S) = IF 1 > Width THEN 0 ELSE Width - 1 + 1
        BY <1>1, FS_Interval
    <2> QED BY <1>1, <2>1
<1> HIDE DEF S
<1>3. IsFiniteSet(SUBSET S) /\ Cardinality(SUBSET S) = 2^Width
    BY <1>2, FS_SUBSET
<1>4. 2^Width \in Nat
    BY <1>3, FS_CardinalityType
<1>5. 2^Width # 0
    <2>1. SUBSET S # {}
        OBVIOUS
    <2> QED BY <1>3, <2>1, FS_EmptySet
<1> QED BY <1>4, <1>5

LEMMA Table ==
    ASSUME table \in Tables
    PROVE  Len(table) \in Nat /\ DOMAIN table = 1..Len(table)
BY DmiAssumption

LEMMA Structures ==
    ASSUME table \in Tables, NEW i \in DOMAIN table
    PROVE  StructureOK(table[i])
BY DmiAssumption, Zenon

\* The memory devices before a position.
Before(p) == {i \in Devices : i < p}

LEMMA DevicesCounted ==
    ASSUME table \in Tables
    PROVE  /\ Devices \subseteq 1..Len(table) /\ IsFiniteSet(Devices)
           /\ Cardinality(Devices) \in Nat
           /\ \A p \in Nat : /\ IsFiniteSet(Before(p)) /\ Cardinality(Before(p)) \in Nat
                             /\ Cardinality(Before(p)) <= Cardinality(Devices)
<1>1. Len(table) \in Nat /\ DOMAIN table = 1..Len(table)
    BY Table
<1>2. Devices \subseteq 1..Len(table)
    BY <1>1 DEF Devices, Read
<1>3. IsFiniteSet(Devices)
    <2>1. 1 \in Int /\ Len(table) \in Int
        BY <1>1
    <2>2. IsFiniteSet(1..Len(table))
        BY <2>1, FS_Interval
    <2> QED BY <1>2, <2>2, FS_Subset
<1>4. Cardinality(Devices) \in Nat
    BY <1>3, FS_CardinalityType
<1>5. ASSUME NEW p \in Nat
      PROVE  /\ IsFiniteSet(Before(p)) /\ Cardinality(Before(p)) \in Nat
             /\ Cardinality(Before(p)) <= Cardinality(Devices)
    <2>1. Before(p) \subseteq Devices
        BY DEF Before
    <2>2. IsFiniteSet(Before(p)) /\ Cardinality(Before(p)) <= Cardinality(Devices)
        BY <1>3, <2>1, FS_Subset
    <2> QED BY <2>2, FS_CardinalityType
<1> QED BY <1>2, <1>3, <1>4, <1>5

\* Device(j) is the device with j - 1 devices before it, and the only one.
LEMMA DeviceAt ==
    ASSUME table \in Tables, NEW d \in Devices
    PROVE  Device(Cardinality(Before(d)) + 1) = d
<1>1. \A i \in Devices : i \in Nat
    BY DevicesCounted
<1> DEFINE Upto(i) == {k \in Devices : k <= i}
           n == Cardinality(Before(d)) + 1
<1>2. ASSUME NEW i \in Devices
      PROVE  /\ IsFiniteSet(Upto(i)) /\ Cardinality(Upto(i)) \in Nat
             /\ Cardinality(Upto(i)) = Cardinality(Before(i)) + 1
    <2>1. Upto(i) = Before(i) \cup {i}
        BY <1>1 DEF Before
    <2>2. i \in Nat /\ i \notin Before(i)
        BY <1>1 DEF Before
    <2>3. IsFiniteSet(Before(i)) /\ Cardinality(Before(i)) \in Nat
        BY <2>2, DevicesCounted
    <2>4. IsFiniteSet(Before(i) \cup {i})
          /\ Cardinality(Before(i) \cup {i}) = Cardinality(Before(i)) + 1
        BY <2>2, <2>3, FS_AddElement
    <2> HIDE DEF Upto
    <2> QED BY <2>1, <2>3, <2>4
<1>3. ASSUME NEW i \in Devices, NEW k \in Devices, i < k
      PROVE  Cardinality(Upto(i)) < Cardinality(Upto(k))
    <2>1. Upto(i) \subseteq Upto(k) /\ k \in Upto(k) /\ k \notin Upto(i)
        BY <1>1, <1>3
    <2>2. Upto(i) # Upto(k)
        BY <2>1
    <2>3. IsFiniteSet(Upto(i)) /\ IsFiniteSet(Upto(k))
          /\ Cardinality(Upto(i)) \in Nat /\ Cardinality(Upto(k)) \in Nat
        BY <1>2
    <2> HIDE DEF Upto
    <2>4. /\ Cardinality(Upto(i)) <= Cardinality(Upto(k))
          /\ Cardinality(Upto(i)) = Cardinality(Upto(k)) => Upto(i) = Upto(k)
        BY <2>1, <2>3, FS_Subset
    <2> QED BY <2>2, <2>3, <2>4
<1>4. Cardinality(Upto(d)) = n
    BY <1>2
<1>5. ASSUME NEW i \in Devices, Cardinality(Upto(i)) = n PROVE i = d
    <2>1. ~(i < d) /\ ~(d < i)
        <3>1. Cardinality(Upto(d)) \in Nat
            BY <1>2
        <3> HIDE DEF Upto, n
        <3> QED BY <1>3, <1>4, <1>5, <3>1
    <2> QED BY <1>1, <2>1
<1>6. Device(n) = CHOOSE i \in Devices : Cardinality(Upto(i)) = n
    BY DEF Device
<1> HIDE DEF Upto, n
<1>7. Device(n) = d
    BY <1>4, <1>5, <1>6
<1> QED BY <1>7 DEF n

\* Nothing ends the table before the structure that a call has reached.
Reached(t, p) == p \in 1..(Len(t) + 1) /\ \A k \in 1..(p - 1) : t[k].type # 127

LEMMA NextStructure ==
    ASSUME table \in Tables, NEW p, Reached(table, p), p \in DOMAIN table, table[p].type # 127
    PROVE  /\ Reached(table, p + 1)
           /\ ~IsStick(table[p]) => Before(p + 1) = Before(p)
           /\ IsStick(table[p]) => /\ Cardinality(Before(p + 1)) = Cardinality(Before(p)) + 1
                                   /\ Device(Cardinality(Before(p)) + 1) = p
<1>1. Len(table) \in Nat /\ DOMAIN table = 1..Len(table) /\ p \in Nat /\ p >= 1 /\ p <= Len(table)
    BY Table
<1>2. Reached(table, p + 1)
    BY <1>1 DEF Reached
<1>3. \A i \in Devices : i \in Nat
    BY DevicesCounted
<1>4. ~IsStick(table[p]) => Before(p + 1) = Before(p)
    <2>1. ~IsStick(table[p]) => p \notin Devices
        BY DEF Devices
    <2> QED BY <1>1, <1>3, <2>1 DEF Before
<1>5. ASSUME IsStick(table[p])
      PROVE  Cardinality(Before(p + 1)) = Cardinality(Before(p)) + 1 /\ p \in Devices
    <2>1. \A e \in Ends : p < e
        BY <1>1, <1>2 DEF Ends, Reached
    <2>2. p \in Devices
        BY <1>1, <1>5, <2>1 DEF Devices, Read
    <2>3. Before(p + 1) = Before(p) \cup {p} /\ p \notin Before(p)
        BY <1>1, <1>3, <2>2 DEF Before
    <2>4. IsFiniteSet(Before(p))
        BY <1>1, DevicesCounted
    <2> QED BY <2>2, <2>3, <2>4, FS_AddElement
<1>6. IsStick(table[p]) => Device(Cardinality(Before(p)) + 1) = p
    BY <1>5, DeviceAt
<1> QED BY <1>2, <1>4, <1>5, <1>6

\* A decoding that has ended has passed every device.
LEMMA AllPassed ==
    ASSUME table \in Tables, NEW p, Reached(table, p), p \in DOMAIN table => table[p].type = 127
    PROVE  Before(p) = Devices
<1>1. Len(table) \in Nat /\ DOMAIN table = 1..Len(table) /\ p \in Nat
    BY Table DEF Reached
<1>2. ASSUME NEW i \in Devices PROVE i < p
    <2>1. i \in 1..Len(table)
        BY DevicesCounted
    <2>2. CASE p \in DOMAIN table
        <3>1. p \in Ends
            BY <2>2 DEF Ends
        <3> QED BY <3>1 DEF Devices, Read
    <2>3. CASE p \notin DOMAIN table
        BY <1>1, <2>1, <2>3 DEF Reached
    <2> QED BY <2>2, <2>3
<1> QED BY <1>2 DEF Before

-----------------------------------------------------------------------------
(* One memory device.                                                      *)

Buffers == [BufferNames -> Value]
Sticks  == [Fields -> Value]

LEMMA OwnIsValue ==
    ASSUME NEW c \in Calls, NEW i \in Nat, NEW code \in Nat
    PROVE  Own(c, i, code) \in Value /\ Own(c, i, code).code = code /\ Own(c, i, code).index = i
BY DEF Own, Value

LEMMA EmptyIsValue == Empty \in Value /\ Empty.index = 0
BY DEF Empty, Value

LEMMA KeepIsValue ==
    ASSUME NEW b \in Value, NEW v \in Value
    PROVE  Keep(b, v) \in Value /\ (v.code # NoValue => Keep(b, v) = v)
BY DEF Keep

LEMMA CodesOf ==
    ASSUME NEW S, NEW q \in Seq(S)
    PROVE  /\ Len(q) = 2 => q[1] \in S /\ q[2] \in S
           /\ Len(q) = 3 => q[1] \in S /\ q[2] \in S /\ q[3] \in S
OBVIOUS

LEMMA StickCodes ==
    ASSUME NEW s, StructureOK(s), IsStick(s)
    PROVE  /\ s.type = 17 /\ s.size \in Nat /\ s.ext \in Nat
           /\ SpeedCode(s, s.speed) \in Nat /\ SpeedCode(s, s.conf) \in Nat
           /\ s.volts[1] \in Nat /\ s.volts[2] \in Nat /\ s.volts[3] \in Nat
<1>1. s.type = 17
    BY DEF IsStick
<1>2. /\ s.size \in Codes16 /\ s.ext \in Codes31
      /\ s.speed \in Seq(Nat) /\ Len(s.speed) = 2
      /\ s.conf \in Seq(Nat) /\ Len(s.conf) = 2
      /\ s.volts \in Seq(Codes16) /\ Len(s.volts) = 3
    BY <1>1, Zenon DEF StructureOK
<1>3. s.size \in Nat /\ s.ext \in Nat
    <2>1. Codes16 \subseteq Nat /\ Codes31 \subseteq Nat
        BY DEF Codes16, Codes31
    <2> QED BY <1>2, <2>1
<1>4. ASSUME NEW q \in Seq(Nat), Len(q) = 2 PROVE SpeedCode(s, q) \in Nat
    BY <1>4, CodesOf DEF SpeedCode, NoValue
<1>5. SpeedCode(s, s.speed) \in Nat /\ SpeedCode(s, s.conf) \in Nat
    BY <1>2, <1>4
<1>6. s.volts[1] \in Nat /\ s.volts[2] \in Nat /\ s.volts[3] \in Nat
    <2> DEFINE q == s.volts
    <2>1. q \in Seq(Codes16) /\ Len(q) = 3
        BY <1>2
    <2> HIDE DEF q
    <2>2. q[1] \in Codes16 /\ q[2] \in Codes16 /\ q[3] \in Codes16
        BY ONLY <2>1, CodesOf
    <2>3. Codes16 \subseteq Nat
        BY DEF Codes16
    <2> QED BY <2>2, <2>3 DEF q
<1> QED BY <1>1, <1>3, <1>5, <1>6

\* The values that decode_stick() chooses between.
SizeOf(b, c, i, s)  == IF SizeKnown(s) THEN Own(c, i, s.size) ELSE b.size
MaxOf(b, c, i, s)   == Keep(b.speed, Own(c, i, SpeedCode(s, s.speed)))
ConfOf(b, c, i, s)  == Keep(MaxOf(b, c, i, s), Own(c, i, SpeedCode(s, s.conf)))

StickOf(b, c, i, s) ==
    [size               |-> IF UsesExt(s) THEN Own(c, i, s.ext) ELSE SizeOf(b, c, i, s),
     speed_maximum      |-> IF HasModule(s) THEN MaxOf(b, c, i, s) ELSE Empty,
     part_number        |-> IF HasPart(s) THEN Own(c, i, 1) ELSE Empty,
     speed_configured   |-> IF HasConf(s) THEN ConfOf(b, c, i, s) ELSE Empty,
     voltage_minimum    |-> IF HasVolts(s) THEN Voltages(b.voltage, c, i, s)[1] ELSE Empty,
     voltage_maximum    |-> IF HasVolts(s) THEN Voltages(b.voltage, c, i, s)[2] ELSE Empty,
     voltage_configured |-> IF HasVolts(s) THEN Voltages(b.voltage, c, i, s)[3] ELSE Empty]
BuffersOf(b, c, i, s) ==
    [size    |-> IF UsesExt(s) THEN b.size ELSE SizeOf(b, c, i, s),
     ext     |-> IF UsesExt(s) THEN Own(c, i, s.ext) ELSE b.ext,
     speed   |-> IF HasConf(s) THEN ConfOf(b, c, i, s)
                 ELSE IF HasModule(s) THEN MaxOf(b, c, i, s) ELSE b.speed,
     voltage |-> IF HasVolts(s) THEN Voltages(b.voltage, c, i, s)[3] ELSE b.voltage]

LEMMA Decoded ==
    ASSUME NEW b, NEW c, NEW i, NEW s
    PROVE  /\ decode_stick(b, c, i, s).stick = StickOf(b, c, i, s)
           /\ decode_stick(b, c, i, s).buffers = BuffersOf(b, c, i, s)
BY DEF decode_stick, SizeOf, MaxOf, ConfOf, StickOf, BuffersOf

LEMMA VoltagesAre ==
    ASSUME NEW b \in Value, NEW c \in Calls, NEW i \in Nat, NEW s,
           s.volts[1] \in Nat, s.volts[2] \in Nat, s.volts[3] \in Nat
    PROVE  \A n \in 1..3 : /\ Voltages(b, c, i, s)[n] \in Value
                           /\ s.volts[n] # NoValue => Voltages(b, c, i, s)[n] = Own(c, i, s.volts[n])
<1> DEFINE x == Own(c, i, s.volts[1])
           y == Own(c, i, s.volts[2])
           z == Own(c, i, s.volts[3])
           min == Keep(b, x)
           max == Keep(min, y)
           last == Keep(max, z)
<1>1. /\ x \in Value /\ y \in Value /\ z \in Value
      /\ x.code = s.volts[1] /\ y.code = s.volts[2] /\ z.code = s.volts[3]
    BY OwnIsValue
<1>2. Voltages(b, c, i, s) = <<min, max, last>>
    BY DEF Voltages
<1> HIDE DEF x, y, z
<1>3. min \in Value /\ (x.code # NoValue => min = x)
    BY <1>1, KeepIsValue
<1> HIDE DEF min
<1>4. max \in Value /\ (y.code # NoValue => max = y)
    BY <1>1, <1>3, KeepIsValue
<1> HIDE DEF max
<1>5. last \in Value /\ (z.code # NoValue => last = z)
    BY <1>1, <1>4, KeepIsValue
<1> HIDE DEF last
<1>6. \A n \in 1..3 : n = 1 \/ n = 2 \/ n = 3
    OBVIOUS
<1>7. /\ Voltages(b, c, i, s)[1] = min /\ Voltages(b, c, i, s)[2] = max
      /\ Voltages(b, c, i, s)[3] = last
    BY <1>2
<1>8. s.volts[1] # NoValue => min = Own(c, i, s.volts[1])
    BY <1>1, <1>3 DEF x
<1>9. s.volts[2] # NoValue => max = Own(c, i, s.volts[2])
    BY <1>1, <1>4 DEF y
<1>10. s.volts[3] # NoValue => last = Own(c, i, s.volts[3])
    BY <1>1, <1>5 DEF z
<1> QED BY <1>3, <1>4, <1>5, <1>6, <1>7, <1>8, <1>9, <1>10

LEMMA StickValues ==
    ASSUME NEW b \in Buffers, NEW c \in Calls, NEW i \in Nat, NEW s, StructureOK(s), IsStick(s)
    PROVE  /\ b.size \in Value /\ b.ext \in Value /\ b.speed \in Value /\ b.voltage \in Value
           /\ SizeOf(b, c, i, s) \in Value
           /\ MaxOf(b, c, i, s) \in Value /\ ConfOf(b, c, i, s) \in Value
           /\ SizeKnown(s) => SizeOf(b, c, i, s) = Own(c, i, s.size)
           /\ SpeedCode(s, s.speed) # NoValue =>
                MaxOf(b, c, i, s) = Own(c, i, SpeedCode(s, s.speed))
           /\ SpeedCode(s, s.conf) # NoValue =>
                ConfOf(b, c, i, s) = Own(c, i, SpeedCode(s, s.conf))
<1>1. b.size \in Value /\ b.ext \in Value /\ b.speed \in Value /\ b.voltage \in Value
    BY DEF Buffers, BufferNames
<1>2. SizeOf(b, c, i, s) \in Value /\ (SizeKnown(s) => SizeOf(b, c, i, s) = Own(c, i, s.size))
    BY <1>1, StickCodes, OwnIsValue DEF SizeOf
<1> DEFINE v == Own(c, i, SpeedCode(s, s.speed))
           w == Own(c, i, SpeedCode(s, s.conf))
<1>3. v \in Value /\ v.code = SpeedCode(s, s.speed) /\ w \in Value /\ w.code = SpeedCode(s, s.conf)
    BY StickCodes, OwnIsValue
<1> HIDE DEF v, w
<1>4. MaxOf(b, c, i, s) = Keep(b.speed, v) /\ ConfOf(b, c, i, s) = Keep(MaxOf(b, c, i, s), w)
    BY DEF MaxOf, ConfOf, v, w
<1>5. MaxOf(b, c, i, s) \in Value /\ (v.code # NoValue => MaxOf(b, c, i, s) = v)
    BY <1>1, <1>3, <1>4, KeepIsValue
<1>6. ConfOf(b, c, i, s) \in Value /\ (w.code # NoValue => ConfOf(b, c, i, s) = w)
    BY <1>3, <1>4, <1>5, KeepIsValue
<1>7. SpeedCode(s, s.speed) # NoValue => MaxOf(b, c, i, s) = Own(c, i, SpeedCode(s, s.speed))
    BY <1>3, <1>5 DEF v
<1>8. SpeedCode(s, s.conf) # NoValue => ConfOf(b, c, i, s) = Own(c, i, SpeedCode(s, s.conf))
    BY <1>3, <1>6 DEF w
<1> QED BY <1>1, <1>2, <1>5, <1>6, <1>7, <1>8

\* Every field is a value, and the buffers stay values.
LEMMA StickTypes ==
    ASSUME NEW b \in Buffers, NEW c \in Calls, NEW i \in Nat, NEW s, StructureOK(s), IsStick(s)
    PROVE  decode_stick(b, c, i, s).stick \in Sticks /\ decode_stick(b, c, i, s).buffers \in Buffers
<1>1. Own(c, i, s.ext) \in Value /\ Own(c, i, 1) \in Value /\ Empty \in Value
    BY StickCodes, OwnIsValue, EmptyIsValue
<1> DEFINE v == Voltages(b.voltage, c, i, s)
<1>2. v[1] \in Value /\ v[2] \in Value /\ v[3] \in Value
    <2>1. s.volts[1] \in Nat /\ s.volts[2] \in Nat /\ s.volts[3] \in Nat
        BY StickCodes
    <2>2. b.voltage \in Value
        BY StickValues
    <2> DEFINE w == b.voltage
    <2> HIDE DEF w
    <2>3. w \in Value /\ v = Voltages(w, c, i, s)
        BY <2>2 DEF w
    <2> HIDE DEF v
    <2>4. \A n \in 1..3 : Voltages(w, c, i, s)[n] \in Value
        BY <2>1, <2>3, VoltagesAre
    <2> QED BY <2>3, <2>4
<1> HIDE DEF v
<1>3. /\ b.size \in Value /\ b.ext \in Value /\ b.speed \in Value /\ b.voltage \in Value
      /\ SizeOf(b, c, i, s) \in Value
      /\ MaxOf(b, c, i, s) \in Value /\ ConfOf(b, c, i, s) \in Value
    BY StickValues
<1> DEFINE ext  == IF UsesExt(s) THEN Own(c, i, s.ext) ELSE SizeOf(b, c, i, s)
           max  == IF HasModule(s) THEN MaxOf(b, c, i, s) ELSE Empty
           part == IF HasPart(s) THEN Own(c, i, 1) ELSE Empty
           conf == IF HasConf(s) THEN ConfOf(b, c, i, s) ELSE Empty
           v1   == IF HasVolts(s) THEN v[1] ELSE Empty
           v2   == IF HasVolts(s) THEN v[2] ELSE Empty
           v3   == IF HasVolts(s) THEN v[3] ELSE Empty
<1>4. decode_stick(b, c, i, s).stick \in Sticks
    <2>1. decode_stick(b, c, i, s).stick =
             [size |-> ext, speed_maximum |-> max, part_number |-> part, speed_configured |-> conf,
              voltage_minimum |-> v1, voltage_maximum |-> v2, voltage_configured |-> v3]
        BY Decoded, Zenon DEF v, StickOf
    <2>2. /\ ext \in Value /\ max \in Value /\ part \in Value /\ conf \in Value
          /\ v1 \in Value /\ v2 \in Value /\ v3 \in Value
        BY <1>1, <1>2, <1>3
    <2> HIDE DEF ext, max, part, conf, v1, v2, v3
    <2> QED BY <2>1, <2>2 DEF Sticks, Fields
<1> DEFINE x == IF UsesExt(s) THEN b.size ELSE SizeOf(b, c, i, s)
           y == IF UsesExt(s) THEN Own(c, i, s.ext) ELSE b.ext
           z == IF HasConf(s) THEN ConfOf(b, c, i, s) ELSE IF HasModule(s) THEN MaxOf(b, c, i, s) ELSE b.speed
           w == IF HasVolts(s) THEN v[3] ELSE b.voltage
<1>5. decode_stick(b, c, i, s).buffers \in Buffers
    <2>1. decode_stick(b, c, i, s).buffers = [size |-> x, ext |-> y, speed |-> z, voltage |-> w]
        <3>1. decode_stick(b, c, i, s).buffers = BuffersOf(b, c, i, s)
            BY Decoded
        <3>2. BuffersOf(b, c, i, s) = [size |-> x, ext |-> y, speed |-> z, voltage |-> w]
            BY DEF v, BuffersOf
        <3> QED BY <3>1, <3>2
    <2>2. x \in Value /\ y \in Value /\ z \in Value /\ w \in Value
        BY <1>1, <1>2, <1>3
    <2> HIDE DEF x, y, z, w
    <2> QED BY <2>1, <2>2 DEF Buffers, BufferNames
<1> QED BY <1>4, <1>5

\* What the fields of the d-th structure s show once the call c has read it.
GoodStick(v, c, d, s) ==
    /\ v.part_number.index \in {0, d}
    /\ \A f \in Fields : Code(s, f) # NoValue => v[f] = Own(c, d, Code(s, f))

LEMMA StickIsGood ==
    ASSUME table \in Tables, NEW b \in Buffers, NEW c \in Calls, NEW i \in DOMAIN table,
           IsStick(table[i]), NEW v, v = decode_stick(b, c, i, table[i]).stick
    PROVE  GoodStick(v, c, i, table[i])
<1> DEFINE s == table[i]
           x == Voltages(b.voltage, c, i, s)
<1>1. StructureOK(s) /\ i \in Nat
    BY Table, Structures
<1>2. \A n \in 1..3 : s.volts[n] # NoValue => x[n] = Own(c, i, s.volts[n])
    <2> DEFINE w == b.voltage
    <2> HIDE DEF s
    <2>1. w \in Value /\ s.volts[1] \in Nat /\ s.volts[2] \in Nat /\ s.volts[3] \in Nat
        BY <1>1, StickCodes, StickValues DEF s
    <2>2. x = Voltages(w, c, i, s)
        OBVIOUS
    <2> HIDE DEF w, x
    <2> QED BY <1>1, <2>1, <2>2, VoltagesAre
<1>3. /\ SizeKnown(s) => SizeOf(b, c, i, s) = Own(c, i, s.size)
      /\ SpeedCode(s, s.speed) # NoValue => MaxOf(b, c, i, s) = Own(c, i, SpeedCode(s, s.speed))
      /\ SpeedCode(s, s.conf) # NoValue => ConfOf(b, c, i, s) = Own(c, i, SpeedCode(s, s.conf))
    BY <1>1, StickValues
<1>4. v = [size               |-> IF UsesExt(s) THEN Own(c, i, s.ext) ELSE SizeOf(b, c, i, s),
           speed_maximum      |-> IF HasModule(s) THEN MaxOf(b, c, i, s) ELSE Empty,
           part_number        |-> IF HasPart(s) THEN Own(c, i, 1) ELSE Empty,
           speed_configured   |-> IF HasConf(s) THEN ConfOf(b, c, i, s) ELSE Empty,
           voltage_minimum    |-> IF HasVolts(s) THEN x[1] ELSE Empty,
           voltage_maximum    |-> IF HasVolts(s) THEN x[2] ELSE Empty,
           voltage_configured |-> IF HasVolts(s) THEN x[3] ELSE Empty]
    <2>1. v = StickOf(b, c, i, s)
        BY Decoded
    <2> QED BY <2>1 DEF StickOf
<1>5. Own(c, i, 1).index = i /\ Empty.index = 0
    BY <1>1, OwnIsValue, EmptyIsValue
<1> HIDE DEF s, x
<1>6. v.part_number.index \in {0, i}
    BY <1>4, <1>5
<1>7. ASSUME NEW f \in Fields, Code(s, f) # NoValue PROVE v[f] = Own(c, i, Code(s, f))
    <2>1. CASE f = "size"
        BY <1>3, <1>4, <1>7, <2>1 DEF Code
    <2>2. CASE f = "speed_maximum"
        BY <1>3, <1>4, <1>7, <2>2 DEF Code
    <2>3. CASE f = "part_number"
        BY <1>4, <1>7, <2>3 DEF Code
    <2>4. CASE f = "speed_configured"
        BY <1>3, <1>4, <1>7, <2>4 DEF Code
    <2>5. CASE f = "voltage_minimum"
        BY <1>2, <1>4, <1>7, <2>5 DEF Code
    <2>6. CASE f = "voltage_maximum"
        BY <1>2, <1>4, <1>7, <2>6 DEF Code
    <2>7. CASE f = "voltage_configured"
        BY <1>2, <1>4, <1>7, <2>7 DEF Code
    <2> QED BY <2>1, <2>2, <2>3, <2>4, <2>5, <2>6, <2>7 DEF Fields
<1> QED BY <1>6, <1>7 DEF GoodStick, s

-----------------------------------------------------------------------------
(* A message.                                                              *)

Message == [bios : 0..Len(table), mb : 0..Len(table), processor : 0..Len(table),
            stick_count : 0..(2^Width - 1), memory : Seq(Sticks)]

\* More memory may be there than is counted, never less.
MessageOK(m) == m \in Message /\ m.stick_count <= Len(m.memory)

LEMMA NoMessageOK == ASSUME table \in Tables PROVE MessageOK(NoMessage)
<1>1. Len(table) \in Nat /\ 2^Width \in Nat /\ 2^Width >= 1
    BY Table, Counts
<1>2. 0 \in 0..(2^Width - 1) /\ 0 \in 0..Len(table)
    BY <1>1
<1>3. <<>> \in Seq(Sticks) /\ Len(<<>>) = 0
    OBVIOUS
<1> QED BY <1>2, <1>3 DEF NoMessage, MessageOK, Message

\* Grow() keeps the sticks counted so far and adds one.
LEMMA GrowAdds ==
    ASSUME table \in Tables, NEW m, MessageOK(m), NEW v \in Sticks, NEW g, g = Grow(m, v)
    PROVE  /\ MessageOK(g)
           /\ g.stick_count = (m.stick_count + 1) % 2^Width
           /\ Len(g.memory) = m.stick_count + 1 /\ g.memory[m.stick_count + 1] = v
           /\ \A j \in 1..m.stick_count : g.memory[j] = m.memory[j]
<1> DEFINE n == m.stick_count
           q == m.memory
           W == 2^Width
           r == Append(SubSeq(q, 1, n), v)
           k == (n + 1) % W
<1>1. m \in Message /\ n \in Nat /\ q \in Seq(Sticks) /\ n <= Len(q)
    BY DEF MessageOK, Message
<1>2. W \in Nat /\ W >= 1
    BY Counts
<1>3. g = [m EXCEPT !.memory = r, !.stick_count = k]
    BY DEF Grow
<1> HIDE DEF n, q, W
<1>4. k \in 0..(W - 1) /\ k <= n + 1
    BY <1>1, <1>2
<1>5. r \in Seq(Sticks) /\ Len(r) = n + 1 /\ r[n + 1] = v /\ \A j \in 1..n : r[j] = q[j]
    <2> DEFINE u == SubSeq(q, 1, n)
    <2>1. u \in Seq(Sticks) /\ Len(u) = n /\ \A j \in 1..n : u[j] = q[j]
        BY <1>1
    <2> HIDE DEF u
    <2>2. /\ Append(u, v) \in Seq(Sticks) /\ Len(Append(u, v)) = n + 1 /\ Append(u, v)[n + 1] = v
          /\ \A j \in 1..n : Append(u, v)[j] = u[j]
        BY <1>1, <2>1
    <2> QED BY <2>1, <2>2 DEF u
<1> HIDE DEF r, k
<1>6. g.memory = r /\ g.stick_count = k
    BY <1>1, <1>3 DEF Message
<1>7. g \in Message
    BY <1>1, <1>3, <1>4, <1>5 DEF Message, W
<1>8. MessageOK(g)
    BY <1>4, <1>5, <1>6, <1>7 DEF MessageOK
<1>9. k = (n + 1) % W
    BY DEF k
<1> QED BY <1>5, <1>6, <1>8, <1>9 DEF n, q, W

LEMMA DecodeIs ==
    ASSUME table \in Tables, NEW m, MessageOK(m), NEW b \in Buffers, NEW c \in Calls,
           NEW i \in DOMAIN table, NEW s, s = table[i], NEW n, n = dmi_decode_cpux(m, b, c, i, s)
    PROVE  /\ MessageOK(n)
           /\ IsStick(s) => n = Grow(m, decode_stick(b, c, i, s).stick)
           /\ ~IsStick(s) => n.stick_count = m.stick_count /\ n.memory = m.memory
<1>1. m \in Message /\ m.stick_count <= Len(m.memory) /\ i \in 0..Len(table) /\ i \in Nat
    BY Table DEF MessageOK
<1>2. CASE IsStick(s)
    <2>1. StructureOK(s)
        BY Structures
    <2>2. s.type = 17
        BY <1>2 DEF IsStick
    <2> DEFINE v == decode_stick(b, c, i, s).stick
    <2>3. v \in Sticks
        BY <1>1, <1>2, <2>1, StickTypes
    <2> HIDE DEF v
    <2>4. n = Grow(m, v)
        BY <1>2, <2>2 DEF dmi_decode_cpux, v
    <2>5. MessageOK(n)
        BY <2>3, <2>4, GrowAdds
    <2> QED BY <1>2, <2>4, <2>5 DEF v
<1>3. CASE ~IsStick(s)
    <2>1. n \in {m, [m EXCEPT !.bios = i], [m EXCEPT !.mb = i], [m EXCEPT !.processor = i]}
        BY <1>3 DEF dmi_decode_cpux
    <2>2. n \in Message /\ n.stick_count = m.stick_count /\ n.memory = m.memory
        BY <1>1, <2>1 DEF Message
    <2> QED BY <1>1, <1>3, <2>2 DEF MessageOK
<1> QED BY <1>2, <1>3

\* The devices in order, and how many there are before a position.
DeviceSeq == [j \in 1..Cardinality(Devices) |-> Device(j)]
Counted   == [p \in 1..(Len(table) + 1) |-> Cardinality(Before(p))]

\* A message with the first n devices.
Matches(m, c, n, devices, t) ==
    /\ m.stick_count = n /\ Len(m.memory) = n
    /\ \A j \in 1..n : GoodStick(m.memory[j], c, devices[j], t[devices[j]])

\* A structure more, for a call whose message is its own.
LEMMA OneMoreStructure ==
    ASSUME table \in Tables, NEW m, MessageOK(m), NEW b \in Buffers, NEW c \in Calls,
           NEW p, Reached(table, p), p \in DOMAIN table, table[p].type # 127,
           Cardinality(Devices) < 2^Width, Matches(m, c, Counted[p], DeviceSeq, table),
           NEW n, n = dmi_decode_cpux(m, b, c, p, table[p])
    PROVE  Matches(n, c, Counted[p + 1], DeviceSeq, table)
<1> DEFINE x == Cardinality(Before(p))
           y == Cardinality(Before(p + 1))
           v == decode_stick(b, c, p, table[p]).stick
<1>1. Len(table) \in Nat /\ DOMAIN table = 1..Len(table) /\ p \in Nat /\ p + 1 \in 1..(Len(table) + 1)
    BY Table
<1>2. Counted[p] = x /\ Counted[p + 1] = y
    BY <1>1 DEF Counted
<1>3. x \in Nat /\ y \in Nat /\ y <= Cardinality(Devices) /\ Cardinality(Devices) \in Nat
    BY <1>1, DevicesCounted
<1>4. CASE ~IsStick(table[p])
    <2>1. n.stick_count = m.stick_count /\ n.memory = m.memory
        BY <1>4, DecodeIs
    <2>2. x = y
        BY <1>4, NextStructure
    <2> QED BY <1>2, <2>1, <2>2, Zenon DEF Matches
<1>5. CASE IsStick(table[p])
    <2>1. y = x + 1 /\ Device(x + 1) = p
        BY <1>5, NextStructure
    <2>2. n = Grow(m, v) /\ v \in Sticks
        BY <1>1, <1>5, DecodeIs, Structures, StickTypes
    <2>3. GoodStick(v, c, p, table[p])
        BY <1>5, StickIsGood
    <2>4. m.stick_count = x
        BY <1>2 DEF Matches
    <2> HIDE DEF v
    <2>5. /\ n.stick_count = (x + 1) % 2^Width /\ Len(n.memory) = x + 1 /\ n.memory[x + 1] = v
          /\ \A j \in 1..x : n.memory[j] = m.memory[j]
        BY <2>2, <2>4, GrowAdds
    <2> HIDE DEF x, y
    <2>6. (x + 1) % 2^Width = x + 1
        <3> DEFINE W == 2^Width
        <3>1. W \in Nat /\ x + 1 < W
            BY <1>3, <2>1, Counts
        <3> HIDE DEF W
        <3>2. (x + 1) % W = x + 1
            BY <1>3, <3>1
        <3> QED BY <3>2 DEF W
    <2>7. DeviceSeq[x + 1] = p
        <3>1. x + 1 \in 1..Cardinality(Devices)
            BY <1>3, <2>1
        <3> QED BY <2>1, <3>1 DEF DeviceSeq
    <2>8. ASSUME NEW j \in 1..y PROVE GoodStick(n.memory[j], c, DeviceSeq[j], table[DeviceSeq[j]])
        <3>1. CASE j = x + 1
            BY <2>3, <2>5, <2>7, <3>1
        <3>2. CASE j # x + 1
            <4>1. j \in 1..x
                BY <1>3, <2>1, <3>2
            <4>2. GoodStick(m.memory[j], c, DeviceSeq[j], table[DeviceSeq[j]])
                BY <1>2, <4>1 DEF Matches
            <4> QED BY <2>5, <4>1, <4>2
        <3> QED BY <3>1, <3>2
    <2>9. n.stick_count = y /\ Len(n.memory) = y
        BY <2>1, <2>5, <2>6
    <2> QED BY <1>2, <2>8, <2>9 DEF Matches
<1> QED BY <1>4, <1>5

-----------------------------------------------------------------------------
(* The invariant.                                                          *)

Typed ==
    /\ table \in Tables
    /\ call \in [Calls -> {"wait", "decode", "send", "done"}]
    /\ position \in [Calls -> Nat]
    /\ cpux_data \in Calls \cup {None} /\ opt_type \in Calls \cup {None}
    /\ buffers \in Buffers
    /\ msg \in [Calls -> Message] /\ answer \in [Calls -> Message]
    /\ \A c \in Calls : MessageOK(msg[c]) /\ MessageOK(answer[c])
    /\ alone \subseteq Calls

Positions ==
    \A c \in Calls :
        /\ Reached(table, position[c])
        /\ call[c] = "wait" => position[c] = 1 /\ msg[c] = NoMessage
        /\ call[c] = "send" => AtEnd(c)

\* Who owns cpux_data: a call that has begun, the only one that decodes if it is alone, and never
\* one that was alone and has ended.
Globals ==
    /\ cpux_data \in Calls => call[cpux_data] # "wait"
    /\ Decoding # {} => cpux_data \in Calls
    /\ \A c \in alone : /\ call[c] = "decode" => Decoding = {c} /\ cpux_data = c
                        /\ call[c] = "send" /\ Decoding # {} => cpux_data # c

\* What the messages of the calls alone hold, if stick_count can count the devices.
Contents ==
    Cardinality(Devices) < 2^Width =>
        \A c \in alone :
            /\ call[c] \in {"decode", "send"} =>
                 Matches(msg[c], c, Counted[position[c]], DeviceSeq, table)
            /\ call[c] = "done" => Matches(answer[c], c, Cardinality(Devices), DeviceSeq, table)

DmiInv == Typed /\ Positions /\ Globals /\ Contents

\* The derived sets of a table that stays.
LEMMA TableSame ==
    ASSUME table' = table
    PROVE  Message' = Message /\ Devices' = Devices /\ DeviceSeq' = DeviceSeq /\ Counted' = Counted
<1>1. Message' = Message
    BY DEF Message
<1>2. Devices' = Devices
    BY DEF Devices, Read, Ends
<1>3. DeviceSeq' = DeviceSeq
    BY <1>2 DEF DeviceSeq, Device
<1>4. Counted' = Counted
    BY <1>2 DEF Counted, Before
<1> QED BY <1>1, <1>2, <1>3, <1>4

LEMMA Starts == Init => DmiInv
<1> SUFFICES ASSUME Init PROVE DmiInv
    OBVIOUS
<1>1. /\ table \in Tables /\ call = [c \in Calls |-> "wait"] /\ position = [c \in Calls |-> 1]
      /\ cpux_data = None /\ opt_type = None
      /\ msg = [c \in Calls |-> NoMessage] /\ answer = [c \in Calls |-> NoMessage] /\ alone = Calls
    BY DEF Init
<1>2. NoMessage \in Message /\ MessageOK(NoMessage)
    BY <1>1, NoMessageOK DEF MessageOK
<1>3. buffers \in Buffers
    BY EmptyIsValue DEF Init, Buffers
<1>4. Typed
    BY <1>1, <1>2, <1>3 DEF Typed
<1>5. Reached(table, 1)
    BY <1>1, Table DEF Reached
<1>6. Positions
    BY <1>1, <1>5 DEF Positions
<1>7. Globals
    BY <1>1, DmiAssumption DEF Globals, Decoding
<1>8. Contents
    BY <1>1 DEF Contents
<1> QED BY <1>4, <1>6, <1>7, <1>8 DEF DmiInv

\* Begin(c): a call alone begins with no device; a call that was alone and decodes is so no more.
LEMMA BeginKeeps == ASSUME DmiInv, NEW c \in Calls, Begin(c) PROVE DmiInv'
<1>0. Typed /\ Positions /\ Globals /\ Contents
    BY DEF DmiInv
<1>1. /\ call[c] = "wait" /\ call' = [call EXCEPT ![c] = "decode"]
      /\ cpux_data' = c /\ opt_type' = c
      /\ alone' = IF Decoding = {} THEN alone ELSE alone \ (Decoding \cup {c})
      /\ UNCHANGED <<table, position, buffers, msg, answer>>
    BY DEF Begin
<1>2. Message' = Message /\ Devices' = Devices /\ DeviceSeq' = DeviceSeq /\ Counted' = Counted
    BY <1>1, TableSame
<1>3. call' \in [Calls -> {"wait", "decode", "send", "done"}] /\ call'[c] = "decode"
      /\ \A d \in Calls : d # c => call'[d] = call[d]
    BY <1>0, <1>1 DEF Typed
<1>4. Typed'
    BY <1>0, <1>1, <1>2, <1>3 DEF Typed, MessageOK
<1>5. Positions'
    BY <1>0, <1>1, <1>3 DEF Positions, AtEnd
<1>6. Decoding' = Decoding \cup {c}
    BY <1>0, <1>1, <1>3 DEF Decoding
<1>7. ASSUME NEW d \in alone'
      PROVE  /\ d \in alone /\ (d = c => Decoding = {})
             /\ d # c => call[d] # "decode"
    <2>1. d \in alone /\ (d = c => Decoding = {})
        BY <1>1, <1>7
    <2>2. d # c => call[d] # "decode"
        <3>1. CASE Decoding = {}
            BY <1>0, <2>1, <3>1 DEF Decoding, Typed
        <3>2. CASE Decoding # {}
            BY <1>0, <1>1, <1>7, <2>1, <3>2 DEF Decoding, Typed
        <3> QED BY <3>1, <3>2
    <2> QED BY <2>1, <2>2
<1>8. Globals'
    <2>1. call'[cpux_data'] # "wait" /\ cpux_data' \in Calls
        BY <1>1, <1>3
    <2>2. ASSUME NEW d \in alone'
          PROVE  /\ call'[d] = "decode" => Decoding' = {d} /\ cpux_data' = d
                 /\ call'[d] = "send" => cpux_data' # d
        <3>1. d \in Calls
            BY <1>0, <1>7 DEF Typed
        <3>2. CASE d = c
            BY <1>1, <1>3, <1>6, <1>7, <3>2
        <3>3. CASE d # c
            BY <1>1, <1>3, <1>7, <3>1, <3>3
        <3> QED BY <3>2, <3>3
    <2> QED BY <2>1, <2>2 DEF Globals
<1>9. Contents'
    <2> SUFFICES ASSUME Cardinality(Devices) < 2^Width, NEW d \in alone'
                 PROVE  /\ call'[d] \in {"decode", "send"} =>
                             Matches(msg[d], d, Counted[position[d]], DeviceSeq, table)
                        /\ call'[d] = "done" => Matches(answer[d], d, Cardinality(Devices), DeviceSeq, table)
        BY <1>1, <1>2, Zenon DEF Contents
    <2>1. CASE d = c
        <3>1. msg[c] = NoMessage /\ position[c] = 1
            BY <1>0, <1>1 DEF Positions
        <3>2. Counted[1] = 0
            <4>1. Before(1) = {}
                BY <1>0, DevicesCounted DEF Before, Typed
            <4>2. 1 \in 1..(Len(table) + 1)
                BY <1>0, Table DEF Typed
            <4> QED BY <4>1, <4>2, FS_EmptySet DEF Counted
        <3>3. Matches(NoMessage, c, 0, DeviceSeq, table)
            BY DEF Matches, NoMessage
        <3> QED BY <1>3, <2>1, <3>1, <3>2, <3>3
    <2>2. CASE d # c
        BY <1>0, <1>3, <1>7, <2>2 DEF Contents, Typed
    <2> QED BY <2>1, <2>2
<1> QED BY <1>4, <1>5, <1>8, <1>9 DEF DmiInv

\* Decode(c): the structure goes to the message of cpux_data, whose own call is c if it is alone.
LEMMA DecodeKeeps == ASSUME DmiInv, NEW c \in Calls, Decode(c) PROVE DmiInv'
<1>0. Typed /\ Positions /\ Globals /\ Contents
    BY DEF DmiInv
<1> DEFINE p == position[c]
           e == cpux_data
           n == dmi_decode_cpux(msg[e], buffers, c, p, table[p])
<1>1. /\ call[c] = "decode" /\ ~AtEnd(c)
      /\ position' = [position EXCEPT ![c] = p + 1]
      /\ msg' = IF call[e] = "done" THEN msg ELSE [msg EXCEPT ![e] = n]
      /\ buffers' = IF IsStick(table[p]) THEN decode_stick(buffers, c, p, table[p]).buffers ELSE buffers
      /\ UNCHANGED <<table, call, cpux_data, opt_type, answer, alone>>
    BY DEF Decode
<1>2. Message' = Message /\ Devices' = Devices /\ DeviceSeq' = DeviceSeq /\ Counted' = Counted
    BY <1>1, TableSame
<1>3. table \in Tables /\ p \in DOMAIN table /\ table[p].type # 127 /\ Reached(table, p) /\ p \in Nat
    BY <1>0, <1>1 DEF AtEnd, Positions, Typed, Reached
<1>4. c \in Decoding /\ e \in Calls /\ call[e] # "wait"
    BY <1>0, <1>1 DEF Decoding, Globals
<1>5. MessageOK(n)
    <2>1. MessageOK(msg[e]) /\ buffers \in Buffers
        BY <1>0, <1>4 DEF Typed
    <2> DEFINE m == msg[e]
               s == table[p]
    <2>2. MessageOK(m) /\ s = table[p] /\ n = dmi_decode_cpux(m, buffers, c, p, s)
        BY <2>1
    <2> HIDE DEF p, e, n, m, s
    <2> QED BY <1>3, <2>1, <2>2, DecodeIs
<1>6. buffers' \in Buffers
    BY <1>0, <1>1, <1>3, Structures, StickTypes DEF Typed
<1>7. Reached(table, p + 1)
    BY <1>3, NextStructure
<1> HIDE DEF n
<1>8. /\ msg' \in [Calls -> Message] /\ \A d \in Calls : MessageOK(msg'[d])
      /\ \A d \in Calls : d # e => msg'[d] = msg[d]
      /\ call[e] # "done" => msg'[e] = n
    BY <1>0, <1>1, <1>4, <1>5 DEF Typed, MessageOK
<1>9. position' \in [Calls -> Nat] /\ position'[c] = p + 1 /\ \A d \in Calls : d # c => position'[d] = position[d]
    BY <1>0, <1>1, <1>3 DEF Typed
<1>10. Typed'
    <2>1. \A d \in Calls : MessageOK(msg[d])' /\ MessageOK(answer[d])'
        BY <1>0, <1>1, <1>2, <1>8 DEF MessageOK, Typed
    <2>2. answer' \in [Calls -> Message]
        BY <1>0, <1>1 DEF Typed
    <2> QED BY <1>0, <1>1, <1>2, <1>6, <1>8, <1>9, <2>1, <2>2 DEF Typed
<1>11. Positions'
    <2> SUFFICES ASSUME NEW d \in Calls
                 PROVE  /\ Reached(table, position'[d])
                        /\ call[d] = "wait" => position'[d] = 1 /\ msg'[d] = NoMessage
                        /\ call[d] = "send" => AtEnd(d)'
        BY <1>1 DEF Positions
    <2>1. CASE d = c
        BY <1>1, <1>7, <1>9, <2>1
    <2>2. CASE d # c
        BY <1>0, <1>1, <1>4, <1>8, <1>9, <2>2 DEF Positions, AtEnd
    <2> QED BY <2>1, <2>2
<1>12. Decoding' = Decoding
    BY <1>1 DEF Decoding
<1>13. Globals'
    BY <1>0, <1>1, <1>12 DEF Globals
<1>14. Contents'
    <2> SUFFICES ASSUME Cardinality(Devices) < 2^Width, NEW d \in alone
                 PROVE  /\ call[d] \in {"decode", "send"} =>
                             Matches(msg'[d], d, Counted[position'[d]], DeviceSeq, table)
                        /\ call[d] = "done" => Matches(answer[d], d, Cardinality(Devices), DeviceSeq, table)
        BY <1>1, <1>2, Zenon DEF Contents
    <2>0. d \in Calls
        BY <1>0 DEF Typed
    <2>1. CASE call[d] = "decode"
        <3>1. d = c /\ e = c
            BY <1>0, <1>4, <2>1 DEF Globals
        <3>2. msg'[d] = n /\ n = dmi_decode_cpux(msg[c], buffers, c, p, table[p])
            BY <1>1, <1>8, <3>1 DEF n
        <3>3. Matches(msg[c], c, Counted[p], DeviceSeq, table)
            BY <1>0, <2>1, <3>1 DEF Contents
        <3>4. MessageOK(msg[c]) /\ buffers \in Buffers
            BY <1>0 DEF Typed
        <3> DEFINE m == msg[c]
        <3>5. MessageOK(m) /\ Matches(m, c, Counted[p], DeviceSeq, table)
              /\ n = dmi_decode_cpux(m, buffers, c, p, table[p])
            BY <3>2, <3>3, <3>4
        <3> HIDE DEF m, p, e
        <3>6. Matches(n, c, Counted[p + 1], DeviceSeq, table)
            BY <1>3, <3>4, <3>5, OneMoreStructure
        <3> QED BY <1>9, <2>1, <3>1, <3>2, <3>6
    <2>2. CASE call[d] = "send"
        <3>1. d # e /\ d # c
            BY <1>0, <1>1, <1>4, <2>2 DEF Globals
        <3>2. Matches(msg[d], d, Counted[position[d]], DeviceSeq, table)
            BY <1>0, <2>2 DEF Contents
        <3> QED BY <1>8, <1>9, <2>0, <2>2, <3>1, <3>2
    <2>3. CASE call[d] \notin {"decode", "send"}
        BY <1>0, <2>3 DEF Contents
    <2> QED BY <2>1, <2>2, <2>3
<1> QED BY <1>10, <1>11, <1>13, <1>14 DEF DmiInv

\* End(c): the message is what it is, and nobody else decodes if the call is alone.
LEMMA EndKeeps == ASSUME DmiInv, NEW c \in Calls, End(c) PROVE DmiInv'
<1>0. Typed /\ Positions /\ Globals /\ Contents
    BY DEF DmiInv
<1>1. /\ call[c] = "decode" /\ AtEnd(c) /\ call' = [call EXCEPT ![c] = "send"] /\ opt_type' = None
      /\ UNCHANGED <<table, position, cpux_data, buffers, msg, answer, alone>>
    BY DEF End
<1>2. Message' = Message /\ Devices' = Devices /\ DeviceSeq' = DeviceSeq /\ Counted' = Counted
    BY <1>1, TableSame
<1>3. call' \in [Calls -> {"wait", "decode", "send", "done"}] /\ call'[c] = "send"
      /\ \A d \in Calls : d # c => call'[d] = call[d]
    BY <1>0, <1>1 DEF Typed
<1>4. Typed'
    BY <1>0, <1>1, <1>2, <1>3 DEF Typed, MessageOK
<1>5. Positions'
    BY <1>0, <1>1, <1>3 DEF Positions, AtEnd
<1>6. Decoding' = Decoding \ {c} /\ c \in Decoding
    BY <1>0, <1>1, <1>3 DEF Decoding
<1>7. Globals'
    <2>1. cpux_data \in Calls => call'[cpux_data] # "wait"
        BY <1>0, <1>3 DEF Globals
    <2>2. ASSUME NEW d \in alone
          PROVE  /\ call'[d] = "decode" => Decoding' = {d} /\ cpux_data = d
                 /\ call'[d] = "send" /\ Decoding' # {} => cpux_data # d
        <3>1. d \in Calls
            BY <1>0 DEF Typed
        <3>2. CASE d = c
            <4>1. Decoding' = {}
                BY <1>0, <1>1, <1>6, <3>2 DEF Globals
            <4> QED BY <1>3, <3>2, <4>1
        <3>3. CASE d # c
            <4>1. call[d] # "decode"
                BY <1>0, <1>6, <3>3 DEF Globals
            <4> QED BY <1>0, <1>3, <1>6, <3>1, <3>3, <4>1 DEF Globals
        <3> QED BY <3>2, <3>3
    <2> QED BY <1>0, <1>1, <1>6, <2>1, <2>2 DEF Globals
<1>8. Contents'
    <2> SUFFICES ASSUME Cardinality(Devices) < 2^Width, NEW d \in alone
                 PROVE  /\ call'[d] \in {"decode", "send"} =>
                             Matches(msg[d], d, Counted[position[d]], DeviceSeq, table)
                        /\ call'[d] = "done" => Matches(answer[d], d, Cardinality(Devices), DeviceSeq, table)
        BY <1>1, <1>2, Zenon DEF Contents
    <2>1. d \in Calls
        BY <1>0 DEF Typed
    <2> QED BY <1>0, <1>1, <1>3, <2>1 DEF Contents
<1> QED BY <1>4, <1>5, <1>7, <1>8 DEF DmiInv

\* Send(c): an answer has as many sticks as are counted.
LEMMA SendKeeps == ASSUME DmiInv, NEW c \in Calls, Send(c) PROVE DmiInv'
<1>0. Typed /\ Positions /\ Globals /\ Contents
    BY DEF DmiInv
<1> DEFINE m == msg[c]
           q == SubSeq(m.memory, 1, m.stick_count)
           a == [m EXCEPT !.memory = q]
<1>1. /\ call[c] = "send" /\ call' = [call EXCEPT ![c] = "done"]
      /\ answer' = [answer EXCEPT ![c] = a] /\ msg' = [msg EXCEPT ![c] = NoMessage]
      /\ UNCHANGED <<table, position, cpux_data, opt_type, buffers, alone>>
    BY DEF Send, decoder
<1>2. Message' = Message /\ Devices' = Devices /\ DeviceSeq' = DeviceSeq /\ Counted' = Counted
    BY <1>1, TableSame
<1>3. call' \in [Calls -> {"wait", "decode", "send", "done"}] /\ call'[c] = "done"
      /\ \A d \in Calls : d # c => call'[d] = call[d]
    BY <1>0, <1>1 DEF Typed
<1>4. m \in Message /\ m.stick_count \in Nat /\ m.memory \in Seq(Sticks) /\ m.stick_count <= Len(m.memory)
    BY <1>0 DEF Typed, MessageOK, Message
<1>5. /\ q \in Seq(Sticks) /\ Len(q) = m.stick_count
      /\ \A j \in 1..m.stick_count : q[j] = m.memory[j]
    BY <1>4
<1> HIDE DEF q
<1>6. a \in Message /\ a.stick_count = m.stick_count /\ a.memory = q
    BY <1>4, <1>5 DEF Message
<1>7. MessageOK(a)
    BY <1>4, <1>5, <1>6 DEF MessageOK
<1> HIDE DEF a
<1>8. NoMessage \in Message /\ MessageOK(NoMessage)
    BY <1>0, NoMessageOK DEF Typed, MessageOK
<1>9. /\ answer' \in [Calls -> Message] /\ answer'[c] = a /\ \A d \in Calls : d # c => answer'[d] = answer[d]
      /\ msg' \in [Calls -> Message] /\ msg'[c] = NoMessage /\ \A d \in Calls : d # c => msg'[d] = msg[d]
    BY <1>0, <1>1, <1>6, <1>8 DEF Typed
<1>10. Typed'
    <2>1. \A d \in Calls : MessageOK(msg'[d]) /\ MessageOK(answer'[d])
        BY <1>0, <1>7, <1>8, <1>9 DEF Typed
    <2>2. \A d \in Calls : MessageOK(msg[d])' /\ MessageOK(answer[d])'
        BY <1>2, <2>1 DEF MessageOK
    <2> QED BY <1>0, <1>1, <1>2, <1>3, <1>9, <2>2 DEF Typed
<1>11. Positions'
    BY <1>0, <1>1, <1>3, <1>9 DEF Positions, AtEnd
<1>12. Decoding' = Decoding
    BY <1>0, <1>1, <1>3 DEF Decoding
<1>13. Globals'
    <2>1. cpux_data \in Calls => call'[cpux_data] # "wait"
        BY <1>0, <1>3 DEF Globals
    <2>2. \A d \in alone : d \in Calls
        BY <1>0 DEF Typed
    <2> QED BY <1>0, <1>1, <1>3, <1>12, <2>1, <2>2 DEF Globals
<1>14. Contents'
    <2> SUFFICES ASSUME Cardinality(Devices) < 2^Width, NEW d \in alone
                 PROVE  /\ call'[d] \in {"decode", "send"} =>
                             Matches(msg'[d], d, Counted[position[d]], DeviceSeq, table)
                        /\ call'[d] = "done" => Matches(answer'[d], d, Cardinality(Devices), DeviceSeq, table)
        BY <1>1, <1>2, Zenon DEF Contents
    <2>1. d \in Calls
        BY <1>0 DEF Typed
    <2>2. CASE d = c
        <3> DEFINE k == Cardinality(Devices)
        <3>1. Matches(m, c, Counted[position[c]], DeviceSeq, table)
            BY <1>0, <1>1, <2>2 DEF Contents
        <3>2. Counted[position[c]] = k
            <4>1. Before(position[c]) = Devices
                BY <1>0, <1>1, AllPassed DEF Positions, AtEnd, Typed
            <4>2. position[c] \in 1..(Len(table) + 1)
                BY <1>0 DEF Positions, Reached
            <4> QED BY <4>1, <4>2 DEF Counted
        <3> HIDE DEF k, m
        <3>3. /\ m.stick_count = k /\ Len(m.memory) = k
              /\ \A j \in 1..k : GoodStick(m.memory[j], c, DeviceSeq[j], table[DeviceSeq[j]])
            BY <3>1, <3>2 DEF Matches
        <3>4. Matches(a, c, k, DeviceSeq, table)
            BY <1>5, <1>6, <3>3 DEF Matches
        <3> QED BY <1>3, <1>9, <2>2, <3>4 DEF k
    <2>3. CASE d # c
        BY <1>0, <1>3, <1>9, <2>1, <2>3 DEF Contents
    <2> QED BY <2>2, <2>3
<1> QED BY <1>10, <1>11, <1>13, <1>14 DEF DmiInv

LEMMA DmiStep == DmiInv /\ [Next]_vars => DmiInv'
<1>1. ASSUME DmiInv, UNCHANGED vars PROVE DmiInv'
    <2>1. UNCHANGED <<table, call, position, cpux_data, opt_type, buffers, msg, answer, alone>>
        BY <1>1 DEF vars, decoder
    <2>2. Message' = Message /\ Devices' = Devices /\ DeviceSeq' = DeviceSeq /\ Counted' = Counted
        BY <2>1, TableSame
    <2>3. Typed' /\ Positions'
        BY <1>1, <2>1, <2>2 DEF DmiInv, Typed, MessageOK, Positions, AtEnd
    <2>4. Globals'
        BY <1>1, <2>1 DEF DmiInv, Globals, Decoding
    <2>5. Contents'
        BY <1>1, <2>1, <2>2, Zenon DEF DmiInv, Contents
    <2> QED BY <2>3, <2>4, <2>5 DEF DmiInv
<1> QED BY <1>1, BeginKeeps, DecodeKeeps, EndKeeps, SendKeeps DEF Next

LEMMA DmiAlways == Spec => []DmiInv
BY Starts, DmiStep, PTL DEF Spec

LEMMA DmiTyped == ASSUME DmiInv PROVE TypeOK
<1>0. Typed /\ Positions
    BY DEF DmiInv
<1>1. position \in [Calls -> 1..(Len(table) + 1)]
    <2>1. \A c \in Calls : position[c] \in 1..(Len(table) + 1)
        BY <1>0 DEF Positions, Reached
    <2> QED BY <1>0, <2>1 DEF Typed
<1>2. ASSUME NEW m, MessageOK(m)
      PROVE  /\ {m.bios, m.mb, m.processor} \subseteq 0..Len(table)
             /\ m.stick_count \in 0..(2^Width - 1) /\ m.stick_count <= Len(m.memory)
             /\ \A j \in DOMAIN m.memory : m.memory[j] \in [Fields -> Value]
    <2>1. m \in Message
        BY <1>2 DEF MessageOK
    <2>2. m.memory \in Seq(Sticks)
        BY <2>1 DEF Message
    <2>3. \A j \in DOMAIN m.memory : m.memory[j] \in Sticks
        BY <2>2
    <2> QED BY <1>2, <2>1, <2>3 DEF MessageOK, Message, Sticks
<1>3. \A m \in {msg[c] : c \in Calls} \cup {answer[c] : c \in Calls} : MessageOK(m)
    BY <1>0 DEF Typed
<1> QED BY <1>0, <1>1, <1>2, <1>3 DEF Typed, TypeOK, Buffers

-----------------------------------------------------------------------------
(* The theorems.                                                           *)

LEMMA DevicesAreCounted ==
    ASSUME DmiInv, NEW c \in Answered, Cardinality(Devices) < 2^Width
    PROVE  /\ Len(answer[c].memory) = Cardinality(Devices)
           /\ \A j \in DOMAIN answer[c].memory : GoodStick(answer[c].memory[j], c, Device(j), table[Device(j)])
<1> DEFINE m == answer[c]
           n == Cardinality(Devices)
<1>1. Matches(m, c, n, DeviceSeq, table)
    BY DEF DmiInv, Contents, Answered
<1>2. MessageOK(m)
    BY DEF DmiInv, Typed, Answered
<1>3. m.memory \in Seq(Sticks)
    BY <1>2 DEF MessageOK, Message
<1> HIDE DEF m
<1>4. Len(m.memory) = n /\ DOMAIN m.memory = 1..n
    BY <1>1, <1>3 DEF Matches
<1>5. ASSUME NEW j \in 1..n PROVE GoodStick(m.memory[j], c, Device(j), table[Device(j)])
    <2>1. DeviceSeq[j] = Device(j)
        BY DEF DeviceSeq
    <2>2. GoodStick(m.memory[j], c, DeviceSeq[j], table[DeviceSeq[j]])
        BY <1>1 DEF Matches
    <2> QED BY <2>1, <2>2
<1> QED BY <1>4, <1>5 DEF m

\* For every table and every number of calls: a message never counts more sticks than it has memory
\* for, with a stick_count of any width, whoever else decodes (dmidecode.c:5774-5784).
THEOREM DmiTypeCorrect == Spec => []TypeOK
BY DmiAlways, DmiTyped, PTL

\* An answer decoded while no other was, of a table whose memory devices stick_count can count,
\* has one stick for each of them, in the table's order (dmidecode.c:5774-5784, server.cpp:161-163).
THEOREM OneStickPerDeviceHolds == Spec => []OneStickPerDevice
<1>1. DmiInv => OneStickPerDevice
    <2> SUFFICES ASSUME DmiInv, NEW c \in Answered, Cardinality(Devices) < 2^Width
                 PROVE  /\ Len(answer[c].memory) = Cardinality(Devices)
                        /\ \A j \in DOMAIN answer[c].memory :
                             answer[c].memory[j].part_number.index \in {0, Device(j)}
        BY DEF OneStickPerDevice
    <2> QED BY DevicesAreCounted DEF GoodStick
<1> QED BY DmiAlways, <1>1, PTL

\* In such an answer, whatever earlier calls left in the static buffers, a field whose code the
\* table has shows that code (dmidecode.c:5786-5809); nothing is said of the fields without one,
\* which show the buffer's last value.
THEOREM KnownIsOwnHolds == Spec => []KnownIsOwn
<1>1. DmiInv => KnownIsOwn
    <2> SUFFICES ASSUME DmiInv, NEW c \in Answered, Cardinality(Devices) < 2^Width,
                        NEW j \in DOMAIN answer[c].memory, NEW f \in Fields,
                        Code(table[Device(j)], f) # NoValue
                 PROVE  answer[c].memory[j][f] = Own(c, Device(j), Code(table[Device(j)], f))
        BY DEF KnownIsOwn
    <2> QED BY DevicesAreCounted DEF GoodStick
<1> QED BY DmiAlways, <1>1, PTL
=============================================================================
