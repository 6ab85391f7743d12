--------------------------- MODULE OptionsProofs ---------------------------
(***************************************************************************)
(* The safety of Options for every processor, daemon, build, interface,    *)
(* command line and content of the settings: only visible pages are shown, *)
(* the affinity follows the selection, at() stays in range, and the start  *)
(* keeps the selection applied last.                                       *)
(***************************************************************************)
EXTENDS Options, FiniteSetTheorems, SequenceTheorems, TLAPS

\* A selection whose bound of types is that of its vector of cores.
Sound(s, e) ==
    /\ s \in SelType(e.cores)
    /\ s.cores # <<>> => s.max["type"] = e.types

\* Type and core are within the processor, and the program is pinned to that CPU.
Consistent(s, e) ==
    /\ s.at["type"] < e.types
    /\ s.core < e.cores[s.at["type"]]
    /\ s.affinity = Cardinality(Earlier(e.cores, s.at["type"])) + s.core

Identified == env.identified /\ phase \notin {"parse", "settings", "identify"}

\* What is known of the processor, and when.
KnownInv ==
    IF Identified
    THEN sel.cores = env.cores /\ sel.max["type"] = env.types
    ELSE sel.cores = <<>> /\ sel.max["type"] = NotKnown

\* The two pages that are never hidden, from init_page_visibility() on.
PageInv ==
    /\ phase # "parse" => visible[TAB_CPU] /\ visible[TAB_ABOUT]
    /\ ShownPageVisible

\* Once the loop of call_bandwidth() has pinned the program, selection and affinity agree.
PinInv ==
    /\ phase = "loop" /\ env.identified =>
         saved.type < env.types /\ saved.core < env.cores[saved.type]
    /\ phase = "loop" => cpu_type <= CacheTypes
    /\ env.identified /\ (phase \in {"show", "ui"} \/ (phase = "loop" /\ cpu_type > 0)) =>
         Consistent(sel, env)

SelInv == KnownInv /\ PageInv /\ PinInv /\ AbortsOnlyUnknown

-----------------------------------------------------------------------------
(* The CPUs of a processor.                                                *)

LEMMA Widths == UINT8_MAX \in Nat /\ UINT16_MAX \in Nat /\ UINT8_MAX < UINT16_MAX /\ UINT8_MAX > 8
BY DEF UINT8_MAX, UINT16_MAX

LEMMA Environment ==
    ASSUME NEW e \in Environments
    PROVE  /\ EnvOK(e) /\ e.types \in 1..UINT8_MAX /\ e.types \in Nat
           /\ e.cores \in [0..(e.types - 1) -> 1..(UINT16_MAX - 1)] /\ e.cores # <<>>
           /\ \A t \in 0..(e.types - 1) : e.cores[t] \in 1..(UINT16_MAX - 1)
<1>1. EnvOK(e) BY OptionsAssumption
<1>2. e.types \in 1..UINT8_MAX BY <1>1 DEF EnvOK
<1>3. e.cores \in [0..(e.types - 1) -> 1..(UINT16_MAX - 1)] BY <1>1 DEF EnvOK
<1>4. 0 \in DOMAIN e.cores BY <1>2, <1>3, Widths
<1>5. e.cores # <<>> BY <1>4
<1>6. \A t \in 0..(e.types - 1) : e.cores[t] \in 1..(UINT16_MAX - 1) BY <1>3
<1>7. QED BY <1>1, <1>2, <1>3, <1>5, <1>6, Widths

LEMMA RowFinite ==
    ASSUME NEW u, NEW n \in Nat
    PROVE  IsFiniteSet({u} \X (0..(n - 1))) /\ Cardinality({u} \X (0..(n - 1))) = n
<1>1. IsFiniteSet({u}) /\ Cardinality({u}) = 1 BY FS_Singleton
<1>2. IsFiniteSet(0..(n - 1)) /\ Cardinality(0..(n - 1)) = n BY FS_Interval
<1>3. QED BY <1>1, <1>2, FS_Product

LEMMA EarlierFinite ==
    ASSUME NEW e \in Environments, NEW t \in 0..e.types
    PROVE  IsFiniteSet(Earlier(e.cores, t)) /\ Cardinality(Earlier(e.cores, t)) \in Nat
<1>1. IsFiniteSet(0..(UINT8_MAX - 1)) /\ IsFiniteSet(0..(UINT16_MAX - 2)) BY Widths, FS_Interval
<1>2. IsFiniteSet((0..(UINT8_MAX - 1)) \X (0..(UINT16_MAX - 2))) BY <1>1, FS_Product
<1>3. e.types \in 1..UINT8_MAX /\ \A u \in 0..(e.types - 1) : e.cores[u] \in 1..(UINT16_MAX - 1)
    BY Environment
<1>4. ASSUME NEW x \in Earlier(e.cores, t) PROVE x \in (0..(UINT8_MAX - 1)) \X (0..(UINT16_MAX - 2))
    <2>1. PICK u \in 0..(t - 1) : x \in {u} \X (0..(e.cores[u] - 1)) BY DEF Earlier
    <2>2. u \in 0..(UINT8_MAX - 1) /\ e.cores[u] \in 1..(UINT16_MAX - 1) BY <1>3, <2>1, Widths
    <2>3. QED BY <2>1, <2>2, Widths
<1>5. IsFiniteSet(Earlier(e.cores, t)) BY <1>2, <1>4, FS_Subset
<1>6. QED BY <1>5, FS_CardinalityType

\* The number that get_selected_core_id() computes does not wrap: it is the place of the CPU
\* among all CPUs of the processor.
LEMMA CoreIdFits ==
    ASSUME NEW e \in Environments, NEW t \in 0..(e.types - 1), NEW c \in 0..(e.cores[t] - 1)
    PROVE  Cardinality(Earlier(e.cores, t)) + c \in 0..UINT16_MAX
<1> DEFINE row == {t} \X (0..(c - 1))
           some == Earlier(e.cores, t) \cup row
           all == Earlier(e.cores, e.types)
<1>0. e.types \in 1..UINT8_MAX /\ e.cores[t] \in 1..(UINT16_MAX - 1) BY Environment
<1>1. e.types \in Nat /\ e.cores[t] \in Nat /\ c \in Nat BY <1>0, Widths
<1>2. IsFiniteSet(all) /\ Cardinality(all) \in Nat /\ Cardinality(all) <= UINT16_MAX
    <2>1. EnvOK(e) BY Environment
    <2>2. Cardinality(all) <= UINT16_MAX BY <2>1 DEF EnvOK
    <2>3. QED BY <1>1, <2>2, EarlierFinite
<1>3. IsFiniteSet(Earlier(e.cores, t)) /\ Cardinality(Earlier(e.cores, t)) \in Nat
    BY <1>1, EarlierFinite
<1>4. IsFiniteSet(row) /\ Cardinality(row) = c BY <1>1, RowFinite
<1>5. Earlier(e.cores, t) \cap row = {}
    <2>1. ASSUME NEW x \in Earlier(e.cores, t), x \in row PROVE FALSE
        <3>1. PICK u \in 0..(t - 1) : x \in {u} \X (0..(e.cores[u] - 1)) BY DEF Earlier
        <3>2. x[1] = u /\ x[1] = t BY <2>1, <3>1
        <3>3. QED BY <3>1, <3>2
    <2>2. QED BY <2>1
<1>6. Cardinality(some) = Cardinality(Earlier(e.cores, t)) + c
    <2>1. Cardinality(some) = Cardinality(Earlier(e.cores, t)) + Cardinality(row)
                              - Cardinality(Earlier(e.cores, t) \cap row)
        BY <1>3, <1>4, FS_Union
    <2>2. Cardinality(Earlier(e.cores, t) \cap row) = 0 BY <1>5, FS_EmptySet
    <2>3. QED BY <1>1, <1>3, <1>4, <2>1, <2>2
<1>7. some \subseteq all
    <2>1. Earlier(e.cores, t) \subseteq all BY <1>1 DEF Earlier
    <2>2. row \subseteq {t} \X (0..(e.cores[t] - 1)) BY <1>1
    <2>3. {t} \X (0..(e.cores[t] - 1)) \subseteq all BY <1>1 DEF Earlier
    <2>4. QED BY <2>1, <2>2, <2>3
<1>8. Cardinality(some) <= Cardinality(all) BY <1>2, <1>7, FS_Subset
<1>9. QED BY <1>1, <1>2, <1>3, <1>6, <1>8, Widths

-----------------------------------------------------------------------------
(* The setters and getters.                                                *)

\* r has the bounds of s.
Keeps(s, r) == r.cores = s.cores /\ r.max = s.max

LEMMA Remainder ==
    ASSUME NEW x \in Nat, NEW n \in Nat
    PROVE  x % (n + 1) \in 0..n /\ (x <= n => x % (n + 1) = x)
BY Z3

LEMMA SelectProps ==
    ASSUME NEW e \in Environments, NEW s, Sound(s, e), NEW f \in Fields, NEW v \in 0..UINT8_MAX,
           NEW r, r = Select(s, f, v)
    PROVE  /\ Sound(r, e) /\ Keeps(s, r)
           /\ r.core = s.core /\ r.affinity = s.affinity
           /\ r.at[f] = IF v < s.max[f] THEN v ELSE 0
           /\ \A g \in Fields \ {f} : r.at[g] = s.at[g]
<1>1. s \in SelType(e.cores) BY DEF Sound
<1>2. s.at \in [Fields -> 0..UINT8_MAX] /\ 0 \in 0..UINT8_MAX BY <1>1, Widths DEF SelType
<1>3. r.cores = s.cores /\ r.max = s.max /\ r.core = s.core /\ r.affinity = s.affinity
      /\ r.at = [s.at EXCEPT ![f] = IF v < s.max[f] THEN v ELSE 0]
    BY <1>1 DEF Select, SelType
<1>4. r.at \in [Fields -> 0..UINT8_MAX] BY <1>2, <1>3
<1>5. r \in SelType(e.cores)
    <2>1. r = [s EXCEPT !.at = r.at] BY <1>1, <1>3 DEF SelType, Select
    <2>2. QED BY <1>1, <1>4, <2>1 DEF SelType
<1>6. QED BY <1>2, <1>3, <1>5 DEF Sound, Keeps

LEMMA GetProps ==
    ASSUME NEW e \in Environments, NEW s, Sound(s, e), NEW f \in Fields,
           NEW r, r = Get(s, f)
    PROVE  /\ Sound(r, e) /\ Keeps(s, r)
           /\ r.core = s.core /\ r.affinity = s.affinity
           /\ r.at[f] = IF s.at[f] < s.max[f] THEN s.at[f] ELSE 0
           /\ \A g \in Fields \ {f} : r.at[g] = s.at[g]
<1>1. s.at[f] \in 0..UINT8_MAX BY DEF Sound, SelType
<1>2. r = Select(s, f, s.at[f]) BY DEF Get
<1>3. Sound(r, e) /\ Keeps(s, r) /\ r.core = s.core /\ r.affinity = s.affinity
    BY <1>1, <1>2, SelectProps
<1>4. r.at[f] = IF s.at[f] < s.max[f] THEN s.at[f] ELSE 0 BY <1>1, <1>2, SelectProps
<1>5. \A g \in Fields \ {f} : r.at[g] = s.at[g] BY <1>1, <1>2, SelectProps
<1>6. QED BY <1>3, <1>4, <1>5

\* The type a getter returns is one of the processor's.
LEMMA TypeInRange ==
    ASSUME NEW e \in Environments, NEW s, Sound(s, e), s.cores # <<>>
    PROVE  /\ Get(s, "type").at["type"] \in 0..(e.types - 1)
           /\ s.cores = e.cores
<1>1. "type" \in Fields BY DEF Fields
<1>2. s.at["type"] \in 0..UINT8_MAX /\ s.max["type"] = e.types /\ s.cores = e.cores
    BY <1>1 DEF Sound, SelType
<1>3. e.types \in 1..UINT8_MAX BY Environment
<1>4. QED BY <1>1, <1>2, <1>3, GetProps, Widths

LEMMA AfterCheckProps ==
    ASSUME NEW e \in Environments, NEW s, Sound(s, e), NEW c \in 0..UINT16_MAX,
           NEW r, r = AfterCheck(s, c)
    PROVE  /\ Sound(r, e) /\ Keeps(s, r)
           /\ r.affinity = s.affinity
           /\ s.cores # <<>> => r.at["type"] = Get(s, "type").at["type"]
           /\ r.core = IF check_selected_core_valid(s, c) THEN s.core ELSE 0
<1> DEFINE g == Get(s, "type")
<1>1. "type" \in Fields BY DEF Fields
<1>2. Sound(g, e) /\ Keeps(s, g) /\ g.core = s.core /\ g.affinity = s.affinity BY <1>1, GetProps
<1>3. CASE s.cores = <<>>
    <2>1. r = s /\ check_selected_core_valid(s, c) BY <1>3 DEF AfterCheck, check_selected_core_valid
    <2>2. QED BY <1>3, <2>1 DEF Keeps
<1>4. CASE s.cores # <<>> /\ check_selected_core_valid(s, c)
    <2>1. r = g BY <1>4 DEF AfterCheck
    <2>2. QED BY <1>2, <1>4, <2>1
<1>5. CASE s.cores # <<>> /\ ~check_selected_core_valid(s, c)
    <2>1. r = [g EXCEPT !.core = 0] BY <1>5 DEF AfterCheck
    <2>2. g \in SelType(e.cores) /\ 0 \in 0..UINT16_MAX BY <1>2, Widths DEF Sound
    <2>3. r \in SelType(e.cores) /\ r.cores = g.cores /\ r.max = g.max /\ r.affinity = g.affinity
          /\ r.at = g.at /\ r.core = 0
        BY <2>1, <2>2 DEF SelType
    <2>4. QED BY <1>2, <1>5, <2>3 DEF Sound, Keeps
<1>6. QED BY <1>3, <1>4, <1>5

LEMMA GetCoreProps ==
    ASSUME NEW e \in Environments, NEW s, Sound(s, e),
           NEW r, r = GetCore(s)
    PROVE  /\ Sound(r, e) /\ Keeps(s, r)
           /\ r.affinity = s.affinity
           /\ s.cores # <<>> =>
                /\ r.at["type"] = Get(s, "type").at["type"]
                /\ r.core \in 0..(e.cores[r.at["type"]] - 1)
<1> DEFINE t == Get(s, "type").at["type"]
<1>1. s.core \in 0..UINT16_MAX BY DEF Sound, SelType
<1>2. /\ Sound(r, e) /\ Keeps(s, r) /\ r.affinity = s.affinity
      /\ s.cores # <<>> => r.at["type"] = t
      /\ r.core = IF check_selected_core_valid(s, s.core) THEN s.core ELSE 0
    BY <1>1, AfterCheckProps DEF GetCore
<1>3. ASSUME s.cores # <<>> PROVE r.core \in 0..(e.cores[t] - 1)
    <2>1. s.cores = e.cores /\ t \in 0..(e.types - 1) BY <1>3, TypeInRange
    <2>2. e.cores[t] \in 1..(UINT16_MAX - 1) BY <2>1, Environment
    <2>3. check_selected_core_valid(s, s.core) <=> s.core < e.cores[t]
        BY <1>3, <2>1 DEF check_selected_core_valid
    <2>4. e.cores[t] \in Nat /\ 0 < e.cores[t] /\ s.core \in Nat BY <1>1, <2>2, Widths
    <2>5. CASE s.core < e.cores[t] BY <1>2, <2>3, <2>4, <2>5
    <2>6. CASE ~(s.core < e.cores[t]) BY <1>2, <2>3, <2>4, <2>6
    <2>7. QED BY <2>5, <2>6
<1>4. QED BY <1>2, <1>3

LEMMA CoreIdType ==
    ASSUME NEW e \in Environments, NEW s, Sound(s, e)
    PROVE  get_selected_core_id(s) \in 0..UINT16_MAX
<1>1. CASE s.cores = <<>> BY <1>1, Widths DEF get_selected_core_id
<1>2. CASE s.cores # <<>>
    <2> DEFINE t == Get(s, "type").at["type"]
               x == Cardinality(Earlier(s.cores, t)) + GetCore(s).core
    <2>1. s.cores = e.cores /\ t \in 0..(e.types - 1) BY <1>2, TypeInRange
    <2>2. e.types \in Nat /\ e.cores[t] \in 1..(UINT16_MAX - 1) BY <2>1, Environment
    <2>3. GetCore(s).core \in 0..(e.cores[t] - 1) BY <1>2, GetCoreProps
    <2>4. Cardinality(Earlier(s.cores, t)) \in Nat BY <2>1, <2>2, EarlierFinite
    <2>5. x \in Nat BY <2>2, <2>3, <2>4, Widths
    <2>6. get_selected_core_id(s) = x % (UINT16_MAX + 1) BY <1>2 DEF get_selected_core_id
    <2> HIDE DEF x
    <2>7. QED BY <2>5, <2>6, Remainder, Widths
<1>3. QED BY <1>1, <1>2

\* Pin() moves the program to the CPU selected, if the selection is one of the processor's.
LEMMA PinProps ==
    ASSUME NEW e \in Environments, NEW s, Sound(s, e),
           NEW r, r = Pin(s)
    PROVE  /\ Sound(r, e) /\ Keeps(s, r) /\ r.at = s.at /\ r.core = s.core
           /\ s.cores # <<>> /\ s.at["type"] \in 0..(e.types - 1)
              /\ s.core \in 0..(e.cores[s.at["type"]] - 1) => Consistent(r, e)
<1>1. s \in SelType(e.cores) /\ get_selected_core_id(s) \in AnyCpu..UINT16_MAX
    BY CoreIdType, Widths DEF Sound, AnyCpu
<1>2. r \in SelType(e.cores) /\ Keeps(s, r) /\ r.at = s.at /\ r.core = s.core
      /\ r.affinity = get_selected_core_id(s)
    BY <1>1 DEF Pin, SelType, Keeps
<1>3. Sound(r, e) BY <1>2 DEF Sound, Keeps
<1>4. ASSUME s.cores # <<>>, s.at["type"] \in 0..(e.types - 1),
             s.core \in 0..(e.cores[s.at["type"]] - 1)
      PROVE  Consistent(r, e)
    <2> DEFINE t == s.at["type"]
               n == Cardinality(Earlier(e.cores, t))
    <2>1. s.cores = e.cores /\ s.max["type"] = e.types BY <1>1, <1>4 DEF Sound, SelType
    <2>2. e.types \in Nat /\ e.cores[t] \in 1..(UINT16_MAX - 1) BY <1>4, Environment
    <2>3. "type" \in Fields BY DEF Fields
    <2>4. Get(s, "type").at["type"] = t BY <1>4, <2>1, <2>2, <2>3, GetProps
    <2>5. check_selected_core_valid(s, s.core) BY <1>4, <2>1, <2>2, <2>4, Widths DEF check_selected_core_valid
    <2>6. s.core \in 0..UINT16_MAX BY <1>1 DEF SelType
    <2>7. GetCore(s).core = s.core BY <2>5, <2>6, AfterCheckProps DEF GetCore
    <2>8. n + s.core \in 0..UINT16_MAX BY <1>4, CoreIdFits
    <2>9. get_selected_core_id(s) = (n + s.core) % (UINT16_MAX + 1)
        BY <1>4, <2>1, <2>4, <2>7 DEF get_selected_core_id
    <2>10. get_selected_core_id(s) = n + s.core BY <2>8, <2>9, Remainder, Widths
    <2>11. t < e.types /\ s.core < e.cores[t] BY <1>4, <2>2, <2>6, Widths
    <2>12. QED BY <1>2, <2>10, <2>11 DEF Consistent
<1>5. QED BY <1>2, <1>3, <1>4

LEMMA SetCoreProps ==
    ASSUME NEW e \in Environments, NEW s, Sound(s, e), NEW c \in 0..UINT16_MAX,
           NEW r, r = set_selected_core(s, c)
    PROVE  /\ Sound(r, e) /\ Keeps(s, r)
           /\ s.cores # <<>> /\ s.at["type"] \in 0..(e.types - 1)
              /\ c \in 0..(e.cores[s.at["type"]] - 1) =>
                    r.at["type"] = s.at["type"] /\ r.core = c /\ Consistent(r, e)
<1> DEFINE a == AfterCheck(s, c)
           b == [a EXCEPT !.core = c]
<1>1. Sound(a, e) /\ Keeps(s, a) BY AfterCheckProps
<1>2. Sound(b, e) /\ Keeps(a, b) /\ b.at = a.at /\ b.core = c BY <1>1 DEF Sound, Keeps, SelType
<1>3. Sound(Pin(b), e) /\ Keeps(b, Pin(b)) /\ Pin(b).at = b.at /\ Pin(b).core = c
    <2> DEFINE p == Pin(b)
    <2>1. Sound(b, e) /\ b.core = c BY <1>2
    <2>2. p = Pin(b) OBVIOUS
    <2> HIDE DEF b, p
    <2>3. Sound(p, e) /\ Keeps(b, p) /\ p.at = b.at /\ p.core = b.core BY <2>1, <2>2, PinProps
    <2> QED BY <2>1, <2>2, <2>3
<1>4. Sound(r, e) /\ Keeps(s, r) BY <1>1, <1>2, <1>3 DEF set_selected_core, Keeps
<1>5. ASSUME s.cores # <<>>, s.at["type"] \in 0..(e.types - 1),
             c \in 0..(e.cores[s.at["type"]] - 1)
      PROVE  r.at["type"] = s.at["type"] /\ r.core = c /\ Consistent(r, e)
    <2> DEFINE t == s.at["type"]
    <2>1. s.cores = e.cores /\ s.max["type"] = e.types BY <1>5 DEF Sound, SelType
    <2>2. e.types \in Nat /\ e.cores[t] \in 1..(UINT16_MAX - 1) BY <1>5, Environment
    <2>3. "type" \in Fields BY DEF Fields
    <2>4. Get(s, "type").at["type"] = t BY <1>5, <2>1, <2>2, <2>3, GetProps
    <2>5. check_selected_core_valid(s, c) BY <1>5, <2>1, <2>2, <2>4, Widths DEF check_selected_core_valid
    <2>6. a.at["type"] = t BY <1>5, <2>4, AfterCheckProps
    <2>7. r = Pin(b) BY <2>5 DEF set_selected_core
    <2>8. b.cores # <<>> BY <1>1, <1>2, <1>5 DEF Keeps
    <2>9. Consistent(r, e) BY <1>2, <1>5, <2>6, <2>7, <2>8, PinProps
    <2>10. QED BY <1>2, <1>3, <2>6, <2>7, <2>9
<1>6. QED BY <1>4, <1>5

LEMMA SetTypeProps ==
    ASSUME NEW e \in Environments, NEW s, Sound(s, e), NEW t \in 0..UINT8_MAX,
           NEW r, r = set_selected_type(s, t)
    PROVE  /\ Sound(r, e) /\ Keeps(s, r)
           /\ s.cores # <<>> /\ t < e.types => r.at["type"] = t /\ r.core = 0 /\ Consistent(r, e)
<1> DEFINE a == Select(s, "type", t)
<1>1. "type" \in Fields /\ 0 \in 0..UINT16_MAX BY Widths DEF Fields
<1>2. Sound(a, e) /\ Keeps(s, a) /\ a.at["type"] = IF t < s.max["type"] THEN t ELSE 0
    BY <1>1, SelectProps
<1>3. Sound(set_selected_core(a, 0), e) /\ Keeps(a, set_selected_core(a, 0))
    BY <1>1, <1>2, SetCoreProps
<1>4. Sound(r, e) /\ Keeps(s, r) BY <1>2, <1>3 DEF set_selected_type, Keeps
<1>5. ASSUME s.cores # <<>>, t < e.types
      PROVE  r.at["type"] = t /\ r.core = 0 /\ Consistent(r, e)
    <2>1. s.max["type"] = e.types BY <1>5 DEF Sound
    <2>2. t \in 0..(e.types - 1) /\ a.at["type"] = t BY <1>2, <1>5, <2>1, Environment, Widths
    <2>3. e.cores[t] \in 1..(UINT16_MAX - 1) BY <2>2, Environment
    <2>4. 0 \in 0..(e.cores[t] - 1) BY <2>3, Widths
    <2>5. a.cores # <<>> BY <1>2, <1>5 DEF Keeps
    <2>6. r = set_selected_core(a, 0) BY <1>5, <2>1 DEF set_selected_type
    <2>7. QED BY <1>1, <1>2, <2>2, <2>4, <2>5, <2>6, SetCoreProps
<1>6. QED BY <1>4, <1>5

LEMMA ApplyProps ==
    ASSUME NEW e \in Environments, NEW s, Sound(s, e), NEW opt \in Fields \cup {"page", "core"},
           NEW val \in Nat, NEW r, r = Apply(s, opt, val)
    PROVE  Sound(r, e) /\ Keeps(s, r)
<1>1. val % (UINT8_MAX + 1) \in 0..UINT8_MAX /\ val % (UINT16_MAX + 1) \in 0..UINT16_MAX
    BY Widths, Remainder
<1>2. CASE opt = "page" BY <1>2 DEF Apply, Keeps
<1>3. CASE opt = "type" BY <1>1, <1>3, SetTypeProps DEF Apply
<1>4. CASE opt = "core" BY <1>1, <1>4, SetCoreProps DEF Apply
<1>5. CASE opt \in Fields \ {"type"}
    <2>1. r = Select(s, opt, val % (UINT8_MAX + 1)) BY <1>5 DEF Apply, Fields
    <2>2. QED BY <1>1, <1>5, <2>1, SelectProps
<1>6. QED BY <1>2, <1>3, <1>4, <1>5 DEF Fields

\* The getters leave a consistent selection alone.
LEMMA GetKeepsConsistent ==
    ASSUME NEW e \in Environments, NEW s, Sound(s, e), s.cores # <<>>, Consistent(s, e),
           NEW f \in Fields
    PROVE  /\ Consistent(Get(s, f), e) /\ Get(s, f).at["type"] = s.at["type"]
           /\ s.at["type"] \in 0..(e.types - 1) /\ s.core \in 0..(e.cores[s.at["type"]] - 1)
<1>1. "type" \in Fields BY DEF Fields
<1>2. s.max["type"] = e.types /\ s.at["type"] < e.types BY DEF Sound, Consistent
<1>3. Get(s, f).at["type"] = s.at["type"] BY <1>1, <1>2, GetProps
<1>4. Get(s, f).core = s.core /\ Get(s, f).affinity = s.affinity BY GetProps
<1>5. s.at["type"] \in 0..UINT8_MAX /\ s.core \in 0..UINT16_MAX BY <1>1 DEF Sound, SelType
<1>6. s.at["type"] \in 0..(e.types - 1) BY <1>2, <1>5, Environment, Widths
<1>7. e.cores[s.at["type"]] \in 1..(UINT16_MAX - 1) BY <1>6, Environment
<1>8. s.core \in 0..(e.cores[s.at["type"]] - 1) BY <1>5, <1>7, Widths DEF Consistent
<1>9. QED BY <1>3, <1>4, <1>6, <1>8 DEF Consistent

LEMMA GetCoreKeepsConsistent ==
    ASSUME NEW e \in Environments, NEW s, Sound(s, e), s.cores # <<>>, Consistent(s, e)
    PROVE  Consistent(GetCore(s), e) /\ GetCore(s).at["type"] = s.at["type"]
           /\ GetCore(s).core = s.core
<1>1. "type" \in Fields BY DEF Fields
<1>2. s.cores = e.cores BY TypeInRange
<1>3. Get(s, "type").at["type"] = s.at["type"] /\ Consistent(Get(s, "type"), e)
    BY <1>1, GetKeepsConsistent
<1>4. check_selected_core_valid(s, s.core) BY <1>2, <1>3 DEF check_selected_core_valid, Consistent
<1>5. GetCore(s) = Get(s, "type") BY <1>4 DEF GetCore, AfterCheck
<1>6. Get(s, "type").core = s.core BY <1>1, GetProps
<1>7. QED BY <1>3, <1>5, <1>6

-----------------------------------------------------------------------------
(* The invariant.                                                          *)

Inv == TypeOK /\ SelInv

LEMMA SelIsSound ==
    ASSUME Inv
    PROVE  /\ env \in Environments /\ Sound(sel, env)
           /\ Identified => sel.cores # <<>> /\ sel.cores = env.cores
           /\ env.types \in Nat /\ env.types > 0 /\ env.types <= UINT8_MAX
<1>1. env \in Environments /\ sel \in SelType(env.cores) BY DEF Inv, TypeOK
<1>2. KnownInv BY DEF Inv, SelInv
<1>3. env.cores # <<>> /\ env.types \in 1..UINT8_MAX BY <1>1, Environment
<1>4. QED BY <1>1, <1>2, <1>3, Widths DEF KnownInv, Sound

\* What TypeOK and KnownInv need of a step that keeps the bounds.
LEMMA KeepsKnown ==
    ASSUME Inv, UNCHANGED inputs, Sound(sel', env), Keeps(sel, sel'), Identified' <=> Identified
    PROVE  /\ sel' \in SelType(env'.cores) /\ KnownInv'
           /\ env' \in Environments /\ args' \in Seq(ArgType) /\ settings' \in SettingsType
<1>1. env' = env /\ args' = args /\ settings' = settings BY DEF inputs
<1>2. TypeOK /\ KnownInv BY DEF Inv, SelInv
<1>3. sel' \in SelType(env'.cores) BY <1>1 DEF Sound
<1>4. KnownInv' BY <1>1, <1>2 DEF KnownInv, Keeps
<1>5. QED BY <1>1, <1>2, <1>3, <1>4 DEF TypeOK

LEMMA InitInv == Init => Inv
<1> SUFFICES ASSUME Init PROVE Inv
    OBVIOUS
<1>1. env \in Environments /\ args \in Seq(ArgType) /\ settings \in SettingsType
    BY OptionsAssumption DEF Init
<1>2. env.cores # <<>> /\ EnvOK(env) BY <1>1, Environment
<1>3. parsed = 0 /\ parsed \in 0..Len(args) BY <1>1 DEF Init
<1>4. sel \in SelType(env.cores)
    <2>1. sel = NoSel /\ NumTests \in 0..UINT8_MAX /\ NotKnown \in 0..UINT8_MAX /\ 0 \in 0..UINT8_MAX
          /\ 0 \in 0..UINT16_MAX /\ AnyCpu \in AnyCpu..UINT16_MAX
        BY Widths, OptionsAssumption DEF Init, NotKnown, AnyCpu
    <2>2. QED BY <2>1 DEF NoSel, SelType
<1>5. page \in Pages /\ visible \in [Pages -> BOOLEAN] BY DEF Init, Pages, TAB_CPU
<1>6. saved \in [type : 0..UINT8_MAX, core : 0..UINT16_MAX] /\ cpu_type \in 0..UINT8_MAX
    BY Widths DEF Init
<1>7. TypeOK BY <1>1, <1>3, <1>4, <1>5, <1>6 DEF TypeOK, Init, Phases
<1>8. KnownInv BY DEF Init, KnownInv, NoSel, Identified, Fields
<1>9. PageInv /\ PinInv /\ AbortsOnlyUnknown
    BY DEF Init, PageInv, PinInv, AbortsOnlyUnknown, ShownPageVisible
<1>10. QED BY <1>7, <1>8, <1>9 DEF Inv, SelInv

LEMMA PageSelected ==
    ASSUME NEW p \in Nat
    PROVE  set_selected_page(p) \in Pages
BY DEF set_selected_page, Pages, TAB_CPU

LEMMA ParseOptionInv == Inv /\ ParseOption => Inv'
<1> SUFFICES ASSUME Inv, ParseOption PROVE Inv'
    OBVIOUS
<1> DEFINE arg == args[parsed + 1]
<1>1. TypeOK /\ SelInv BY DEF Inv
<1>2. phase = "parse" /\ phase' = phase /\ UNCHANGED inputs /\ env' = env BY DEF ParseOption, inputs
<1>3. parsed + 1 \in 1..Len(args) /\ arg \in ArgType BY <1>1 DEF TypeOK, ParseOption
<1>4. arg.opt \in Fields \cup {"page", "core"} /\ arg.val \in Nat BY <1>3 DEF ArgType
<1>5. Sound(sel', env) /\ Keeps(sel, sel')
    <2>1. sel' = Apply(sel, arg.opt, arg.val) BY DEF ParseOption
    <2>2. QED BY <1>4, <2>1, SelIsSound, ApplyProps
<1>6. ~Identified /\ ~Identified' BY <1>2 DEF Identified
<1>7. page' \in Pages BY <1>1, <1>4, PageSelected DEF ParseOption, TypeOK
<1>8. TypeOK'
    <2>1. /\ phase' \in Phases /\ visible' \in [Pages -> BOOLEAN]
          /\ saved' \in [type : 0..UINT8_MAX, core : 0..UINT16_MAX] /\ cpu_type' \in 0..UINT8_MAX
        BY <1>1 DEF ParseOption, TypeOK
    <2>2. parsed' \in 0..Len(args') BY <1>2, <1>3 DEF ParseOption, inputs
    <2>3. QED BY <1>2, <1>5, <1>6, <1>7, <2>1, <2>2, KeepsKnown DEF TypeOK
<1>9. KnownInv' BY <1>2, <1>5, <1>6, KeepsKnown
<1>10. PageInv' /\ PinInv' /\ AbortsOnlyUnknown'
    BY <1>2 DEF PageInv, PinInv, AbortsOnlyUnknown, ShownPageVisible
<1>11. QED BY <1>8, <1>9, <1>10 DEF Inv, SelInv

LEMMA InitPageVisibilityInv == Inv /\ init_page_visibility => Inv'
<1> SUFFICES ASSUME Inv, init_page_visibility PROVE Inv'
    OBVIOUS
<1>1. TypeOK /\ SelInv BY DEF Inv
<1>2. phase = "parse" /\ phase' = "settings" /\ UNCHANGED <<inputs, parsed, page, sel, saved, cpu_type>>
    BY DEF init_page_visibility
<1>3. visible' = [p \in Pages |-> TRUE] BY DEF init_page_visibility
<1>4. TypeOK' BY <1>1, <1>2, <1>3 DEF TypeOK, inputs, Phases
<1>5. KnownInv' BY <1>1, <1>2 DEF KnownInv, SelInv, Identified, inputs
<1>6. PageInv' BY <1>2, <1>3 DEF PageInv, ShownPageVisible, Pages, TAB_CPU, TAB_ABOUT
<1>7. PinInv' /\ AbortsOnlyUnknown' BY <1>2 DEF PinInv, AbortsOnlyUnknown
<1>8. QED BY <1>4, <1>5, <1>6, <1>7 DEF Inv, SelInv

\* A step that keeps the bounds keeps the invariant if it keeps what follows.
LEMMA StepInv ==
    ASSUME Inv, UNCHANGED <<inputs, parsed>>, Sound(sel', env), Keeps(sel, sel'), Identified' <=> Identified,
           phase' \in Phases, page' \in Pages, visible' \in [Pages -> BOOLEAN],
           saved' \in [type : 0..UINT8_MAX, core : 0..UINT16_MAX], cpu_type' \in 0..UINT8_MAX,
           PageInv', PinInv', AbortsOnlyUnknown'
    PROVE  Inv'
<1>1. parsed' \in 0..Len(args') BY DEF Inv, TypeOK, inputs
<1>2. TypeOK' BY <1>1, KeepsKnown DEF TypeOK
<1>3. KnownInv' BY KeepsKnown
<1>4. QED BY <1>2, <1>3 DEF Inv, SelInv

LEMMA LoadSettingsInv == Inv /\ load_settings => Inv'
<1> SUFFICES ASSUME Inv, load_settings PROVE Inv'
    OBVIOUS
<1> DEFINE keyed(t, k) == Apply(t, k, settings[k])
<1>1. TypeOK /\ SelInv BY DEF Inv
<1>2. /\ phase = "settings" /\ phase' = "identify" /\ UNCHANGED inputs /\ env' = env
      /\ UNCHANGED <<parsed, visible, saved, cpu_type>>
    BY DEF load_settings, inputs
<1>3. ASSUME NEW t, Sound(t, env), NEW k \in Fields \cup {"core"}
      PROVE  Sound(keyed(t, k), env) /\ Keeps(t, keyed(t, k))
    <2>1. settings[k] \in Nat BY <1>1 DEF TypeOK, SettingsType
    <2>2. QED BY <1>3, <2>1, SelIsSound, ApplyProps
<1>4. Sound(sel', env) /\ Keeps(sel, sel')
    <2>1. CASE env.hasGtk
        <3> DEFINE s1 == keyed(sel, "type")
                   s2 == keyed(s1, "core")
                   s3 == keyed(s2, "test")
                   s4 == keyed(s3, "stick")
                   s5 == keyed(s4, "gpu")
        <3>1. sel' = s5 BY <2>1 DEF load_settings
        <3> HIDE DEF keyed
        <3>2. Sound(s1, env) /\ Keeps(sel, s1) BY <1>3, SelIsSound DEF Fields
        <3>3. Sound(s2, env) /\ Keeps(s1, s2) BY <1>3, <3>2
        <3>4. Sound(s3, env) /\ Keeps(s2, s3) BY <1>3, <3>3 DEF Fields
        <3>5. Sound(s4, env) /\ Keeps(s3, s4) BY <1>3, <3>4 DEF Fields
        <3>6. Sound(s5, env) /\ Keeps(s4, s5) BY <1>3, <3>5 DEF Fields
        <3>7. QED BY <3>1, <3>2, <3>3, <3>4, <3>5, <3>6 DEF Keeps
    <2>2. CASE ~env.hasGtk BY <2>2, SelIsSound DEF load_settings, Keeps
    <2>3. QED BY <2>1, <2>2
<1>5. ~Identified /\ ~Identified' BY <1>2 DEF Identified
<1>6. page' \in Pages
    <2>1. settings["page"] \in Nat /\ page \in Pages BY <1>1 DEF TypeOK, SettingsType
    <2>2. QED BY <2>1, PageSelected DEF load_settings
<1>7. phase' \in Phases /\ visible' \in [Pages -> BOOLEAN] BY <1>1, <1>2 DEF TypeOK, Phases
<1>8. saved' \in [type : 0..UINT8_MAX, core : 0..UINT16_MAX] /\ cpu_type' \in 0..UINT8_MAX
    BY <1>1, <1>2 DEF TypeOK
<1>9. PageInv' BY <1>1, <1>2 DEF SelInv, PageInv, ShownPageVisible
<1>10. PinInv' /\ AbortsOnlyUnknown' BY <1>2 DEF PinInv, AbortsOnlyUnknown
<1>11. QED BY <1>2, <1>4, <1>5, <1>6, <1>7, <1>8, <1>9, <1>10, StepInv

LEMMA CallLibcpuidInv == Inv /\ call_libcpuid_static => Inv'
<1> SUFFICES ASSUME Inv, call_libcpuid_static PROVE Inv'
    OBVIOUS
<1>1. TypeOK /\ SelInv BY DEF Inv
<1>2. /\ phase = "identify" /\ phase' = "devices" /\ UNCHANGED inputs /\ env' = env
      /\ UNCHANGED <<parsed, page, visible, saved, cpu_type>>
    BY DEF call_libcpuid_static, inputs
<1>3. sel' = IF env.identified THEN [sel EXCEPT !.max["type"] = env.types, !.cores = env.cores]
             ELSE sel
    BY DEF call_libcpuid_static
<1>4. "type" \in Fields /\ env.types \in 0..UINT8_MAX BY SelIsSound, Widths DEF Fields
<1>5. sel \in SelType(env.cores) BY <1>1 DEF TypeOK
<1>6. sel' \in SelType(env.cores)
    <2>1. CASE env.identified
        <3>1. sel' = [sel EXCEPT !.max = [sel.max EXCEPT !["type"] = env.types], !.cores = env.cores]
            BY <1>3, <2>1
        <3>2. [sel.max EXCEPT !["type"] = env.types] \in [Fields -> 0..UINT8_MAX]
            BY <1>4, <1>5 DEF SelType
        <3>3. QED BY <1>5, <3>1, <3>2 DEF SelType
    <2>2. CASE ~env.identified BY <1>3, <1>5, <2>2
    <2>3. QED BY <2>1, <2>2
<1>7. KnownInv'
    <2>1. CASE env.identified
        <3>1. Identified' BY <1>2, <2>1 DEF Identified
        <3>2. sel'.cores = env.cores /\ sel'.max["type"] = env.types
            BY <1>3, <1>4, <1>5, <2>1 DEF SelType
        <3>3. QED BY <1>2, <3>1, <3>2 DEF KnownInv
    <2>2. CASE ~env.identified
        <3>1. ~Identified /\ ~Identified' BY <1>2, <2>2 DEF Identified
        <3>2. QED BY <1>1, <1>3, <2>2, <3>1 DEF SelInv, KnownInv
    <2>3. QED BY <2>1, <2>2
<1>8. TypeOK' BY <1>1, <1>2, <1>6 DEF TypeOK, inputs, Phases
<1>9. PageInv' BY <1>1, <1>2 DEF SelInv, PageInv, ShownPageVisible
<1>10. PinInv' /\ AbortsOnlyUnknown' BY <1>2 DEF PinInv, AbortsOnlyUnknown
<1>11. QED BY <1>7, <1>8, <1>9, <1>10 DEF Inv, SelInv

LEMMA DevicesInv == Inv /\ Devices => Inv'
<1> SUFFICES ASSUME Inv, Devices PROVE Inv'
    OBVIOUS
<1> DEFINE m1 == [sel.max EXCEPT !["stick"] = IF env.daemon THEN env.sticks ELSE @]
           m2 == [m1 EXCEPT !["gpu"] = IF env.gpus > 0 THEN env.gpus ELSE @]
<1>1. TypeOK /\ SelInv BY DEF Inv
<1>2. /\ phase = "devices" /\ phase' = "fallback" /\ UNCHANGED inputs /\ env' = env
      /\ UNCHANGED <<parsed, page, visible, saved, cpu_type>>
    BY DEF Devices, inputs
<1>3. EnvOK(env) BY SelIsSound, Environment
<1>4. sel \in SelType(env.cores) BY <1>1 DEF TypeOK
<1>5. sel' = [sel EXCEPT !.max = m2]
    <2>1. sel = [at |-> sel.at, max |-> sel.max, core |-> sel.core, cores |-> sel.cores,
                 affinity |-> sel.affinity]
        BY <1>4 DEF SelType
    <2>2. sel' = [sel EXCEPT !.max["stick"] = IF env.daemon THEN env.sticks ELSE @,
                             !.max["gpu"] = IF env.gpus > 0 THEN env.gpus ELSE @]
        BY DEF Devices
    <2>3. QED BY <2>1, <2>2
<1>6. m1 \in [Fields -> 0..UINT8_MAX] BY <1>3, <1>4 DEF EnvOK, SelType
<1>7. m2 \in [Fields -> 0..UINT8_MAX] BY <1>3, <1>6 DEF EnvOK
<1>8. m2["type"] = sel.max["type"] BY <1>4 DEF SelType, Fields
<1>9. sel' \in SelType(env.cores) /\ sel'.cores = sel.cores /\ sel'.max["type"] = sel.max["type"]
    BY <1>4, <1>5, <1>7, <1>8 DEF SelType
<1>10. Identified' <=> Identified BY <1>2 DEF Identified
<1>11. KnownInv' BY <1>1, <1>2, <1>9, <1>10 DEF SelInv, KnownInv
<1>12. TypeOK' BY <1>1, <1>2, <1>9 DEF TypeOK, inputs, Phases
<1>13. PageInv' BY <1>1, <1>2 DEF SelInv, PageInv, ShownPageVisible
<1>14. PinInv' /\ AbortsOnlyUnknown' BY <1>2 DEF PinInv, AbortsOnlyUnknown
<1>15. QED BY <1>11, <1>12, <1>13, <1>14 DEF Inv, SelInv

LEMMA FallbackInv == Inv /\ fallback_mode_static => Inv'
<1> SUFFICES ASSUME Inv, fallback_mode_static PROVE Inv'
    OBVIOUS
<1>1. TypeOK /\ SelInv BY DEF Inv
<1>2. /\ phase = "fallback" /\ phase' = "first" /\ UNCHANGED inputs /\ env' = env
      /\ UNCHANGED <<parsed, page, saved, cpu_type>>
    BY DEF fallback_mode_static, inputs
<1>3. Sound(sel', env) /\ Keeps(sel, sel')
    <2>1. "type" \in Fields /\ sel' = GetCore(Get(sel, "type")) BY DEF fallback_mode_static, Fields
    <2>2. Sound(Get(sel, "type"), env) /\ Keeps(sel, Get(sel, "type")) BY <2>1, SelIsSound, GetProps
    <2>3. QED BY <2>1, <2>2, SelIsSound, GetCoreProps DEF Keeps
<1>4. Identified' <=> Identified BY <1>2 DEF Identified
<1>5. visible' \in [Pages -> BOOLEAN] /\ visible'[TAB_CPU] = visible[TAB_CPU]
      /\ visible'[TAB_ABOUT] = visible[TAB_ABOUT]
    BY <1>1, SelIsSound, Environment DEF TypeOK, fallback_mode_static, Pages, TAB_CPU, TAB_ABOUT, TAB_MOTHERBOARD, EnvOK
<1>6. PageInv' BY <1>1, <1>2, <1>5 DEF SelInv, PageInv, ShownPageVisible
<1>7. PinInv' /\ AbortsOnlyUnknown' BY <1>2 DEF PinInv, AbortsOnlyUnknown
<1>8. phase' \in Phases /\ page' \in Pages BY <1>1, <1>2 DEF TypeOK, Phases
<1>9. saved' \in [type : 0..UINT8_MAX, core : 0..UINT16_MAX] /\ cpu_type' \in 0..UINT8_MAX
    BY <1>1, <1>2 DEF TypeOK
<1>10. QED BY <1>2, <1>3, <1>4, <1>5, <1>6, <1>7, <1>8, <1>9, StepInv

LEMMA AbortInv == Inv /\ Abort => Inv'
<1> SUFFICES ASSUME Inv, Abort PROVE Inv'
    OBVIOUS
<1>1. TypeOK /\ SelInv BY DEF Inv
<1>2. /\ phase = "fallback" /\ phase' = "died" /\ UNCHANGED inputs /\ env' = env
      /\ UNCHANGED <<parsed, page, visible, sel, saved, cpu_type>>
    BY DEF Abort, inputs
<1>3. ~env.identified
    <2>1. SUFFICES ASSUME env.identified PROVE FALSE
        OBVIOUS
    <2>2. sel.cores # <<>> BY <1>2, <2>1, SelIsSound DEF Identified
    <2>3. Get(sel, "type").at["type"] \in 0..(env.types - 1) BY <2>2, SelIsSound, TypeInRange
    <2>4. Get(sel, "type").at["type"] >= env.types BY <2>1 DEF Abort, Throws, CpuTypes
    <2>5. QED BY <2>3, <2>4, SelIsSound
<1>4. Sound(sel', env) /\ Keeps(sel, sel') BY <1>2, SelIsSound DEF Keeps
<1>5. Identified' <=> Identified BY <1>2 DEF Identified
<1>6. PageInv' BY <1>1, <1>2 DEF SelInv, PageInv, ShownPageVisible
<1>7. PinInv' /\ AbortsOnlyUnknown' BY <1>2, <1>3 DEF PinInv, AbortsOnlyUnknown
<1>8. phase' \in Phases /\ page' \in Pages /\ visible' \in [Pages -> BOOLEAN] BY <1>1, <1>2 DEF TypeOK, Phases
<1>9. saved' \in [type : 0..UINT8_MAX, core : 0..UINT16_MAX] /\ cpu_type' \in 0..UINT8_MAX
    BY <1>1, <1>2 DEF TypeOK
<1>10. QED BY <1>2, <1>4, <1>5, <1>6, <1>7, <1>8, <1>9, StepInv

LEMMA SaveSelectionInv == Inv /\ SaveSelection => Inv'
<1> SUFFICES ASSUME Inv, SaveSelection PROVE Inv'
    OBVIOUS
<1> DEFINE t == Get(sel, "type").at["type"]
           c == GetCore(sel).core
<1>1. TypeOK /\ SelInv BY DEF Inv
<1>2. /\ phase = "first" /\ phase' = "loop" /\ UNCHANGED inputs /\ env' = env
      /\ UNCHANGED <<parsed, page, visible>> /\ cpu_type' = 0
      /\ saved' = [type |-> t, core |-> c]
    BY DEF SaveSelection, inputs
<1>3. "type" \in Fields BY DEF Fields
<1>4. Sound(Get(sel, "type"), env) /\ Keeps(sel, Get(sel, "type")) BY <1>3, SelIsSound, GetProps
<1>5. Sound(sel', env) /\ Keeps(sel, sel') BY <1>4, SelIsSound, GetCoreProps DEF SaveSelection, Keeps
<1>6. Identified' <=> Identified BY <1>2 DEF Identified
<1>7. t \in 0..UINT8_MAX BY <1>3, <1>4 DEF Sound, SelType
<1>8. c \in 0..UINT16_MAX BY SelIsSound, GetCoreProps DEF Sound, SelType
<1>9. env.identified => t < env.types /\ c < env.cores[t]
    <2>1. SUFFICES ASSUME env.identified PROVE t < env.types /\ c < env.cores[t]
        OBVIOUS
    <2>2. sel.cores # <<>> BY <1>2, <2>1, SelIsSound DEF Identified
    <2>3. t \in 0..(env.types - 1) BY <2>2, SelIsSound, TypeInRange
    <2>4. c \in 0..(env.cores[t] - 1) BY <2>2, SelIsSound, GetCoreProps
    <2>5. env.cores[t] \in 1..(UINT16_MAX - 1) BY <2>3, SelIsSound, Environment
    <2>6. QED BY <2>3, <2>4, <2>5, SelIsSound, Widths
<1>10. CacheTypes' \in Nat BY <1>2, SelIsSound DEF CacheTypes
<1>11. PinInv' BY <1>2, <1>9, <1>10 DEF PinInv
<1>12. PageInv' /\ AbortsOnlyUnknown' BY <1>1, <1>2 DEF SelInv, PageInv, ShownPageVisible, AbortsOnlyUnknown
<1>13. phase' \in Phases /\ page' \in Pages /\ visible' \in [Pages -> BOOLEAN] BY <1>1, <1>2 DEF TypeOK, Phases
<1>14. saved' \in [type : 0..UINT8_MAX, core : 0..UINT16_MAX] /\ cpu_type' \in 0..UINT8_MAX
    BY <1>2, <1>7, <1>8, Widths
<1>15. QED BY <1>2, <1>5, <1>6, <1>11, <1>12, <1>13, <1>14, StepInv

LEMMA RunBandwidthInv == Inv /\ RunBandwidth => Inv'
<1> SUFFICES ASSUME Inv, RunBandwidth PROVE Inv'
    OBVIOUS
<1>1. TypeOK /\ SelInv BY DEF Inv
<1>2. /\ phase = "loop" /\ phase' \in {"loop", "show"} /\ UNCHANGED inputs /\ env' = env
      /\ UNCHANGED <<parsed, page, visible, saved>> /\ cpu_type' = cpu_type + 1
      /\ sel' = set_selected_type(sel, cpu_type) /\ cpu_type < CacheTypes
    BY DEF RunBandwidth, inputs
<1>3. cpu_type \in 0..UINT8_MAX /\ cpu_type \in Nat BY <1>1, Widths DEF TypeOK
<1>4. env.identified /\ CacheTypes = env.types BY <1>2, <1>3 DEF CacheTypes
<1>5. Sound(sel', env) /\ Keeps(sel, sel') BY <1>2, <1>3, SelIsSound, SetTypeProps
<1>6. Consistent(sel', env)
    <2>1. sel.cores # <<>> BY <1>2, <1>4, SelIsSound DEF Identified
    <2>2. QED BY <1>2, <1>3, <1>4, <2>1, SelIsSound, SetTypeProps
<1>7. Identified' <=> Identified BY <1>2 DEF Identified
<1>8. CacheTypes' = CacheTypes BY <1>2 DEF CacheTypes
<1>9. cpu_type' <= CacheTypes' /\ cpu_type' \in 0..UINT8_MAX BY <1>2, <1>3, <1>4, <1>8, SelIsSound, Widths
<1>10. Consistent(sel, env)' BY <1>2, <1>6 DEF Consistent
<1>11. PinInv' BY <1>1, <1>2, <1>9, <1>10 DEF SelInv, PinInv
<1>12. PageInv' /\ AbortsOnlyUnknown' BY <1>1, <1>2 DEF SelInv, PageInv, ShownPageVisible, AbortsOnlyUnknown
<1>13. phase' \in Phases /\ page' \in Pages /\ visible' \in [Pages -> BOOLEAN] BY <1>1, <1>2 DEF TypeOK, Phases
<1>14. saved' \in [type : 0..UINT8_MAX, core : 0..UINT16_MAX] BY <1>1, <1>2 DEF TypeOK
<1>15. QED BY <1>2, <1>5, <1>7, <1>9, <1>11, <1>12, <1>13, <1>14, StepInv

LEMMA RestoreSelectionInv == Inv /\ RestoreSelection => Inv'
<1> SUFFICES ASSUME Inv, RestoreSelection PROVE Inv'
    OBVIOUS
<1> DEFINE s1 == set_selected_type(sel, saved.type)
<1>1. TypeOK /\ SelInv BY DEF Inv
<1>2. /\ phase = "loop" /\ phase' = "show" /\ UNCHANGED inputs /\ env' = env
      /\ UNCHANGED <<parsed, page, visible, saved, cpu_type>>
      /\ sel' = set_selected_core(s1, saved.core)
    BY DEF RestoreSelection, inputs
<1>3. saved.type \in 0..UINT8_MAX /\ saved.core \in 0..UINT16_MAX BY <1>1 DEF TypeOK
<1>4. Sound(s1, env) /\ Keeps(sel, s1) BY <1>3, SelIsSound, SetTypeProps
<1>5. Sound(sel', env) /\ Keeps(sel, sel') BY <1>2, <1>3, <1>4, SelIsSound, SetCoreProps DEF Keeps
<1>6. env.identified => Consistent(sel', env)
    <2>1. SUFFICES ASSUME env.identified PROVE Consistent(sel', env)
        OBVIOUS
    <2>2. saved.type < env.types /\ saved.core < env.cores[saved.type]
        BY <1>1, <1>2, <2>1 DEF SelInv, PinInv
    <2>3. sel.cores # <<>> BY <1>2, <2>1, SelIsSound DEF Identified
    <2>4. s1.at["type"] = saved.type BY <1>3, <2>2, <2>3, SelIsSound, SetTypeProps
    <2>5. saved.type \in 0..(env.types - 1) BY <1>3, <2>2, SelIsSound, Widths
    <2>6. env.cores[saved.type] \in 1..(UINT16_MAX - 1) BY <2>5, SelIsSound, Environment
    <2>7. saved.core \in 0..(env.cores[saved.type] - 1) BY <1>3, <2>2, <2>6, Widths
    <2>8. s1.cores # <<>> BY <1>4, <2>3 DEF Keeps
    <2>9. QED BY <1>2, <1>3, <1>4, <2>4, <2>5, <2>7, <2>8, SelIsSound, SetCoreProps
<1>7. Identified' <=> Identified BY <1>2 DEF Identified
<1>8. env.identified => Consistent(sel, env)' BY <1>2, <1>6 DEF Consistent
<1>9. PinInv' BY <1>2, <1>8 DEF PinInv
<1>10. PageInv' /\ AbortsOnlyUnknown' BY <1>1, <1>2 DEF SelInv, PageInv, ShownPageVisible, AbortsOnlyUnknown
<1>11. phase' \in Phases /\ page' \in Pages /\ visible' \in [Pages -> BOOLEAN] BY <1>1, <1>2 DEF TypeOK, Phases
<1>12. saved' \in [type : 0..UINT8_MAX, core : 0..UINT16_MAX] /\ cpu_type' \in 0..UINT8_MAX
    BY <1>1, <1>2 DEF TypeOK
<1>13. QED BY <1>2, <1>5, <1>7, <1>9, <1>10, <1>11, <1>12, StepInv

LEMMA ShowInv == Inv /\ Show => Inv'
<1> SUFFICES ASSUME Inv, Show PROVE Inv'
    OBVIOUS
<1>1. TypeOK /\ SelInv BY DEF Inv
<1>2. /\ phase = "show" /\ phase' = "ui" /\ UNCHANGED inputs /\ env' = env
      /\ UNCHANGED <<parsed, saved, cpu_type>>
      /\ sel' = Get(sel, "type") /\ visible' = AutoVisible
      /\ page' = IF AutoVisible[page] THEN page ELSE TAB_CPU
    BY DEF Show, inputs
<1>3. "type" \in Fields BY DEF Fields
<1>4. Sound(sel', env) /\ Keeps(sel, sel') BY <1>2, <1>3, SelIsSound, GetProps
<1>5. env.identified => Consistent(sel', env)
    <2>1. SUFFICES ASSUME env.identified PROVE Consistent(sel', env)
        OBVIOUS
    <2>2. sel.cores # <<>> BY <1>2, <2>1, SelIsSound DEF Identified
    <2>3. Consistent(sel, env) BY <1>1, <1>2, <2>1 DEF SelInv, PinInv
    <2>4. QED BY <1>2, <1>3, <2>2, <2>3, SelIsSound, GetKeepsConsistent
<1>6. Identified' <=> Identified BY <1>2 DEF Identified
<1>7. env.identified => Consistent(sel, env)' BY <1>2, <1>5 DEF Consistent
<1>8. PinInv' BY <1>2, <1>7 DEF PinInv
<1>9. visible' \in [Pages -> BOOLEAN] /\ visible'[TAB_CPU] = visible[TAB_CPU]
      /\ visible'[TAB_ABOUT] = visible[TAB_ABOUT]
    <2> DEFINE b1 == Caches(sel) > 0
               b2 == Sticks > 0
               b3 == env.gpus > 0
    <2>1. b1 \in BOOLEAN /\ b2 \in BOOLEAN /\ b3 \in BOOLEAN OBVIOUS
    <2>2. visible \in [Pages -> BOOLEAN] BY <1>1 DEF TypeOK
    <2>3. visible' = [visible EXCEPT ![TAB_CACHES] = b1, ![TAB_MEMORY] = b2, ![TAB_GRAPHICS] = b3]
        BY <1>2 DEF AutoVisible
    <2> HIDE DEF b1, b2, b3
    <2>4. visible' \in [Pages -> BOOLEAN] BY <2>1, <2>2, <2>3
    <2>5. TAB_CPU \in Pages /\ TAB_ABOUT \in Pages /\ TAB_CPU \notin {TAB_CACHES, TAB_MEMORY, TAB_GRAPHICS}
          /\ TAB_ABOUT \notin {TAB_CACHES, TAB_MEMORY, TAB_GRAPHICS}
        BY DEF Pages, TAB_CPU, TAB_ABOUT, TAB_CACHES, TAB_MEMORY, TAB_GRAPHICS
    <2>6. QED BY <2>2, <2>3, <2>4, <2>5
<1>10. visible[TAB_CPU] /\ visible[TAB_ABOUT] BY <1>1, <1>2 DEF SelInv, PageInv
<1>11. page' \in Pages /\ visible'[page']
    <2>1. CASE AutoVisible[page] BY <1>1, <1>2, <2>1 DEF TypeOK
    <2>2. CASE ~AutoVisible[page]
        <3>1. page' = TAB_CPU BY <1>2, <2>2
        <3>2. visible'[TAB_CPU] BY <1>9, <1>10
        <3>3. TAB_CPU \in Pages BY DEF TAB_CPU, Pages
        <3>4. QED BY <3>1, <3>2, <3>3
    <2>3. QED BY <2>1, <2>2
<1>12. PageInv' BY <1>9, <1>10, <1>11 DEF PageInv, ShownPageVisible
<1>13. phase' \in Phases /\ AbortsOnlyUnknown' BY <1>2 DEF Phases, AbortsOnlyUnknown
<1>14. saved' \in [type : 0..UINT8_MAX, core : 0..UINT16_MAX] /\ cpu_type' \in 0..UINT8_MAX
    BY <1>1, <1>2 DEF TypeOK
<1>15. QED BY <1>2, <1>4, <1>6, <1>8, <1>9, <1>11, <1>12, <1>13, <1>14, StepInv

\* A key or a click keeps the invariant if it keeps the bounds, the agreement and a visible page.
LEMMA UiInv ==
    ASSUME Inv, NEW front, Ui(front), Sound(sel', env), Keeps(sel, sel'),
           env.identified => Consistent(sel', env), page' \in Pages, visible[page']
    PROVE  Inv'
<1>1. TypeOK /\ SelInv BY DEF Inv
<1>2. /\ phase = "ui" /\ phase' = "ui" /\ UNCHANGED inputs /\ env' = env
      /\ UNCHANGED <<parsed, visible, saved, cpu_type>>
    BY DEF Ui, inputs
<1>3. Identified' <=> Identified BY <1>2 DEF Identified
<1>4. env.identified => Consistent(sel, env)' BY <1>2 DEF Consistent
<1>5. PinInv' BY <1>2, <1>4 DEF PinInv
<1>6. PageInv' BY <1>1, <1>2 DEF SelInv, PageInv, ShownPageVisible
<1>7. phase' \in Phases /\ AbortsOnlyUnknown' BY <1>2 DEF Phases, AbortsOnlyUnknown
<1>8. visible' \in [Pages -> BOOLEAN] BY <1>1, <1>2 DEF TypeOK
<1>9. saved' \in [type : 0..UINT8_MAX, core : 0..UINT16_MAX] /\ cpu_type' \in 0..UINT8_MAX
    BY <1>1, <1>2 DEF TypeOK
<1>10. QED BY <1>2, <1>3, <1>5, <1>6, <1>7, <1>8, <1>9, StepInv

\* What the keys and lists find.
LEMMA UiState ==
    ASSUME Inv, NEW front, Ui(front)
    PROVE  /\ page \in Pages /\ visible[page] /\ visible[TAB_CPU] /\ visible[TAB_ABOUT]
           /\ env.identified => sel.cores # <<>> /\ sel.cores = env.cores /\ Consistent(sel, env)
<1>1. phase = "ui" BY DEF Ui
<1>2. PageInv /\ PinInv /\ TypeOK BY DEF Inv, SelInv
<1>3. visible[page] /\ visible[TAB_CPU] /\ visible[TAB_ABOUT] BY <1>1, <1>2 DEF PageInv, ShownPageVisible
<1>4. env.identified => Identified BY <1>1 DEF Identified
<1>5. env.identified => Consistent(sel, env) BY <1>1, <1>2 DEF PinInv
<1>6. QED BY <1>2, <1>3, <1>4, <1>5, SelIsSound DEF TypeOK

LEMMA KeyPageInv == Inv /\ KeyPage => Inv'
<1> SUFFICES ASSUME Inv, KeyPage PROVE Inv'
    OBVIOUS
<1>1. Ui("ncurses") /\ sel' = sel BY DEF KeyPage
<1>2. PICK q \in Pages : (IsNextPage(page, q) \/ IsPrevPage(page, q)) /\ page' = q BY DEF KeyPage
<1>3. visible[q] BY <1>1, <1>2, UiState DEF IsNextPage, IsPrevPage
<1>4. Sound(sel', env) /\ Keeps(sel, sel') BY <1>1, SelIsSound DEF Keeps
<1>5. env.identified => Consistent(sel', env) BY <1>1, UiState
<1>6. QED BY <1>1, <1>2, <1>3, <1>4, <1>5, UiInv

LEMMA SwitchPageInv == Inv /\ SwitchPage => Inv'
<1> SUFFICES ASSUME Inv, SwitchPage PROVE Inv'
    OBVIOUS
<1>1. Ui("gtk") /\ sel' = sel BY DEF SwitchPage
<1>2. PICK p \in Pages : visible[p] /\ page' = set_selected_page(p) BY DEF SwitchPage
<1>3. page' = p BY <1>2 DEF set_selected_page
<1>4. Sound(sel', env) /\ Keeps(sel, sel') BY <1>1, SelIsSound DEF Keeps
<1>5. env.identified => Consistent(sel', env) BY <1>1, UiState
<1>6. QED BY <1>1, <1>2, <1>3, <1>4, <1>5, UiInv

LEMMA KeyTypeInv == Inv /\ KeyType => Inv'
<1> SUFFICES ASSUME Inv, KeyType PROVE Inv'
    OBVIOUS
<1> DEFINE s == Get(sel, "type")
           t == s.at["type"]
<1>1. Ui("ncurses") /\ page' = page BY DEF KeyType
<1>2. "type" \in Fields BY DEF Fields
<1>3. Sound(s, env) /\ Keeps(sel, s) BY <1>2, SelIsSound, GetProps
<1>4. t \in 0..UINT8_MAX /\ t \in Nat BY <1>2, <1>3, Widths DEF Sound, SelType
<1>5. PICK u : /\ sel' = set_selected_type(s, u)
               /\ (u = t - 1 /\ t > 0) \/ (u = t + 1 /\ t + 1 < CpuTypes)
    <2> HIDE DEF t, s
    <2>1. \/ t > 0 /\ sel' = set_selected_type(s, t - 1)
          \/ t + 1 < CpuTypes /\ sel' = set_selected_type(s, t + 1)
        BY DEF KeyType, t, s
    <2>2. QED BY <2>1
<1>6. CpuTypes = (IF env.identified THEN env.types ELSE 1) BY DEF CpuTypes
<1>7. u \in 0..UINT8_MAX BY <1>4, <1>5, <1>6, SelIsSound, Widths
<1>8. Sound(sel', env) /\ Keeps(s, sel') BY <1>3, <1>5, <1>7, SelIsSound, SetTypeProps
<1>9. ASSUME env.identified PROVE Consistent(sel', env)
    <2>1. sel.cores # <<>> BY <1>1, <1>9, UiState
    <2>2. t \in 0..(env.types - 1) BY <2>1, SelIsSound, TypeInRange
    <2>3. u < env.types BY <1>4, <1>5, <1>6, <1>9, <2>2, SelIsSound
    <2>4. s.cores # <<>> BY <1>3, <2>1 DEF Keeps
    <2>5. QED BY <1>3, <1>5, <1>7, <2>3, <2>4, SelIsSound, SetTypeProps
<1>10. Keeps(sel, sel') BY <1>3, <1>8 DEF Keeps
<1>11. page' \in Pages /\ visible[page'] BY <1>1, UiState
<1>12. QED BY <1>1, <1>8, <1>9, <1>10, <1>11, UiInv

\* A core below the number of threads shown is one of the selected type.
LEMMA CoreChosen ==
    ASSUME Inv, NEW front, Ui(front), NEW s, Sound(s, env), Keeps(sel, s), UNCHANGED page,
           env.identified => Consistent(s, env), NEW c \in 0..UINT16_MAX,
           env.identified => c < Threads(s), sel' = set_selected_core(s, c)
    PROVE  Inv'
<1>1. "type" \in Fields BY DEF Fields
<1>2. Sound(sel', env) /\ Keeps(s, sel') BY SelIsSound, SetCoreProps
<1>3. Keeps(sel, sel') BY <1>2 DEF Keeps
<1>4. ASSUME env.identified PROVE Consistent(sel', env)
    <2>1. s.cores # <<>> BY <1>4, UiState DEF Keeps
    <2>2. Get(s, "type").at["type"] = s.at["type"] /\ s.at["type"] \in 0..(env.types - 1)
        BY <1>1, <1>4, <2>1, SelIsSound, GetKeepsConsistent
    <2>3. c < env.cores[s.at["type"]] BY <1>4, <2>2 DEF Threads
    <2>4. env.cores[s.at["type"]] \in 1..(UINT16_MAX - 1) BY <2>2, SelIsSound, Environment
    <2>5. c \in 0..(env.cores[s.at["type"]] - 1) BY <2>3, <2>4, Widths
    <2>6. QED BY <2>1, <2>2, <2>5, SelIsSound, SetCoreProps
<1>5. page' \in Pages /\ visible[page'] BY UiState
<1>6. QED BY <1>2, <1>3, <1>4, <1>5, UiInv

LEMMA KeyCoreInv == Inv /\ KeyCore => Inv'
<1> SUFFICES ASSUME Inv, KeyCore PROVE Inv'
    OBVIOUS
<1> DEFINE s == GetCore(sel)
<1>1. Ui("ncurses") /\ page' = page BY DEF KeyCore
<1>2. "type" \in Fields BY DEF Fields
<1>3. Sound(s, env) /\ Keeps(sel, s) BY SelIsSound, GetCoreProps
<1>4. s.core \in 0..UINT16_MAX /\ s.core \in Nat BY <1>3, Widths DEF Sound, SelType
<1>5. PICK c : /\ sel' = set_selected_core(s, c)
               /\ (c = s.core - 1 /\ s.core > 0) \/ (c = s.core + 1 /\ s.core + 1 < Threads(s))
    <2> HIDE DEF s
    <2>1. \/ s.core > 0 /\ sel' = set_selected_core(s, s.core - 1)
          \/ s.core + 1 < Threads(s) /\ sel' = set_selected_core(s, s.core + 1)
        BY DEF KeyCore, s
    <2>2. QED BY <2>1
<1>6. ASSUME env.identified
      PROVE  /\ Consistent(s, env)
             /\ Threads(s) \in 1..(UINT16_MAX - 1) /\ s.core < Threads(s)
    <2>1. sel.cores # <<>> /\ Consistent(sel, env) BY <1>1, <1>6, UiState
    <2>2. Consistent(s, env) BY <2>1, SelIsSound, GetCoreKeepsConsistent
    <2>3. s.cores # <<>> BY <1>3, <2>1 DEF Keeps
    <2>4. Get(s, "type").at["type"] = s.at["type"] /\ s.at["type"] \in 0..(env.types - 1)
          /\ s.core \in 0..(env.cores[s.at["type"]] - 1)
        BY <1>2, <1>3, <2>2, <2>3, SelIsSound, GetKeepsConsistent
    <2>5. Threads(s) = env.cores[s.at["type"]] BY <1>6, <2>4 DEF Threads
    <2>6. env.cores[s.at["type"]] \in 1..(UINT16_MAX - 1) BY <2>4, SelIsSound, Environment
    <2>7. QED BY <2>2, <2>4, <2>5, <2>6, Widths
<1>7. ~env.identified => Threads(s) = 0 BY DEF Threads
<1>8. c \in 0..UINT16_MAX /\ (env.identified => c < Threads(s))
    <2>1. CASE env.identified
        <3>1. Threads(s) \in Nat /\ Threads(s) < UINT16_MAX BY <1>6, <2>1, Widths
        <3>2. QED BY <1>4, <1>5, <1>6, <2>1, <3>1, Widths
    <2>2. CASE ~env.identified BY <1>4, <1>5, <1>7, <2>2, Widths
    <2>3. QED BY <2>1, <2>2
<1>9. QED BY <1>1, <1>3, <1>5, <1>6, <1>8, CoreChosen

LEMMA ChangeActiveCoreInv == Inv /\ change_active_core => Inv'
<1> SUFFICES ASSUME Inv, change_active_core PROVE Inv'
    OBVIOUS
<1>1. Ui("gtk") /\ page' = page BY DEF change_active_core
<1>2. PICK c \in 0..(Threads(sel) - 1) : sel' = set_selected_core(sel, c) BY DEF change_active_core
<1>3. Threads(sel) \in Nat /\ Threads(sel) < UINT16_MAX
    <2>1. CASE env.identified
        <3>1. sel.cores # <<>> BY <1>1, <2>1, UiState
        <3>2. Get(sel, "type").at["type"] \in 0..(env.types - 1) BY <3>1, SelIsSound, TypeInRange
        <3>3. Threads(sel) \in 1..(UINT16_MAX - 1) BY <2>1, <3>2, SelIsSound, Environment DEF Threads
        <3>4. QED BY <3>3, Widths
    <2>2. CASE ~env.identified BY <2>2, Widths DEF Threads
    <2>3. QED BY <2>1, <2>2
<1>4. c \in 0..UINT16_MAX /\ c < Threads(sel) BY <1>2, <1>3, Widths
<1>5. Sound(sel, env) /\ Keeps(sel, sel) BY SelIsSound DEF Keeps
<1>6. env.identified => Consistent(sel, env) BY <1>1, UiState
<1>7. QED BY <1>1, <1>2, <1>4, <1>5, <1>6, CoreChosen

LEMMA ChangeActiveTypeInv == Inv /\ change_active_type => Inv'
<1> SUFFICES ASSUME Inv, change_active_type PROVE Inv'
    OBVIOUS
<1>1. Ui("gtk") /\ page' = page BY DEF change_active_type
<1>2. PICK t \in 0..(CpuTypes - 1) : sel' = GetCore(set_selected_type(sel, t)) BY DEF change_active_type
<1> DEFINE s == set_selected_type(sel, t)
<1>3. t \in 0..UINT8_MAX /\ (env.identified => t < env.types) BY <1>2, SelIsSound, Widths DEF CpuTypes
<1>4. Sound(s, env) /\ Keeps(sel, s) BY <1>3, SelIsSound, SetTypeProps
<1>5. Sound(sel', env) /\ Keeps(sel, sel') BY <1>2, <1>4, SelIsSound, GetCoreProps DEF Keeps
<1>6. ASSUME env.identified PROVE Consistent(sel', env)
    <2>1. sel.cores # <<>> BY <1>1, <1>6, UiState
    <2>2. s.cores # <<>> BY <1>4, <2>1 DEF Keeps
    <2>3. Consistent(s, env) BY <1>3, <1>6, <2>1, SelIsSound, SetTypeProps
    <2>4. QED BY <1>2, <1>4, <2>2, <2>3, SelIsSound, GetCoreKeepsConsistent
<1>7. page' \in Pages /\ visible[page'] BY <1>1, UiState
<1>8. QED BY <1>1, <1>5, <1>6, <1>7, UiInv

\* A test, a memory stick or a card that is selected leaves type and core alone.
LEMMA ItemChosen ==
    ASSUME Inv, NEW front, Ui(front), NEW s, Sound(s, env), Keeps(sel, s), UNCHANGED page,
           env.identified => Consistent(s, env), NEW f \in Fields \ {"type"}, NEW v \in 0..UINT8_MAX,
           sel' = Select(s, f, v)
    PROVE  Inv'
<1>1. "type" \in Fields \ {f} BY DEF Fields
<1>2. Sound(sel', env) /\ Keeps(s, sel') /\ sel'.core = s.core /\ sel'.affinity = s.affinity
    BY SelIsSound, SelectProps
<1>3. sel'.at["type"] = s.at["type"] BY <1>1, SelIsSound, SelectProps
<1>4. env.identified => Consistent(sel', env) BY <1>2, <1>3 DEF Consistent
<1>5. Keeps(sel, sel') BY <1>2 DEF Keeps
<1>6. page' \in Pages /\ visible[page'] BY UiState
<1>7. QED BY <1>2, <1>4, <1>5, <1>6, UiInv

LEMMA ItemsBounded ==
    ASSUME Inv, NEW i \in Items
    PROVE  i.field \in Fields \ {"type"} /\ i.num \in 0..UINT8_MAX
<1>1. EnvOK(env) BY SelIsSound, Environment
<1>2. env.gpus \in 0..UINT8_MAX /\ Sticks \in 0..UINT8_MAX /\ NumTests \in 0..UINT8_MAX
    BY <1>1, Widths, OptionsAssumption DEF EnvOK, Sticks
<1>3. QED BY <1>2 DEF Items, Fields

LEMMA KeyItemInv == Inv /\ KeyItem => Inv'
<1> SUFFICES ASSUME Inv, KeyItem PROVE Inv'
    OBVIOUS
<1>1. Ui("ncurses") /\ page' = page BY DEF KeyItem
<1>2. PICK i \in Items :
        LET s == Get(sel, i.field)
            v == s.at[i.field]
        IN  \/ v > 0 /\ sel' = Select(s, i.field, v - 1)
            \/ v + 1 < i.num /\ sel' = Select(s, i.field, v + 1)
    BY DEF KeyItem
<1> DEFINE f == i.field
           s == Get(sel, f)
           v == s.at[f]
<1>3. f \in Fields \ {"type"} /\ i.num \in 0..UINT8_MAX BY ItemsBounded
<1>4. Sound(s, env) /\ Keeps(sel, s) BY <1>3, SelIsSound, GetProps
<1>5. v \in 0..UINT8_MAX BY <1>3, <1>4 DEF Sound, SelType
<1>6. ASSUME env.identified PROVE Consistent(s, env)
    <2>1. sel.cores # <<>> /\ Consistent(sel, env) BY <1>1, <1>6, UiState
    <2>2. QED BY <1>3, <2>1, SelIsSound, GetKeepsConsistent
<1>7. CASE v > 0 /\ sel' = Select(s, f, v - 1)
    <2>1. v - 1 \in 0..UINT8_MAX BY <1>5, <1>7, Widths
    <2>2. QED BY <1>1, <1>3, <1>4, <1>6, <1>7, <2>1, ItemChosen
<1>8. CASE v + 1 < i.num /\ sel' = Select(s, f, v + 1)
    <2>1. v + 1 \in 0..UINT8_MAX BY <1>3, <1>5, <1>8, Widths
    <2>2. QED BY <1>1, <1>3, <1>4, <1>6, <1>8, <2>1, ItemChosen
<1>9. QED BY <1>2, <1>7, <1>8

LEMMA ChangeActiveItemInv == Inv /\ change_active_item => Inv'
<1> SUFFICES ASSUME Inv, change_active_item PROVE Inv'
    OBVIOUS
<1>1. Ui("gtk") /\ page' = page BY DEF change_active_item
<1>0. PICK i \in Items : \E v \in 0..(i.num - 1) : sel' = Select(sel, i.field, v)
    BY DEF change_active_item
<1>2. PICK v \in 0..(i.num - 1) : sel' = Select(sel, i.field, v) BY <1>0
<1>3. i.field \in Fields \ {"type"} /\ i.num \in 0..UINT8_MAX BY ItemsBounded
<1>4. v \in 0..UINT8_MAX BY <1>2, <1>3, Widths
<1>5. Sound(sel, env) /\ Keeps(sel, sel) BY SelIsSound DEF Keeps
<1>6. env.identified => Consistent(sel, env) BY <1>1, UiState
<1>7. QED BY <1>1, <1>2, <1>3, <1>4, <1>5, <1>6, ItemChosen

LEMMA NextInv == Inv /\ [Next]_vars => Inv'
<1> SUFFICES ASSUME Inv, [Next]_vars PROVE Inv'
    OBVIOUS
<1>1. CASE Startup
    BY <1>1, ParseOptionInv, InitPageVisibilityInv, LoadSettingsInv, CallLibcpuidInv, DevicesInv,
       FallbackInv, AbortInv, SaveSelectionInv, RunBandwidthInv, RestoreSelectionInv, ShowInv
    DEF Startup
<1>2. CASE Keys BY <1>2, KeyPageInv, KeyTypeInv, KeyCoreInv, KeyItemInv DEF Keys
<1>3. CASE Lists
    BY <1>3, SwitchPageInv, ChangeActiveTypeInv, ChangeActiveCoreInv, ChangeActiveItemInv DEF Lists
<1>4. CASE UNCHANGED vars
    <2>1. TypeOK' BY <1>4 DEF Inv, TypeOK, vars, inputs
    <2>2. KnownInv' BY <1>4 DEF Inv, SelInv, KnownInv, Identified, vars, inputs
    <2>3. PageInv' /\ AbortsOnlyUnknown'
        BY <1>4 DEF Inv, SelInv, PageInv, ShownPageVisible, AbortsOnlyUnknown, vars, inputs
    <2>4. PinInv' BY <1>4 DEF Inv, SelInv, PinInv, CacheTypes, Consistent, vars, inputs
    <2>5. QED BY <2>1, <2>2, <2>3, <2>4 DEF Inv, SelInv
<1>5. QED BY <1>1, <1>2, <1>3, <1>4 DEF Next

LEMMA AlwaysInv == Spec => []Inv
<1>1. Init => Inv BY InitInv
<1>2. Inv /\ [Next]_vars => Inv' BY NextInv
<1>3. QED BY <1>1, <1>2, PTL DEF Spec

-----------------------------------------------------------------------------
(* What was applied last.                                                  *)

\* Where the type and the core applied last are, while main() goes from the command line over
\* the settings to the interface.
AppliedInv ==
    AllStorable =>
        /\ phase = "parse" => sel.at["type"] = ArgsType(parsed) /\ sel.core = ArgsCore(parsed)
        /\ phase = "settings" =>
             sel.at["type"] = ArgsType(Len(args)) /\ sel.core = ArgsCore(Len(args))
        /\ phase \in {"identify", "devices", "fallback"} =>
             sel.at["type"] = AppliedType /\ sel.core = AppliedCore
        /\ env.identified /\ (phase = "first" \/ (phase = "show" /\ AllCached)) => AsApplied(sel)
        /\ env.identified /\ phase = "loop" =>
             /\ saved.type = Within(AppliedType, env.types)
             /\ saved.core = Within(AppliedCore, env.cores[saved.type])

LEMMA LastIndexType ==
    ASSUME NEW opt, NEW n \in Nat
    PROVE  LastIndex(opt, n) \in 0..n
<1>1. CASE \E j \in 1..n : IsLast(opt, n, j)
    <2>1. LastIndex(opt, n) \in 1..n BY <1>1 DEF LastIndex
    <2>2. QED BY <2>1
<1>2. CASE ~ \E j \in 1..n : IsLast(opt, n, j) BY <1>2 DEF LastIndex
<1>3. QED BY <1>1, <1>2

LEMMA LastIndexNext ==
    ASSUME NEW opt, NEW n \in Nat
    PROVE  LastIndex(opt, n + 1) = IF args[n + 1].opt = opt THEN n + 1 ELSE LastIndex(opt, n)
<1>1. CASE args[n + 1].opt = opt
    <2>1. IsLast(opt, n + 1, n + 1) BY <1>1 DEF IsLast
    <2>2. ASSUME NEW j \in 1..(n + 1), IsLast(opt, n + 1, j) PROVE j = n + 1
        <3>1. SUFFICES ASSUME j # n + 1 PROVE FALSE
            OBVIOUS
        <3>2. n + 1 \in (j + 1)..(n + 1) BY <3>1
        <3>3. QED BY <1>1, <2>2, <3>2 DEF IsLast
    <2>3. n + 1 \in 1..(n + 1) OBVIOUS
    <2>4. QED BY <1>1, <2>1, <2>2, <2>3 DEF LastIndex
<1>2. CASE args[n + 1].opt # opt
    <2>1. ASSUME NEW j \in 1..(n + 1)
          PROVE  IsLast(opt, n + 1, j) <=> j \in 1..n /\ IsLast(opt, n, j)
        <3>1. CASE j = n + 1 BY <1>2, <3>1 DEF IsLast
        <3>2. CASE j # n + 1
            <4>1. j \in 1..n /\ (j + 1)..(n + 1) = ((j + 1)..n) \cup {n + 1} BY <3>2
            <4>2. QED BY <1>2, <4>1 DEF IsLast
        <3>3. QED BY <3>1, <3>2
    <2>2. ASSUME NEW j \in 1..n PROVE j \in 1..(n + 1) OBVIOUS
    <2>3. ASSUME NEW j \in 1..n, IsLast(opt, n, j), NEW k \in 1..n, IsLast(opt, n, k) PROVE j = k
        <3>1. ~(j < k) BY <2>3 DEF IsLast
        <3>2. ~(k < j) BY <2>3 DEF IsLast
        <3>3. QED BY <3>1, <3>2
    <2>4. CASE \E j \in 1..n : IsLast(opt, n, j)
        <3>1. PICK j \in 1..n : IsLast(opt, n, j) BY <2>4
        <3>2. LastIndex(opt, n) = j BY <2>3, <3>1 DEF LastIndex
        <3>3. LastIndex(opt, n + 1) = j BY <2>1, <2>2, <2>3, <3>1 DEF LastIndex
        <3>4. QED BY <1>2, <3>2, <3>3
    <2>5. CASE ~ \E j \in 1..n : IsLast(opt, n, j)
        <3>1. ~ \E j \in 1..(n + 1) : IsLast(opt, n + 1, j) BY <2>1, <2>5
        <3>2. QED BY <1>2, <2>5, <3>1 DEF LastIndex
    <2>6. QED BY <2>4, <2>5
<1>3. QED BY <1>1, <1>2

\* One more option of the command line.
LEMMA ArgsNext ==
    ASSUME NEW n \in Nat, args[n + 1].val \in Nat
    PROVE  LET arg == args[n + 1]
           IN  /\ ArgsType(n + 1) = IF arg.opt = "type" THEN arg.val ELSE ArgsType(n)
               /\ ArgsCore(n + 1) = IF arg.opt = "type" THEN 0
                                    ELSE IF arg.opt = "core" THEN arg.val ELSE ArgsCore(n)
<1> DEFINE arg == args[n + 1]
<1>1. LastIndex("type", n) \in 0..n /\ LastIndex("core", n) \in 0..n BY LastIndexType
<1>2. /\ LastIndex("type", n + 1) = IF arg.opt = "type" THEN n + 1 ELSE LastIndex("type", n)
      /\ LastIndex("core", n + 1) = IF arg.opt = "core" THEN n + 1 ELSE LastIndex("core", n)
    BY LastIndexNext
<1>3. ArgsType(n + 1) = IF arg.opt = "type" THEN arg.val ELSE ArgsType(n)
    BY <1>1, <1>2 DEF ArgsType, LastArg
<1>4. CASE arg.opt = "type"
    <2>1. ~(LastIndex("core", n + 1) > LastIndex("type", n + 1)) BY <1>1, <1>2, <1>4
    <2>2. QED BY <1>3, <1>4, <2>1 DEF ArgsCore, LastArg
<1>5. CASE arg.opt = "core" BY <1>1, <1>2, <1>3, <1>5 DEF ArgsCore, LastArg
<1>6. CASE arg.opt \notin {"type", "core"} BY <1>2, <1>3, <1>6 DEF ArgsCore, LastArg
<1>7. QED BY <1>4, <1>5, <1>6

\* Before the types are counted every value that can be stored is accepted.
LEMMA ApplyUnknown ==
    ASSUME NEW e \in Environments, NEW s, Sound(s, e), s.cores = <<>>, s.max["type"] = NotKnown,
           NEW opt \in Fields \cup {"page", "core"}, NEW val \in Nat, Storable(opt, val),
           NEW r, r = Apply(s, opt, val)
    PROVE  /\ Sound(r, e) /\ r.cores = <<>> /\ r.max["type"] = NotKnown
           /\ opt = "type" => r.at["type"] = val /\ r.core = 0
           /\ opt = "core" => r.at["type"] = s.at["type"] /\ r.core = val
           /\ opt \notin {"type", "core"} => r.at["type"] = s.at["type"] /\ r.core = s.core
<1>1. Sound(r, e) /\ Keeps(s, r) BY ApplyProps
<1>2. "type" \in Fields /\ NotKnown = UINT8_MAX BY DEF Fields, NotKnown
<1>3. ASSUME NEW t, Sound(t, e), t.cores = <<>>, NEW c \in 0..UINT16_MAX
      PROVE  set_selected_core(t, c).core = c /\ set_selected_core(t, c).at = t.at
    <2> DEFINE b == [t EXCEPT !.core = c]
    <2>1. set_selected_core(t, c) = Pin(b)
        BY <1>3 DEF set_selected_core, check_selected_core_valid, AfterCheck
    <2>2. Sound(b, e) /\ b.core = c /\ b.at = t.at BY <1>3 DEF Sound, SelType
    <2>3. QED BY <2>1, <2>2, PinProps
<1>4. CASE opt = "page" BY <1>1, <1>4 DEF Apply, Keeps
<1>5. CASE opt = "core"
    <2>1. val \in 0..UINT16_MAX BY <1>5, Widths DEF Storable
    <2>2. r = set_selected_core(s, val) BY <1>5, <2>1, Remainder, Widths DEF Apply
    <2>3. QED BY <1>1, <1>3, <1>5, <2>1, <2>2 DEF Keeps
<1>6. CASE opt = "type"
    <2> DEFINE a == Select(s, "type", val)
    <2>1. val \in 0..UINT8_MAX /\ val < s.max["type"] BY <1>2, <1>6, Widths DEF Storable
    <2>2. r = set_selected_core(a, 0) BY <1>6, <2>1, Remainder, Widths DEF Apply, set_selected_type
    <2>3. Sound(a, e) /\ Keeps(s, a) /\ a.at["type"] = val BY <1>2, <2>1, SelectProps
    <2>4. r.core = 0 /\ r.at = a.at BY <1>3, <2>2, <2>3, Widths DEF Keeps
    <2>5. QED BY <1>1, <1>6, <2>3, <2>4 DEF Keeps
<1>7. CASE opt \in Fields \ {"type"}
    <2>1. r = Select(s, opt, val % (UINT8_MAX + 1)) /\ val % (UINT8_MAX + 1) \in 0..UINT8_MAX
        BY <1>7, Remainder, Widths DEF Apply, Fields
    <2>2. "type" \in Fields \ {opt} /\ opt \notin {"type", "core"} BY <1>7 DEF Fields
    <2>3. r.core = s.core BY <1>7, <2>1, SelectProps
    <2>4. r.at["type"] = s.at["type"] BY <1>7, <2>1, <2>2, SelectProps
    <2>5. QED BY <1>1, <2>2, <2>3, <2>4 DEF Keeps
<1>8. QED BY <1>4, <1>5, <1>6, <1>7 DEF Fields

\* The inputs never change, and with them what is applied last.
LEMMA AppliedSame ==
    ASSUME UNCHANGED inputs
    PROVE  /\ ArgsType(Len(args))' = ArgsType(Len(args)) /\ ArgsCore(Len(args))' = ArgsCore(Len(args))
           /\ AppliedType' = AppliedType /\ AppliedCore' = AppliedCore
           /\ AllStorable' <=> AllStorable
           /\ AllCached' <=> AllCached
<1>1. env' = env /\ args' = args /\ settings' = settings BY DEF inputs
<1>2. ArgsType(Len(args))' = ArgsType(Len(args)) BY <1>1 DEF ArgsType, LastArg, LastIndex, IsLast
<1>3. ArgsCore(Len(args))' = ArgsCore(Len(args)) BY <1>1 DEF ArgsCore, LastArg, LastIndex, IsLast
<1>4. AppliedType' = AppliedType /\ AppliedCore' = AppliedCore BY <1>1, <1>2, <1>3 DEF AppliedType, AppliedCore
<1>5. AllStorable' <=> AllStorable BY <1>1 DEF AllStorable
<1>6. AllCached' <=> AllCached BY <1>1 DEF AllCached
<1>7. QED BY <1>2, <1>3, <1>4, <1>5, <1>6

LEMMA InitApplied == Init => AppliedInv
<1> SUFFICES ASSUME Init PROVE AppliedInv
    OBVIOUS
<1>1. phase = "parse" /\ parsed = 0 /\ sel.at["type"] = 0 /\ sel.core = 0 BY DEF Init, NoSel, Fields
<1>2. LastIndex("type", 0) = 0 /\ LastIndex("core", 0) = 0 BY LastIndexType
<1>3. ArgsType(0) = 0 /\ ArgsCore(0) = 0 BY <1>2 DEF ArgsType, ArgsCore, LastArg
<1>4. QED BY <1>1, <1>3 DEF AppliedInv

LEMMA ParseApplied == Inv /\ AppliedInv /\ ParseOption => AppliedInv'
<1> SUFFICES ASSUME Inv, AppliedInv, AllStorable, ParseOption PROVE AppliedInv'
    BY AppliedSame DEF AppliedInv, ParseOption
<1> DEFINE arg == args[parsed + 1]
<1>1. phase = "parse" /\ phase' = "parse" /\ args' = args /\ parsed' = parsed + 1
      /\ sel' = Apply(sel, arg.opt, arg.val)
    BY DEF ParseOption, inputs
<1>2. parsed \in Nat /\ parsed + 1 \in 1..Len(args) /\ arg \in ArgType
    BY <1>1 DEF ParseOption, Inv, TypeOK
<1>3. arg.opt \in Fields \cup {"page", "core"} /\ arg.val \in Nat BY <1>2 DEF ArgType
<1>4. Storable(arg.opt, arg.val) BY <1>2 DEF AllStorable
<1>5. sel.cores = <<>> /\ sel.max["type"] = NotKnown BY <1>1 DEF Inv, SelInv, KnownInv, Identified
<1>6. /\ arg.opt = "type" => sel'.at["type"] = arg.val /\ sel'.core = 0
      /\ arg.opt = "core" => sel'.at["type"] = sel.at["type"] /\ sel'.core = arg.val
      /\ arg.opt \notin {"type", "core"} => sel'.at["type"] = sel.at["type"] /\ sel'.core = sel.core
    <2>1. PICK opt \in Fields \cup {"page", "core"}, val \in Nat : opt = arg.opt /\ val = arg.val BY <1>3
    <2>2. Storable(opt, val) /\ sel' = Apply(sel, opt, val) BY <1>1, <1>4, <2>1
    <2> DEFINE r == Apply(sel, opt, val)
    <2>3. /\ opt = "type" => r.at["type"] = val /\ r.core = 0
          /\ opt = "core" => r.at["type"] = sel.at["type"] /\ r.core = val
          /\ opt \notin {"type", "core"} => r.at["type"] = sel.at["type"] /\ r.core = sel.core
        <3>1. env \in Environments /\ Sound(sel, env) BY SelIsSound
        <3>2. r = Apply(sel, opt, val) /\ val \in Nat /\ opt \in Fields \cup {"page", "core"} OBVIOUS
        <3> HIDE DEF r
        <3>3. QED BY ONLY <1>5, <2>2, <3>1, <3>2, ApplyUnknown
    <2>4. QED BY <2>1, <2>2, <2>3
<1>7. sel.at["type"] = ArgsType(parsed) /\ sel.core = ArgsCore(parsed) BY <1>1 DEF AppliedInv
<1>8. sel'.at["type"] = ArgsType(parsed + 1) /\ sel'.core = ArgsCore(parsed + 1)
    BY <1>2, <1>3, <1>6, <1>7, ArgsNext
<1>9. ArgsType(parsed)' = ArgsType(parsed + 1) BY <1>1 DEF ArgsType, LastArg, LastIndex, IsLast
<1>10. ArgsCore(parsed)' = ArgsCore(parsed + 1) BY <1>1 DEF ArgsCore, LastArg, LastIndex, IsLast
<1>11. QED BY <1>1, <1>8, <1>9, <1>10 DEF AppliedInv

LEMMA SettingsApplied == Inv /\ AppliedInv /\ load_settings => AppliedInv'
<1> SUFFICES ASSUME Inv, AppliedInv, AllStorable, load_settings PROVE AppliedInv'
    BY AppliedSame DEF AppliedInv, load_settings
<1> DEFINE keyed(t, k) == Apply(t, k, settings[k])
           Unknown(t) == Sound(t, env) /\ t.cores = <<>> /\ t.max["type"] = NotKnown
<1>1. phase = "settings" /\ phase' = "identify" /\ UNCHANGED inputs BY DEF load_settings
<1>2. Unknown(sel) BY <1>1, SelIsSound DEF Inv, SelInv, KnownInv, Identified
<1>3. ASSUME NEW t, Unknown(t), NEW k \in Fields \cup {"core"}
      PROVE  /\ Unknown(keyed(t, k))
             /\ k = "type" => keyed(t, k).at["type"] = settings[k]
             /\ k = "core" => keyed(t, k).at["type"] = t.at["type"] /\ keyed(t, k).core = settings[k]
             /\ k \notin {"type", "core"} =>
                   keyed(t, k).at["type"] = t.at["type"] /\ keyed(t, k).core = t.core
    <2>1. settings[k] \in Nat /\ k \in DOMAIN settings BY DEF Inv, TypeOK, SettingsType
    <2>2. Storable(k, settings[k]) BY <2>1 DEF AllStorable
    <2> DEFINE r == keyed(t, k)
               v == settings[k]
    <2>3. env \in Environments BY SelIsSound
    <2>4. r = Apply(t, k, v) /\ v \in Nat /\ Storable(k, v) BY <2>1, <2>2
    <2>5. k \in Fields \cup {"page", "core"} /\ Sound(t, env) /\ t.cores = <<>> /\ t.max["type"] = NotKnown
        BY <1>3
    <2> HIDE DEF r, v
    <2>6. /\ Sound(r, env) /\ r.cores = <<>> /\ r.max["type"] = NotKnown
          /\ k = "type" => r.at["type"] = v /\ r.core = 0
          /\ k = "core" => r.at["type"] = t.at["type"] /\ r.core = v
          /\ k \notin {"type", "core"} => r.at["type"] = t.at["type"] /\ r.core = t.core
        BY ONLY <2>3, <2>4, <2>5, ApplyUnknown
    <2>7. QED BY <2>6 DEF r, v
<1>4. sel'.at["type"] = AppliedType /\ sel'.core = AppliedCore
    <2>1. CASE env.hasGtk
        <3> DEFINE s1 == keyed(sel, "type")
                   s2 == keyed(s1, "core")
                   s3 == keyed(s2, "test")
                   s4 == keyed(s3, "stick")
                   s5 == keyed(s4, "gpu")
        <3>1. sel' = s5 BY <2>1 DEF load_settings
        <3> HIDE DEF keyed, Unknown
        <3>2. Unknown(s1) /\ s1.at["type"] = settings["type"] BY <1>2, <1>3 DEF Fields
        <3>3. Unknown(s2) /\ s2.at["type"] = s1.at["type"] /\ s2.core = settings["core"] BY <1>3, <3>2
        <3>4. Unknown(s3) /\ s3.at["type"] = s2.at["type"] /\ s3.core = s2.core BY <1>3, <3>3 DEF Fields
        <3>5. Unknown(s4) /\ s4.at["type"] = s3.at["type"] /\ s4.core = s3.core BY <1>3, <3>4 DEF Fields
        <3>6. s5.at["type"] = s4.at["type"] /\ s5.core = s4.core BY <1>3, <3>5 DEF Fields
        <3>7. QED BY <2>1, <3>1, <3>2, <3>3, <3>4, <3>5, <3>6 DEF AppliedType, AppliedCore
    <2>2. CASE ~env.hasGtk BY <1>1, <2>2 DEF load_settings, AppliedInv, AppliedType, AppliedCore
    <2>3. QED BY <2>1, <2>2
<1>5. QED BY <1>1, <1>4, AppliedSame DEF AppliedInv

\* The bounds change in the two steps of the identification, the selection does not.
LEMMA IdentifyApplied ==
    Inv /\ AppliedInv /\ (init_page_visibility \/ call_libcpuid_static \/ Devices) => AppliedInv'
<1> SUFFICES ASSUME Inv, AppliedInv, AllStorable, init_page_visibility \/ call_libcpuid_static \/ Devices
             PROVE  AppliedInv'
    BY AppliedSame DEF AppliedInv, init_page_visibility, call_libcpuid_static, Devices
<1>1. sel \in SelType(env.cores) BY DEF Inv, TypeOK
<1>2. CASE init_page_visibility
    <2>1. phase = "parse" /\ phase' = "settings" /\ UNCHANGED <<inputs, sel>> /\ parsed = Len(args)
        BY <1>2 DEF init_page_visibility
    <2>2. QED BY <2>1, AppliedSame DEF AppliedInv
<1>3. CASE call_libcpuid_static
    <2>1. phase = "identify" /\ phase' = "devices" /\ UNCHANGED inputs BY <1>3 DEF call_libcpuid_static
    <2>2. sel'.at = sel.at /\ sel'.core = sel.core BY <1>1, <1>3 DEF call_libcpuid_static, SelType
    <2>3. QED BY <2>1, <2>2, AppliedSame DEF AppliedInv
<1>4. CASE Devices
    <2>1. phase = "devices" /\ phase' = "fallback" /\ UNCHANGED inputs BY <1>4 DEF Devices
    <2>2. sel'.at = sel.at /\ sel'.core = sel.core BY <1>1, <1>4 DEF Devices, SelType
    <2>3. QED BY <2>1, <2>2, AppliedSame DEF AppliedInv
<1>5. QED BY <1>2, <1>3, <1>4

\* The getters put what the processor does not have to 0.
LEMMA FallbackApplied == Inv /\ AppliedInv /\ fallback_mode_static => AppliedInv'
<1> SUFFICES ASSUME Inv, AppliedInv, AllStorable, fallback_mode_static PROVE AppliedInv'
    BY AppliedSame DEF AppliedInv, fallback_mode_static
<1> DEFINE s == Get(sel, "type")
           t == s.at["type"]
<1>1. phase = "fallback" /\ phase' = "first" /\ UNCHANGED inputs /\ env' = env /\ sel' = GetCore(s)
    BY DEF fallback_mode_static, inputs
<1>2. sel.at["type"] = AppliedType /\ sel.core = AppliedCore BY <1>1 DEF AppliedInv
<1>3. "type" \in Fields BY DEF Fields
<1>4. ASSUME env.identified PROVE AsApplied(sel')
    <2>1. sel.cores # <<>> /\ sel.cores = env.cores /\ sel.max["type"] = env.types
        BY <1>1, <1>4, SelIsSound DEF Identified, Inv, SelInv, KnownInv
    <2>2. Sound(s, env) /\ Keeps(sel, s) /\ s.core = sel.core
          /\ t = IF sel.at["type"] < env.types THEN sel.at["type"] ELSE 0
        BY <1>3, <2>1, SelIsSound, GetProps
    <2>3. t \in 0..(env.types - 1) BY <2>1, SelIsSound, TypeInRange
    <2>4. s.cores = env.cores /\ s.cores # <<>> /\ s.max["type"] = env.types BY <2>1, <2>2 DEF Keeps
    <2>5. Get(s, "type").at["type"] = t BY <1>3, <2>2, <2>3, <2>4, SelIsSound, GetProps
    <2>6. sel'.at["type"] = t BY <1>1, <2>2, <2>4, <2>5, SelIsSound, GetCoreProps
    <2>7. s.core \in 0..UINT16_MAX BY <2>2 DEF Sound, SelType
    <2>8. sel'.core = IF check_selected_core_valid(s, s.core) THEN s.core ELSE 0
        BY <1>1, <2>2, <2>7, SelIsSound, AfterCheckProps DEF GetCore
    <2>9. check_selected_core_valid(s, s.core) <=> s.core < env.cores[t]
        BY <2>4, <2>5 DEF check_selected_core_valid
    <2>10. QED BY <1>2, <2>2, <2>6, <2>8, <2>9 DEF AsApplied, Within
<1>5. env.identified => AsApplied(sel)' BY <1>1, <1>4, AppliedSame DEF AsApplied
<1>6. QED BY <1>1, <1>5, AppliedSame DEF AppliedInv

LEMMA SaveApplied == Inv /\ AppliedInv /\ SaveSelection => AppliedInv'
<1> SUFFICES ASSUME Inv, AppliedInv, AllStorable, SaveSelection PROVE AppliedInv'
    BY AppliedSame DEF AppliedInv, SaveSelection
<1>1. /\ phase = "first" /\ phase' = "loop" /\ UNCHANGED inputs /\ env' = env
      /\ saved' = [type |-> Get(sel, "type").at["type"], core |-> GetCore(sel).core]
    BY DEF SaveSelection, inputs
<1>2. "type" \in Fields BY DEF Fields
<1>3. ASSUME env.identified
      PROVE  saved'.type = sel.at["type"] /\ saved'.core = sel.core
    <2>1. sel.cores # <<>> /\ sel.cores = env.cores /\ sel.max["type"] = env.types
        BY <1>1, <1>3, SelIsSound DEF Identified, Inv, SelInv, KnownInv
    <2>2. AsApplied(sel) BY <1>1, <1>3 DEF AppliedInv
    <2>3. sel.at["type"] \in 0..UINT8_MAX /\ sel.core \in 0..UINT16_MAX
        BY <1>2, SelIsSound DEF Sound, SelType
    <2>4. sel.at["type"] < env.types BY <2>2, <2>3, SelIsSound DEF AsApplied, Within
    <2>5. Get(sel, "type").at["type"] = sel.at["type"] BY <1>2, <2>1, <2>4, SelIsSound, GetProps
    <2>6. sel.at["type"] \in 0..(env.types - 1) BY <2>3, <2>4, SelIsSound, Widths
    <2>7. env.cores[sel.at["type"]] \in 1..(UINT16_MAX - 1) BY <2>6, SelIsSound, Environment
    <2>8. sel.core < env.cores[sel.at["type"]] BY <2>2, <2>7, Widths DEF AsApplied, Within
    <2>9. check_selected_core_valid(sel, sel.core) BY <2>1, <2>5, <2>8 DEF check_selected_core_valid
    <2>10. GetCore(sel).core = sel.core BY <2>3, <2>9, SelIsSound, AfterCheckProps DEF GetCore
    <2>11. QED BY <1>1, <2>5, <2>10
<1>4. env.identified =>
        /\ saved'.type = Within(AppliedType, env.types)
        /\ saved'.core = Within(AppliedCore, env.cores[saved'.type])
    BY <1>1, <1>3 DEF AppliedInv, AsApplied
<1>5. QED BY <1>1, <1>4, AppliedSame DEF AppliedInv, Within

LEMMA RunApplied == Inv /\ AppliedInv /\ RunBandwidth => AppliedInv'
<1> SUFFICES ASSUME Inv, AppliedInv, AllStorable, RunBandwidth PROVE AppliedInv'
    BY AppliedSame DEF AppliedInv, RunBandwidth
<1>1. /\ phase = "loop" /\ UNCHANGED <<inputs, saved>> /\ env' = env /\ cpu_type < CacheTypes
      /\ phase' = IF env.caches[cpu_type] = 0 THEN "show" ELSE phase
    BY DEF RunBandwidth, inputs
<1>2. phase' = "show" /\ env.identified => ~AllCached
    <2>1. SUFFICES ASSUME phase' = "show", env.identified PROVE ~AllCached
        OBVIOUS
    <2>2. cpu_type \in 0..UINT8_MAX BY DEF Inv, TypeOK
    <2>3. cpu_type \in 0..(env.types - 1) BY <1>1, <2>1, <2>2, SelIsSound, Widths DEF CacheTypes
    <2>4. env.caches[cpu_type] = 0 BY <1>1, <2>1
    <2>5. QED BY <2>3, <2>4 DEF AllCached
<1>3. QED BY <1>1, <1>2, AppliedSame DEF AppliedInv, Within

LEMMA RestoreApplied == Inv /\ AppliedInv /\ RestoreSelection => AppliedInv'
<1> SUFFICES ASSUME Inv, AppliedInv, AllStorable, RestoreSelection PROVE AppliedInv'
    BY AppliedSame DEF AppliedInv, RestoreSelection
<1> DEFINE s1 == set_selected_type(sel, saved.type)
<1>1. /\ phase = "loop" /\ phase' = "show" /\ UNCHANGED inputs /\ env' = env
      /\ sel' = set_selected_core(s1, saved.core)
    BY DEF RestoreSelection, inputs
<1>2. ASSUME env.identified PROVE AsApplied(sel')
    <2>1. saved.type < env.types /\ saved.core < env.cores[saved.type]
        BY <1>1, <1>2 DEF Inv, SelInv, PinInv
    <2>2. saved.type \in 0..UINT8_MAX /\ saved.core \in 0..UINT16_MAX BY DEF Inv, TypeOK
    <2>3. sel.cores # <<>> BY <1>1, <1>2, SelIsSound DEF Identified
    <2>4. Sound(s1, env) /\ Keeps(sel, s1) /\ s1.at["type"] = saved.type
        BY <2>1, <2>2, <2>3, SelIsSound, SetTypeProps
    <2>5. saved.type \in 0..(env.types - 1) BY <2>1, <2>2, SelIsSound, Widths
    <2>6. env.cores[saved.type] \in 1..(UINT16_MAX - 1) BY <2>5, SelIsSound, Environment
    <2>7. saved.core \in 0..(env.cores[saved.type] - 1) BY <2>1, <2>2, <2>6, Widths
    <2>8. s1.cores # <<>> BY <2>3, <2>4 DEF Keeps
    <2>9. sel'.at["type"] = saved.type /\ sel'.core = saved.core
        BY <1>1, <2>2, <2>4, <2>5, <2>7, <2>8, SelIsSound, SetCoreProps
    <2>10. QED BY <1>1, <1>2, <2>9 DEF AppliedInv, AsApplied
<1>3. env.identified => AsApplied(sel)' BY <1>1, <1>2, AppliedSame DEF AsApplied
<1>4. QED BY <1>1, <1>3, AppliedSame DEF AppliedInv

LEMMA NextApplied == Inv /\ AppliedInv /\ [Next]_vars => AppliedInv'
<1> SUFFICES ASSUME Inv, AppliedInv, [Next]_vars PROVE AppliedInv'
    OBVIOUS
<1>1. CASE Abort \/ Show \/ Keys \/ Lists
    <2>1. phase' \in {"died", "ui"}
        BY <1>1 DEF Abort, Show, Keys, Lists, KeyPage, KeyType, KeyCore, KeyItem, SwitchPage,
                    change_active_type, change_active_core, change_active_item, Ui
    <2>2. QED BY <2>1 DEF AppliedInv
<1>2. CASE Startup
    BY <1>1, <1>2, ParseApplied, SettingsApplied, IdentifyApplied, FallbackApplied, SaveApplied, RunApplied, RestoreApplied
    DEF Startup
<1>3. CASE UNCHANGED vars
    <2>1. UNCHANGED <<inputs, phase, sel, saved, parsed, env, args>> BY <1>3 DEF vars, inputs
    <2>2. ArgsType(parsed)' = ArgsType(parsed) BY <2>1 DEF ArgsType, LastArg, LastIndex, IsLast
    <2>3. ArgsCore(parsed)' = ArgsCore(parsed) BY <2>1 DEF ArgsCore, LastArg, LastIndex, IsLast
    <2>4. AsApplied(sel)' <=> AsApplied(sel) BY <2>1, AppliedSame DEF AsApplied
    <2>5. QED BY <2>1, <2>2, <2>3, <2>4, AppliedSame DEF AppliedInv, Within
<1>4. QED BY <1>1, <1>2, <1>3 DEF Next

-----------------------------------------------------------------------------
(* The theorems.                                                           *)

\* Every variable keeps its type: what the setters and getters store stays within the widths of
\* Options' members, for any options, settings and processor (options.hpp, options.cpp:136-384).
THEOREM OptionsTypeCorrect == Spec => []TypeOK
<1>1. Inv => TypeOK BY DEF Inv
<1>2. QED BY <1>1, AlwaysInv, PTL

\* No interface shows a page that is hidden, whatever --tab, the settings, the keys and the
\* hardware say (options.cpp:136-192).
THEOREM ShownPageVisibleHolds == Spec => []ShownPageVisible
<1>1. Inv => ShownPageVisible BY DEF Inv, SelInv, PageInv
<1>2. QED BY <1>1, AlwaysInv, PTL

\* In the interface the program is pinned to the CPU it shows, for any number of types and of
\* cores of each; the number of that CPU does not wrap (options.cpp:318-384).
THEOREM AffinityFollowsHolds == Spec => []AffinityFollows
<1>1. Inv => AffinityFollows BY DEF Inv, SelInv, PinInv, Consistent, AffinityFollows
<1>2. QED BY <1>1, AlwaysInv, PTL

\* at() never throws on a processor that libcpuid identified, whatever type was asked for
\* (data.cpp:136-142).
THEOREM AbortsOnlyUnknownHolds == Spec => []AbortsOnlyUnknown
<1>1. Inv => AbortsOnlyUnknown BY DEF Inv, SelInv
<1>2. QED BY <1>1, AlwaysInv, PTL

\* On an identified processor whose types all have caches the interface opens with the type and
\* the core applied last (of the settings in a build with GTK, of the command line in the
\* others), for every command line and every settings whose values fit
\* (main.cpp:310-314, options.cpp:318-384, libbandwidth.cpp:98-125).
THEOREM KeepsApplied == Spec => StartKeepsApplied
<1> DEFINE Step == phase # "ui" /\ phase' = "ui" /\ env.identified /\ AllCached /\ AllStorable => AsApplied(sel')
<1>1. Inv /\ AppliedInv /\ [Next]_vars => [Step]_vars
    <2>1. SUFFICES ASSUME Inv, AppliedInv, Next, phase # "ui", phase' = "ui", env.identified, AllCached, AllStorable
                   PROVE  AsApplied(sel')
        OBVIOUS
    <2>2. Show
        BY <2>1 DEF Next, Startup, Keys, Lists, ParseOption, init_page_visibility, load_settings,
                    call_libcpuid_static, Devices, fallback_mode_static, Abort, SaveSelection, RunBandwidth,
                    RestoreSelection, KeyPage, KeyType, KeyCore, KeyItem, SwitchPage, change_active_type,
                    change_active_core, change_active_item, Ui
    <2>3. phase = "show" /\ sel' = Get(sel, "type") /\ "type" \in Fields BY <2>2 DEF Show, Fields
    <2>4. AsApplied(sel) BY <2>1, <2>3 DEF AppliedInv
    <2>5. sel.max["type"] = env.types /\ sel.at["type"] \in 0..UINT8_MAX
        BY <2>1, <2>3 DEF Identified, Inv, SelInv, KnownInv, TypeOK, SelType
    <2>6. sel.at["type"] < env.types BY <2>1, <2>4, <2>5, SelIsSound DEF AsApplied, Within
    <2>7. sel'.at["type"] = sel.at["type"] /\ sel'.core = sel.core
        BY <2>1, <2>3, <2>5, <2>6, SelIsSound, GetProps
    <2>8. QED BY <2>4, <2>7 DEF AsApplied
<1>2. Init => AppliedInv BY InitApplied
<1>3. Inv /\ AppliedInv /\ [Next]_vars => AppliedInv' BY NextApplied
<1>4. QED BY <1>1, <1>2, <1>3, AlwaysInv, PTL DEF Spec, StartKeepsApplied
=============================================================================
