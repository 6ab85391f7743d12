----------------------------- MODULE MCOptions -----------------------------
EXTENDS Options

\* A hybrid processor with two types of two and one cores, and a plain one with three.
Hybrid == [types |-> 2, cores |-> [t \in 0..1 |-> 2 - t], caches |-> [t \in 0..1 |-> 3]]
Plain  == [types |-> 1, cores |-> [t \in {0} |-> 3], caches |-> [t \in {0} |-> 1]]
\* An ARM processor: libcpuid finds no cache of the first type, or of the second.
Bare(t) == [Hybrid EXCEPT !.caches[t] = 0]

Processors == {Hybrid, Plain, Bare(0), Bare(1)}

Env(cpu, s, g, d, i, b, gtk, f) ==
    [types |-> cpu.types, cores |-> cpu.cores, caches |-> cpu.caches, sticks |-> s, gpus |-> g,
     daemon |-> d, identified |-> i, board |-> b, hasGtk |-> gtk, front |-> f]

Envs ==
    {Env(c, s, g, d, i, b, gtk, f) :
        c \in Processors, s \in {2}, g \in {0, 2}, d \in BOOLEAN, i \in BOOLEAN, b \in BOOLEAN,
        gtk \in BOOLEAN, f \in {"gtk", "ncurses"}}

MCEnvironments == {e \in Envs : EnvOK(e) /\ (e.identified \/ e.types = 1)}

Opt(o, v) == [opt |-> o, val |-> v]
MCArgLists ==
    {<<>>, <<Opt("type", 1)>>, <<Opt("core", 1)>>, <<Opt("type", 1), Opt("core", 1)>>,
     <<Opt("core", 2), Opt("type", 256)>>, <<Opt("type", 2), Opt("core", 1)>>,
     <<Opt("page", 5), Opt("stick", 1)>>, <<Opt("page", 9), Opt("gpu", 1), Opt("test", 1)>>}

Stored(p, t, c) ==
    [k \in Fields \cup {"page", "core"} |->
        CASE k = "page" -> p [] k = "type" -> t [] k = "core" -> c [] OTHER -> 1]
MCSettingsSet == {Stored(0, 0, 0), Stored(2, 1, 0), Stored(3, 1, 1), Stored(1, 0, 2)}
=============================================================================
