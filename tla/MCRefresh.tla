----------------------------- MODULE MCRefresh -----------------------------
EXTENDS Refresh

\* Processors: a plain one with MSRs, one whose second type has none, one without libcpuid's
\* clock whose sensors appear with a module, one for which everything is forced.
Plain == [cores |-> <<{0}>>, msr |-> <<{"temperature", "voltage"}>>, x86 |-> TRUE, clock |-> TRUE,
          bus |-> TRUE, labels |-> "none", generic |-> FALSE, zenpower |-> FALSE, loaded |-> TRUE,
          module |-> FALSE, cpufreq |-> {0}, forced |-> {}]
Hybrid == [Plain EXCEPT !.cores = <<{0, 1}, {2}>>, !.msr = <<{"temperature", "voltage"}, {}>>,
                        !.labels = "core", !.loaded = FALSE, !.module = TRUE, !.cpufreq = {0, 1, 2}]
Arm == [Plain EXCEPT !.cores = <<{0, 1}>>, !.x86 = FALSE, !.msr = <<{}>>, !.clock = FALSE,
                     !.labels = "all", !.loaded = FALSE, !.cpufreq = {0}]
Forced == [Hybrid EXCEPT !.labels = "none", !.generic = TRUE, !.zenpower = TRUE,
                         !.forced = Readings]

NoCards == [cards |-> 0, vendor |-> <<>>, model |-> <<>>, driver |-> <<>>, egl |-> <<>>, vk |-> <<>>,
            cl |-> <<>>, flaky |-> {}, switches |-> 0,
            debug |-> FALSE, smi |-> FALSE]

Two(d, e, v, w) ==
    [NoCards EXCEPT !.cards = 2, !.vendor = <<v, w>>, !.model = <<1, 2>>, !.driver = <<d, e>>,
                    !.smi = TRUE, !.switches = 3]

Computer(cpu, gpu, page, d) ==
    [k \in DOMAIN cpu \cup DOMAIN gpu \cup {"page", "daemon"} |->
        IF k = "page" THEN page ELSE IF k = "daemon" THEN d
        ELSE IF k \in DOMAIN cpu THEN cpu[k] ELSE gpu[k]]

Vk(c, p) == [card |-> c, pci |-> p]
Cl(c, t) == [card |-> c, topology |-> t]

\* The probes of one card go wrong in turn; two cards of one vendor in the other order.
Probing ==
    {[Two("amdgpu", "i915", "AMD", "Intel") EXCEPT
        !.cards = 1, !.vendor = <<"AMD">>, !.model = <<1>>, !.driver = <<"xe">>,
        !.egl = <<1>>, !.vk = <<Vk(1, TRUE)>>, !.cl = <<Cl(1, TRUE)>>, !.flaky = {"gl", "vk", "cl"},
        !.switches = 1],
     [Two("amdgpu", "amdgpu", "AMD", "AMD") EXCEPT
        !.egl = <<2, 1>>, !.vk = <<Vk(2, TRUE), Vk(1, TRUE)>>, !.cl = <<Cl(2, TRUE), Cl(1, FALSE)>>, !.switches = 1],
     [Two("i915", "nvidia", "Intel", "NVIDIA") EXCEPT
        !.vk = <<Vk(2, FALSE), Vk(1, TRUE)>>, !.cl = <<Cl(2, TRUE), Cl(1, TRUE)>>, !.flaky = {"vk"}, !.switches = 1]}

Monitoring == {Two("amdgpu", "i915", "AMD", "Intel"), Two("nvidia", "xe", "NVIDIA", "Intel"),
               Two("radeon", "nouveau", "AMD", "NVIDIA")}

\* Two cards under one driver whose numbers can be exchanged: both off, both on.
Exchange == [Two("nouveau", "nouveau", "NVIDIA", "NVIDIA") EXCEPT !.switches = 4, !.debug = TRUE]

MCMachines ==
    {Computer(c, NoCards, "cpu", d) : c \in {Plain, Hybrid, Arm, Forced}, d \in BOOLEAN}
    \cup {Computer(Plain, g, "gpu", FALSE) : g \in Probing}
    \cup {Computer(Plain, g, "gpu", g.driver[1] = "radeon") : g \in Monitoring \cup {Exchange}}

\* A Radeon card and a daemon that can open the directory for the user.
MCRadeon ==
    {Computer(Plain, [NoCards EXCEPT !.cards = 1, !.vendor = <<"AMD">>, !.model = <<1>>,
                                     !.driver = <<"radeon">>], "gpu", TRUE)}
=============================================================================
