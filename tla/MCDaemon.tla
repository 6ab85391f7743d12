------------------------------ MODULE MCDaemon ------------------------------
EXTENDS DaemonInvariant, TLC
Symmetry == Permutations(Clients) \cup Permutations(Daemons)
=============================================================================
