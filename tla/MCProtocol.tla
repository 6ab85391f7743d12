----------------------------- MODULE MCProtocol -----------------------------
EXTENDS Protocol
\* A working DMI table behind a short socket buffer, and one whose reading may fail.
MCMachines == {[rets |-> {0}, capacity |-> 1], [rets |-> {0}, capacity |-> 2],
               [rets |-> {0, 1}, capacity |-> 8]}
=============================================================================
