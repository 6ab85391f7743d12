CONSTANTS
  Daemons = {d1, d2}
  Clients = {c1, c2}
  Fds = {3}
  None = None
SPECIFICATION Spec
INVARIANTS TypeOK FdOwnership NoFdLeak ThreadCount IdleExit LaunchThenConnect IInv
SYMMETRY Symmetry
CHECK_DEADLOCK FALSE
