CONSTANTS
  Workers = {1, 2, 3}
  Timers = {1, 2}
  None = None
  MaxThreads = 2
  MaxDuration = 3
  MaxNumber = 4
  Patient = FALSE
SPECIFICATION Spec
INVARIANTS OneThreadPerCpu
CHECK_DEADLOCK FALSE
