CONSTANTS
  Machines <- MCMachines
  MaxSticks = 2
  MaxCalls = 6
SPECIFICATION Spec
INVARIANTS ReceivesItsAnswer
CHECK_DEADLOCK FALSE
