CONSTANTS
  Machines <- MCMachines
  MaxSticks = 2
  MaxCalls = 6
SPECIFICATION FairSpec
INVARIANTS TypeOK ServerInSync ReceivesItsAnswerUnlessDmiFails
PROPERTIES NobodyWaits
CHECK_DEADLOCK FALSE
