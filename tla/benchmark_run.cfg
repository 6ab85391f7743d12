CONSTANTS
  Workers = {1, 2}
  Timers = {1, 2}
  None = None
  MaxThreads = 2
  MaxDuration = 3
  MaxNumber = 8
  Patient = TRUE
SPECIFICATION FairSpec
INVARIANTS TypeOK NoStrayWorker ScoreExact TerminatesOnlyAtQuit
PROPERTIES StopStops RunEnds
CHECK_DEADLOCK FALSE
