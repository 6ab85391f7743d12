CONSTANTS
  Daemons = {d1}
  Clients = {c1, c2}
  Fds = {3, 4}
  None = None
SPECIFICATION FairSpec
PROPERTIES IdleDaemonExits AnswerOrError SignalStops ServiceFairSpec
CHECK_DEADLOCK FALSE
