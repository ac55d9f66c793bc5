CONSTANTS
  c1 = c1
  c2 = c2
  Client <- MCClient
  MessagesPerCycle = 1
  MaxNr = 4
  MaxForget = 0
  TimersFire = TRUE
  DLQSize = 4
  Nr <- MCNr
SPECIFICATION Spec
PROPERTY OnlyIdleServerStops
CHECK_DEADLOCK FALSE
