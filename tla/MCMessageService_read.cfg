CONSTANTS
  c1 = c1
  c2 = c2
  Client <- MCClient
  MessagesPerCycle = 1
  MaxNr = 4
  MaxForget = 1
  TimersFire = FALSE
  DLQSize = 4
  Nr <- MCNr
SPECIFICATION FairSpec
PROPERTIES ReadingEnds
CHECK_DEADLOCK FALSE
