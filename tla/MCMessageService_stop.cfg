CONSTANTS
  c1 = c1
  c2 = c2
  Client <- MCClient
  MessagesPerCycle = 1
  MaxNr = 2
  MaxForget = 0
  TimersFire = TRUE
  DLQSize = 4
  Nr <- MCNr
SPECIFICATION FairSpec
PROPERTIES ShutdownReachesAll KillObeyed
CHECK_DEADLOCK FALSE
