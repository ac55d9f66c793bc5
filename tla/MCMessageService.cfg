CONSTANTS
  c1 = c1
  c2 = c2
  Client <- MCClient
  MessagesPerCycle = 1
  MaxNr = 4
  MaxForget = 1
  TimersFire = TRUE
  DLQSize = 3
  Nr <- MCNr
SPECIFICATION Spec
SYMMETRY ClientSymmetry
INVARIANTS ServiceTypeOK InitBeforeRequests NothingSkipped
PROPERTIES UsesHBQ NoMessageTwice
CHECK_DEADLOCK FALSE
