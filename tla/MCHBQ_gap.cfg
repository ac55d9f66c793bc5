CONSTANTS
  MaxNr = 10
  DLQSize = 7
  Nr <- MCNr
SPECIFICATION HBQSpec
INVARIANT OnlyOldNumbersReplaced
CHECK_DEADLOCK FALSE
