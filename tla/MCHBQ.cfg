CONSTANTS
  MaxNr = 11
  DLQSize = 9
  Nr <- MCNr
SPECIFICATION HBQSpec
INVARIANTS HBQTypeOK HeldAscending ExpectedFromDLQ HoldBackBounded NothingLost DLQWindow AnswersFitTheQueue ClausesAgree
PROPERTIES DeliversInOrder
CHECK_DEADLOCK FALSE
