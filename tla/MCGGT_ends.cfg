CONSTANTS
  p1 = p1
  p2 = p2
  p3 = p3
  Process <- MCThree
  Quota = 2
  Wish = {2}
  Factor <- MCFactor
  Command = {"step", "calc"}
  MaxCalcs = 1
  OneNode = FALSE
  MaxTimeouts = 0
SPECIFICATION FairSpec
INVARIANTS MultiplesOfWish
PROPERTIES CalculationEnds
CHECK_DEADLOCK FALSE
