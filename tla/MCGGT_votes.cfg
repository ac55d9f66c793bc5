CONSTANTS
  p1 = p1
  p2 = p2
  p3 = p3
  Process <- MCTwo
  Quota = 2
  Wish = {2}
  Factor <- MCFew
  Command = {"step", "calc"}
  MaxCalcs = 1
  OneNode = TRUE
  MaxTimeouts = 2
SPECIFICATION Spec
SYMMETRY ProcessSymmetry
INVARIANTS GGTTypeOK EndIsReported
CHECK_DEADLOCK FALSE
