CONSTANTS
  p1 = p1
  p2 = p2
  p3 = p3
  Process <- MCTwo
  Quota = 3
  Wish = {2, 3}
  Factor <- MCFactor
  Command = {"step", "calc"}
  MaxCalcs = 2
  OneNode = TRUE
  MaxTimeouts = 0
SPECIFICATION Spec
SYMMETRY ProcessSymmetry
INVARIANTS EndsAtMultiples
CHECK_DEADLOCK FALSE
