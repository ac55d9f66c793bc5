CONSTANTS
  p1 = p1
  p2 = p2
  p3 = p3
  Process <- MCThree
  Quota = 3
  Wish = {2}
  Factor <- MCFactor
  Command = {"step", "calc", "kill", "reset", "toggle"}
  MaxCalcs = 1
  OneNode = TRUE
  MaxTimeouts = 0
SPECIFICATION Spec
SYMMETRY ProcessSymmetry
INVARIANTS SetpmComesFirst NoGreaterNeighbor MinMiIsMinimum
PROPERTIES GcdKept
CHECK_DEADLOCK FALSE
