CONSTANTS
  s1 = s1
  s2 = s2
  f1 = f1
  Station = {s1, s2}
  Foreign = {f1}
  SlotCount = 3
  Delay <- MCDelay
  MaxLost = 1
  MaxLate = 2
SPECIFICATION TDMASpec
INVARIANTS OneUserOfASlot MoveFindsSlot
