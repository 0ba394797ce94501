SPECIFICATION Spec
CONSTANTS
  b1 = b1
  b2 = b2
  NoBox = NoBox
  Box <- TwoBoxes
  MaxChild = 3
  maxChildren = 2
  keepLast = 1
  MaxFund = 1
  MaxKills = 1
INVARIANTS
  SandboxUnshared
  SlotsBounded
  StartedWasFunded
CHECK_DEADLOCK FALSE
