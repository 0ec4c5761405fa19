SPECIFICATION Spec
CONSTANTS
  p1 = p1  p2 = p2
  Process = {p1}
  SystemNumber = {1}
  Strategy = {0, 255}
  Kind <- Kinds
  Account = 15
  HighSize = 4
  MaxOrderRef = 99999999
  MaxSent = 3
  MaxSession = 2
  MaxIncrease = 6
INVARIANTS
  WireKeepsRef
CHECK_DEADLOCK FALSE
