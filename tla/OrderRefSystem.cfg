SPECIFICATION Spec
CONSTANTS
  p1 = p1  p2 = p2
  Process = {p1, p2}
  SystemNumber = {1, 9}
  Strategy = {0, 255}
  Kind <- Kinds
  Account = 15
  HighSize = 8
  MaxOrderRef = 99999999
  MaxSent = 2
  MaxSession = 1
  MaxIncrease = 3
INVARIANTS
  OwnReportsOnly
CHECK_DEADLOCK FALSE
