SPECIFICATION Spec
CONSTANTS
  c1 = c1  c2 = c2  o1 = o1
  Caller = {c1, c2}
  Operator = {o1}
  W = 8
  MinTicket <- MinusOne
  MaxTicket = 2
  MaxUsed = 5
  MaxDay = 1
INVARIANTS
  SerialInv
  ExceedsOnlyByOverlap
CHECK_DEADLOCK FALSE
