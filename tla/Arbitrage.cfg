SPECIFICATION FairSpec
CONSTANTS
  NoValue = NoValue
  s1 = s1
  Strategy <- MCStrategy
  Lively <- MCStrategy
  MaxCopies <- MCMaxCopies
  MaxRef <- MCMaxRef
  Limits = {2}
  MaxModify = 1
  MaxMeddle = 2
  UIntSize = 8
INVARIANTS IInv LimitKept HedgedWhenIdle CopiesComeBack CancelNamesOrder
PROPERTY PendingEnds
CHECK_DEADLOCK FALSE
