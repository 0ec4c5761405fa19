SPECIFICATION Spec
CONSTANTS
  h1 = h1  h2 = h2  m1 = m1  m2 = m2  t1 = t1
  Handler = {h1, h2}
  MdSource = {m1}
  TdSource = {t1}
  DataId = {0}
  MaxStrategyID = 1
  MaxObject = 2
  MaxOrder = 1
SYMMETRY Symmetry
INVARIANTS
  IInv
  SourceInUse
  RefCountCovers
  ReportReachesOwner
  DeadlockOnlyByInversion
PROPERTIES
  HostSpec
CHECK_DEADLOCK FALSE
