SPECIFICATION FairSpec
CONSTANTS
  h1 = h1  h2 = h2  m1 = m1  m2 = m2  t1 = t1
  Handler = {h1}
  MdSource = {m1, m2}
  TdSource = {t1}
  DataId = {0, 1}
  MaxStrategyID = 1
  MaxObject = 2
  MaxOrder = 0
PROPERTIES
  
  CancelEnds
CHECK_DEADLOCK FALSE
