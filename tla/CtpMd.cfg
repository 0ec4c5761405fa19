SPECIFICATION FairSpec
CONSTANTS
  s1 = s1  s2 = s2
  Strategy = {s1, s2}
  Instrument = {"cu", "al"}
  MaxConfig = 1
INVARIANTS
  IInv
  Coverage
  OnlineWithNewConfig
  RefusedIsDead
PROPERTIES
  NullOnlyInWindow
  HotUpdateEnds
CHECK_DEADLOCK FALSE
