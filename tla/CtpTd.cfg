SPECIFICATION FairSpec
CONSTANTS
  MaxConfig = 1
  MaxLogin = 2
  MaxOrder = 1
INVARIANTS
  IInv
  AccountWhole
  TradeOfKnownOrder
PROPERTIES
  CrashOnlyByTimer
  ReportTradesSafely
  HandlerEnds
  EndsAreTold
CHECK_DEADLOCK FALSE
