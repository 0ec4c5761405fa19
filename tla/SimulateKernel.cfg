SPECIFICATION Spec
CONSTANTS
  TickFiles <- TwoFiles
  Name <- OtherWay
  MaxOrders = 2
  Volume = {2}
  Price = {2}
  Delays = {0, 1}
INVARIANTS
  OffersTakenOnce
PROPERTIES
  TicksInOrder
  TradesInTime
  CancelTakesHold
  LifeSpec
CHECK_DEADLOCK FALSE
