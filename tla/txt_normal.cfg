CONSTANTS
  w1 = w1
  w2 = w2
  r1 = r1
  NoUid = NoUid
  Parts <- Two
  ColourOf <- TwoColours
  NSlots = 2
  Stored <- OneIn
  NewParts = {r1}
  Requests = {"WHITE", "RED"}
  MaxRequests = 2
  MaxFaults = 0
SPECIFICATION TxtSpec
INVARIANTS
  ShippedAsOrdered
  HistoryComplete
PROPERTIES
  LifeKept
  OrdersServed
  DeliveriesEnd
CHECK_DEADLOCK FALSE
