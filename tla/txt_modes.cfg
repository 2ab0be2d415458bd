CONSTANTS
  w1 = w1
  w2 = w2
  r1 = r1
  NoUid = NoUid
  Parts <- Two
  ColourOf <- TwoColours
  NSlots = 2
  Stored <- OneIn
  NewParts = {r1}
  Requests = {"pickup", "store", "ENDLESS"}
  MaxRequests = 2
  MaxFaults = 1
SPECIFICATION TxtSpec
INVARIANTS
  HandoverMeets
  RackTrue
  SortedLiesInBay
CHECK_DEADLOCK FALSE
PROPERTIES
  FaultsEnd
