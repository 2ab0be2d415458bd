CONSTANTS
  w1 = w1
  w2 = w2
  r1 = r1
  NoUid = NoUid
  Parts <- Two
  ColourOf <- TwoColours
  NSlots = 2
  Stored <- BothIn
  NewParts = {}
  Requests = {"WHITE"}
  MaxRequests = 1
  MaxFaults = 1
SPECIFICATION TxtSpec
INVARIANTS
  FaultRescheduled
CHECK_DEADLOCK FALSE
