SPECIFICATION AxisSpec
CONSTANTS
  PosEnd = 7
  Rows = {5}
  Conv = 2
  Delta = 1
  MaxJog = 2
  MaxJogs = 1
  MaxStops = 1
  MaxJams = 1
INVARIANTS PosTrue CantileverFree
PROPERTIES Arrives MovesEnd
CHECK_DEADLOCK FALSE
