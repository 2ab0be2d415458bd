CONSTANTS
  w1 = w1
  w2 = w2
  r1 = r1
  NoUid = NoUid
  Parts <- Three
  ColourOf <- ThreeColours
  NSlots = 2
  Stored <- OneIn
  MaxCrashes = 1
  MaxQuits = 1
SPECIFICATION RackSpec
INVARIANTS
  RecordedOnce
  RecordsTrue
  ForgetsOne
PROPERTIES
  StorageUsedWell
  Answers
CHECK_DEADLOCK FALSE
