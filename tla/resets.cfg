CONSTANTS
  p1 = p1
  p2 = p2
  p3 = p3
  Piece <- OnePiece
  ColourOf <- OneWhite
  SlotOrder <- TwoSlots
  Stock <- OneStored
  NfcMayFail = TRUE
  HbwMayFail = FALSE
  MpoMayFail = TRUE
  SldMayFail = TRUE
  MayRestart = TRUE
  Modes = {"AcknowledgeButton", "Start_Park_Position", "Clean_Rack_HBW"}
  Discipline = {"OneOrder", "InStock", "ClearShelf"}
  Regular <- OnePiece
SPECIFICATION Spec
INVARIANTS
  StorageAlone
  GripperMeetsContainer
PROPERTIES
  ReportsNoticed
