CONSTANTS
  p1 = p1
  p2 = p2
  p3 = p3
  Piece <- TwoPieces
  ColourOf <- WhiteAndRed
  SlotOrder <- TwoSlots
  Stock <- NoneStored
  NfcMayFail = TRUE
  HbwMayFail = FALSE
  MpoMayFail = FALSE
  SldMayFail = FALSE
  MayRestart = TRUE
  Modes = {}
  Discipline = {"OneOrder", "InStock", "ClearShelf"}
  Regular = {}
SPECIFICATION Spec
INVARIANTS
  RecordsUnique
