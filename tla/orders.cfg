CONSTANTS
  p1 = p1
  p2 = p2
  p3 = p3
  Piece <- TwoPieces
  ColourOf <- BothWhite
  SlotOrder <- TwoSlots
  Stock <- OneStored
  NfcMayFail = FALSE
  HbwMayFail = TRUE
  MpoMayFail = FALSE
  SldMayFail = FALSE
  MayRestart = FALSE
  Modes = {}
  Discipline = {"OneOrder", "InStock", "ClearShelf"}
  Regular = {}
SPECIFICATION FairSpec
PROPERTIES
  OrderShipped
