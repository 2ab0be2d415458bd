CONSTANTS
  p1 = p1
  p2 = p2
  p3 = p3
  Piece <- ThreePieces
  ColourOf <- OneRed
  SlotOrder <- ThreeSlots
  Stock <- TwoStored
  NfcMayFail = FALSE
  HbwMayFail = FALSE
  MpoMayFail = FALSE
  SldMayFail = FALSE
  MayRestart = FALSE
  Modes = {}
  Discipline = {"OneOrder", "InStock", "ClearShelf"}
  Regular = {}
SPECIFICATION Spec
INVARIANTS
  HandoversMeet
  RecordsTruthful
PROPERTIES
  OldestFirst
  OrdersKept
  SingleFile
