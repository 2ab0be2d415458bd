CONSTANTS
  NPlaces = 3
  NCells = 2
  Readings = {0, 400, 900, 3500}
  MaxTags = 2
  MaxJogs = 5
SPECIFICATION CalibSpec
INVARIANTS
  PlacesKept
  OneSteered
PROPERTIES
  Cancels
CHECK_DEADLOCK FALSE
