SPECIFICATION Spec
CONSTANTS
  Images <- MCImages
  Sectors <- MCSectors
  MaxHandles = 3
  MaxFaults = 2
INVARIANTS
  TypeOK
  RangeExact
  CursorTrue
  NoHandleLeft
