SPECIFICATION Spec
CONSTANTS
  Files = {fa, fb}
  OpenModes = {"rw"}
  MaxHandles = 3
  CacheSize = 1
  MaxRead = 2
  MaxId = 1
  MaxPos = 2
  MaxTroubles = 2
  Faults = {"expiry", "unsent", "unanswered"}
SYMMETRY Symmetry
INVARIANTS
  TypeOK
  
  OwnFile
  PositionKept
