SPECIFICATION Spec
CONSTANTS
  Content0 <- ThreeBytes
  MaxRead = 2
  Buffers <- OneByte
  Offsets <- AnyWay
  CacheSize = 2
  Whences = {"SET", "CUR"}
  MaxLen = 3
  Faults = {"unsent", "unanswered"}
INVARIANTS
  CacheTrue
PROPERTIES
  PositionsAgree
  OpsReturn
