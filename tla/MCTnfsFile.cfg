SPECIFICATION Spec
CONSTANTS
  Content0 <- FiveBytes
  MaxRead = 4
  Buffers <- OneBuffer
  Offsets <- Forward
  CacheSize = 3
  Whences = {"SET", "END"}
  MaxLen = 5
  Faults = {}
PROPERTIES
  AbstractFile
