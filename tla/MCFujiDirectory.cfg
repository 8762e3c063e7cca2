SPECIFICATION FujiSpec
CONSTANTS
  Dirs = {"empty", "five"}
  Size <- Sizes
  MaxCache = 3
  MaxId = 1
  Faults = {"expiry", "unsent", "unanswered"}
  Bytes <- MCBytes
  Charge <- MCCharge
  BlockSizes = {20, 30}
  MaxEntries = 5
INVARIANTS
  TypeOK
  ListingExact
PROPERTIES
  AbstractDirectory
