SPECIFICATION ChannelSpec
CONSTANTS
  MaxLen = 3
  Block = 2
  MaxBuffer = 2
  MaxObjects = 2
  MaxFailures = 2
CHECK_DEADLOCK FALSE
INVARIANTS
  StreamExact
  ParsedWhole
  
