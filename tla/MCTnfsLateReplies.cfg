SPECIFICATION Spec
CONSTANTS
  MaxCalls = 2
  MaxRetries = 2
  MaxSessions = 2
  OldSessions = {2}
  SeqMod = 256
  Faults = {"again", "stale"}
  MaxDatagrams = 9
CONSTRAINT FewDatagrams
PROPERTIES
  NoForeignReply
CHECK_DEADLOCK FALSE
