SPECIFICATION Spec
CONSTANTS
  MaxCalls = 2
  MaxRetries = 2
  MaxSessions = 3
  OldSessions = {3}
  SeqMod = 256
  Faults = {}
INVARIANTS
  TypeOK
  ReplyIsOurs
  AtMostOnce
  MountGivesSession
  RecoveryOutcome
  RetriesCarryRequest
PROPERTIES
  CallsReturn
CHECK_DEADLOCK FALSE
