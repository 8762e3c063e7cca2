SPECIFICATION FairSpec
CONSTANTS
  MaxCommands = 3
  Kinds = {"read", "put", "closed", "index", "status1", "read1"}
  Speeds = {"std", "high"}
  MaxFaults = 1
  StatusWait = 1
  InitialCredit = 2
CHECK_DEADLOCK FALSE
INVARIANTS
  AnsweredOnce
  SpeedFound
PROPERTIES
  AnswerIsOwn
  CommandEnds
  DeviceReturns
