SPECIFICATION Spec
CONSTANTS
  Tasks = {t1, t2, t3, t4}
  NoTask = NoTask
  MaxTid = 3
INVARIANTS
  TypeOK
  CountExact
  MapOwns
  FileClosedOnce
PROPERTIES
  SubmittedTaskStarts
CHECK_DEADLOCK FALSE
