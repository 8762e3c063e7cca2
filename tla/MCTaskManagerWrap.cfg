SPECIFICATION Spec
CONSTANTS
  Tasks = {t1, t2}
  NoTask = NoTask
  MaxTid = 3
INVARIANTS
  FreeTidFound
CHECK_DEADLOCK FALSE
