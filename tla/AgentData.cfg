CONSTANTS
  t1 = t1
  t2 = t2
  r1 = r1
  Task = {t1, t2}
  Record = {r1}
  LongTasks = {t1}
  TaskOf <- MCTaskOf
SPECIFICATION Spec
INVARIANTS RecordOnce  CollectorFollowsTasks
PROPERTY CollectorEnds
CHECK_DEADLOCK FALSE
