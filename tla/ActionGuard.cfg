SPECIFICATION MutexFairSpec
CONSTANTS
  Task = {t1, t2, t3}
  NoTask = NoTask
INVARIANTS OneTaskHolds NeverRefused
PROPERTIES GuardObtained 
CHECK_DEADLOCK FALSE
