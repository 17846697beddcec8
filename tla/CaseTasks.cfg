SPECIFICATION FairSpec
CONSTANTS
  MaxTimers = 1
  UserCount = 2
  RunTime = 2
  UserBatchCount = 1
  Procs = 2
  ErrorBreak = TRUE
  Faults = {"fail", "cancel", "timeout"}
INVARIANT SuccessIsEarned
PROPERTIES  ImplementsDispatch
CHECK_DEADLOCK FALSE
