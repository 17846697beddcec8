SPECIFICATION Spec
CONSTANTS
  UserCount = 3
  RunTime = 3
  UserBatchCount = 2
  Procs = 4
  ErrorBreak = TRUE
  Faults = {"fail", "cancel"}
INVARIANTS InFlightBounded RunsBounded SendNeverBlocks SuccessIsHonest
CHECK_DEADLOCK FALSE
