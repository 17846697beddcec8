SPECIFICATION FairSpec
CONSTANTS
  SetVar = "p"
  Files <- MCFiles
  Repeated = 2
  MaxRecords = 2
INVARIANTS RunningSharePrefix  StatusIsHonest
PROPERTY ProcessEnds
CHECK_DEADLOCK FALSE
