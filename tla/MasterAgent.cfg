CONSTANTS
  Agent = {a1}
  Report = {r1}
  Work = {}
  Requests <- MCRequests
  MaxIndex = 2
  OneSecond = FALSE
  Faulty = {a1}
  MaxSession = 1
  QueueCap = 1
  CancelCap = 1
SPECIFICATION Spec
INVARIANTS DoneIsHonest IdsRunOnce
PROPERTIES TaskEnds  LiveAgentIsSelectable
CHECK_DEADLOCK FALSE
