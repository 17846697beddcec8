SPECIFICATION Spec
CONSTANTS
  Task = {t1, t2}
  NoTask = NoTask
  CloseTask = CloseTask
  TimeoutTasks = {t1, t2}
  Faults = {"lost", "reset", "garbage", "timeout"}
  Capacity = 2
  MaxSeq = 3
INVARIANTS AnswerMatchesRequest NoLostWakeup ReceiverBlockedOnlyByKilled
CHECK_DEADLOCK FALSE
