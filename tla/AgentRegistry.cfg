CONSTANTS
  Agent = {a1}
  Work = {w1}
  Faulty = {a1}
  MaxSession = 2
  QueueCap = 1
SPECIFICATION RegistrySpec
PROPERTY DownIsNoticed
CHECK_DEADLOCK FALSE
