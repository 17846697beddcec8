SPECIFICATION FairRateSpec
CONSTANTS
  Worker = {w1, w2}
  NoWorker = NoWorker
  TokenScale = 2
  Second = 20
  BurstWindow = 1
  Targets = {40, 120}
  Elapsed = {0, 1}
  MaxAdded = 1
INVARIANTS BurstBounded Conservation RateBound
PROPERTY SomeoneProceeds
CHECK_DEADLOCK FALSE
