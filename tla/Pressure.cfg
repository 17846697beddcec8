SPECIFICATION PressureFairSpec
CONSTANTS
  TargetQPS = 0
  MaxQPS = 33
INVARIANTS PressureTypeOK OvershootBounded
PROPERTIES CongestionNotAboveSafe CriticalBacksOff
CHECK_DEADLOCK FALSE
