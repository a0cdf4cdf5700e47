SPECIFICATION Spec
CONSTANTS
  PongWait = 40
  Lag = 1
  Delay = 1
  Busy = 1
  Never = Never
  MaxTime = 110
INVARIANTS HealthyStays SilentDropped
CHECK_DEADLOCK FALSE
