SPECIFICATION Spec
CONSTANTS
  Logins = {l1, l2}
  Requests = {r1, r2}
  NoKey = NoKey
  Period = 3
  Interval = 2
  Lag = 1
  MaxTime = 3
SYMMETRY Alike
INVARIANTS OneUse
CHECK_DEADLOCK FALSE
