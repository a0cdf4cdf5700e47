SPECIFICATION LiveSpec
CONSTANTS
  t1 = t1
  t2 = t2
  None = None
  Producers = {t1, t2}
  MaxPushes = 3
  Uses = {"block", "poll", "drop"}
  Torn <- HalfSizes
INVARIANTS NeverUndefined NoFrameWaits NoLostWakeup
PROPERTIES NewestKept KeepsFifo AllTaken
CHECK_DEADLOCK FALSE
