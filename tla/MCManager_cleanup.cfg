SPECIFICATION LiveSpec
CONSTANTS
  Clients = {c1, c2}
  NoClient = NoClient
  UUID <- DistinctUUID
  Leavers = {c1, c2}
  EventKinds = {}
  MaxEvents = 0
  MaxJoining = 1
PROPERTIES CleanupHappens
CHECK_DEADLOCK FALSE
