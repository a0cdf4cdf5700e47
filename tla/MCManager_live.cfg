SPECIFICATION LiveSpec
CONSTANTS
  Clients = {c1, c2}
  NoClient = NoClient
  UUID <- DistinctUUID
  Leavers = {c2}
  EventKinds = {"text", "private", "debug", "ignored"}
  MaxEvents = 1
  MaxJoining = 2
INVARIANTS PeersUpToDate
PROPERTIES JoinCompletes BroadcastsEnd
CHECK_DEADLOCK FALSE
