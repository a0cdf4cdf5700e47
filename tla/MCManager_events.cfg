SPECIFICATION Spec
CONSTANTS
  Clients = {c1, c2}
  NoClient = NoClient
  UUID <- DistinctUUID
  Leavers = {c2}
  EventKinds = {"pos", "color"}
  MaxEvents = 2
  MaxJoining = 2
INVARIANTS IInv NoCircularWait ColorAgreed AnnouncedFirst PeersUpToDate ExitOnce
PROPERTIES KeepsRoster
CHECK_DEADLOCK FALSE
