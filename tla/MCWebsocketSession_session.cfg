SPECIFICATION LiveSpec
CONSTANTS
  MaxMoves = 3
  MaxColors = 1
  MaxTexts = 1
INVARIANTS QueueDelivered NoOrphans
PROPERTIES PositionsForward PositionsArrive CloseEnds
CHECK_DEADLOCK FALSE
