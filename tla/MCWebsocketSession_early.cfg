SPECIFICATION LiveSpec
CONSTANTS
  MaxMoves = 1
  MaxColors = 0
  MaxTexts = 0
PROPERTIES CloseCompletes
CHECK_DEADLOCK FALSE
