SPECIFICATION LiveSpec
CONSTANTS
  p1 = p1
  p2 = p2
  Players = {p1, p2}
  NewsKinds <- OneReads
  MaxNews <- OneNews
  Colors <- OneColors
  Lines = 1
INVARIANTS NewestShown ShownAtRest ColorSettles NewcomersGreeted
PROPERTIES KeepsScreen PositionsShown GuiServed LeaveEnds
CHECK_DEADLOCK FALSE
