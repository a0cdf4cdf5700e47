SPECIFICATION Spec
CONSTANTS
  p1 = p1
  p2 = p2
  Players = {p1, p2}
  NewsKinds <- OneLeaves
  MaxNews <- OneNews
  Colors <- OneColors
  Lines = 1
INVARIANT GhostFree
CHECK_DEADLOCK FALSE
