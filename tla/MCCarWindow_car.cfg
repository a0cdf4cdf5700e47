SPECIFICATION Spec
CONSTANTS
  a = a
  b = b
  CarWidth <- LargeWidth
  CarHeight <- LargeHeight
  MaxChars = 2
  RawJsonSize <- Size
  Letters = {a, b}
  NUL = NUL
  Points <- Clicks
INVARIANTS InTrack PositionTold PeersSeeMyColor ShowsTyped LinesAreSent
PROPERTY PickedIsDrawn
CHECK_DEADLOCK FALSE
