\* One lost byte, after a first frame that arrived.
SPECIFICATION Spec
CONSTANTS
  Frames <- MCFrames
  ApiId = 144
  MaxFrame = 20
  MaxFrames = 4
  MaxLost = 1
INVARIANTS
  OnlyGoodDelivered
CHECK_DEADLOCK FALSE
