\* Four frames of two kinds; no byte is lost, or one or two are, anywhere.
SPECIFICATION FairSpec
CONSTANTS
  Frames <- MCFrames
  ApiId = 144
  MaxFrame = 20
  MaxFrames = 4
  MaxLost = 2
INVARIANTS
  TypeOK
  WithinBuffer
  DeliveredInOrder
  Recovers
PROPERTIES
  EveryFrameDelivered
CHECK_DEADLOCK FALSE
