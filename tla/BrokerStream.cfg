\* Three messages in parts that split them in every way that matters.
SPECIFICATION Spec
CONSTANTS
  Messages <- AllMessages
  SOCKET_MAXBUFFER_LENGTH = 500
  MaxMessages = 3
  MaxCut = 3
INVARIANTS
  Resynchronises
  InOrder
  PayloadKept
CHECK_DEADLOCK FALSE
