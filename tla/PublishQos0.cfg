\* A PUBLISH of QoS 0 from the broker.
SPECIFICATION Spec
CONSTANTS
  Messages <- Qos0Messages
  SOCKET_MAXBUFFER_LENGTH = 500
  MaxMessages = 2
  MaxCut = 1
INVARIANTS
  Qos0PayloadKept
CHECK_DEADLOCK FALSE
