\* A client unsubscribes a topic it names.
SPECIFICATION Spec
CONSTANTS
  Clients = {c1}
  LongNames = {x}
  ShortNames = {}
  PredefinedName = GW01
  PredefinedId = 1
  BaseId = 2
  IdRange = 16
  MaxTopicCount = 4
  AddressIds = {12}
  NoName = NoName
  Listed = {}
  ListRead = FALSE
  MaxClientNodes = 2
  MaxBroadcasts = 0
  Window = 1
  c1 = c1
  x = x
  GW01 = GW01
  Settings <- UnsubscribeSettings
INVARIANTS
  UnsubscribeKeepsName
CHECK_DEADLOCK FALSE
