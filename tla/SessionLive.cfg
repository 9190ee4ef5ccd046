\* Two clients of the authorised list share the tasks and their queues; each waits
\* for its answers and nothing is lost.  Every request type, broadcasts, and a
\* PUBLISH from the broker.
SPECIFICATION FairSpec
CONSTANTS
  Clients = {c1, c2}
  LongNames = {x}
  ShortNames = {s}
  PredefinedName = GW01
  PredefinedId = 1
  BaseId = 2
  IdRange = 16
  MaxTopicCount = 4
  AddressIds = {12}
  NoName = NoName
  Listed = {c1, c2}
  ListRead = TRUE
  MaxClientNodes = 2
  MaxBroadcasts = 1
  Window = 1
  c1 = c1
  c2 = c2
  x = x
  s = s
  GW01 = GW01
  Settings <- LiveSettings
INVARIANTS
  TypeOK
  InFlightOnce
PROPERTIES
  EveryRequestAnswered
CHECK_DEADLOCK FALSE
