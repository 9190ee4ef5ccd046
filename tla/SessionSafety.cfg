\* One client: on a lossy line, with a broker that publishes on any name, or
\* reconnecting with a clean session; two names and the predefined one fill the
\* topic table.
SPECIFICATION Spec
CONSTANTS
  Clients = {c1}
  LongNames = {x, y}
  ShortNames = {}
  PredefinedName = GW01
  PredefinedId = 1
  BaseId = 2
  IdRange = 16
  MaxTopicCount = 3
  AddressIds = {12}
  NoName = NoName
  Listed = {}
  ListRead = FALSE
  MaxClientNodes = 2
  MaxBroadcasts = 0
  Window = 1
  c1 = c1
  x = x
  y = y
  GW01 = GW01
  Settings <- SafetySettings
INVARIANTS
  NoFalsePubAck
  RightNameUp
  KnownIdsResolve
  ConnectObjectOwned
  RightNameDown
  RegisteredFirst
CHECK_DEADLOCK FALSE
