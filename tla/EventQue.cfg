\* Two threads post, one reads, with timedwait() (gatewayEventQue) or with wait()
\* (clientSendQue, brokerSendQue).
SPECIFICATION FairSpec
CONSTANTS
  Producers = {CRT, BRT}
  CRT = CRT
  BRT = BRT
  Consumer = GCT
  Events = {e1, e2}
  e1 = e1
  e2 = e2
  NoEvent = NoEvent
  TimeoutEvent = TimeoutEvent
  Undefined = Undefined
  Nobody = Nobody
  MaxPending = 3
INVARIANTS
  TypeOK
  NoLostWakeup
  StrayPermitsBounded
  PermitsMatchEvents
  NeverPopsEmpty
PROPERTIES
  EveryEventTaken
  ImplementsChannel
