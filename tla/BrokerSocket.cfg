\* Two clients and two descriptors, so that a descriptor
\* closed for one can be opened for the other; the first
\* semaphore may start with a permit, and the run ends where one strays.
SPECIFICATION FairSpec
CONSTANTS
  ClientCount = 2
  Descriptors = {3, 4}
  InitialPermits = {0, 1}
  MaxPermits = 2
CONSTRAINT RunBound
INVARIANTS
  TypeOK
  DescriptorsOwned
  BlocksOnlyOnNew
PROPERTIES
  DisconnectCloses
  FailsOnce
  SenderReturns
  ImplementsLink
