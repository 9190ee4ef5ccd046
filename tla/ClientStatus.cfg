\* One client with two durations, one of them the longest that 16 bits hold, and of the
\* messages it sends one for each that the tests of updateStatus() and the replies tell apart.
SPECIFICATION FairSpec
CONSTANTS
  Durations = {60, 65}
  Sent = {"PINGREQ", "REGISTER", "WILLTOPIC"}
  Seconds = {60}
  MaxDue = 1
  MaxPublishes = 1
INVARIANTS
  TypeOK
  TalkingNeverLost
PROPERTIES
  SilentNoticed
