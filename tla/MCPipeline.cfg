\* Two clients; a task starts another message while fewer than two events wait.
SPECIFICATION Spec
CONSTANTS
  Clients = {c1, c2}
  c1 = c1
  c2 = c2
  NoClient = NoClient
  MaxPending = 2
SYMMETRY ClientSymmetry
INVARIANTS
  TypeOK
  MessagesMatchEvents
  NeverNull
