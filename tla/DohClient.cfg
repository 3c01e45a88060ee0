SPECIFICATION FairSpec
CONSTANTS
  Owners = {a, b, d}
  Conns = {c1, c2}
  None = None
  Idle = Idle
  MaxActive = 1
  MaxPending = 2
  MaxIdle = 1
  MaxAsks = 1
INVARIANTS
  NoStrandedQuery
  ConnectionsOwned
  OwnAnswers
PROPERTIES
  ImplementsLookup
CHECK_DEADLOCK FALSE
