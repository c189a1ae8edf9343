CONSTANTS
  Worlds = {over, mine}
  JoinWorlds = {over}
  Conns = {c1, c2}
  Admins = {}
  Timeouts = FALSE
  MaxJoins = 2
  MaxCalls = 6
  None = None
SPECIFICATION FairSpec
INVARIANT Served
PROPERTIES ImplementsPlacement OperationsEnd
CHECK_DEADLOCK FALSE
