CONSTANTS
  Worlds = {over, mine}
  JoinWorlds = {over}
  Conns = {c1}
  Admins = {m1}
  Timeouts = TRUE
  MaxJoins = 1
  MaxCalls = 5
  None = None
SPECIFICATION Spec
INVARIANTS NoDuplicate NoOrphan ClientHasAgent
CHECK_DEADLOCK FALSE
