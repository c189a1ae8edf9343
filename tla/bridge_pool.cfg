CONSTANTS
  Keys = {k1, k2}
  Calls = {p1, p2}
  MaxSessions = 1
  MaxCreated = 3
  MaxDials = 2
  MaxCrashes = 1
  None = None
SPECIFICATION FairSpec
INVARIANTS OneSessionPerKey SameAgent
PROPERTIES CallsEnd
CHECK_DEADLOCK FALSE
