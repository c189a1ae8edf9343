CONSTANTS
  Acts = {mine, move}
  Switches = {move}
  Worlds = {over, deep}
  Home = over
  MaxConns = 2
  MaxSends = 3
  Timeouts = TRUE
  None = None
SPECIFICATION FairSpec
INVARIANTS AtMostOnce NotSwallowed
PROPERTY AcceptedEnds
CHECK_DEADLOCK FALSE
