CONSTANTS
  LogCap = 2
  OutCap = 2
  Limits = {1, 2}
  MaxEvents = 4
  MaxPolls = 3
  MaxMoves = 1
  MaxDrops = 1
  NoPoll = NoPoll
SPECIFICATION LogSpec
INVARIANTS Labelled PulledInOrder
