CONSTANTS
  Chunks = {far}
  Tunings = {3, 4}
  SnapshotEvery = 2
  CleanupEvery = 4
  DirectorEvery = 3
  ItemLife = 1
  Batches <- MCBatches
  MaxTick = 4
  MaxBatches = 2
  MaxRuns = 2
  None = None
SPECIFICATION FairSpec
INVARIANTS RestoreKeeps ReplayFaithful SeasonOnce SeasonsStayEnded
PROPERTY SeasonArchived
CHECK_DEADLOCK FALSE
