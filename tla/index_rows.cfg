\* A channel of two, batches of two, three faults.
SPECIFICATION Spec
CONSTANTS
  None = None
  Backends = {"sqlite", "d1"}
  Cap = 2
  MaxTick = 1
  MaxRuns <- MCRuns
  MaxActions = 1
  MaxAudits = 2
  SnapshotEvery = 1
  CommitEvery = 3
  BatchSize = 2
  Attempts = 2
  MaxFaults = 3
CHECK_DEADLOCK FALSE
INVARIANTS RequestsWhole AckedRows
PROPERTIES AuditsApart CloseEnds
