SPECIFICATION FairSpec
CONSTANTS
  EventSizes = {1, 2, 3}
  MaxBatchSize = 2
  MaxPendingMetrics = 4
  HasInterval = TRUE
  Closers = {c1, c2}
  MaxPoints = 8
INVARIANTS TypeOK EveryPointCounted NothingStranded
PROPERTIES OldestAreKept EverythingIsSent
CHECK_DEADLOCK FALSE
