SPECIFICATION FairSpec
CONSTANTS
  NoOne = NoOne
  Loops = {l1, l2}
  Stops = {s1, s2}
  JobCount = 3
  MaxConcurrency = 2
  BatchSize = 3
  Overlap = FALSE
INVARIANTS TypeOK NeverWaits StoppedIsQuiet
PROPERTIES ShutdownEnds
CHECK_DEADLOCK FALSE
