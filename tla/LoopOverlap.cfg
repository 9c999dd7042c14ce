SPECIFICATION Spec
CONSTANTS
  NoOne = NoOne
  Loops = {l1, l2}
  Stops = {s1}
  JobCount = 3
  MaxConcurrency = 2
  BatchSize = 2
  Overlap = TRUE
INVARIANTS NeverWaits
CHECK_DEADLOCK FALSE
