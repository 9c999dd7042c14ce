SPECIFICATION Spec
CONSTANTS
  None = None
  TheKey = k1
  Keys <- OneKey
  KeyOf <- SameKey
  Workers = {w1, w2}
  Messages = {m1}
  Tasks = {t1}
  Concurrency = 1
  MaxReceiveCount = 1
  Stable = {w2}
  Backlogs <- Fresh
INVARIANTS TimedOutWorkerStopsExtending
CHECK_DEADLOCK FALSE
