SPECIFICATION FairSpec
CONSTANTS
  None = None
  TheKey = k1
  Keys <- OneKey
  KeyOf <- SameKey
  Workers = {w1, w2}
  Messages = {m1}
  Tasks = {t1, t2}
  Concurrency = 1
  MaxReceiveCount = 2
  Stable = {w2}
  Backlogs <- Fresh
PROPERTIES EveryTaskEnds EveryMessageLeaves
CHECK_DEADLOCK FALSE
