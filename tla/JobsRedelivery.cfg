SPECIFICATION Spec
CONSTANTS
  None = None
  TheKey = k1
  Keys <- OneKey
  KeyOf <- SameKey
  Workers = {w1}
  Messages = {m1, m2}
  Tasks = {t1, t2, t3}
  Concurrency = 2
  MaxReceiveCount = 3
  Stable = {}
  Backlogs <- OneOrLast
SYMMETRY JobsSymmetry
INVARIANTS TypeOK AckedIsCommitted CommittedWasDone
  RepeatedOnlyAfterExpiry
PROPERTIES ImplementsLedger
CHECK_DEADLOCK FALSE
