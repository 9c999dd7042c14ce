SPECIFICATION Spec
CONSTANTS
  None = None
  TheKey = k1
  Keys <- OneKey
  KeyOf <- SameKey
  Invocations = {i1, i2}
  Messages = {m1, m2}
  Concurrency = 1
  MaxRecords = 3
SYMMETRY BatchSymmetry
INVARIANTS TypeOK DoneIsCommitted RepeatedOnlyAfterExpiry
PROPERTIES ImplementsLedger
CHECK_DEADLOCK FALSE
