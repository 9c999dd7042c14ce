SPECIFICATION Spec
CONSTANTS
  NoOwner = NoOwner
  Keys = {k1}
  Owners = {o1, o2}
  TicksPerSecond = 1
  LeaseDurationSeconds = 3
  RecordTtlSeconds = 1
  MaxSkew = 0
  MaxNow = 4
SYMMETRY OwnerSymmetry
INVARIANTS EntitledCanSettle
CHECK_DEADLOCK FALSE
