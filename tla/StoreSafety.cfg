SPECIFICATION FairSpec
CONSTANTS
  NoOwner = NoOwner
  Keys = {k1}
  Owners = {o1, o2}
  TicksPerSecond = 2
  LeaseDurationSeconds = 1
  RecordTtlSeconds = 1
  MaxSkew = 1
  MaxNow = 4
INVARIANTS TypeOK MutualExclusion Inductive
PROPERTIES TerminalIsFinal ImplementsLedger AcquireAnswers
CHECK_DEADLOCK FALSE
