SPECIFICATION FairSpec
CONSTANTS
  Callers = {c1, c2, c3, c4, c5}
  MaxConcurrency = 2
INVARIANTS TypeOK CountsOwners NoIdlePermit
PROPERTIES NoStarvation FirstComeFirstServed
