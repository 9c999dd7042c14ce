SPECIFICATION FairSpec
CONSTANTS
  None = None
  Messages = {m1}
  Listings = {l1, l2}
  Callers = {c1, c2}
INVARIANTS TypeOK NothingIsLost SendingIsExcused
PROPERTIES DlqDrains
