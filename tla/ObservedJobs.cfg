SPECIFICATION FairSpec
CONSTANTS
  None = None
  Attempts = {a1, a2, a3}
  Wrapped = {a1}
  Together <- AloneOrTogether
  Keys = {k1, k2}
INVARIANTS TypeOK HandlerSpanAgrees SpansAreOwn
PROPERTIES ImplementsBareJob BlameIsFair
CHECK_DEADLOCK FALSE
