CONSTANTS
  MaxSignals = 3
  StartHoldsLock = TRUE
SPECIFICATION Spec
INVARIANT SessionInv
CHECK_DEADLOCK FALSE
