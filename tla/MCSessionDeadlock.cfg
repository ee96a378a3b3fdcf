CONSTANTS
  MaxSignals = 1
  StartHoldsLock = TRUE
SPECIFICATION FairSpec
PROPERTY SignalEnds
CHECK_DEADLOCK FALSE
