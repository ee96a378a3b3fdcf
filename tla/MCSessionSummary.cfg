CONSTANTS
  MaxSignals = 1
  StartHoldsLock = TRUE
SPECIFICATION Spec
INVARIANTS SummaryOnExit CompletedMeansDown
CHECK_DEADLOCK FALSE
