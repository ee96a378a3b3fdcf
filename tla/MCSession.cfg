CONSTANTS
  MaxSignals = 3
  StartHoldsLock = TRUE
SPECIFICATION FairSpec
INVARIANTS SingleSummary TruthfulSummary ExitMatchesSummary OrderlyExit EarlyExitHoldsNothing
PROPERTY SignalEndsUnlessBlocked
CHECK_DEADLOCK FALSE
