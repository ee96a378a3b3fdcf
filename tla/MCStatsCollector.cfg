CONSTANTS
  Durations = {1, 2, 3}
  WarnThreshold = 2
  MaxEvents = 3
  MaxTimers = 3
  MaxOthers = 2
  None = None
SPECIFICATION StatsSpec
INVARIANTS OneChain FramesAreTrue ScreenAccounts FinalIsComplete
CHECK_DEADLOCK FALSE
