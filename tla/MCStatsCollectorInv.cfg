CONSTANTS
  Durations = {1, 2, 3}
  WarnThreshold = 2
  MaxEvents = 3
  MaxTimers = 3
  MaxOthers = 2
  None = None
SPECIFICATION StatsSpec
INVARIANT StatsInv
CHECK_DEADLOCK FALSE
