CONSTANTS
  Durations = {1, 2, 3}
  WarnThreshold = 2
  MaxEvents = 2
  MaxTimers = 1
  MaxOthers = 1
  None = None
SPECIFICATION StatsSpec
INVARIANT PercentileIsNearestRank
CHECK_DEADLOCK FALSE
