CONSTANTS
  Durations = {1, 2, 3}
  WarnThreshold = 2
  MaxEvents = 1
  MaxTimers = 2
  MaxOthers = 1
  None = None
SPECIFICATION StatsSpec
INVARIANTS FinalIsLast OthersDoNotCorrupt
CHECK_DEADLOCK FALSE
