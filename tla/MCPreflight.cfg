CONSTANTS
  Pid = 10
  Thread = 11
  Tables <- MCTables
  Newcomers <- MCNewcomers
  Bystanders <- MCBystanders
  OwnNs = "host"
  OwnMnt = "host"
  Gone = Gone
  MaxReuses = 2
  Environments <- MCEnvironments
SPECIFICATION PreflightSpec
INVARIANTS ReadyMeansRunnable WatchesTheTarget CoreSparesBystanders SamplerAgrees
CHECK_DEADLOCK FALSE
