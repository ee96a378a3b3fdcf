CONSTANTS
  Pid = 10
  Thread = 11
  Tables <- MCTables
  Newcomers <- MCNewcomers
  Bystanders <- MCBystanders
  OwnNs = "host"
  OwnMnt = "host"
  Gone = Gone
  MaxReuses = 1
  Environments <- MCEnvironments
SPECIFICATION PreflightSpec
INVARIANTS ReadyMeansRunnableForAll BccSparesBystanders
CHECK_DEADLOCK FALSE
