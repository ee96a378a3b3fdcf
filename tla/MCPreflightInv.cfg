CONSTANTS
  Pid = 10
  Thread = 11
  Tables <- MCTables
  Newcomers <- MCNewcomers
  Bystanders <- MCBystanders
  OwnNs = "host"
  OwnMnt = "host"
  Gone = Gone
  MaxReuses = 2
  Environments <- MCEnvironments
SPECIFICATION PreflightSpec
INVARIANT PreflightInv
CHECK_DEADLOCK FALSE
