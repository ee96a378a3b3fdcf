CONSTANTS
  Size = 2
  Stacks <- MCStacks
  NoEntry = NoEntry
  MaxTime = 4
  MaxPushes = 3
  StdlibFiles <- MCStdlib
  Padding = 1
  Offset = 3
  MaxEvents = 1
SPECIFICATION Spec
INVARIANT CorrelatorInv
CHECK_DEADLOCK FALSE
