CONSTANTS
  Size = 2
  Stacks <- MCReimporting
  NoEntry = NoEntry
  MaxTime = 4
  MaxPushes = 3
  StdlibFiles <- MCStdlib
  Padding = 1
  Offset = 3
  MaxEvents = 1
SPECIFICATION Spec
INVARIANT PrefersAppFrames
CHECK_DEADLOCK FALSE
