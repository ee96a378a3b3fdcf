CONSTANTS
  Size = 3
  Stacks = {s1, s2}
  NoEntry = NoEntry
  MaxTime = 4
  MaxPushes = 5
SPECIFICATION Spec
INVARIANT Inv
CHECK_DEADLOCK FALSE
