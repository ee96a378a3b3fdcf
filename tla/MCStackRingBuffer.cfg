CONSTANTS
  Size = 3
  Stacks = {s1, s2}
  NoEntry = NoEntry
  MaxTime = 4
  MaxPushes = 5
SPECIFICATION Spec
INVARIANTS Chronological SearchesAreExact
PROPERTY WindowSpec
CHECK_DEADLOCK FALSE
