CONSTANTS
  Tasks <- MCTasks
  Config <- MCConfig
  Uses <- MCUses
  Threshold = 0
  VariantCount = 2
  None = None
  CpuCount = 2
  PerfCapacity = 2
  MaxTime = 4
SPECIFICATION Spec
INVARIANT BooksInv
CHECK_DEADLOCK FALSE
