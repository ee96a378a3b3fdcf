CONSTANTS
  MaxStarts = 2
  MaxRecords = 2
  LostCounts = {0, 2}
SPECIFICATION Spec
INVARIANT LossInv
CHECK_DEADLOCK FALSE
