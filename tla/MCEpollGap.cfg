CONSTANTS
  Tasks <- MCPair
  Config <- MCConfig
  Uses <- MCPairUses
  Threshold = 0
  VariantCount = 2
  None = None
  CpuCount = 2
  PerfCapacity = 2
  MaxTime = 4
SPECIFICATION FairSpec
INVARIANTS ExactGaps LossAccounting
PROPERTY LongCallbackSurfaces
CHECK_DEADLOCK FALSE
