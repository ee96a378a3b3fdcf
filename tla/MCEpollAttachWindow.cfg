CONSTANTS
  Tasks <- MCAlone
  Config <- MCConfig
  Uses <- MCAloneMixes
  Threshold = 0
  VariantCount = 2
  None = None
  CpuCount = 2
  PerfCapacity = 4
  MaxTime = 4
SPECIFICATION Spec
INVARIANT TimedAcrossVariants
CHECK_DEADLOCK FALSE
