CONSTANTS
  MaxStarts = 2
  MaxRecords = 2
  LostCounts = {0, 2}
SPECIFICATION FairSpec
INVARIANTS PollerHasBpf ReleasedAtRest LossesAreThisRuns
PROPERTIES ImplementsDetector FailureSurfaces CallsReturn
CHECK_DEADLOCK FALSE
