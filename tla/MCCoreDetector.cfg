CONSTANTS
  MaxSessions = 2
  MaxLines = 2
  PipeCapacity = 2
  JoinMayTimeOut = FALSE
SPECIFICATION Spec
INVARIANTS StartedMeansReady NoSidecarLeak StopIsSilent LossesReachSummary
PROPERTY ImplementsDetector
