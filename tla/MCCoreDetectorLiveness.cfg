CONSTANTS
  MaxSessions = 1
  MaxLines = 3
  PipeCapacity = 1
  JoinMayTimeOut = TRUE
SPECIFICATION ClientFairSpec
PROPERTIES CallsReturn FailureSurfaces
