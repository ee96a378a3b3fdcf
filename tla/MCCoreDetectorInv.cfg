CONSTANTS
  MaxSessions = 2
  MaxLines = 2
  PipeCapacity = 2
  JoinMayTimeOut = FALSE
SPECIFICATION Spec
INVARIANT LedgerInv
