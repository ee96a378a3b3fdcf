CONSTANTS
  Options <- MCOptions
  Events <- MCEvents
  StdlibFiles <- MCStdlib
  Unit = 10
  ErrorThreshold = 2
  TopLimit = 1
  MaxEvents = 2
  MaxLost = 1
  None = None
SPECIFICATION Spec
INVARIANT ReporterInv
CHECK_DEADLOCK FALSE
