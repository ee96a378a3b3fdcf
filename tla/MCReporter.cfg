CONSTANTS
  Options <- MCOptions
  Events <- MCEvents
  StdlibFiles <- MCStdlib
  Unit = 10
  ErrorThreshold = 2
  TopLimit = 1
  MaxEvents = 2
  MaxLost = 1
  None = None
SPECIFICATION Spec
INVARIANTS SummaryIsExact StreamsAgree PolicyAgrees
CHECK_DEADLOCK FALSE
