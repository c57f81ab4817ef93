SPECIFICATION FairSpec
CONSTANTS
  MaxRuns = 1
  MaxOutput = 1
  Escapes = {}
  PtyCapacity = 1
  Faults = {"capture"}
PROPERTIES CaptureErrorStopsSession
CHECK_DEADLOCK FALSE
