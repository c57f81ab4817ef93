SPECIFICATION FairSpec
CONSTANTS
  MaxRuns = 1
  MaxOutput = 3
  Escapes = {2}
  PtyCapacity = 2
  Faults = {"sinks", "capture", "wait"}
PROPERTIES RunsEnd PtyDrained
CHECK_DEADLOCK FALSE
