SPECIFICATION Spec
CONSTANTS
  MaxRuns = 2
  MaxOutput = 2
  Escapes = {1}
  PtyCapacity = 2
  Faults = {"sinks", "capture", "wait"}
INVARIANTS OutputConserved EofMeansComplete LoggedInOrder
PROPERTIES PrevKept
CHECK_DEADLOCK FALSE
