SPECIFICATION Spec
CONSTANTS
  MaxRuns = 2
  MaxOutput = 2
  Escapes = {1}
  PtyCapacity = 2
  Faults = {}
INVARIANTS ScreenIsCurrent
CHECK_DEADLOCK FALSE
