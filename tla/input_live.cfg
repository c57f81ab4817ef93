SPECIFICATION FairSpec
CONSTANTS
  MaxRuns = 1
  Stops = {k1}
  Sends = {m1}
  Unsubmitted = {}
  Short = {}
  TextLength = 2
  ReadSize = 2
  FifoCapacity = 2
  TtyCapacity = 1
  Slow = {1}
  Faults = {"initialize", "spawn", "setup", "wait"}
INVARIANT ReleasedAtTheEnd
PROPERTIES RunsEnd SendsEnd InputIsRead
CHECK_DEADLOCK FALSE
