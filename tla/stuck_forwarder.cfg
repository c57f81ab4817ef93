SPECIFICATION FairSpec
CONSTANTS
  MaxRuns = 1
  Stops = {k1}
  Sends = {m1}
  Unsubmitted = {m1}
  Short = {}
  TextLength = 2
  ReadSize = 2
  FifoCapacity = 2
  TtyCapacity = 1
  Slow = {}
  Faults = {}
PROPERTY ForwarderCanBeJoined
CHECK_DEADLOCK FALSE
