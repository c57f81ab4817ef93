SPECIFICATION Spec
CONSTANTS
  MaxRuns = 3
  Stops = {}
  Sends = {m1}
  Unsubmitted = {}
  Short = {}
  TextLength = 2
  ReadSize = 2
  FifoCapacity = 1
  TtyCapacity = 1
  Slow = {1}
  Faults = {"setup"}
INVARIANTS RunningHasReader ForwardsOwnFifo InputConserved NoTruncatedLine
CHECK_DEADLOCK FALSE
