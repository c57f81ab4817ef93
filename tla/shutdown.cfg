SPECIFICATION Spec
CONSTANTS
  Daemons = {d1}
  Starts = {s1}
  Shutdowns = {h1}
  Faults = {}
  Self = self
  None = none
INVARIANTS ShutdownLeavesNoSession
CHECK_DEADLOCK FALSE
