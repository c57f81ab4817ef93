SPECIFICATION Spec
CONSTANTS
  Starts = {s1}
  Stops = {k1}
  InDaemon = {s1, k1}
  Faults = {}
  Nobody = Nobody
INVARIANT StopIsHonored
