SPECIFICATION Spec
CONSTANTS
  Starts = {s1, s2}
  Stops = {k1}
  InDaemon = {}
  Faults = {}
  Nobody = Nobody
INVARIANT OneRunPerGeneration
