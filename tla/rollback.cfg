SPECIFICATION Spec
CONSTANTS
  Starts = {s1, s2}
  Stops = {}
  InDaemon = {s1, s2}
  Faults = {}
  Nobody = Nobody
PROPERTY GenerationIncreases
