SPECIFICATION FairSpec
CONSTANTS
  Starts = {s1, s2}
  Stops = {k1}
  InDaemon = {s1, k1}
  Faults = {}
  Nobody = Nobody
PROPERTIES Answered StartingResolves ZombiesReaped
CHECK_DEADLOCK FALSE
