SPECIFICATION Spec
CONSTANTS
  Starts = {s1, s2}
  Stops = {k1}
  InDaemon = {s1, k1}
  Faults = {"slow start", "no supervisor", "client dies", "supervisor dies", "daemon dies"}
  Nobody = Nobody
INVARIANTS LockedCopyIsCurrent StopOutlivesProcesses PidsOfGeneration ExitCodeIsTrue
PROPERTIES NoResurrection FirstWriterWins
