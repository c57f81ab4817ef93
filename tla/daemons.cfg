SPECIFICATION FairSpec
CONSTANTS
  Daemons = {d1, d2}
  Starts = {s1}
  Shutdowns = {h1, h2}
  Faults = {"stubborn", "crash", "client"}
  Self = self
  None = none
INVARIANTS AcknowledgedIsStopped SocketOfServer
PROPERTIES ServerImplemented Answered ShutdownEnds
CHECK_DEADLOCK FALSE
