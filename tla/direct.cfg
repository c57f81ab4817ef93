SPECIFICATION Spec
CONSTANTS
  Starts = {s1, s2, s3}
  Stops = {}
  InDaemon = {}
  Faults = {"setup error", "supervisor dies"}
  Nobody = Nobody
INVARIANTS StartingIsOwned AtMostOneChild
PROPERTY RecordImplemented
