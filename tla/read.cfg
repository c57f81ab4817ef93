SPECIFICATION Spec
CONSTANTS
  Sources <- MCSources
  MaxChunk = 2
  BLOCK = 2
  MAX_BYTES = 5
  MaxGrowth = 1
INVARIANTS TypeOK CleanedAsWhole TailIsWhole
CHECK_DEADLOCK FALSE
