SPECIFICATION Spec
CONSTANTS
  Sources <- MCSources
  MaxChunk = 2
  BLOCK = 2
  MAX_BYTES = 5
  MaxGrowth = 1
INVARIANTS NoSequenceLeaks
CHECK_DEADLOCK FALSE
