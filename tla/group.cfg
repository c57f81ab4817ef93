SPECIFICATION Spec
INVARIANTS GroupCleanedUp
CHECK_DEADLOCK FALSE
