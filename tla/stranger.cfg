SPECIFICATION Spec
INVARIANTS StrangerUnharmed
CHECK_DEADLOCK FALSE
