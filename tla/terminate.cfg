SPECIFICATION Spec
INVARIANTS OkMeansGone StaleRecordHarmless GroupSurvivors
CHECK_DEADLOCK FALSE
