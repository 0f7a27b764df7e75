SPECIFICATION Spec
INVARIANT SavedIsComplete
CHECK_DEADLOCK FALSE
