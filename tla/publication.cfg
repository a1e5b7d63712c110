CONSTANT Generations = 1
SPECIFICATION Spec
INVARIANT UntouchedOnFailure
CHECK_DEADLOCK FALSE
