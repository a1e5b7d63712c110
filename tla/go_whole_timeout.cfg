CONSTANTS
    NoPolicy = NoPolicy
    Policies <- SmallPolicies
    Delays = {0, 2}
    Timeouts = {0, 2}
    MaxAttempts = 4
SPECIFICATION Spec
INVARIANT WholeCallInTime
CHECK_DEADLOCK FALSE
