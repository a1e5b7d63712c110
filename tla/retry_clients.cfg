CONSTANTS
    Never = Never
    Policies <- SmallPolicies
    JsPolicies <- SmallJsPolicies
    GoPolicies <- SmallGoPolicies
    Delays = {0, 2}
    Timeout = 2
    Deadlines = {0, 3}
    MaxTime = 4
    Timeouts = {0, 2}
    MaxAttempts = 4
SPECIFICATION ClientsSpec
INVARIANTS LateMeansTimeout RequestsBounded JsEndsByDeadline BodyReleased OneShotOutcomeKept
PROPERTIES ImplementsContract StreamTimely SameBytes AsyncEndsByDeadline CallsEnd
CHECK_DEADLOCK FALSE
