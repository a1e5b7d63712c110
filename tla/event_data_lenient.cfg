SPECIFICATION Spec
CONSTANTS
    Records = {}
    PageSizes = {1}
    Limits = {}
    NoLimit = NoLimit
    MaxChanges = 0
    Size = 0
    NoDigest = NoDigest
    MaxChunks = 1
    MangledEvents = TRUE
INVARIANT UnmatchedEventsHandedOver
CHECK_DEADLOCK FALSE
