SPECIFICATION Spec
CONSTANTS
    Records = {"r1", "r2", "r3", "r4"}
    PageSizes = {0, 1, 2, 3}
    Limits = {0, 3}
    NoLimit = NoLimit
    MaxChanges = 2
    Size = 2
    NoDigest = NoDigest
    MaxChunks = 2
    MangledEvents = FALSE
INVARIANTS RequestCarriesArguments DocumentedAnswersRead RefusalsRaise EndedStreamsReleased SkipsBounded RepeatsBounded ExactWhenStill RecordOfContent
PROPERTIES IterationEnds
CHECK_DEADLOCK FALSE
