CONSTANTS
    Streams <- EmptyData
    MAX_BUFFER = 6
    MaxChunk = 3
    ReadTimeouts = {2}
    Deadlines = {}
    Never = Never
    MaxClock = 0
    ServedStreams = {}
SPECIFICATION EventSpec
INVARIANT FrameCapped
CHECK_DEADLOCK FALSE
