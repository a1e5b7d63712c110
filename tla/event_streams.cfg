CONSTANTS
    Streams <- AllStreams
    MAX_BUFFER = 6
    MaxChunk = 3
    ReadTimeouts = {2}
    Deadlines = {1, 3}
    Never = Never
    MaxClock = 4
    ServedStreams <- FrameStreams
SPECIFICATION EventSpec
INVARIANTS FramesAsWhole ValuesCapped EndIsWhole ConnectionSettled
PROPERTIES DeadlineKept RefusalsKept WaitsEnd
CHECK_DEADLOCK FALSE
