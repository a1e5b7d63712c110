CONSTANTS
    t1 = t1
    t2 = t2
    c1 = c1
    c2 = c2
    NoConn = NoConn
    Threads = {t1, t2}
    Conns = {c1, c2}
    MaxSize = 1
    Timed = {t1}
    Bodies = {"none", "seekable", "oneshot"}
    MaxCalls = 3
SPECIFICATION FairSpec
INVARIANTS NonIdempotentOnce OwnResponse SendsWholeBody
PROPERTY RequestEnds
CHECK_DEADLOCK FALSE
