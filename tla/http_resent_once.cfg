CONSTANTS
    t1 = t1
    t2 = t2
    c1 = c1
    c2 = c2
    NoConn = NoConn
    Threads = {t1, t2}
    Conns = {c1, c2}
    MaxSize = 2
    Timed = {}
    Bodies = {"none"}
    MaxCalls = 3
SPECIFICATION Spec
INVARIANT ResentAtMostOnce
CHECK_DEADLOCK FALSE
