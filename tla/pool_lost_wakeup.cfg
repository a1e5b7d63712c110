CONSTANTS
    t1 = t1
    t2 = t2
    t3 = t3
    t4 = t4
    c1 = c1
    c2 = c2
    c3 = c3
    NoConn = NoConn
    Threads = {t1, t2, t3}
    Conns = {c1, c2}
    MaxSize = 1
    Timed = {t1}
SPECIFICATION FairSpec
PROPERTY BlockedBorrowerWakes
