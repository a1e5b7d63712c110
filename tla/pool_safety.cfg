CONSTANTS
    t1 = t1
    t2 = t2
    t3 = t3
    t4 = t4
    c1 = c1
    c2 = c2
    c3 = c3
    NoConn = NoConn
    Threads = {t1, t2, t3, t4}
    Conns = {c1, c2, c3}
    MaxSize = 2
    Timed = {t1}
SPECIFICATION FairSpec
INVARIANTS LiveConnectionsCapped ConnectionsExclusive
PROPERTIES ImplementsLease WakesWithoutTimeouts TimedCallEnds
