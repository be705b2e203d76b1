CONSTANTS
    e1 = e1
    e2 = e2
    e3 = e3
    t1 = t1
    t2 = t2
    t3 = t3
    w1 = w1
    w2 = w2
    NoThread = NoThread
    Events <- TwoEvents
    Owners = {w1, w2}
    Owner <- OwnerOfTwo
    Threads = {t1, t2}
    Delays = {1, 2}
    Horizon = 3
    MaxLag = 1
    MaxLateness <- InTime
    LateInserts = FALSE
SPECIFICATION FairSpec
PROPERTIES
    ShutdownCompletes
CHECK_DEADLOCK FALSE
