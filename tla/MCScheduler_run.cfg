CONSTANTS
    e1 = e1
    e2 = e2
    e3 = e3
    t1 = t1
    t2 = t2
    t3 = t3
    w1 = w1
    w2 = w2
    NoThread = NoThread
    Events <- ThreeEvents
    Owners = {w1, w2}
    Owner <- OwnerOfThree
    Threads = {t1, t2, t3}
    Delays = {1, 2}
    Horizon = 2
    MaxLag = 1
    MaxLateness = 0
    LateInserts = TRUE
SPECIFICATION FairSpec
INVARIANTS
    ListIsSound
    EventHasOneOwner
    HeadIsWatched
    OnlyLateEventsRelock
PROPERTIES
    ImplementsEventList
    EveryEventFires
CHECK_DEADLOCK FALSE
