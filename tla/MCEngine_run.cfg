SPECIFICATION FairSpec
CONSTANTS
    None = None
    Ids = {1}
    Conns = {c1, c2}
    MaxLost = 1
    Levels = {0, 1, 2, 3}
    UIntSpan = 8
    SpuriousWakeups = TRUE
    Limit = 1
INVARIANTS
    RegistryIsExact
    WaiterIsWatched
    KnownInstanceIsFound
    ExitKeepsTheState
    ExecutingNeverOvercounts
PROPERTIES
    WaitEnds
    EngineExits
CHECK_DEADLOCK FALSE
