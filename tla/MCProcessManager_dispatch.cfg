SPECIFICATION Spec
CONSTANTS
    t1 = t1
    t2 = t2
    t3 = t3
    t4 = t4
    w1 = w1
    w2 = w2
    Cells = {c1, c2, c3}
    NoCell = NoCell
    UIntSpan = 16
    Tasks = {t1, t2, t3}
    NoTask = NoTask
    Workflows = {w1}
    WorkflowOf <- One_WorkflowOf
    PoolSize = 2
    QueueOf <- Two_QueueOf
    Concurrency <- One_Concurrency
    MaxPid = 4
    Pids = {p1, p2}
    ResumeTid <- Resume2
    Strays = {}
    MayCancel = {w1}
    MaxRuns <- T1Twice
    SpuriousWakeups = FALSE
    ChildMayDie = TRUE
    MsgrcvMayFail = FALSE
    LogsDelete = FALSE
INVARIANTS
    TypeOK
    ForkPossibleFresh
    TidOwnership
    OutputBelongsToTask
    ForkerExitsOnlyOnShutdown
    ConcurrencyRespected
    QueuedTaskIsHeld
PROPERTIES
    StopIsFinal
SYMMETRY Symmetry
CHECK_DEADLOCK FALSE
