SPECIFICATION FairSpec
CONSTANTS
    t1 = t1
    t2 = t2
    t3 = t3
    t4 = t4
    w1 = w1
    w2 = w2
    Cells = {c1, c2}
    NoCell = NoCell
    UIntSpan = 16
    Tasks = {t1, t2, t4}
    NoTask = NoTask
    Workflows = {w1, w2}
    WorkflowOf <- Two_WorkflowOf
    PoolSize = 1
    QueueOf <- Unknown_QueueOf
    Concurrency <- One_Concurrency
    MaxPid = 4
    Pids = {p1, p2}
    ResumeTid <- Resume40
    Strays = {}
    MayCancel = {}
    MaxRuns <- Once
    SpuriousWakeups = FALSE
    ChildMayDie = FALSE
    MsgrcvMayFail = FALSE
    LogsDelete = TRUE
PROPERTIES
    ShutdownCompletes
    QueuedTaskIsServed
    ExecutingTaskStops
CHECK_DEADLOCK FALSE
