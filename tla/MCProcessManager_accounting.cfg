SPECIFICATION Spec
CONSTANTS
    t1 = t1
    t2 = t2
    t3 = t3
    t4 = t4
    w1 = w1
    w2 = w2
    Cells = {c1, c2, c3}
    NoCell = NoCell
    UIntSpan = 16
    Tasks = {t1, t2, t3}
    NoTask = NoTask
    Workflows = {w1, w2}
    WorkflowOf <- Two_WorkflowOf
    PoolSize = 1
    QueueOf <- Unknown_QueueOf
    Concurrency <- One_Concurrency
    MaxPid = 1
    Pids = {p1, p2}
    ResumeTid <- Fresh
    Strays = {0}
    MayCancel = {w2}
    MaxRuns <- Once
    SpuriousWakeups = TRUE
    ChildMayDie = FALSE
    MsgrcvMayFail = TRUE
    LogsDelete = TRUE
INVARIANTS
    NoLostWakeup
    RunningMatchesTids
SYMMETRY TaskSymmetry
CHECK_DEADLOCK FALSE
