SPECIFICATION Spec
CONSTANTS
    t1 = t1
    t2 = t2
    t3 = t3
    t4 = t4
    w1 = w1
    w2 = w2
    Cells = {c1, c2, c3, c4}
    NoCell = NoCell
    UIntSpan = 16
    Tasks = {t1, t2, t3, t4}
    NoTask = NoTask
    Workflows = {w1, w2}
    WorkflowOf <- Two_WorkflowOf
    PoolSize = 1
    QueueOf <- One_QueueOf
    Concurrency <- One_Concurrency
    MaxPid = 4
    Pids = {p1, p2}
    ResumeTid <- Fresh
    Strays = {}
    MayCancel = {w2}
    MaxRuns <- Once
    SpuriousWakeups = FALSE
    ChildMayDie = FALSE
    MsgrcvMayFail = FALSE
    LogsDelete = TRUE
INVARIANTS
    ConcurrencyRespected
SYMMETRY Symmetry
CHECK_DEADLOCK FALSE
