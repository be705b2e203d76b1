CONSTANTS
    a1 = a1
    a2 = a2
    b = b
    b1 = b1
    b2 = b2
    c = c
    c1 = c1
    c2 = c2
    JA = JA
    JB = JB
    JC = JC
    JC1 = JC1
    JC2 = JC2
    Root = Root
    None = None
    Tasks <- ChainTasks
    Jobs <- ChainJobs
    Subjobs <- ChainSubjobs
    TasksOf <- ChainTasksOf
    LoopedTasks = {b}
    LoopedJobs = {JC}
    Clones <- ChainClones
    Policy <- ChainPolicy
    Conditional = {JB}
    Fallible = {JB, JC, b, b2}
    UnknownQueue = {b2}
    MayVanish = {a2, c1}
    Retvals = {0, 1}
    ForkMayFail = TRUE
    InvalidOutput = TRUE
    MayCancel = FALSE
    Level = 2
    MaxRestarts = 0
SPECIFICATION Spec
INVARIANTS
    NothingAfterTheEnd
    SuccessMeansDone
    SubjobsInOrder
    RetriesAreUsedUp
CHECK_DEADLOCK FALSE
