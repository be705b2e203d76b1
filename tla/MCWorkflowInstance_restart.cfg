CONSTANTS
    a1 = a1
    a2 = a2
    b = b
    b1 = b1
    b2 = b2
    c = c
    c1 = c1
    c2 = c2
    JA = JA
    JB = JB
    JC = JC
    JC1 = JC1
    JC2 = JC2
    Root = Root
    None = None
    Tasks <- PairTasks
    Jobs <- PairJobs
    Subjobs <- PairSubjobs
    TasksOf <- PairTasksOf
    LoopedTasks = {b}
    LoopedJobs = {}
    Clones <- PairClones
    Policy <- PairPolicy
    Conditional = {JB}
    Fallible = {b2}
    UnknownQueue = {}
    MayVanish = {b1}
    Retvals = {0, 1}
    ForkMayFail = FALSE
    InvalidOutput = FALSE
    MayCancel = TRUE
    Level = 3
    MaxRestarts = 2
SPECIFICATION FairSpec
INVARIANTS
    CountersMatch
    SavedIsCurrent
PROPERTIES
    WorkflowEnds
CHECK_DEADLOCK FALSE
