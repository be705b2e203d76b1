SPECIFICATION Spec
CONSTANTS
    s1 = s1
    s2 = s2
    None = None
    Schedules = {s1, s2}
    Suspends = {s2}
    Instances = {i1, i2, i3}
    Objects = {o1, o2, o3}
    Levels = {1, 2}
INVARIANTS
    EveryObjectHasOneOwner
    OneRunPerSchedule
    StopFindsItsSchedule
    NoScheduleForgotten
SYMMETRY Symmetry
CHECK_DEADLOCK FALSE
