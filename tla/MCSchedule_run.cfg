SPECIFICATION Spec
CONSTANTS
    Length <- SmallLength
    MonthDays <- SmallMonthDays
    LeapMonth = 1
    LeapEvery = 2
    Years = 8
    Horizon = 104
    Descriptions <- SmallDescriptions
INVARIANTS
    AlarmIsScheduled
    NothingSkipped
CHECK_DEADLOCK FALSE
