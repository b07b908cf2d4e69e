SPECIFICATION FairSpec
CONSTANTS
    Api <- NestedApi
    Delays <- TwoDelays
    TimerLimit = 2
    JobLimit = 9
    MaxTimers = 2
    MaxJobs = 1
    MaxEvals = 3
    MaxDepth = 8
INVARIANTS NeverOverdue UniqueIds
PROPERTIES MicrotasksFirst EvalReturns
CHECK_DEADLOCK FALSE
