SPECIFICATION Spec
CONSTANTS
    Api <- FlatApi
    Delays <- TwoDelays
    TimerLimit = 3
    JobLimit = 1
    MaxTimers = 3
    MaxJobs = 2
    MaxEvals = 2
    MaxDepth = 3
INVARIANTS TypeOK
PROPERTIES ClearedStaysClear FifoTimeouts
CHECK_DEADLOCK FALSE
