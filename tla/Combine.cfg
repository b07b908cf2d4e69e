SPECIFICATION Spec
CONSTANTS
    Sources = 2
    MaxCalls = 2
    MaxCaps = 1
    MaxItems <- OneThenTwo
    Kinds <- Every
INVARIANTS TypeOK AggregateSound FirstSourceWins UnhandledExact CustomOnce
CHECK_DEADLOCK FALSE
