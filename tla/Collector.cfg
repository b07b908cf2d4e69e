SPECIFICATION Spec
CONSTANTS
    c1 = c1
    c2 = c2
    Cell <- TwoCells
    Kinds <- CycleKinds
    Slots <- CycleSlots
    MaxEdges = 3
    MaxGlobals = 1
    MaxLocals = 1
    MaxMinor = 1
    NURSERY_THRESHOLD = 1
    GC_THRESHOLD = 2
    MAJOR_AFTER_MINOR = 1
SYMMETRY Symmetric
INVARIANTS TypeOK NurseryExact
PROPERTIES KeepsReachable NothingLeaks
CHECK_DEADLOCK FALSE
