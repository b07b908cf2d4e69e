SPECIFICATION Spec
CONSTANTS
    c1 = c1
    c2 = c2
    Cell <- TwoCells
    Kinds <- ObjectKinds
    Slots <- ObjectSlots
    MaxEdges = 2
    MaxGlobals = 1
    MaxLocals = 1
    MaxMinor = 1
    NURSERY_THRESHOLD = 1
    GC_THRESHOLD = 3
    MAJOR_AFTER_MINOR = 1
SYMMETRY Symmetric
PROPERTY OnlyGarbageSevered
CHECK_DEADLOCK FALSE
