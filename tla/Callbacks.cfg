SPECIFICATION Spec
CONSTANTS
    MaxPromises = 3
    MaxPairs = 2
    MaxQueue = 2
    MaxDepth = 2
    JobLimit = 2
    Api <- CallbackApi
    Inputs <- AllInputs
    Reasons <- OneReason
    Plain = Plain
    Thenable = Thenable
    BadThen = BadThen
    TypeErr = TypeErr
    Thrown = Thrown
INVARIANTS TypeOK SettledClean OneOwner HandledNotReported UnhandledComplete HandlersInOrder
PROPERTIES KeepsPromises LockedIn
