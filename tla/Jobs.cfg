SPECIFICATION FairSpec
CONSTANTS
    MaxPromises = 3
    MaxPairs = 0
    MaxQueue = 2
    MaxDepth = 3
    JobLimit = 2
    Api <- JobApi
    Inputs <- PlainOnly
    Reasons <- NoReasons
    Plain = Plain
    Thenable = Thenable
    BadThen = BadThen
    TypeErr = TypeErr
    Thrown = Thrown
PROPERTIES DrainedForHost JobsRun EvalReturns
