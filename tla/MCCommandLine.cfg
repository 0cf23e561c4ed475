SPECIFICATION Spec
CONSTANTS
    MaxRequests = 2
    Agent = TRUE
    Reasons <- AllReasons
    MaxRuns = 3
    MaxRows = 3
INVARIANTS
    ZeroMeansReported
    PartialSaid
CHECK_DEADLOCK FALSE
