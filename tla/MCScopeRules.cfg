SPECIFICATION Spec
CONSTANTS
    Segments <- MCSegments
    VariableSegs = {"42"}
    StartsWith <- MCStartsWith
    Empty = ""
    IdMark = "{id}"
    Hosts <- MCHosts
    InternalHosts = {"loopback"}
    AllowInternal = FALSE
    ScopeHost = "nohost"
    PathPrefix <- NoPrefix
    Targets <- MCTargets
    References <- MCReferences
    Assets <- MCAssets
INVARIANTS
    VerdictSurvives
    KeyIsRequest
    ParametersStayWithRequest
CHECK_DEADLOCK FALSE
