SPECIFICATION FairSpec
CONSTANTS
    Urls <- MCUrls
    NormOf <- MCNormOf
    PatternOf <- MCPatternOf
    InScopeUrls <- MCInScope
    DynamicUrls <- MCDynamic
    BaseUrl = "base"
    WellKnownUrls = {"robots"}
    Reports <- MCReports
    SendDestructive = FALSE
    Wordlist = TRUE
    RealTools = TRUE
    MaxEndpoints = 5
    MaxRequests = 2
    MaxSeconds = 1
    MaxPasses = 3
    PerPatternCap = 2
    MaxFound = 2
INVARIANTS
    TruncationSurfaced
CHECK_DEADLOCK FALSE
