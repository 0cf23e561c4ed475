SPECIFICATION FairSpec
CONSTANTS
    api = api
    cdn = cdn
    broken = broken
    Refs = {api, cdn, broken}
    InScopeRefs = {api}
    MalformedRefs = {broken}
    MaxCalls = 3
    MaxBatch = 2
INVARIANTS
    ConversationLegal
    CostBounded
    NeverOffTarget
PROPERTIES
    EndsWithoutProxy
CHECK_DEADLOCK FALSE
