SPECIFICATION FairSpec
CONSTANTS
    c1 = c1
    c2 = c2
    c3 = c3
    Conns = {c1, c2, c3}
    TargetHost = target
    PassiveSources = {archive}
    OtherHosts = {evil}
    NoHost = nohost
    AllowDestructive = FALSE
    MaxRequests = 3
    MaxConcurrency = 2
    Token = 1
    RefillPerTick = 2
    TicksPerSecond = 1
    MaxClock = 1
INVARIANTS
    SlotsAccounted
    DialsPaidFor
    OnlyPolicyTraffic
PROPERTIES
    GateSpec
    LimiterSpec
    WaitersServed
CHECK_DEADLOCK FALSE
