SPECIFICATION Spec
CONSTANTS
    Token = 4
    RefillPerTick = 3
    TicksPerSecond = 2
    MaxClock = 10
INVARIANTS
    WindowBound
PROPERTIES
    PatientCallerGranted
