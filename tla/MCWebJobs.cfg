SPECIFICATION FairSpec
CONSTANTS
    j1 = j1
    j2 = j2
    j3 = j3
    v1 = v1
    Jobs = {j1, j2, j3}
    Viewers = {v1}
    Agents = {j1}
    Escapes = TRUE
INVARIANTS
    OneScanAtATime
    ServedReportsFinal
    DoneHasResults
PROPERTIES
    QueueSpec
CHECK_DEADLOCK FALSE
