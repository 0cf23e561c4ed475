SPECIFICATION FairSpec
CONSTANTS
    j1 = j1
    j2 = j2
    j3 = j3
    v1 = v1
    Jobs = {j1, j2}
    Viewers = {}
    Agents = {j1}
    Escapes = TRUE
PROPERTIES
    StatusSettles
CHECK_DEADLOCK FALSE
