SPECIFICATION ServedSpec
CONSTANTS
    Jobs = {j1, j2}
    Viewers <- NoViewers
    Agents = {j2}
    Escapes = TRUE
    CliScans = {"cli"}
    Tools = {"httpx", "arjun"}
    FileTools = {"arjun"}
    MaxCalls = 1
INVARIANTS
    ToolsInContainers
    LeftoversExplained
PROPERTIES
    QueueMoves
CHECK_DEADLOCK FALSE
