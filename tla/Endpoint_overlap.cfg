CONSTANTS
    Calls = {c1, c2, c3}
    ExtServers = {e1, e2}
    Sessions = {x1}
    NULL = NULL
    MaxDefinitions = 2
    StopDuringListen = TRUE
SPECIFICATION Spec
CHECK_DEADLOCK FALSE
SYMMETRY Symmetry
PROPERTIES
    StartMeansStopped
