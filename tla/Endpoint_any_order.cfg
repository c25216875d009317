CONSTANTS
    Calls = {c1, c2, c3, c4}
    ExtServers = {e1, e2}
    Sessions = {x1, x2}
    NULL = NULL
    MaxDefinitions = 2
    StopDuringListen = TRUE
SPECIFICATION FairSpec
CHECK_DEADLOCK FALSE
INVARIANTS
    SessionsTracked
    PortIsLive
PROPERTIES
    CallsReturn
