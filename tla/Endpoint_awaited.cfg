CONSTANTS
    Calls = {c1, c2, c3, c4, c5}
    ExtServers = {e1, e2}
    Sessions = {x1, x2}
    NULL = NULL
    MaxDefinitions = 2
    StopDuringListen = FALSE
SPECIFICATION FairSpec
CHECK_DEADLOCK FALSE
INVARIANTS
    ServesHeldHandler
    AwaitedInv
PROPERTIES
    StopMeansStopped
    StartMeansStopped
    ImplementsPromise
