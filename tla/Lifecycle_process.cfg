CONSTANTS
    Sessions = {x1, x2}
    Releases <- SomeReleases
    MaxComponents = 2
    Configs <- SomeConfigs
    InitialDeployments <- SomeDeployments
    Setups <- AllSetups
    NULL = NULL
    NoMetadata = NoMetadata
    EmptyMetadata = EmptyMetadata
    Malformed = Malformed
    NoAnswer = NoAnswer
    h1 = h1
    v1 = v1
    v2 = v2
SPECIFICATION FairSpec
CHECK_DEADLOCK FALSE
INVARIANTS
    LifecycleInv
    RegistersWhatServes
    UrlIsLive
    DestroyedIsQuiet
PROPERTIES
    UsesEndpointOrderly
    InitEnds
