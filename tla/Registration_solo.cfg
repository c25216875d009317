CONSTANTS
    Procs = {p1}
    Releases <- AllReleases
    Fleets <- AllFleet
    Configs <- AllConfigs
    InitialDeployments <- Initials
    MaxBoots = 3
    NULL = NULL
    NoMetadata = NoMetadata
    EmptyMetadata = EmptyMetadata
    Malformed = Malformed
    NoAnswer = NoAnswer
    h1 = h1
    h2 = h2
    v1 = v1
    v2 = v2
SPECIFICATION Spec
CHECK_DEADLOCK FALSE
INVARIANTS
    PromiseInv
    HookSeesLiveDeployment
PROPERTIES
    
    NoUnnecessaryPost
    KeepsPromise
