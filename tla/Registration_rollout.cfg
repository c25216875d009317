CONSTANTS
    Procs = {p1, p2}
    Releases <- RolloutReleases
    Fleets <- RolloutFleets
    Configs <- RolloutConfigs
    InitialDeployments <- RolloutInitials
    MaxBoots = 1
    NULL = NULL
    NoMetadata = NoMetadata
    EmptyMetadata = EmptyMetadata
    Malformed = Malformed
    NoAnswer = NoAnswer
    h1 = h1
    h2 = h2
    v1 = v1
    v2 = v2
SPECIFICATION FairSpec
CHECK_DEADLOCK FALSE
INVARIANTS
    AnyProcsInv
    ReplicasAgree
PROPERTIES
    BootEnds
    ReplacementIsAnnounced
    KeepsPromise
