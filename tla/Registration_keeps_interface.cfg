CONSTANTS
    Procs = {p1}
    Releases <- FewReleases
    Fleets <- FewFleet
    Configs <- ProductionConfigs
    InitialDeployments <- Initials
    MaxBoots = 2
    NULL = NULL
    NoMetadata = NoMetadata
    EmptyMetadata = EmptyMetadata
    Malformed = Malformed
    NoAnswer = NoAnswer
    h1 = h1
    h2 = h2
    v1 = v1
    v2 = v2
SPECIFICATION Spec
CHECK_DEADLOCK FALSE
PROPERTIES
    ProductionKeepsInterface
