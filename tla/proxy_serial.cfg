CONSTANTS
    Clients = {c1}
    Samples <- TwoSamples
    FlagChoices <- SingleFlagsAll
    MaxRequests = 3
    MaxFaults = 2
    ZramStats <- ZramLines
SPECIFICATION Spec
INVARIANTS
    PfDiffsConsistent
    NoDuplicateSample
