CONSTANTS
    Clients = {c1, c2}
    Samples <- TwoSamples
    FlagChoices <- PfFlags
    MaxRequests = 2
    MaxFaults = 2
    ZramStats <- ZramLines
SPECIFICATION Spec
INVARIANT PfDiffsConsistent
