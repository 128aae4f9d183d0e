CONSTANTS
    Clients = {c1}
    Samples <- TwoSamples
    FlagChoices <- AllFlags
    MaxRequests = 1
    MaxFaults = 2
    ZramStats <- ZramLines
SPECIFICATION Spec
INVARIANT ReadbackOwnSeries
