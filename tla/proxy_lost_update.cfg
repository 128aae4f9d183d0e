CONSTANTS
    Clients = {c1, c2}
    Samples <- TwoSamples
    FlagChoices <- LowFlags
    MaxRequests = 2
    MaxFaults = 2
    ZramStats <- ZramLines
SPECIFICATION Spec
INVARIANT NoLostReading
