SPECIFICATION FairSpec
CONSTANTS
    Version = {v1, v2, v3}
    None = None
    Keep = 1
    MaxAssigned = 2
    MaxDeaths = 1
    MaxFaults = 1
INVARIANTS
    RecordTellsTheTruth
PROPERTIES
    ImplementsTrial
    BadReleaseIsLeft
