SPECIFICATION FairBreakerSpec
CONSTANTS
    Channel = {1}
    Wire = 1
    Binding <- McBinding
    MinOff = 1
    Grace = 1
    Duration = {1}
INVARIANTS
    QueuedOffIsWanted
PROPERTIES
    FailSafeStopsTheLoad
    NoShortCycle
