SPECIFICATION FairSpec
CONSTANTS
    Docs <- MCDocs
    Remote <- MCRemote
    Hot <- MCHot
    Local <- MCLocal
    Range0 <- MCRange
    QueueCap = 2
    DrainMax = 1
    Findings = 2
    Faults = 1
PROPERTIES
    ImplementsSettings
    DesiredRuns
    VerdictReachesOwner
CHECK_DEADLOCK FALSE
