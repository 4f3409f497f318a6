SPECIFICATION FairSpec
CONSTANTS
    c1 = c1
    c2 = c2
    Cmd = {c1, c2}
    Asks <- MCAsks
    Cap = 1
    MaxCrashes = 1
    MaxSaveFails = 1
INVARIANTS
    CloudKnowsTheTruth
PROPERTIES
    ImplementsLedger
    EveryCommandAnswered
