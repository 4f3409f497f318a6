SPECIFICATION DevicesSpec
CONSTANTS
    n1 = n1  n2 = n2
    Blocks <- MCBlocks
    SubBand <- MCSubBand
    Values <- MCValues
    CheckEvery = 2
    GiveUpAfter = 1
    MaxReboots = 1
    Dev <- MCDev
    Width <- MCWidth
    Addr <- MCAddr
    First = 1
    BusFaults = 1
    MaxCalls = 2
    MaxEdges = 2
    MaxCuts = 1
    NoCount = NoCount
    Today = 5
    StepYears = 2
    CertYears = 1
    MaxKills = 2
    Slots <- MCSlots
    MaxClients = 1
    Ssid <- MCSsid
    Silent = Silent
    PortalFaults = 1
INVARIANTS
    InStep
    MovedOrTold
    OneStepABoot
PROPERTIES
    CallsAreWhole
    LinkReturns
    ImplementsRegister
    PortalFollowsTheHotspot
CHECK_DEADLOCK FALSE
