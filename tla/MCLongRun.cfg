SPECIFICATION LongSpec
CONSTANTS
    sampling = sampling
    register = register
    Worker = {sampling, register}
    Cadence <- McCadence
    Countdown = {register}
    Hangable = {sampling}
    Reloads = 1
    MaxStep = 3
    MaxAge = 22
    Backoff <- McBackoff
    Factor = 3
    Floor = 3
    WatchdogSec = 9
    LinkEvery = 1
    RejoinAfter = 1
    Kept = 2
    NonceMod = 3
    Seeds = {1}
    FCntMod = 2
    MaxJoins = 2
    MaxUp = 2
    MaxDown = 2
    MaxRejoins = 1
    MaxRestarts = 1
    MaxSaveFails = 1
    firmware = firmware
    accessPoint = accessPoint
    Writer = {firmware, accessPoint}
    Root = {accessPoint}
    Says <- McSays
    Value <- McValue
    History = 2
    MaxWrites = 3
    MaxTroubles = 1
INVARIANTS
    SessionIsSound
    WatchdogIsFair
    CardTellsTheTruth
PROPERTIES
    FramesCountOnce
CHECK_DEADLOCK FALSE
