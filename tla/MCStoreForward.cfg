SPECIFICATION FairSpec
CONSTANTS
    r1 = r1  r2 = r2
    Reading <- MCReading
    Stamp <- MCStamp
    BatchSizes = {1, 2}
    DbMaxRows = 1
    MaxRetries = 2
    MaxRestarts = 1
INVARIANTS
    MarksAgreeWithCloud
    NothingForgotten
PROPERTIES
    ImplementsReadingLog
    EventuallySettled
