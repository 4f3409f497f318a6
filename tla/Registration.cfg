SPECIFICATION FairSpec
CONSTANTS
    Seeds = {s1, s2, s3}
    NoSeed = none
    Foreign = other
    Threads = 2
    Changes = 1
    Kicks = 1
    Troubles = 1
PROPERTIES
    ImplementsIdentity
    UploadsAtLast
CHECK_DEADLOCK FALSE
