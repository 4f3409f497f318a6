SPECIFICATION SensingSpec
CONSTANTS
    a = a  b = b
    Conn <- MCConn
    Level <- MCLevel
    NoValue <- MCNoValue
    Normal = 2
    Fast = 1
    Late <- MCLate
    Window = 3
    Hold = 2
    Coef <- MCCoef
    Factory <- MCFactory
INVARIANT SilentProbeIsSuspended
CHECK_DEADLOCK FALSE
