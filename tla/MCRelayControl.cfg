SPECIFICATION RelaySpec
CONSTANTS
    t1 = t1  t2 = t2
    Channel <- MCChannel
    Timer <- MCTimer
    None = None
    MaxOn = 2
    Duration <- MCDuration
    Rules <- MCRules
    Commanded <- MCCommanded
    MaxFaults = 1
    Policy <- MCPolicy
    CooldownS = 2
    BudgetS = 2
    CeilingS = 3
    Asked <- MCAsked
    HourS = 6
    DayH = 2
    MaxNow = 12
    MaxOrders = 1
    MaxStarts = 1
SYMMETRY Symmetry
INVARIANTS
    BoundedCoilIsCovered
    DriversKeepTheirMandate
    HoldForgetsNoCoil
PROPERTIES
    RulesKeepTheirLimits
