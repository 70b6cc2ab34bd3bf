\* Three days over the end of a month; a day of five ticks, every run time.
SPECIFICATION LiveSpec
CONSTANTS
    Clients = {s1}
    Lifespan = lifespan
    Day = 5
    Hour = 2
    MonthLength = 2
    Horizon = 3
    Early = 1
    Lag = 1
    MinRun = 2
    MaxRun = 3
    MaxTasks = 3
INVARIANTS
    TypeOK
    OneLoop
    EveryDayRuns
    OncePerReplica
PROPERTY
    StopReturns
CHECK_DEADLOCK FALSE
