SPECIFICATION FairSpec
CONSTANTS
    TimerPeriod = 1
    MaxTimeOn = 1
    WarmupMins = 1
    MaxMins = 1
    PowerOnState = 0
    HubBoard = FALSE
    ScheduleType = "N"
    Temperatures <- CoolAndHot
    Schedules <- NoSchedule
    Commands = {"cnc", "stb"}
    Patient = TRUE
    CanReset = FALSE
    SteadyWaits <- NoWaits
INVARIANTS
    TypeOK
PROPERTIES
    HotEndsCharging
    StopWorks
