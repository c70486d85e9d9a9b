SPECIFICATION Spec
CONSTANTS
    TimerPeriod = 2
    MaxTimeOn = 2
    WarmupMins = 1
    MaxMins = 3
    PowerOnState = 0
    HubBoard = FALSE
    ScheduleType = "O"
    Temperatures <- Cool
    Schedules <- HalfHours
    Commands = {"auo", "stb"}
    Patient = TRUE
    CanReset = FALSE
    SteadyWaits <- ArmingSleep
INVARIANTS
    StandbyIsOff
