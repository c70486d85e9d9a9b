SPECIFICATION Spec
CONSTANTS
    TimerPeriod = 1
    MaxTimeOn = 1
    WarmupMins = 1
    MaxMins = 1
    PowerOnState = 0
    HubBoard = FALSE
    ScheduleType = "N"
    Temperatures <- CoolAndHot
    Schedules <- HalfHours
    Commands = {"ouc"}
    Patient = TRUE
    CanReset = FALSE
    SteadyWaits <- ArmingSleep
PROPERTIES
    FlagKeepsOff
