SPECIFICATION FairSpec
CONSTANTS
    TimerPeriod = 1
    MaxTimeOn = 1
    WarmupMins = 1
    MaxMins = 1
    PowerOnState = 0
    HubBoard = FALSE
    ScheduleType = "C"
    Temperatures <- Cool
    Schedules <- AnySchedule
    Commands = {"auo", "aux", "stb"}
    Patient = TRUE
    CanReset = TRUE
    SteadyWaits <- ArmingSleep
INVARIANTS
    AutoOffIsOff
    SettingsAreSaved
PROPERTIES
    ScheduleEndsCharging
