SPECIFICATION Spec
CONSTANTS
    TimerPeriod = 2
    MaxTimeOn = 2
    WarmupMins = 1
    MaxMins = 3
    PowerOnState = 0
    HubBoard = FALSE
    ScheduleType = "N"
    Temperatures <- Cool
    Schedules <- NoSchedule
    Commands = {"tmc", "stb", "hib"}
    Patient = TRUE
    CanReset = TRUE
    SteadyWaits <- ArmingSleep
INVARIANTS
    StandbyIsOff
    SleepIsOff
    TimedIsCounted
    SavedIsResumable
