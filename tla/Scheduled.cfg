SPECIFICATION Spec
CONSTANTS
    TimerPeriod = 1
    MaxTimeOn = 1
    WarmupMins = 1
    MaxMins = 1
    PowerOnState = 0
    HubBoard = FALSE
    ScheduleType = "O"
    Temperatures <- Cool
    Schedules <- HalfHours
    Commands = {"auo", "cnc", "tmc", "rst", "hst"}
    Patient = TRUE
    CanReset = FALSE
    SteadyWaits <- ArmingSleep
INVARIANTS
    ReplacedIsStopped
