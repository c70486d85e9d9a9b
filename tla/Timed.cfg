SPECIFICATION FairSpec
CONSTANTS
    TimerPeriod = 3
    MaxTimeOn = 2
    WarmupMins = 1
    MaxMins = 4
    PowerOnState = 0
    HubBoard = FALSE
    ScheduleType = "N"
    Temperatures <- Cool
    Schedules <- NoSchedule
    Commands = {"tmc"}
    Patient = TRUE
    CanReset = FALSE
    SteadyWaits <- ArmingSleep
PROPERTIES
    SessionSpec
    EndsOnTime
    ChargingEnds
    MainsLossSleeps
    SessionResumes
