SPECIFICATION Spec
CONSTANTS
    TimerPeriod = 2
    MaxTimeOn = 2
    WarmupMins = 1
    MaxMins = 2
    PowerOnState = 0
    HubBoard = TRUE
    ScheduleType = "C"
    Temperatures <- CoolAndHot
    Schedules <- AlwaysOn
    Commands = {"tmc", "auo", "ouc", "usb", "cnc", "hib"}
    Patient = TRUE
    CanReset = TRUE
    SteadyWaits <- ArmingSleep
INVARIANTS
    ChargeIsCounted
    SmartIsBounded
    OverheatedIsOff
    ResumedOnce
PROPERTIES
    OverheatedStaysOff
