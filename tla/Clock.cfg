SPECIFICATION FairSpec
CONSTANTS
    Hours <- MCHours
    Starts <- MCStarts
    Zones = {0, 2, 10}
    FirstValid <- MCFirstValid
    MaxFaults = 1
    MaxWrong = 1
INVARIANTS
    LocalTimeSurvives
    DaylightInSeason
PROPERTIES
    TimeStaysRight
    ClocksRecover
