SPECIFICATION FairSpec
CONSTANTS
    MaxVersion = 2
    Contents <- MCContents
    Commands = {"mxo", "sch", "dpo", "rst", "tip"}
    ClockFails = FALSE
    ResetsWhileMarking = FALSE
INVARIANTS
    ConfigTypeOK
    DoneIsStored
    AcceptedIsKept
PROPERTIES
    IdentityKept
    ConfigurationSettles
