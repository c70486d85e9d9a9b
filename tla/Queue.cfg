SPECIFICATION FairSpec
CONSTANTS
    FileQueueSize = 2
    MaxEvents = 3
    Corrupt = Corrupt
    ReadsFail = FALSE
INVARIANTS
    QueueTypeOK
    FilesAreQueued
PROPERTIES
    StoreSpec
    ArrivesInOrder
    QueueDrains
