SPECIFICATION FairSpec
CONSTANTS
    MaxTasks = 1
    MaxLen = 2
    Trailer = 2
    MaxMessages = 1
    Faults <- EveryFault
INVARIANT CleanCloseIsConfirmed
INVARIANT RetrieveIntact
INVARIANT ArchiveIntact
PROPERTY CallsReturn
PROPERTY MoversFinish
CHECK_DEADLOCK FALSE
