SPECIFICATION FairSpec
CONSTANTS
    Table <- Excerpt
    Initial <- MCInitial
    Requests <- MCRequests
    Connections = 1
    MaxRequests = 2
CHECK_DEADLOCK FALSE
INVARIANTS
    TypeOK
    ArrivesAsRead
PROPERTIES
    TakesWhatWasAsked
    ShownBeforeReleased
    Releases
    Arrives
