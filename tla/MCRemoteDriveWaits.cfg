SPECIFICATION FairSpec
CONSTANTS
    NoManeuver = NoManeuver
    ReturnToOrigin = ReturnToOrigin
    Preferred <- Anywhere
    Asked <- Leave
    Verdicts <- CorrectPin
    Complete = 2
    ScanTicks = 1
    DmhTicks = 0
    TimerWrap = 3
    ExploreLimit = 0
    ExploreWrap = 2
    ButtonTicks = 1
    MaxAttempts = 1
    Burst = 1
PROPERTIES
    WaitsEnd
