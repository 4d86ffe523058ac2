SPECIFICATION Spec
CONSTANTS
    NoManeuver = NoManeuver
    ReturnToOrigin = ReturnToOrigin
    Preferred <- Parked
    Asked <- LeaveOrReturn
    Verdicts <- AnyVerdict
    Complete = 3
    ScanTicks = 0
    DmhTicks = 1
    TimerWrap = 3
    ExploreLimit = 0
    ExploreWrap = 2
    ButtonTicks = 1
    MaxAttempts = 1
    Burst = 1
INVARIANTS
    TypeOK
PROPERTIES
    StopsAfterRelease
    DrivingOutlivesMobileInit
