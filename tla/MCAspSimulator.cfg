SPECIFICATION Spec
CONSTANTS
    NoManeuver = NoManeuver
    ReturnToOrigin = ReturnToOrigin
    Preferred <- MCPreferred
    Sent <- MCSent
    Complete = 2
    ScanTicks = 0
    DmhTicks = 0
    TimerWrap = 2
    ExploreLimit = 1
    ExploreWrap = 2
INVARIANTS
    TypeOK
    ProgressFitsStatus
    OffersFitStatus
PROPERTIES
    DriveNeedsGesture
    OverIsOver
    ScanEndsWithOffers
