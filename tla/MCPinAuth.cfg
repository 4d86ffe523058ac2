SPECIFICATION Spec
CONSTANTS
    right = right
    wrong = wrong
    NotSet = NotSet
    NoRequest = NoRequest
    Pins = {right, wrong}
    VdcPins = {right, NotSet}
    Lock60s = 1
    Lock300s = 2
    Lock3600s = 3
    TimerWrap = 5
    MaxTime = 16
INVARIANTS
    TypeOK
    TimerMatchesVerdict
    CounterMatchesVerdict
    CorrectPinWasPassedLast
PROPERTIES
    LockoutHeld
    LockoutReleases
    ImplementsLadder
    RepeatsInVain
