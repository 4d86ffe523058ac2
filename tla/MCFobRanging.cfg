SPECIFICATION FobSpec
CONSTANTS
    DeadmanTicks = 1
    DefaultTicks = 3
INVARIANTS
    FobTypeOK
    AtMostOneLateRequest
    DeadmanRateInTime
    RangedWithoutGap
