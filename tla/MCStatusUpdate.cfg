SPECIFICATION FairSpec
CONSTANTS
    ManeuverStatuses <- MCManeuverStatuses
    InfoMsgs <- MCInfoMsgs
    Verdicts <- MCVerdicts
    Untold = Untold
INVARIANTS
    TypeOK
    ClientKnows
PROPERTIES
    Reported
