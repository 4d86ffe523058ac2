SPECIFICATION Spec
CONSTANTS
    W = 2
    a = a
    b = b
    Numbers <- MCNumbers
    Every = 2
    Unset = Unset
    MaxErrors = 2
    MaxLate = 1
    MaxTears = 2
    MaxQueue = 2
SYMMETRY Symmetry
INVARIANTS
    TypeOK
    OnlyErrorsPause
    HeldIsTold
    AnswersCount
