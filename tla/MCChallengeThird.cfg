SPECIFICATION Spec
CONSTANTS
    W = 3
    a = a
    b = b
    Numbers <- MCNumbers
    Every = 2
    Unset = Unset
    MaxErrors = 2
    MaxLate = 1
    MaxTears = 1
    MaxQueue = 2
SYMMETRY Symmetry
INVARIANTS
    TwoAreTolerated
