SPECIFICATION Spec
CONSTANTS
    Keys = {k1, k2, k3, k4, k5, k6}
    MaxWait = 3
    MaxNow = 2
SYMMETRY KeySymmetry
INVARIANTS
    TypeOK
    PeekIsEarliest
PROPERTIES
    ImplementsQueue
