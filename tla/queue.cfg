SPECIFICATION Spec
CONSTANTS
    Callbacks = {k1, k2}
    Capacity = 2
    MultiThreaded = TRUE
    MaxEvents = 8
SYMMETRY MCSymmetry
INVARIANTS
    TypeOK
    EveryEventAccounted
    SilentLossBounded
