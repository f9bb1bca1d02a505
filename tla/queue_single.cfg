SPECIFICATION FairSpec
CONSTANTS
    Callbacks = {k1, k2}
    Capacity = 2
    MultiThreaded = FALSE
    MaxEvents = 7
INVARIANT
    SilentLossBounded
PROPERTY
    EveryEventSurfaces
