SPECIFICATION FairSpec
CONSTANTS
    Callbacks = {k1}
    Capacity = 1
    MultiThreaded = TRUE
    MaxEvents = 4
PROPERTY
    EveryEventSurfaces
