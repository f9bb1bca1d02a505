SPECIFICATION FairSpec
CONSTANTS
    Rooms = {r1, r2, r3, r4}
    Interval <- MCInterval
    Automatic = {auto}
    Limit = 2
    MaxConnections = 3
INVARIANTS
    TypeOK
    RoomsMatchDesired
    ReleasedStaysSilent
PROPERTIES
    ReplayBeforeNotice
    ReconnectIsNoticed
CHECK_DEADLOCK FALSE
