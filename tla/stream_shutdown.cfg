SPECIFICATION Spec
CONSTANTS
    Rooms = {r1, r2, r3}
    Interval <- MCInterval
    Automatic = {auto}
    Limit = 2
    MaxConnections = 3
INVARIANT
    ShutdownDisconnected
CHECK_DEADLOCK FALSE
