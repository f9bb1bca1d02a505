SPECIFICATION Spec
CONSTANTS
    Tasks = {t1, t2}
    Limit <- MCLimit
    Window <- MCWindow
    Classes <- MCClasses
    MaxSkew = 1
    MaxClock = 6
INVARIANT
    ExactRollingWindow
CHECK_DEADLOCK FALSE
