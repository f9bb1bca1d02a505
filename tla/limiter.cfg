SPECIFICATION Spec
CONSTANTS
    Tasks = {t1, t2}
    Limit <- MCLimit
    Window <- MCWindow
    Classes <- MCClasses
    MaxSkew = 1
    MaxClock = 6
SYMMETRY MCSymmetry
INVARIANTS
    TypeOK
    RollingWindow
    OneSleepSuffices
PROPERTIES
    RefusalIsJustified
    ImplementsLedger
CHECK_DEADLOCK FALSE
