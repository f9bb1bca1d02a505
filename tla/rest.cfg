SPECIFICATION Spec
CONSTANTS
    Calls = {c1, c2}
    Limit <- MCLimit
    Window <- MCWindow
    Classes <- MCClasses
    RetryAfters <- MCRetryAfters
    MaxAttempts = 3
    BaseDelay = 1
    MaxDelay = 1
    FirstByte = 2
    Total = 4
    Lateness = 1
    MaxStart = 0
    MaxClock = 7
SYMMETRY MCSymmetry
INVARIANTS
    TypeOK
    AttemptsAreCharged
    AnswersInTime
PROPERTIES
    AnswersAreHonest
    RetryAfterHonoured
CHECK_DEADLOCK FALSE
