SPECIFICATION FairSpec
CONSTANTS
    Calls = {c1, c2}
    Limit <- MCLimit
    Window <- MCWindow
    Classes <- MCClasses
    RetryAfters <- MCRetryAfters
    MaxAttempts = 2
    BaseDelay = 1
    MaxDelay = 2
    FirstByte = 2
    Total = 3
    Lateness = 0
    MaxStart = 1
    MaxClock = 6
PROPERTY
    EveryCallAnswers
CHECK_DEADLOCK FALSE
