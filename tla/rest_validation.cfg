SPECIFICATION Spec
CONSTANTS
    Calls = {c1, c2}
    Limit <- MCLimit
    Window <- MCWindow
    Classes <- MCClasses
    RetryAfters <- MCRetryAfters
    MaxAttempts = 2
    BaseDelay = 1
    MaxDelay = 2
    FirstByte = 2
    Total = 3
    Lateness = 0
    MaxStart = 0
    MaxClock = 4
INVARIANT
    ValidationBeforeQuota
CHECK_DEADLOCK FALSE
