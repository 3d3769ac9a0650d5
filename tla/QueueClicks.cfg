\* The same request twice within a second.
CONSTANTS
    x = x
    Requests <- MCClicks
    MAX_TASK_ATTEMPTS = 2
    KeepTerminal = 2
    SameSecond = TRUE
    MaxRequests = 2
    MaxWithdrawals = 0
    MaxFaults = 0
SPECIFICATION Spec
CHECK_DEADLOCK FALSE
INVARIANT RunningIsWorkedOn
