\* Two requests, one death of the worker or one write lost to a busy lock.
CONSTANTS
    x = x
    Requests <- MCRequests
    MAX_TASK_ATTEMPTS = 2
    KeepTerminal = 0
    SameSecond = FALSE
    MaxRequests = 2
    MaxWithdrawals = 1
    MaxFaults = 1
SPECIFICATION FairSpec
CHECK_DEADLOCK FALSE
INVARIANTS RunningIsWorkedOn StartsAreCapped
PROPERTIES FinalIsFinal EveryItemSettles
