\* Two processes under the quiet-exit assumption, with leftover files of a dead
\* one; probes are reliable, so that every command comes to an end.
CONSTANTS
    t1 = t1  t2 = t2  t3 = t3
    p1 = p1  p2 = p2  ghost = ghost
    Threads <- MCThreads
    Pids <- MCPids
    PidOf <- Shared
    Nobody = Nobody
    Stranger = Stranger
    Blank = Blank
    ProbeReliable = TRUE
    QuietExit = TRUE
SPECIFICATION FairLockSpec
PROPERTIES ImplementsLock LiveLockStays StaleLockReclaimed
CHECK_DEADLOCK FALSE
