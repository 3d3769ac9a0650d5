\* Two runs, two request threads, a click on run now or refresh, and a kill or a
\* lost write.
CONSTANTS
    r1 = r1  r2 = r2  t1 = t1  t2 = t2
    Runs = {r1, r2}
    Pollers = {t1}
    Clickers = {t2}
    None = None
    NoChild = NoChild
    ProbeReliable = FALSE
    MaxProgress = 1
    MaxTroubles = 1
    MaxClicks = 1
SPECIFICATION FairSpec
CHECK_DEADLOCK FALSE
INVARIANTS NobodyLeavesRunning NoFalseAlarm
PROPERTIES NewestRecordStays ButtonComesBack
