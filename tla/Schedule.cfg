\* A killed dispatcher or a lost save, failing children, an edit, a forced run.
CONSTANTS
    daily = daily  themes = themes  crystallize = crystallize  custom = custom
    HoursPerDay = 3
    DaysPerWeek = 2
    BuiltIns <- MCBuiltIns
    DailyCadences <- MCDailyCadences
    Registries <- MCRegistries
    HandWritten <- MCHandWritten
    Backoff <- MCBackoff
    Recent = 1
    Broken = Broken
    Never = Never
    FirstHour = 6
    Horizon = 9
    Failing = {daily}
    MaxFailures = 3
    MaxTroubles = 2
SPECIFICATION FairSpec
CHECK_DEADLOCK FALSE
INVARIANTS CadencesAreRight
PROPERTIES DueIsDue RetriesAreMeasured RegistryIsKept OccurrencesAreServed
