\* Edits at any moment, a kill, a run that retries blocked sources, one source per run.
CONSTANTS
    p1 = p1  p2 = p2  art = art  mark = mark
    NoFile = NoFile
    Paths <- MCPaths
    Contents <- MCContents
    Unreadable = {}
    Unworthy <- MCUnworthy
    Rank <- MCRank
    MaxFailures = 2
    MaxSources = 1
    NameSuffixes = {1, 2}
    MaxEdits = 2
    MaxCrashes = 1
    MaxForced = 1
SPECIFICATION FairSpec
CHECK_DEADLOCK FALSE
INVARIANTS HashesAreTrue SucceedsOnce PackedIsLogged
PROPERTIES RetriesAreCapped NothingIsLost SourcesSettle
