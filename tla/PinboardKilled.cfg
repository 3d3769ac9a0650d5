\* The same, and a backfill run is killed too.
CONSTANTS
    b1 = b1  b2 = b2  b3 = b3  b4 = b4  undated = undated
    u1 = u1  u2 = u2  u4 = u4  u5 = u5
    Bookmarks <- MCBookmarks
    UrlOf <- MCUrlOf
    Day <- MCDay
    Order <- MCOrder
    FirstDay = 1
    LastDay = 3
    GuardMax = 2
    Seeds <- MCSeeds
    AutoMax <- None
    Widths = {1, 2}
    WindowMax <- OneOrAll
    Clipped = {u2}
    Reseeds = FALSE
    CrashIn = {"sync", "backfill"}
    MaxCrashes = 1
    Epochs <- MCEpochs
SPECIFICATION Spec
CHECK_DEADLOCK FALSE
INVARIANT FloorIsTrue
