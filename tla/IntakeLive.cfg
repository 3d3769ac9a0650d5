\* An edit between any two steps, a kill or failing write, a retry of closed ones.
CONSTANTS
    n1 = n1  n2 = n2  o = o  page = page
    bare = bare  rich = rich  doc = doc  text = text
    Absent = Absent  NoUrl = NoUrl
    Captures <- MCCaptures
    Contents <- MCContents
    Urls = {page}
    UrlOf <- MCUrlOf
    Full <- MCFull
    Thin = {bare}
    Excluded = {}
    Documents = {doc}
    DocumentFiles = {o}
    MarkdownOf <- MCMarkdownOf
    Enriched <- MCEnriched
    Rank <- MCRank
    MaxAttempts = 2
    MaxEdits = 1
    MaxProblems = 1
    MaxRetries = 1
SPECIFICATION FairSpec
CHECK_DEADLOCK FALSE
INVARIANTS LedgersAreTrue FetchesAreCapped
PROPERTIES TakenInOnce CapturesSettle
