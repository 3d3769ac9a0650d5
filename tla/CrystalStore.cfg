\* Five commands over two durable claims, one of them killed anywhere.
CONSTANTS
    k1 = k1  k2 = k2  k3 = k3  t1 = t1  r1 = r1
    None = None
    Torn = Torn
    Claims <- MCClaims
    Ids <- MCIds
    Order <- MCOrder
    Written = {k1, k2}
    OneSource = {k1}
    Disputed = {k1, k2}
    Extends <- MCExtends
    Twins = {}
    Candidates <- MCCandidates
    Revisions <- MCRevisions
    MaxCommands = 5
    MaxKills = 1
SPECIFICATION Spec
CHECK_DEADLOCK FALSE
INVARIANTS RetractedStaysQueued RetractionsAreUndoable
PROPERTY RollbackIsExact
