SPECIFICATION FairSpec
CONSTANTS
    Calls = {c1, c2}
    c1 = c1
    c2 = c2
    x = x
    y = y
    z = z
    Plans <- MCPlans
    None = None
    Unreadable = Unreadable
    Raws = {"A", "a", "b"}
    Normal <- MCNormal
    Texts = {x, y, z}
    Indexed = {x, y}
    Literal = {x, z}
    Capacity = 2
    Limit = 1
    Databases <- MCDatabases
    Starts <- MCStarts
    Edits <- MCEdits
    MaxEdits = 1
    MaxServes = 2
    MaxTicks = 2
    Strategies <- MCStrategies
    MaxRedirects = 1
    MayClose = TRUE
INVARIANT RuntimeInv
INVARIANT GrepIsExact
INVARIANT SnapshotIsWhole
PROPERTY PublishedIsPlanned
PROPERTY CallsEnd
CHECK_DEADLOCK FALSE
