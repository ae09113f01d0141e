SPECIFICATION FairQueueSpec
CONSTANTS
    Calls = {c1, c2, c3}
    NoCall = NoCall
    MayLose = TRUE
    MaxOps = 1
INVARIANT TurnsInv
INVARIANT EarlierFirst
PROPERTY NobodyWaitsForever
CHECK_DEADLOCK FALSE
