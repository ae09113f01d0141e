SPECIFICATION FairSpec
CONSTANTS
    Ids = {1, 2, 3, 4}
    Agents = {p}
    x = x
    y = y
    d = d
    Texts = {x, y}
    Docs = {d}
    None = None
    Unreadable = Unreadable
    Starts <- MCStarts
    Commands <- MCCommands
    Edits <- MCEdits
    MaxComments = 1
    MaxEdits = 1
INVARIANT IssuesInv
PROPERTY WhatIsReplacedWasSeen
PROPERTY DanglingLinksGo
CHECK_DEADLOCK FALSE
