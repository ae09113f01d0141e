SPECIFICATION Spec
CONSTANTS
    Ids = {1, 2}
    Titles <- MCTitles
    Slug <- MCSlug
    x = x
    ragged = ragged
    Texts = {x, ragged}
    Ragged = {ragged}
    Births = {0}
    Agents = {p, q}
    p = p
    q = q
    None = None
    Unreadable = Unreadable
    Starts <- MCStarts
    Commands <- MCCommands
    Edits <- MCEdits
    MaxVersions = 2
    MaxEdits = 1
SYMMETRY MCSymmetry
INVARIANT CatalogStaysReadable
INVARIANT LinksNeverDangle
PROPERTY ApprovedStays
PROPERTY ChangesWereSeen
CHECK_DEADLOCK FALSE
