SPECIFICATION Spec
CONSTANTS
    p = p
    q = q
    Procs = {p, q}
    None = None
    Torn = Torn
    Items = {1}
    Texts = {"hit", "miss"}
    Matching = {"hit"}
    Domains = {"issues", "documents", "memory"}
    Policies = {"rebuild", "prompt", "fail"}
    KillAt = {"verify", "populate", "prepare", "manifest", "create", "write", "evacuate", "check",
              "link", "unlink", "drop", "settle", "undo", "recover", "close", "move", "remove"}
    MaxKills = 2
    MaxEdits = 1
    Keys = 3
    Limits <- MCLimits
SYMMETRY MCSymmetry
INVARIANT CacheInv
INVARIANT AnswersAreExact
INVARIANT AcceptsOnlyTheProjection
PROPERTY OnlyCapturedFilesGo
CHECK_DEADLOCK FALSE
