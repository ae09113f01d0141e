SPECIFICATION AuthoritySpec
CONSTANTS
    Procs = {p1, p2, p3}
    None = None
    Prompt = FALSE
    Regimes <- MCRegimes
    FileRegimes <- MCFileRegimes
    MaxKills = 2
INVARIANT AuthorityInv
INVARIANT AuthorityExclusion
INVARIANT AuthoritySurvives
PROPERTY EveryAttemptServed
CHECK_DEADLOCK FALSE
