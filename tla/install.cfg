SPECIFICATION Spec
CONSTANTS
    a = a
    b = b
    c = c
    Runs = {r1, r2, r3}
    None = None
    NumFiles = 2
    Values = {a, b, c}
    Nil = Nil
    Initials <- MCInitials
    Requests <- MCRequests
    FaultAt = {"journal", "write", "restore"}
    Regimes <- MCRegimes
    MaxFaults = 1
SYMMETRY RunSymmetry
INVARIANT InstallInv
INVARIANT AllOrNothing
PROPERTY ImplementsAtomicBatch
CHECK_DEADLOCK FALSE
