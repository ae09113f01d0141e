SPECIFICATION ApplySpec
CONSTANTS
    f = f
    A = A
    B = B
    k = k
    g = g
    m1 = m1
    m2 = m2
    x = x
    X = X
    Y = Y
    E = E
    F = F
    RX = RX
    RY = RY
    bad = bad
    lit = lit
    one = one
    two = two
    Empty = Empty
    Names = {"a", "b", "c", "s", "t", "u"}
    Refs = {RX, RY}
    VarOf <- RX_Y
    Vars = {X, Y, E, F}
    Unset = Unset
    Rejected = {bad}
    Required <- MCRequired
    Secrets <- MCSecrets
    Bindings <- MCBindings
    Fallbacks <- MCFallbacks
    Defaults <- MCDefaults
    NoTree = NoTree
    NoProfile = NoProfile
    Missing = Missing
    NoSnapshot = NoSnapshot
    Inputs <- MCInputs
    TargetsPath <- PT
    NoHarness = one
    AdapterRequests <- MCRequests
    UnitOf <- MCUnitOf
    Bytes <- MCBytes
    Commands <- MCCommands
    RoleSlots <- MCRoleSlots
    Roles <- MCRoles
    RequiredRoles <- MCRequiredRoles
    Forges = {"github", "gitea", "confluence"}
    Support <- MCSupport
    NoId <- MCNoId
    UnsafeIds <- MCUnsafe
    LongIds <- MCLong
    NoExchange = NoExchange
    Published <- MCPublished
    NoRole = NoRole
    NoConnection = NoConnection
    NoService = NoService
    NoDirectory = NoDirectory
    NoSettings = NoSettings
    NoOutput = NoOutput
    Sessions = {p, q}
    WholeFiles = {f}
    Hosts = {A, B}
    CreateAt = A
    Keys = {k, g}
    UnitValues = {m1, m2, x}
    NoUnit = NoUnit
    Absent = Absent
    NoReceipt = NoReceipt
    InitialDisks <- MCInitialDisks
    UserValues = {x}
    MaxPlans = 3
    MaxEdits = 1
SYMMETRY SessionSymmetry
INVARIANT InstallationInv
INVARIANT CompilerInv
INVARIANT SnapshotInv
PROPERTY OverwriteNeedsApproval
CHECK_DEADLOCK FALSE
