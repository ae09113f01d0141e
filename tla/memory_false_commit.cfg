SPECIFICATION Spec
CONSTANTS
    Ids = {1, 2, 3, 4}
    Agents = {p, q}
    p = p
    q = q
    Backends = {"filesystem", "postgres"}
    Starts <- MCStarts
    Commands <- MCCommands
    Edits <- MCEdits
    Size <- MCSize
    MaxFiles = 3
    PageSize = 2
    None = None
    MaxEdits = 1
    MaxFaults = 2
SYMMETRY MCSymmetry
INVARIANT CommittedIsStored
