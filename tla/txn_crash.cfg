SPECIFICATION FairSpec
CONSTANTS
  NumPaths = 2
  a = a
  b = b
  c = c
  Revs = {a, b, c}
  Nil = Nil
  Torn = Torn
  Inodes <- MCInodes
  Initials <- MCInitials
  Requests <- MCRequests
  AtomicMove = TRUE
  MaxBatches = 1
  MaxKills = 2
  MaxLosses = 0
  MaxEdits = 1
  MaxFaults = 1
INVARIANT ForeignBytesSurvive
INVARIANT AtomicWithoutPowerLoss
PROPERTY ImplementsAtomicBatch
PROPERTY JournalIsSettled
