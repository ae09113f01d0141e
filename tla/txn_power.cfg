SPECIFICATION Spec
CONSTANTS
  NumPaths = 2
  a = a
  b = b
  c = c
  Revs = {a, b, c}
  Nil = Nil
  Torn = Torn
  Inodes <- MCInodes
  Initials <- MCInitials
  Requests <- MCRequests
  AtomicMove = FALSE
  MaxBatches = 2
  MaxKills = 0
  MaxLosses = 2
  MaxEdits = 1
  MaxFaults = 0
INVARIANT BatchIsAtomic
INVARIANT AckedBatchIsCommitted
INVARIANT JournalInv
