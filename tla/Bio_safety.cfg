SPECIFICATION Spec
CONSTANTS
  p1 = p1
  p2 = p2
  x1 = x1
  x2 = x2
  x3 = x3
  n1 = n1
  n2 = n2
  n3 = n3
  Procs = {p1, p2}
  Bufs = {x1, x2}
  FreeOrder <- Order2
  Blocks = {n1, n2}
  BadBlocks = {n2}
  Vals = {0, 1}
  Zero = 0
  Calls = {"bread", "breada", "getblk", "geteblk", "bflush"}
  NODEV = NODEV
  None = None
  BFreeList = BFreeList
  MaxRetry = 0
  Faulty = TRUE
  UserFaults = FALSE
  SplitAge = FALSE
SYMMETRY ProcSymmetry
CHECK_DEADLOCK FALSE
INVARIANTS AvailIffNotBusy OneBufferPerBlock BusyHasOneOwner NoLostWakeup CleanIsOnDisk
PROPERTY DelayedWriteKept
