SPECIFICATION FairSpec
CONSTANTS
  p1 = p1
  p2 = p2
  x1 = x1
  x2 = x2
  x3 = x3
  n1 = n1
  n2 = n2
  n3 = n3
  Procs = {p1, p2}
  Bufs = {x1, x2}
  FreeOrder <- Order2
  Blocks = {n1, n2}
  BadBlocks = {}
  Vals = {0}
  Zero = 0
  Calls = {"bread"}
  NODEV = NODEV
  None = None
  BFreeList = BFreeList
  MaxRetry = 1
  Faulty = TRUE
  UserFaults = FALSE
  SplitAge = FALSE
PROPERTY SleepersWake
