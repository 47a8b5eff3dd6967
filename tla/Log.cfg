CONSTANTS
  p1 = p1
  p2 = p2
  p3 = p3
  b1 = b1
  b2 = b2
  b3 = b3
  None = None
  Torn = Torn
  Procs <- TwoProcs
  Blocks <- ThreeBlocks
  MAXOPBLOCKS = 2
  OPBLOCKS = 1
  LOGSIZE = 4
  SIZE = 4
  MaxOps = 3
  MaxCrashes = 2
SPECIFICATION LiveSpec
INVARIANTS CommitSafe LogFits
PROPERTIES AtomicCommit BeginReturns
