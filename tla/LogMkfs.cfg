CONSTANTS
  p1 = p1
  p2 = p2
  p3 = p3
  b1 = b1
  b2 = b2
  b3 = b3
  None = None
  Torn = Torn
  Procs <- ThreeProcs
  Blocks <- ThreeBlocks
  MAXOPBLOCKS = 1
  OPBLOCKS = 1
  LOGSIZE = 3
  SIZE = 3
  MaxOps = 3
  MaxCrashes = 0
SPECIFICATION Spec
INVARIANTS LogFits
