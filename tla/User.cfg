SPECIFICATION MCSpec
CONSTANTS
  NPROC = 6
  NOFILE = 8
  NFILE = 9
  PIPESIZE = 2
  MAXARGS = 3
  MaxNum = 7
  MaxFail = 1
  Lines <- MCLines
  Texts <- MCTexts
  MPROC = 2
  NPAGES = 12
  PGSIZE = 2
  LEVELS = 2
  F = 3
  MaxSz = 8
  Deltas <- MCDeltas
  SegEnds = {1, 3}
  MaxArgs = 1
INVARIANTS  OutputRight ParseExact PagesExact SpacesExact
 
CHECK_DEADLOCK FALSE
