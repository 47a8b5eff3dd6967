SPECIFICATION MCSpec
CONSTANTS
  Procs = {p1, p2}
  NoProc = NoProc
  NINODES = 3
  na = na
  nb = nb
  Names = {na, nb}
  Calls <- MCCalls
  Callers = {p1, p2}
  NoCaller = NoCaller
  Files = {1, 2}
  OpenFiles <- MCOpenFiles
  Lens <- MCLens
  BSIZE = 2
  NDIRECT = 1
  NBLOCKS = 4
  MAXOPBLOCKS = 8
  BPB = 1
  UINT = 32
SYMMETRY Symmetry
INVARIANTS   BlocksExact ContentExact
