SPECIFICATION MCSpec
CONSTANTS
  Procs = {p1, p2, p3}
  Values = {v1, v2}
  NUM = 7
  UINT16 = 14
  NoProc = NoProc
  NoDesc = NoDesc
  NoReq = NoReq
  Users = {v1, v2}
  Bufs = {b1, b2}
  Blocks = {p1, p2, p3}
  Contents = {0, 1}
  MaxPins = 1
  Nobody = Nobody
  NoBuf = NoBuf
  NoBlock = NoBlock
  NoCall = NoCall
SYMMETRY Symmetry
INVARIANTS QueueExact 
PROPERTIES IsDiskService IsBlockStore
