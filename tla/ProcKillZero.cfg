CONSTANTS
  NPROC = 3
  MaxPid = 4
  KillPids <- ZeroPid
  OutOfMemory = FALSE
SPECIFICATION Spec
INVARIANTS KilledByPid
