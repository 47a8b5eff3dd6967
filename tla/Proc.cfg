CONSTANTS
  NPROC = 4
  MaxPid = 4
  KillPids = {1, 3}
  OutOfMemory = TRUE
SPECIFICATION LiveSpec
INVARIANTS TableExact NoMissedExit WaitReportsExit KilledByPid
PROPERTY OrphansReaped
