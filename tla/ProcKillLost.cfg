CONSTANTS
  NPROC = 3
  MaxPid = 4
  KillPids <- ShellPid
  OutOfMemory = FALSE
SPECIFICATION LiveSpec
PROPERTIES KillTakesEffect
