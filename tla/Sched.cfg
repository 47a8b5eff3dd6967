CONSTANTS
  c1 = c1
  c2 = c2
  CPUs <- MCCPUs
  NPROC = 3
  MaxKills = 1
SYMMETRY Symmetry
SPECIFICATION Spec
INVARIANTS HandOverSafe NoLostWakeup SleepMutex InterruptsFollowThread
