CONSTANTS
  c1 = c1
  c2 = c2
  CPUs <- MCCPUs
  NPROC = 2
  MaxKills = 1
SPECIFICATION LiveSpec
PROPERTIES  SleeperRuns
