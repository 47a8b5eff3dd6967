CONSTANTS
  r1 = r1
  w1 = w1
  w2 = w2
  None = None
  Readers <- MCReaders
  Writers <- MCWriters
  Bytes <- MCBytes
  PIPESIZE = 2
  UINT = 4
  MaxCount = 2
  MaxKills = 1
SPECIFICATION LiveSpec
INVARIANTS FreedExactly SleepersBlocked
PROPERTIES IsByteStream CallsReturn
CHECK_DEADLOCK FALSE
