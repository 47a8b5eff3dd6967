CONSTANTS
  CPUs = {a1, a2}
  NoCpu = NoCpu
  Locks <- MCLocks
  Harts = {a1, a2}
  Users = {u1, u2}
  NoUser = NoUser
  PCS = 2
  Readers = {a1, a2}
  None = None
  NoChar = NoChar
  INPUT_BUF_SIZE = 2
  UINT = 4
  MaxRead = 2
  Writers = {a1, a2}
  Syncs = {echo}
  UART_TX_BUF_SIZE = 2
  FIFO = 2
  MaxWrite = 3
SYMMETRY Symmetry
SPECIFICATION MCSpec
INVARIANTS Mutex HoldingExact InterruptsExact ContextsExact  OutputExact
PROPERTY IsLineBuffer
