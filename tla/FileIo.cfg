SPECIFICATION Spec
CONSTANTS
  None = None
  UINT = 4
  Writer = {w1}
  Reader = {r1, r2}
  Byte = {0, 1}
  PIPESIZE = 2
  MaxN = 2
  ConsReader = {cr}
  ConsWriter = {cw}
  Intr = Intr
  ReadN = {2}
  INPUT_BUF_SIZE = 2
  UART_TX_BUF_SIZE = 1
  InodeProc = {p1, p2}
  SIZE = 9
  BSIZE = 2
  NDIRECT = 2
  BPB = 1
  MAXOPBLOCKS = 10
  ReadCounts = {3}
  Counts = {1, 7}
  Faults = {1}
  Image <- OneCell
  MaxWrites = 2
SYMMETRY Symmetry
INVARIANTS
  NoLostWakeup
  NoUseAfterFree
  
  NoSleeperForgotten
  OutputNeverStuck
  ReadsWhatWasWritten
  BlocksOwned
  WriteFitsTransaction
PROPERTIES
  ImplementsFifo
  ImplementsLineDiscipline
CHECK_DEADLOCK FALSE
