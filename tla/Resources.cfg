SPECIFICATION Spec
CONSTANTS
  Proc = {p1, p2}
  initproc = p1
  None = None
  PGSIZE = 2
  FANOUT = 4
  WORD = 128
  NPAGES = 18
  NFILE = 2
  NOFILE = 2
  Pipe = {i1, i2}
  Image <- Images
  Grow <- Grows
  Addr <- Addrs
  PTR = 2
  INT = 1
CONSTRAINT FilesOrMemory
SYMMETRY Symmetry
INVARIANTS
  
  MappedToSize
  
  PipeEnds
  UserMemory
CHECK_DEADLOCK FALSE
