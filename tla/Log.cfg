SPECIFICATION Spec
CONSTANTS
  Op = {o1, o2, o3}
  Block = {b1, b2, b3}
  Value = {0, 1}
  NoBuf = NoBuf
  LOGSIZE = 5
  SIZE = 5
  MAXOPBLOCKS = 2
  OPBLOCKS = 2
SYMMETRY Symmetry
INVARIANTS
  ReturnedIsDurable
  WaitersHeldBack
PROPERTY
  ImplementsAtomicDisk
