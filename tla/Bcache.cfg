SPECIFICATION Spec
CONSTANTS
  Proc = {p1, p2}
  Block = {n1, n2, n3, n4}
  Value = {v1, v2}
  None = None
  NBUF = 3
  LOGBLOCKS = 2
SYMMETRY Symmetry
INVARIANTS
  RefcntCounts
  SleepersWaitForHolder

  
