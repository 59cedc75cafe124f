SPECIFICATION Spec
CONSTANTS
  Proc = {p1, p2}
  None = None
  Inum = {1, 2, 3}
  Name = {"a", "b"}
  Request <- Requests
SYMMETRY Symmetry
INVARIANTS
  
  RefsCounted
  
  IputNeverBlocks
  NoLockCycle
CONSTRAINT Used
