SPECIFICATION FairSpec
CONSTANTS
  NPROC = 3
  Cpu = {c1}
  None = None
  Masks = {0}
PROPERTIES
  WaitReturns
  NobodyStarves
CHECK_DEADLOCK FALSE
