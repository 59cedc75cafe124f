SPECIFICATION Spec
CONSTANTS
  NPROC = 3
  Cpu = {c1, c2}
  None = None
  Masks = {0, 1}
INVARIANTS
  OneStackOneCpu
  NoMissedExit
  ParentAlive
  ForkOwnsChild
SYMMETRY Symmetry
CHECK_DEADLOCK FALSE
