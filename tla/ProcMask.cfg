SPECIFICATION Spec
CONSTANTS
  NPROC = 3
  Cpu = {c1, c2}
  None = None
  Masks = {0, 1}
PROPERTY
  MaskPrivate
CHECK_DEADLOCK FALSE
