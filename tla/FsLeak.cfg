SPECIFICATION Spec
CONSTANTS
  Proc = {p1, p2}
  None = None
  Inum = {1, 2}
  Name = {"a"}
  Request <- FewRequests
SYMMETRY Symmetry
INVARIANT
  FreedWhenUnused
