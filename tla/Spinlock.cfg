SPECIFICATION Spec
CONSTANTS
  Cpu = {c1, c2}
  NLock = 2
  NoCpu = NoCpu
SYMMETRY Symmetry
INVARIANTS
  MutualExclusion
  NoPanic
  NoIntrWhileHolding
  IntrRestored
