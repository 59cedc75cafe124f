SPECIFICATION ClockSpec
CONSTANTS
  NPROC = 3
  Cpu = {c1, c2}
  None = None
  Chan = {a, b}
  TICKS = ticks
  UINT = 3
  Napper = {1, 2}
  Naps <- NapTimes
SYMMETRY Symmetry
INVARIANT
  NoTickMissed
PROPERTY
  ImplementsMonitor
