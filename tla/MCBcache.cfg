SPECIFICATION Spec
CONSTANTS
  Proc = {p1, p2}
  NoProc = NoProc
  NBUF = 3
  Block = {k1, k2, k3, k4}
  NoBlock = NoBlock
  Val = {v1, v2}
  MaxPin = 1
  Faulty = FALSE
SYMMETRY Symmetry
INVARIANTS RefCounts SleepJustified
PROPERTY Transparent
