SPECIFICATION Spec
CONSTANTS
  Proc = {p0, p1, p2}
  initproc = p0
  Block = {b1, b2}
  Val = {v0, v1}
  InitVal = v0
  MAXOPBLOCKS = 4
  LOGSIZE = 8
  nlog = 8
  OpBlocks = 2
  NoProc = NoProc
  NotCached = NotCached
INVARIANTS TypeOK CommitAlone
PROPERTY CrashAtomic
SYMMETRY Symmetry
