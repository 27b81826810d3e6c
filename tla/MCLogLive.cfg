SPECIFICATION FairSpec
CONSTANTS
  Proc = {p0, p1, p2}
  initproc = p0
  Block = {b1, b2, b3}
  Val = {v0}
  InitVal = v0
  MAXOPBLOCKS = 2
  LOGSIZE = 4
  nlog = 4
  OpBlocks = 1
  NoProc = NoProc
  NotCached = NotCached
INVARIANTS NoPanic LogInRegion
PROPERTIES SleepersWake RecoveryEnds
