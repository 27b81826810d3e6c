SPECIFICATION SchedSpec
CONSTANTS
  NPROC = 4
  NCPU = 2
  MaxPid = 4
  MaxSleep = 1
  Cpu = {c1, c2}
  Process = {p1, p2}
  ptable = ptable
  tickslock = tickslock
  NoLock = NoLock
SYMMETRY Symmetry
INVARIANTS OneProcessor ParentCanWait WaitNotStuck NoMissedTick LocksNeverPanic CliMatched
