SPECIFICATION StorageSpec
CONSTANTS
  Proc = {p1, p2}
  NoProc = NoProc
  Inum = {i1, i2}
  NoInum = NoInum
  File = {f1, f2}
  NoFile = NoFile
  NBLOCKS = 5
  BSIZE = 2
  NDIRECT = 1
  MAXOPBLOCKS = 6
  FileCalls = 5
  VmProc = {q1, q2}
  NPAGE = 13
  NPD = 2
  NPTE = 2
  KTABS = 1
  PGSIZE = 2
  Image = {1, 5}
  VmCalls = 5
  UNITS = 10
  MinCore = 4
  Request = {2, 3, 5}
SYMMETRY Symmetry
INVARIANTS BlocksExact NoHoles LogBudget   HeapPartition
PROPERTIES ContentsKept Isolated
CHECK_DEADLOCK FALSE
