SPECIFICATION Spec
CONSTANTS
  Proc = {p1, p2}
  NoProc = NoProc
  NINODES = 3
  NFILE = 1
  NOFILE = 2
  a = a
  b = b
  Name = {a, b}
  Paths <- MCPaths
  Calls = {"open", "create", "mkdir", "mknod", "chdir", "link", "unlink"}
  MaxCalls = 3
INVARIANTS RefCounts LinkCount NoPanic
SYMMETRY Symmetry
CHECK_DEADLOCK FALSE
