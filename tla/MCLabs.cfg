SPECIFICATION Spec
CONSTANTS
  Proc = {p1, p2, p3}
  NoProc = NoProc
  Size = 2
  Items = 5
  ITEMS = 2
  MAXMSG = 2
  MaxQueues = 2
  MAXARGS = 3
  MaxLine = 5
  PROCESOS = 2
  PAGINAS = 2
  MARCOS = 2
  DISCO = 3
  Modos = {"f"}
  MaxPares = 6
SYMMETRY Symmetry
INVARIANTS ReadsInOrder InHeap  ParsesGrammar DescriptorsAsWritten TablasDicenDonde
CHECK_DEADLOCK FALSE
