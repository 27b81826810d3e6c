SPECIFICATION Spec
CONSTANTS
  PROCESOS = 2
  PAGINAS = 2
  MARCOS = 2
  DISCO = 3
  Modos = {"l"}
  MaxPares = 6
INVARIANT TablasDicenDonde
CHECK_DEADLOCK FALSE
