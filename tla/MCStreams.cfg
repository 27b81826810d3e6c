SPECIFICATION StreamsSpec
CONSTANTS
  Reader = {r1}
  Writer = {w1, w2}
  Byte = {0, 1}
  PIPESIZE = 2
  Uint = 4
  MaxN = 3
  NoProc = NoProc
  ConReader = {q1, q2}
  Char = {x}
  Nl = nl
  Eof = eof
  INPUT_BUF = 3
  ConUint = 6
  ConMaxN = 2
SYMMETRY Symmetry
INVARIANTS SleepJustified  ReadersWoken
PROPERTIES IsFifo IsLineDiscipline
CHECK_DEADLOCK FALSE
