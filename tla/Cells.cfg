SPECIFICATION Spec
CONSTANTS
  cellX = cellX
  cellY = cellY
  NoSlice = NoSlice
  Underflow = Underflow
  None = None
  PairBits = 6
  BYTE = 3
  CAPACITY = 3
  WORD = 2
  MAX_REF_COUNT = 2
  RefCells <- MCRefCells
  Values <- MCValues
  Raw <- MCRaw
  Numbers <- MCNumbers
  MaxAsked = 9
  RefsWithBits = 3
VIEW StateView
INVARIANTS
  TailIsZero
  ReadersAgree
PROPERTY ImplementsBits
