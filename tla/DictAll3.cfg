SPECIFICATION Spec
CONSTANTS
  NoCell = NoCell
  NoVal = NoVal
  Err = Err
  ValBits = 8
  Aug = FALSE
  Comparator <- MCComparator
  ExtraOf <- MCExtraOf
  Keys <- AllKeys3
  KeyLen = 3
  Vals <- One
  MaxBatch = 2
  Batches <- MCBatches
VIEW RootView
INVARIANTS
  HistoryIndependent
  FindIsNearest
  BuildAgrees
  SplitMergeAgree
PROPERTIES
  RefinesMap
