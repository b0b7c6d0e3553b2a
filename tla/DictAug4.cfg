SPECIFICATION Spec
CONSTANTS
  NoCell = NoCell
  NoVal = NoVal
  Err = Err
  ValBits = 8
  Aug = TRUE
  Comparator <- MCComparator
  ExtraOf <- MCExtraOf
  Keys <- SomeKeys4
  KeyLen = 4
  Vals <- Two
  MaxBatch = 3
  Batches <- MCBatches
VIEW RootView
INVARIANTS
  HistoryIndependent
  RootExtraIsFresh
  SplitMergeAgree
