SPECIFICATION Spec
CONSTANTS
  NoCell = NoCell
  NoVal = NoVal
  Err = Err
  ValBits = 8
  Aug = FALSE
  Comparator <- MCComparator
  ExtraOf <- MCExtraOf
  Keys <- AllKeys2
  KeyLen = 2
  Vals <- One
  MaxBatch = 1
  Batches <- MCBatches
VIEW RootView
INVARIANT MergeAgrees
