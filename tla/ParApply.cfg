SPECIFICATION FairSpec
CONSTANTS
  r = r
  a = a
  x = x
  w = w
  y = y
  z = z
  p = p
  q = q
  None = None
  Err = Err
  Garbage = Garbage
  Node <- MCNode
  Root = r
  Children <- MCChildren
  Pruned <- MCPruned
  Foreign <- MCForeign
  Depth <- MCDepth
  RootSplit = 0
  ChildSplit = 1
CHECK_DEADLOCK FALSE
INVARIANTS
  TypeOK
  CountIsKeys
  EntriesMatchKeys
  PromisesAreKept
  OutcomeIsSequential
PROPERTIES
  NothingForgotten
  Terminates
