SPECIFICATION FairSpec
CONSTANTS
  t1 = t1
  t2 = t2
  nr = nr
  na = na
  nb = nb
  nc = nc
  nd = nd
  cr = cr
  ca = ca
  cc = cc
  none = none
  Thread <- MCThread
  Node <- MCNode
  Root <- MCRoot
  Cell <- MCCell
  CellOf <- MCCellOf
  Child <- MCChild
  NoNode = none
  Asked <- MCAsked
  SubtreeRoot = {}
  Mode = "OnLoad"
INVARIANTS
  TypeOK
  UsedIsRecorded
  NothingSpurious
  NoEscapeWhileAlive
  QuiescentPathsRecorded
PROPERTIES
  FrozenAfterDrop
  CallsReturn
  LoadsGetRecorded
CHECK_DEADLOCK FALSE
