SPECIFICATION Spec
CONSTANTS
  t1 = t1
  t2 = t2
  nr = nr
  na = na
  nb = nb
  nc = nc
  nd = nd
  cr = cr
  ca = ca
  cc = cc
  none = none
  Thread <- MCThread
  Node <- MCNode
  Root <- MCRoot
  Cell <- MCCell
  CellOf <- MCCellOf
  Child <- MCChild
  NoNode = none
  Asked <- MCAskedMore
  SubtreeRoot <- MCSubtreeRoot
  Mode = "OnDataAccess"
SYMMETRY ThreadSymmetry
INVARIANTS
  UsedIsRecorded
PROPERTIES
  FrozenAfterDrop
CHECK_DEADLOCK FALSE
