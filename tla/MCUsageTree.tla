---------------------------- MODULE MCUsageTree ----------------------------
(* A root whose two references lead to the same cell, which has a reference *)
(* of its own: two usage cells for one hash, twice.                         *)
EXTENDS UsageTree, TLC

CONSTANTS t1, t2, nr, na, nb, nc, nd, cr, ca, cc, none

MCThread == {t1, t2}
MCNode == {nr, na, nb, nc, nd}
MCRoot == {nr}
MCCell == {cr, ca, cc}
MCCellOf == nr :> cr @@ na :> ca @@ nb :> ca @@ nc :> cc @@ nd :> cc
MCChild == [s \in MCNode \X (0..3) |->
  CASE s = <<nr, 0>> -> na [] s = <<nr, 1>> -> nb [] s = <<na, 0>> -> nc
    [] s = <<nb, 0>> -> nd [] OTHER -> none]
\* Three existing references and a missing one.
MCAsked == {<<nr, 0>>, <<nr, 1>>, <<na, 0>>, <<nc, 0>>}
\* The same and an index past 3, where no liveness is asked.
MCAskedMore == MCAsked \union {<<nc, 4>>}
MCSubtreeRoot == {ca}

\* Threads are interchangeable in the safety runs.
ThreadSymmetry == Permutations(MCThread)
=============================================================================
