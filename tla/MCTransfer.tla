----------------------------- MODULE MCTransfer -----------------------------
(* Small trees with shared cells, an inner Merkle proof, and jobs on them. *)
EXTENDS Transfer

A == Ordinary(1, 8, <<>>)
Big == Ordinary(2, 300, <<>>)
Shared == Ordinary(3, 5, <<A, Big>>)
Left == Ordinary(4, 8, <<Shared>>)
Right == Ordinary(5, 0, <<Shared, A>>)
Old == Ordinary(6, 13, <<Left, Right>>)
\* A change below Left: Shared and Right stay.
Left2 == Ordinary(7, 8, <<Shared, Big>>)
New == Ordinary(6, 13, <<Left2, Right, Left2>>)
\* Everything moves: a deep new tree with Shared at the bottom.
Deep == Ordinary(8, 8, <<Ordinary(9, 8, <<Ordinary(10, 8, <<Shared>>), Shared>>)>>)

\* A tree that holds a proof: the cells below it are one Merkle level deeper.
Inner == Ordinary(11, 8, <<Ordinary(12, 8, <<Ordinary(13, 8, <<A>>)>>), make_pruned_branch(Deep, 0)>>)
Proof == build_ext("proof", 0, 8 + HashBits + DepthBits,
                   <<[hash |-> hash(Inner, 0), depth |-> depth(Inner, 0)]>>, {}, <<Inner>>)
OldProof == Ordinary(14, 8, <<Proof, Left>>)
NewProof == Ordinary(14, 8, <<Proof, Left2>>)
InnerHashes == {repr_hash(Proof), repr_hash(Inner)}

H(cs) == {repr_hash(c) : c \in cs}

Proves(root, filter, split, different, big) ==
  [kind |-> "proof", old |-> root, new |-> root, filter |-> filter, old_split |-> split, new_split |-> {},
   allow_different_root |-> different, prune_big_cells |-> big, target |-> root, forged |-> FALSE]
Updates(old, new, filter, old_split, new_split, target, forged) ==
  [kind |-> "update", old |-> old, new |-> new, filter |-> filter, old_split |-> old_split,
   new_split |-> new_split, allow_different_root |-> TRUE, prune_big_cells |-> FALSE,
   target |-> target, forged |-> forged]

ProofJobs ==
  {Proves(Old, Filter(H(cs), {}), split, FALSE, big) :
     cs \in {{Old}, {Old, Left}, {Old, Left, Right, Shared}}, split \in {{}, H({Left, Right, Shared})},
     big \in BOOLEAN}
  \union {Proves(Old, Filter(H({Old}), H({Right})), H({Left}), FALSE, FALSE),
          Proves(Old, Filter(H({Old, Left, Right, Shared, Big}), {}), {}, FALSE, TRUE),
          Proves(Old, filter_for_cell(Old, repr_hash(A)), H({Shared}), FALSE, FALSE),
          Proves(Old, Filter(H({Left}), {}), {}, FALSE, FALSE),
          Proves(Old, Filter(H({Left}), {}), {}, TRUE, FALSE),
          Proves(OldProof, Filter(H({OldProof}) \union InnerHashes, {}), H({Inner}), FALSE, FALSE)}

\* What may have been read of Old: a cell is reached through another.
UsedSets ==
  {{Old} \union cs : cs \in {x \in SUBSET {Left, Right, Shared} : Shared \in x => {Left, Right} \intersect x # {}}}

UpdateJobs ==
  {Updates(Old, new, Filter(H(cs), {}), os, ns, Old, FALSE) :
     new \in {New, Deep}, cs \in UsedSets, os \in {{}, H({Right}), H({Left, Right, Shared})},
     ns \in {{}, H({Left2, Right, Shared})}}
  \union {Updates(Old, New, Filter(H({Old}), H({Left, Right})), H({Right}), H({Left2}), Old, FALSE),
          Updates(Old, Old, Filter(H({Old}), {}), {}, {}, Old, FALSE),
          Updates(Old, New, Filter(H({Old, Left, Right, Shared}), {}), {}, {}, New, FALSE),
          Updates(Old, New, Filter(H({Old, Left, Right, Shared}), {}), {}, {}, Old, TRUE),
          Updates(Old, Deep, Filter(H({Old, Left, Right, Shared}), {}), {}, {}, Old, TRUE),
          Updates(OldProof, NewProof, Filter(H({OldProof, Left, Shared}) \union InnerHashes, {}),
                  H({Left, Proof}), H({Left2}), OldProof, FALSE),
          Updates(OldProof, NewProof, Filter(H({OldProof, Left, Shared}), {}), H({Left}), H({Inner}),
                  OldProof, FALSE)}

MCJobs == ProofJobs \union UpdateJobs
\* Cells that were read from a bag of cells with hashes in it.
MCFlagged == H({Shared, New})

\* Old keeps Y directly and below Kept; New keeps only Kept.
Y == Ordinary(20, 8, <<A>>)
Kept == Ordinary(21, 8, <<Y>>)
RemovedJobs ==
  {Updates(Ordinary(22, 8, <<Y, Kept>>), Ordinary(23, 8, <<Kept>>),
           Filter(H({Ordinary(22, 8, <<Y, Kept>>), Kept}), {}), {}, {}, Ordinary(22, 8, <<Y, Kept>>), FALSE)}
=============================================================================
