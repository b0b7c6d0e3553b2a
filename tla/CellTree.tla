------------------------------ MODULE CellTree ------------------------------
(***************************************************************************)
(* Cells as the Merkle and BOC code sees them: type, level mask, data,     *)
(* references, and one hash and one depth for every significant level      *)
(* (src/cell/mod.rs, cell_context.rs, cell_impl/mod.rs, and                *)
(* merkle/pruned_branch.rs).                                               *)
(*                                                                         *)
(* A level mask is the set of its bits: bit b stands for level b + 1.  A   *)
(* hash is the record of what is hashed, so two hashes are equal exactly   *)
(* when SHA-256 gets the same input.  The data of an ordinary cell is a    *)
(* number that names it and its length in bits; `stored` are the hashes    *)
(* and depths inside the data of an exotic cell.                           *)
(***************************************************************************)
EXTENDS Integers, Sequences, FiniteSets, SequencesExt, FiniteSetsExt

CONSTANT Err        \* the error of a Result

MaxLevel == 3
MaxDepth == 65535   \* the u16 of a depth
HashBits == 256
DepthBits == 16
MAX_REF_COUNT == 4

-----------------------------------------------------------------------------
(* LevelMask                                                                *)

from_level(level) == 0..(level - 1)
level_of(mask) == Cardinality(mask)
hash_index(mask, level) == Cardinality(mask \intersect from_level(level))
contains(mask, level) == level = 0 \/ (level - 1) \in mask
virtualize_mask(mask, offset) == {b - offset : b \in {x \in mask : x >= offset}}
\* The bits of a byte that LevelMask::new keeps.
new_mask(bits) == bits \intersect 0..2
\* The iterator yields level zero and then the levels of the mask.
levels(mask) == SetToSortSeq({0} \union {b + 1 : b \in mask}, <)

-----------------------------------------------------------------------------
(* CellType and CellDescriptor                                              *)

is_exotic(type) == type # "ordinary"
is_merkle_type(type) == type \in {"proof", "update"}

\* The type that the two descriptor bytes alone tell.
cell_type(exotic, ref_count, mask) ==
  IF ~exotic THEN "ordinary"
  ELSE IF ref_count = 0 THEN IF mask = {} THEN "library" ELSE "pruned"
  ELSE IF ref_count = 1 THEN "proof" ELSE "update"

byte_len(bits) == (bits + 7) \div 8

-----------------------------------------------------------------------------
(* CellImpl of the cell kinds                                               *)

is_merkle(cell) == IF is_merkle_type(cell.type) THEN 1 ELSE 0
is_pruned(cell) == cell.type = "pruned"

\* Ordinary and Merkle cells keep their hashes in the header, a pruned branch
\* keeps only its own: the others are part of its data.
LevelDescr(cell, level) ==
  LET i == hash_index(cell.mask, level) + 1
  IN IF is_pruned(cell) /\ i <= Len(cell.stored) THEN cell.stored[i]
     ELSE cell.hashes[IF is_pruned(cell) THEN 1 ELSE i]
hash(cell, level) == LevelDescr(cell, level).hash
\* The depth of a pruned branch in its own right is zero.
depth(cell, level) == LevelDescr(cell, level).depth
repr_hash(cell) == hash(cell, MaxLevel)
repr_depth(cell) == depth(cell, MaxLevel)

\* VirtualCellWrapper::hash and depth: the index is handed on as the level.
virtual_hash_index(cell, level, offset) ==
  hash_index(virtualize_mask(cell.mask, 1 + offset), level)
virtual_hash(cell, level) ==
  IF cell.mask = {} THEN hash(cell, level) ELSE hash(cell, virtual_hash_index(cell, level, 0))
virtual_depth(cell, level) ==
  IF cell.mask = {} THEN depth(cell, level) ELSE depth(cell, virtual_hash_index(cell, level, 0))

\* The cells of a tree, each once.
RECURSIVE Subcells(_)
Subcells(cell) == {cell} \union UNION {Subcells(cell.refs[i]) : i \in DOMAIN cell.refs}

-----------------------------------------------------------------------------
(* CellParts::compute_hashes and CellContext::finalize_cell                 *)

children_mask(refs) == UNION {refs[i].mask : i \in DOMAIN refs}

\* The bit length an exotic cell must have.
exotic_bits(type, mask) ==
  CASE type = "pruned"  -> 16 + level_of(mask) * (HashBits + DepthBits)
    [] type = "proof"   -> 8 + HashBits + DepthBits
    [] type = "update"  -> 8 + 2 * (HashBits + DepthBits)
    [] type = "library" -> 8 + HashBits

\* What is stored in a Merkle cell is what its references hash to at level zero.
StoredMatch(stored, refs) ==
  /\ Len(stored) = Len(refs)
  /\ \A i \in DOMAIN refs :
       stored[i] = [hash |-> hash(refs[i], 0), depth |-> depth(refs[i], 0)]

WellFormed(p) ==
  /\ is_exotic(p.type) => p.bits = exotic_bits(p.type, p.mask)
  /\ p.type = "pruned" =>
       p.mask # {} /\ p.refs = <<>> /\ Len(p.stored) = level_of(p.mask) /\ p.stored_mask = p.mask
  /\ p.type = "library" => p.refs = <<>> /\ p.mask = {}
  /\ p.type \in {"proof", "update"} =>
       /\ Len(p.refs) = (IF p.type = "proof" THEN 1 ELSE 2)
       /\ StoredMatch(p.stored, p.refs)
       /\ p.mask = virtualize_mask(children_mask(p.refs), 1)
  /\ p.type = "ordinary" => p.mask = children_mask(p.refs)

\* Mutant: the references of a Merkle cell are hashed at the cell's own level.
MutHashAt(p, level, prev) ==
  LET kids == [i \in DOMAIN p.refs |-> hash(p.refs[i], level)]
      depths == [i \in DOMAIN p.refs |-> depth(p.refs[i], level)]
  IN [hash |-> [type |-> p.type, mask |-> IF p.type = "pruned" THEN p.mask ELSE from_level(level),
                bits |-> p.bits, data |-> IF prev = <<>> THEN p.data ELSE 0,
                stored |-> IF prev = <<>> THEN p.stored ELSE <<>>,
                prev |-> prev, depths |-> depths, kids |-> kids],
      depth |-> Max({0} \union {depths[i] + 1 : i \in DOMAIN depths})]

\* One round of the loop: the input of the hasher and the depth at one level.
HashAt(p, level, prev) ==
  LET at == level + (IF is_merkle_type(p.type) THEN 1 ELSE 0)
      kids == [i \in DOMAIN p.refs |-> hash(p.refs[i], at)]
      depths == [i \in DOMAIN p.refs |-> depth(p.refs[i], at)]
  IN [hash |-> [type |-> p.type, mask |-> IF p.type = "pruned" THEN p.mask ELSE from_level(level),
                bits |-> p.bits, data |-> IF prev = <<>> THEN p.data ELSE 0,
                stored |-> IF prev = <<>> THEN p.stored ELSE <<>>,
                prev |-> prev, depths |-> depths, kids |-> kids],
      depth |-> Max({0} \union {depths[i] + 1 : i \in DOMAIN depths})]

compute_hashes(p) ==
  LET significant == IF p.type = "pruned" THEN <<0>> ELSE levels(p.mask)
      next(acc, level) ==
        Append(acc, HashAt(p, level, IF acc = <<>> THEN <<>> ELSE <<Last(acc).hash>>))
  IN FoldLeft(next, <<>>, significant)

with_hashes(p, hashes) ==
  IF \E i \in DOMAIN hashes : hashes[i].depth > MaxDepth THEN Err
  ELSE [type |-> p.type, mask |-> p.mask, data |-> p.data, bits |-> p.bits,
        stored |-> p.stored, refs |-> p.refs, hashes |-> hashes]
\* The cell of these parts, or the error of compute_hashes (InvalidCell, DepthOverflow).
finalize_cell(p) == IF WellFormed(p) THEN with_hashes(p, compute_hashes(p)) ELSE Err

-----------------------------------------------------------------------------
(* CellBuilder::build_ext and make_pruned_branch                            *)

\* The level mask that the builder derives from the data and the references.
build_ext(type, data, bits, stored, stored_mask, refs) ==
  finalize_cell([type |-> type, data |-> data, bits |-> bits, stored |-> stored,
                 stored_mask |-> stored_mask, refs |-> refs,
                 mask |-> CASE type = "pruned" -> stored_mask
                            [] type \in {"proof", "update"} -> virtualize_mask(children_mask(refs), 1)
                            [] type = "library" -> {}
                            [] OTHER -> children_mask(refs)])

\* store_cell_data and set_references: the cell with the data of another.
rebuild(cell, refs) == build_ext(cell.type, cell.data, cell.bits, cell.stored, cell.mask, refs)

Ordinary(data, bits, refs) == build_ext("ordinary", data, bits, <<>>, {}, refs)

\* Mutant: the hashes of all levels of the cell are written.
MutMakePrunedBranch(cell, merkle_depth) ==
  LET mask == new_mask(cell.mask \union {merkle_depth})
      written == levels(cell.mask)
      stored == [i \in DOMAIN written |->
                   [hash |-> hash(cell, written[i]), depth |-> depth(cell, written[i])]]
  IN build_ext("pruned", 0, 16 + Len(stored) * (HashBits + DepthBits), stored, mask, <<>>)

make_pruned_branch(cell, merkle_depth) ==
  LET mask == new_mask(cell.mask \union {merkle_depth})
      written == levels(cell.mask \intersect from_level(merkle_depth))
      stored == [i \in DOMAIN written |->
                   [hash |-> hash(cell, written[i]), depth |-> depth(cell, written[i])]]
  IN build_ext("pruned", 0, 16 + Len(stored) * (HashBits + DepthBits), stored, mask, <<>>)
=============================================================================
