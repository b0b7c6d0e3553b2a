------------------------------- MODULE Merkle -------------------------------
(***************************************************************************)
(* Merkle proofs and updates of src/merkle, as one thread computes them:   *)
(* the filters, the proof builder, the update builder with its resolver,   *)
(* both load_from_cell, the search for the old cells, the applier and      *)
(* compute_removed_cells.  Module Transfer runs the parallel variants.     *)
(*                                                                         *)
(* A walk over a tree threads the maps and sets it fills (`st`) through    *)
(* the references in their order.                                          *)
(***************************************************************************)
EXTENDS CellTree, TLC

CONSTANT None       \* Option::None

-----------------------------------------------------------------------------
(* MerkleFilter                                                             *)

\* A usage tree, with subtrees or without, and a set of hashes are two sets of hashes.
Filter(direct, subtrees) == [direct |-> direct, subtrees |-> subtrees, inverted |-> FALSE]
Invert(filter) == [filter EXCEPT !.inverted = TRUE]

check(filter, h) ==
  LET action == IF h \in filter.direct THEN "include"
                ELSE IF h \in filter.subtrees THEN "subtree" ELSE "skip"
  IN IF filter.inverted THEN IF action = "skip" THEN "include" ELSE "skip"
     ELSE action

-----------------------------------------------------------------------------
(* MerkleProofBuilder                                                       *)

PRUNED_BITS_THRESHOLD == 288

\* What a builder is asked to do.
ProofJob(root, filter, allow_different_root, prune_big_cells) ==
  [root |-> root, filter |-> filter, allow_different_root |-> allow_different_root,
   prune_big_cells |-> prune_big_cells]

empty_proof(job) ==
  ~job.allow_different_root /\ check(job.filter, repr_hash(job.root)) = "skip"

\* Mutant: a big cell is replaced although the filter includes it.
MutPrunes(job, child) ==
  \/ check(job.filter, repr_hash(child)) = "skip" /\ child.refs # <<>>
  \/ job.prune_big_cells /\ child.bits > PRUNED_BITS_THRESHOLD

\* A skipped cell is replaced when it has references, or is big and big ones are pruned.
prunes(job, child) ==
  /\ check(job.filter, repr_hash(child)) = "skip"
  /\ child.refs # <<>> \/ (job.prune_big_cells /\ child.bits > PRUNED_BITS_THRESHOLD)

\* The cell over its children, or the error of one of them.
rebuild_all(cell, kids) ==
  IF \E i \in DOMAIN kids : kids[i] = Err THEN Err ELSE rebuild(cell, kids)

\* A child that was built comes with the maps its subtree filled.
adopt(acc, r) == [cells |-> r.cells, pruned |-> r.pruned, kids |-> Append(acc.kids, r.cell)]
insert_cell(cell, built, end) ==
  [cell |-> built, cells |-> end.cells @@ (repr_hash(cell) :> built), pruned |-> end.pruned]
proved(cell, end) == insert_cell(cell, rebuild_all(cell, end.kids), end)

\* A cell is rebuilt once, whatever Merkle depth it is met at.
RECURSIVE prove(_, _, _, _)
prove(job, cell, parent_merkle_depth, st) ==
  LET merkle_depth == parent_merkle_depth + is_merkle(cell)
      step(acc, child) ==
        LET h == repr_hash(child)
            put(c, s) == [s EXCEPT !.kids = Append(@, c)]
        IN IF h \in DOMAIN acc.cells THEN put(acc.cells[h], acc)
           ELSE IF check(job.filter, h) = "subtree" THEN put(child, acc)
           ELSE IF prunes(job, child)
             THEN put(make_pruned_branch(child, merkle_depth), [acc EXCEPT !.pruned = @ \union {h}])
           ELSE adopt(acc, prove(job, child, merkle_depth, acc))
  IN proved(cell, FoldLeft(step, [cells |-> st.cells, pruned |-> st.pruned, kids |-> <<>>], cell.refs))

\* BuilderImpl::build
build_proof(job) ==
  IF empty_proof(job) THEN [cell |-> Err, cells |-> <<>>, pruned |-> {}]
  ELSE prove(job, job.root, 0, [cells |-> <<>>, pruned |-> {}])

\* MerkleProof: build_ext, store_into and load_from_cell.
MerkleProof(root, cell) == [hash |-> repr_hash(root), depth |-> repr_depth(root), cell |-> cell]
store_proof(p) ==
  build_ext("proof", 0, 8 + HashBits + DepthBits, <<[hash |-> p.hash, depth |-> p.depth]>>, {}, <<p.cell>>)
load_proof(cell) ==
  IF cell.type # "proof" THEN Err
  ELSE LET p == [hash |-> cell.stored[1].hash, depth |-> cell.stored[1].depth, cell |-> cell.refs[1]]
       IN IF hash(p.cell, 0) = p.hash /\ depth(p.cell, 0) = p.depth THEN p ELSE Err

\* create_for_cell: the filter of the first path to the cell, in depth-first order.
RECURSIVE path_to(_, _)
path_to(cell, child_hash) ==
  LET hits == {i \in DOMAIN cell.refs :
                 \/ repr_hash(cell.refs[i]) = child_hash
                 \/ path_to(cell.refs[i], child_hash) # <<>>}
      first == cell.refs[Min(hits)]
  IN IF hits = {} THEN <<>>
     ELSE IF repr_hash(first) = child_hash THEN <<repr_hash(cell)>>
     ELSE <<repr_hash(cell)>> \o path_to(first, child_hash)
filter_for_cell(root, child_hash) == Filter(ToSet(path_to(root, child_hash)) \union {child_hash}, {})

-----------------------------------------------------------------------------
(* MerkleUpdateBuilder                                                      *)

\* Resolver::fill: does the tree below `cell` hold a cell that `new` has pruned?
RECURSIVE fill(_, _, _, _)
fill(job, cell, skip_filter, st) ==
  LET h == repr_hash(cell)
      action == check(job.filter, h)
      skips == skip_filter \/ action = "subtree"
      step(acc, child) ==
        LET r == fill(job, child, skips, acc) IN [r EXCEPT !.result = @ \/ acc.result]
      end == IF skip_filter \/ action # "skip"
               THEN FoldLeft(step, [st EXCEPT !.result = FALSE], cell.refs)
               ELSE [st EXCEPT !.result = FALSE]
      result == end.result \/ h \in job.pruned
  IN IF h \in DOMAIN st.visited THEN [st EXCEPT !.result = st.visited[h]]
     ELSE [visited |-> end.visited @@ (h :> result), result |-> result,
           changed |-> IF end.result THEN end.changed \union {h} ELSE end.changed]

changed_cells(old, filter, pruned) ==
  LET r == fill([filter |-> filter, pruned |-> pruned], old, FALSE,
                [visited |-> <<>>, changed |-> {}, result |-> FALSE])
  IN IF r.result THEN r.changed \union {repr_hash(old)} ELSE r.changed

NewSide(new, filter) == ProofJob(new, Invert(filter), TRUE, FALSE)
OldSide(old, changed) == ProofJob(old, Filter(changed, {}), TRUE, FALSE)

MerkleUpdate(old, new, old_tree, new_tree) ==
  [old_hash |-> repr_hash(old), new_hash |-> repr_hash(new),
   old_depth |-> repr_depth(old), new_depth |-> repr_depth(new), old |-> old_tree, new |-> new_tree]

\* Two equal trees give an update of two pruned branches.
empty_update(old) == LET p == make_pruned_branch(old, 0) IN MerkleUpdate(old, old, p, p)

store_update(u) ==
  build_ext("update", 0, 8 + 2 * (HashBits + DepthBits),
            <<[hash |-> u.old_hash, depth |-> u.old_depth], [hash |-> u.new_hash, depth |-> u.new_depth]>>,
            {}, <<u.old, u.new>>)

load_update(cell) ==
  IF cell.type # "update" THEN Err
  ELSE LET u == [old_hash |-> cell.stored[1].hash, new_hash |-> cell.stored[2].hash,
                 old_depth |-> cell.stored[1].depth, new_depth |-> cell.stored[2].depth,
                 old |-> cell.refs[1], new |-> cell.refs[2]]
       IN IF /\ hash(u.old, 0) = u.old_hash /\ depth(u.old, 0) = u.old_depth
             /\ hash(u.new, 0) = u.new_hash /\ depth(u.new, 0) = u.new_depth
            THEN u ELSE Err

-----------------------------------------------------------------------------
(* MerkleUpdate::apply                                                      *)

\* The first loop of find_old_cells: the hashes the old side of the update shows.
RECURSIVE show_old(_, _, _)
show_old(cell, merkle_depth, st) ==
  LET step(acc, child) ==
        IF repr_hash(child) \in acc.visited THEN acc
        ELSE show_old(child, merkle_depth + is_merkle(cell), acc)
      here == [visited |-> st.visited \union {repr_hash(cell)},
               found |-> st.found \union {hash(cell, merkle_depth)}]
  IN FoldLeft(step, here, cell.refs)

\* The second loop: a pruned branch of this update must be among them.
missing_old(cell, merkle_depth, old_cells) ==
  /\ is_pruned(cell)
  /\ level_of(cell.mask) = merkle_depth + 1
  /\ hash(cell, merkle_depth) \notin old_cells

RECURSIVE check_new(_, _, _, _)
check_new(cell, merkle_depth, old_cells, st) ==
  LET below == merkle_depth + is_merkle(cell)
      step(acc, child) ==
        IF repr_hash(child) \in acc.visited THEN acc
        ELSE IF is_pruned(child)
          THEN [visited |-> acc.visited \union {repr_hash(child)},
                ok |-> acc.ok /\ ~missing_old(child, below, old_cells)]
        ELSE check_new(child, below, old_cells, acc)
  IN FoldLeft(step, [st EXCEPT !.visited = @ \union {repr_hash(cell)}], cell.refs)

find_old_cells(u) ==
  LET old_cells == show_old(u.old, 0, [visited |-> {}, found |-> {}]).found
  IN IF check_new(u.new, 0, old_cells, [visited |-> {}, ok |-> TRUE]).ok THEN old_cells ELSE Err

\* The cells of the real old tree with these hashes; what is below another is not visited.
RECURSIVE collect_old(_, _, _, _)
collect_old(cell, merkle_depth, old_hashes, st) ==
  LET below == merkle_depth + is_merkle(cell)
      step(acc, child) ==
        IF repr_hash(child) \in acc.visited THEN acc
        ELSE IF hash(child, below) \notin old_hashes
          THEN [acc EXCEPT !.visited = @ \union {repr_hash(child)}]
        ELSE collect_old(child, below, old_hashes, acc)
      here == [visited |-> st.visited \union {repr_hash(cell)},
               found |-> (hash(cell, merkle_depth) :> cell) @@ st.found]
  IN FoldLeft(step, here, cell.refs)

keep_new(acc, h, r) == [kids |-> Append(acc.kids, r.cell), new_cells |-> (h :> r.cell) @@ r.new_cells]

\* MerkleUpdateApplier::run with find_in_new_cells = false, as every apply has it.
\* `found` is what find_cell answers.
RECURSIVE run(_, _, _, _)
run(cell, merkle_depth, found, new_cells) ==
  LET below == merkle_depth + is_merkle(cell)
      step(acc, child) ==
        LET h == IF is_pruned(child) THEN hash(child, level_of(child.mask) - 1) ELSE hash(child, below)
            put(c, m) == [kids |-> Append(acc.kids, c), new_cells |-> m]
        IN IF is_pruned(child)
             THEN IF below \notin child.mask THEN put(child, acc.new_cells)
                  ELSE put(IF h \in DOMAIN found THEN found[h] ELSE Err, acc.new_cells)
           ELSE IF h \in DOMAIN acc.new_cells THEN put(acc.new_cells[h], acc.new_cells)
           ELSE keep_new(acc, h, run(child, below, found, acc.new_cells))
      all(end) == [cell |-> rebuild_all(cell, end.kids), new_cells |-> end.new_cells]
  IN all(FoldLeft(step, [kids |-> <<>>, new_cells |-> new_cells], cell.refs))

\* The new root must have the hash of the update; the root is one more new cell.
checked(u, r) ==
  IF r.cell = Err THEN Err
  ELSE IF repr_hash(r.cell) # u.new_hash THEN Err
  ELSE [cell |-> r.cell, new_cells_count |-> Cardinality(DOMAIN r.new_cells) + 1]
apply_found(u, found) == checked(u, run(u.new, 0, found, <<>>))

apply_trusted(u, found) ==
  IF u.old_hash # u.new_hash THEN apply_found(u, found)
  ELSE IF u.old_hash \in DOMAIN found THEN [cell |-> found[u.old_hash], new_cells_count |-> 0]
  ELSE Err

apply_checked(u, old, old_hashes) ==
  IF old_hashes = Err THEN Err
  ELSE apply_found(u, collect_old(old, 0, old_hashes, [visited |-> {}, found |-> <<>>]).found)

apply(u, old) ==
  IF repr_hash(old) # u.old_hash THEN Err
  ELSE IF u.old_hash = u.new_hash THEN [cell |-> old, new_cells_count |-> 0]
  ELSE apply_checked(u, old, find_old_cells(u))

-----------------------------------------------------------------------------
(* MerkleUpdate::compute_removed_cells                                      *)

RECURSIVE show_new(_, _, _)
show_new(cell, merkle_depth, st) ==
  LET below == merkle_depth + is_merkle(cell)
      step(acc, child) ==
        IF repr_hash(child) \in acc.visited THEN acc
        ELSE IF is_pruned(child)
          THEN [visited |-> acc.visited \union {repr_hash(child)},
                found |-> acc.found \union {hash(child, below)}]
        ELSE show_new(child, below, acc)
  IN FoldLeft(step, [visited |-> st.visited \union {repr_hash(cell)},
                     found |-> st.found \union {hash(cell, merkle_depth)}], cell.refs)

\* One more reference to a cell; the first one goes on to the cell's own references
\* unless the cell is in `stop`.
RECURSIVE count_refs(_, _, _)
count_refs(cell, stop, counts) ==
  LET step(acc, child) ==
        LET h == repr_hash(child)
        IN IF h \in DOMAIN acc THEN [acc EXCEPT ![h] = @ + 1]
           ELSE IF h \in stop THEN acc @@ (h :> 1)
           ELSE count_refs(child, stop, acc @@ (h :> 1))
  IN FoldLeft(step, counts, cell.refs)

compute_removed_cells(u, old) ==
  IF repr_hash(old) # u.old_hash \/ hash(u.old, 0) # repr_hash(old) THEN Err
  ELSE IF u.old_hash = u.new_hash THEN <<>>
  ELSE LET new_cells == show_new(u.new, 0, [visited |-> {}, found |-> {}]).found
           root == repr_hash(old) :> 1
       IN IF repr_hash(old) \in new_cells THEN root ELSE count_refs(old, new_cells, root)

\* RefsStorage of the tests: a storage that counts the references to each cell.
store_cell(refs, root) ==
  LET h == repr_hash(root)
  IN IF h \in DOMAIN refs THEN count_refs(root, {}, [refs EXCEPT ![h] = @ + 1])
     ELSE count_refs(root, {}, refs @@ (h :> 1))
remove_batch(refs, batch) ==
  LET left == [h \in DOMAIN refs |-> refs[h] - (IF h \in DOMAIN batch THEN batch[h] ELSE 0)]
  IN [h \in {x \in DOMAIN left : left[x] # 0} |-> left[h]]
=============================================================================
