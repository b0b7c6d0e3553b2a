------------------------------ MODULE Transfer ------------------------------
(***************************************************************************)
(* A Merkle proof or update from its builder to the node that uses it: the *)
(* parallel builders of merkle/proof.rs and update.rs, the bag of cells on *)
(* the wire, and the parallel walks of par_apply_ext_with_stats over what  *)
(* was received.  Module ParApply models the last step, the parallel       *)
(* applier, on its own; here it is apply_found.                            *)
(*                                                                         *)
(* A task of a rayon scope is a stack of frames.  Task 1 is the one that   *)
(* has the scope: only it spawns others.  An action is one child: each     *)
(* reads or writes the shared maps once.                                   *)
(***************************************************************************)
EXTENDS Merkle, Boc

CONSTANTS Jobs,               \* what is built, sent and used
          MaxSent,            \* bound: the roots of one bag
          ROOT_SPLIT_DEPTH,   \* 3 in the code
          CHILD_SPLIT_DEPTH   \* 5 in the code

VARIABLES job,       \* the job of this behaviour
          phase,     \* the call that is running
          made,      \* its results so far
          tasks,     \* the tasks of the running scope
          cells,     \* ParBuilderImpl::cells
          pruned,    \* ParBuilderImpl::pruned_branches
          visited,   \* the visited set of a walk
          found,     \* its old_cells
          invalid,   \* is_invalid
          hdr,       \* ser::BocHeader
          roots,     \* the roots added to it
          wire       \* the encoded bag of cells
vars == <<job, phase, made, tasks, cells, pruned, visited, found, invalid, hdr, roots, wire>>
maps == <<cells, pruned, visited, found, invalid>>
boc == <<hdr, roots, wire>>

-----------------------------------------------------------------------------
(* ExtCell, ChildrenBuilder and Promise                                     *)

Ord(cell) == [k |-> "ordinary", cell |-> cell]
Partial(cell, refs) == [k |-> "partial", cell |-> cell, refs |-> refs]
Deferred(task) == [k |-> "deferred", task |-> task]

\* ExtCell::resolve, when the scope is over: every promise is set.
RECURSIVE resolve(_)
resolve(ext) ==
  IF ext = Err THEN Err
  ELSE CASE ext.k = "ordinary" -> ext.cell
         [] ext.k = "deferred" -> resolve(tasks[ext.task].result)
         [] ext.k = "partial" ->
              LET refs == [i \in DOMAIN ext.refs |-> resolve(ext.refs[i])]
              IN IF \E i \in DOMAIN refs : refs[i] = Err THEN Err ELSE rebuild(ext.cell, refs)

\* ChildrenBuilder is Ordinary while all children are, and Extended from then on.
finish(cell, kids) ==
  IF \A i \in DOMAIN kids : kids[i].k = "ordinary"
    THEN LET c == rebuild(cell, [i \in DOMAIN kids |-> kids[i].cell])
         IN IF c = Err THEN Err ELSE Ord(c)
    ELSE Partial(cell, kids)

-----------------------------------------------------------------------------
(* The tasks of a scope                                                     *)

\* `merkle_depth` of a frame is that of the cell's children.
Frame(cell, parent_merkle_depth) ==
  [cell |-> cell, next |-> 1, merkle_depth |-> parent_merkle_depth + is_merkle(cell), kids |-> <<>>]

\* Mutant: a spawned task starts at Merkle depth zero.
MutNewTask(cell, merkle_depth) ==
  [start |-> <<cell, 0>>, stack |-> <<>>, result |-> None]

\* A task that has not begun has its frame in `start`.
NewTask(cell, merkle_depth) ==
  [start |-> <<cell, merkle_depth>>, stack |-> <<>>, result |-> None]
Running(cell, merkle_depth) ==
  [start |-> None, stack |-> <<Frame(cell, merkle_depth)>>, result |-> None]
Top(t) == Last(tasks[t].stack)
HasChild(t) == tasks[t].stack # <<>> /\ Top(t).next <= Len(Top(t).cell.refs)
Child(t) == Top(t).cell.refs[Top(t).next]
IsOver(t) == tasks[t].start = None /\ tasks[t].stack = <<>>
ScopeIsOver == \A t \in DOMAIN tasks : IsOver(t)

\* The task with the child of its top frame behind it.
Advanced(t) == [tasks[t] EXCEPT !.stack[Len(tasks[t].stack)].next = @ + 1]
Pushed(task, cell, merkle_depth) == [task EXCEPT !.stack = Append(@, Frame(cell, merkle_depth))]

-----------------------------------------------------------------------------
(* ParBuilderImpl::build_impl                                               *)

Builds == phase \in {"build_new", "build_old"}
BuildJob ==
  IF phase = "build_new" THEN NewSide(job.new, job.filter)
  ELSE IF job.kind = "update" THEN OldSide(job.old, made.changed)
  ELSE ProofJob(job.old, job.filter, job.allow_different_root, job.prune_big_cells)
split_at == IF phase = "build_new" THEN job.new_split ELSE job.old_split

\* The task with one more child, or its end on an error.
Stored(t, task, ext) ==
  IF ext = Err THEN [tasks[t] EXCEPT !.stack = <<>>, !.result = Err]
  ELSE [task EXCEPT !.stack[Len(task.stack)].kids = Append(@, ext)]

BuildBegin(t) ==
  /\ Builds /\ tasks[t].start # None
  /\ tasks' = [tasks EXCEPT ![t] = Running(tasks[t].start[1], tasks[t].start[2])]
  /\ UNCHANGED <<job, phase, made, maps, boc>>

BuildChild(t) ==
  LET child == Child(t)
      h == repr_hash(child)
      action == check(BuildJob.filter, h)
      Store(ext) == tasks' = [tasks EXCEPT ![t] = Stored(t, Advanced(t), ext)]
  IN /\ Builds /\ HasChild(t)
     /\ \/ /\ h \in DOMAIN cells
           /\ Store(cells[h])
           /\ UNCHANGED pruned
        \/ /\ h \notin DOMAIN cells /\ action = "subtree"
           /\ Store(Ord(child))
           /\ UNCHANGED pruned
        \/ /\ h \notin DOMAIN cells /\ prunes(BuildJob, child)
           /\ LET p == make_pruned_branch(child, Top(t).merkle_depth)
              IN Store(IF p = Err THEN Err ELSE Ord(p))
           /\ pruned' = pruned \union {h}
        \/ /\ h \notin DOMAIN cells /\ action # "subtree" /\ ~prunes(BuildJob, child)
           /\ tasks' = IF t = 1 /\ h \in split_at
                         THEN Append([tasks EXCEPT ![t] = Stored(t, Advanced(t), Deferred(Len(tasks) + 1))],
                                     NewTask(child, Top(t).merkle_depth))
                         ELSE [tasks EXCEPT ![t] = Pushed(Advanced(t), child, Top(t).merkle_depth)]
           /\ UNCHANGED pruned
     /\ UNCHANGED <<job, phase, made, cells, visited, found, invalid, boc>>

\* The cell is built, put into the shared map and handed to its parent.
BuildPop(t) ==
  /\ Builds /\ tasks[t].stack # <<>> /\ ~HasChild(t)
  /\ LET frame == Top(t)
         ext == finish(frame.cell, frame.kids)
         rest == [tasks[t] EXCEPT !.stack = Front(@)]
     IN /\ cells' = IF ext = Err THEN cells ELSE (repr_hash(frame.cell) :> ext) @@ cells
        /\ tasks' = [tasks EXCEPT ![t] = IF rest.stack = <<>> THEN [rest EXCEPT !.result = ext]
                                         ELSE Stored(t, rest, ext)]
  /\ UNCHANGED <<job, phase, made, pruned, visited, found, invalid, boc>>

-----------------------------------------------------------------------------
(* MerkleUpdateBuilder::par_build and par_build_raw_ext                     *)

\* The parallel Resolver: each task has its own visited map and the result of a
\* split cell comes from the task of its own, so no order of the tasks matters.
\* Only a result that is not deferred is marked as visited.
RECURSIVE par_fill(_, _, _, _, _)
par_fill(ctx, cell, skip_filter, scope, st) ==
  LET h == repr_hash(cell)
      action == check(ctx.filter, h)
      skips == skip_filter \/ action = "subtree"
      pruned_here == h \in ctx.pruned
      process(c, with_scope, from) ==
        LET step(acc, child) ==
              LET r == par_fill(ctx, child, skips, with_scope, acc)
              IN [r EXCEPT !.result = @ \/ acc.result, !.immediate = @ /\ acc.immediate]
            end == FoldLeft(step, [from EXCEPT !.result = FALSE, !.immediate = TRUE], c.refs)
        IN [end EXCEPT !.result = @ \/ pruned_here,
                       !.changed = IF end.result THEN @ \union {h} ELSE @]
      own == process(cell, FALSE, [st EXCEPT !.visited = <<>>])
      r == process(cell, scope, st)
  IN IF h \in DOMAIN st.visited THEN [st EXCEPT !.result = st.visited[h], !.immediate = TRUE]
     ELSE IF ~skip_filter /\ action = "skip"
       THEN [st EXCEPT !.visited = @ @@ (h :> pruned_here), !.result = pruned_here, !.immediate = TRUE]
     ELSE IF scope /\ h \in ctx.split_at
       THEN IF h \in DOMAIN st.deferred THEN [st EXCEPT !.result = st.deferred[h], !.immediate = FALSE]
            ELSE [st EXCEPT !.deferred = @ @@ (h :> own.result), !.changed = own.changed,
                            !.result = own.result, !.immediate = FALSE]
     ELSE IF r.immediate THEN [r EXCEPT !.visited = @ @@ (h :> r.result)] ELSE r

par_changed_cells(old, filter, pruned_branches, split) ==
  LET r == par_fill([filter |-> filter, pruned |-> pruned_branches, split_at |-> split], old, FALSE, TRUE,
                    [visited |-> <<>>, deferred |-> <<>>, changed |-> {}, result |-> FALSE, immediate |-> TRUE])
  IN IF r.result THEN r.changed \union {repr_hash(old)} ELSE r.changed

EmptyMaps == cells' = <<>> /\ pruned' = {} /\ visited' = {} /\ found' = <<>> /\ invalid' = FALSE

\* A scope with one task.
Scope(next_phase, task) == phase' = next_phase /\ tasks' = <<task>> /\ EmptyMaps
NoScope(next_phase) == phase' = next_phase /\ tasks' = <<>> /\ EmptyMaps

\* The message is the cell of the proof or the update, or the error of the builder.
Sends(message) == made' = [made EXCEPT !.message = message] /\ NoScope("send")

Start ==
  /\ phase = "start"
  /\ IF job.kind = "update"
       THEN IF repr_hash(job.old) = repr_hash(job.new) THEN Sends(store_update(empty_update(job.old)))
            ELSE Scope("build_new", Running(job.new, 0)) /\ UNCHANGED made
     ELSE IF empty_proof(BuildJob) THEN Sends(Err)
     ELSE Scope("build_old", Running(job.old, 0)) /\ UNCHANGED made
  /\ UNCHANGED <<job, boc>>

\* The new side is built; the changed cells of the old one follow.
JoinNew ==
  /\ phase = "build_new" /\ ScopeIsOver
  /\ made' = [made EXCEPT !.new = resolve(tasks[1].result), !.pruned = pruned,
                          !.count = Cardinality(DOMAIN cells),
                          !.changed = par_changed_cells(job.old, job.filter, pruned, job.old_split)]
  /\ IF made'.new = Err THEN NoScope("done") ELSE Scope("build_old", Running(job.old, 0))
  /\ UNCHANGED <<job, boc>>

JoinOld ==
  /\ phase = "build_old" /\ ScopeIsOver
  /\ LET old == resolve(tasks[1].result)
         message == IF old = Err THEN Err
                    ELSE IF job.kind = "proof" THEN store_proof(MerkleProof(job.old, old))
                    ELSE store_update(MerkleUpdate(job.old, job.new, old, made.new))
     IN /\ made' = [made EXCEPT !.old = old, !.message = message]
        /\ NoScope("send")
  /\ UNCHANGED <<job, boc>>

-----------------------------------------------------------------------------
(* The bag of cells                                                         *)

\* The options may be set before, between and after the roots.
Configure(crc, without) ==
  /\ phase = "send" /\ made.message # Err
  /\ hdr' = without_hashes(with_crc(hdr, crc), without)
  /\ UNCHANGED <<job, phase, made, tasks, maps, roots, wire>>

\* The message with the tree it is about, in any order, as encode_pair sends two roots.
AddRoot(root) ==
  /\ phase = "send" /\ made.message # Err /\ Len(roots) < MaxSent
  /\ hdr' = add_root(hdr, root)
  /\ roots' = Append(roots, root)
  /\ UNCHANGED <<job, phase, made, tasks, maps, wire>>

Clear ==
  /\ phase = "send" /\ Len(roots) = MaxSent
  /\ hdr' = clear(hdr)
  /\ roots' = <<>>
  /\ UNCHANGED <<job, phase, made, tasks, maps, wire>>

\* The bytes of a release build: a debug build may stop at the encoder's assertion.
Encode(how) ==
  /\ phase = "send" /\ made.message \in ToSet(roots)
  /\ wire' = encode(hdr, how)
  /\ phase' = "receive"
  /\ UNCHANGED <<job, made, tasks, maps, hdr, roots>>

\* Boc::decode_ext and load_from_cell.
Loaded(cell) ==
  IF cell = Err THEN Err ELSE IF job.kind = "proof" THEN load_proof(cell) ELSE load_update(cell)
MessageOf(got) == got[Min({i \in DOMAIN roots : roots[i] = made.message})]
\* A forged update shows nothing of the old tree.
Forged(update) ==
  IF job.forged THEN [update EXCEPT !.old = make_pruned_branch(job.old, 0)] ELSE update

\* A bag that does not decode ends the transfer.
Receive ==
  LET got == decode_roots(wire, 1, MAX_ROOTS)
  IN /\ phase = "receive"
     /\ IF got = Err THEN NoScope("refused") /\ UNCHANGED made
        ELSE /\ made' = [made EXCEPT !.received = Forged(Loaded(MessageOf(got)))]
             /\ NoScope("use")
     /\ hdr' = EmptyHeader /\ roots' = <<>> /\ wire' = None
     /\ UNCHANGED job

\* par_apply_ext_with_stats before its walks; a proof is used as it is.
Use ==
  LET update == made.received
      Returns(result) == made' = [made EXCEPT !.result = result] /\ NoScope("done")
  IN /\ phase = "use"
     /\ IF update = Err \/ job.kind = "proof" THEN Returns(update)
        ELSE IF repr_hash(job.target) # update.old_hash THEN Returns(Err)
        ELSE IF update.old_hash = update.new_hash
          THEN Returns([cell |-> job.target, new_cells_count |-> 0])
        ELSE Scope("traverse_old", NewTask(update.old, 0)) /\ UNCHANGED made
     /\ UNCHANGED <<job, boc>>

-----------------------------------------------------------------------------
(* traverse_old_cells, traverse_new_cells and find_old_subtrees             *)

Walks == phase \in {"traverse_old", "traverse_new", "find_old"}

\* Both walks over old cells split at the given cells, the other one by depth:
\* traverse_depth is the length of the stack.
SplitsAt(t, child) ==
  /\ t = 1
  /\ IF phase = "traverse_new"
       THEN Len(tasks[t].stack) > ROOT_SPLIT_DEPTH /\ repr_depth(child) > CHILD_SPLIT_DEPTH
       ELSE repr_hash(child) \in job.old_split

\* What the walk keeps of a cell that it visits.
Keeps(cell, merkle_depth) ==
  CASE phase = "traverse_old" -> (hash(cell, merkle_depth) :> None) @@ found
    [] phase = "find_old"     -> (hash(cell, merkle_depth) :> cell) @@ found
    [] OTHER                  -> found

\* A task inserts its root whatever it is: only the visited set is asked.
WalkBegin(t) ==
  /\ Walks /\ tasks[t].start # None
  /\ LET cell == tasks[t].start[1]
         merkle_depth == tasks[t].start[2]
         seen == repr_hash(cell) \in visited
         ends == seen \/ (phase = "traverse_new" /\ is_pruned(cell))
     IN /\ visited' = visited \union {repr_hash(cell)}
        /\ found' = IF seen THEN found ELSE Keeps(cell, merkle_depth)
        /\ invalid' = (invalid \/ (~seen /\ phase = "traverse_new"
                                   /\ missing_old(cell, merkle_depth, made.old_hashes)))
        /\ tasks' = [tasks EXCEPT ![t] = IF ends THEN [@ EXCEPT !.start = None]
                                         ELSE Running(cell, merkle_depth)]
  /\ UNCHANGED <<job, phase, made, cells, pruned, boc>>

\* The children of a visited cell follow, unless it is pruned or not an old cell.
Enters(cell, merkle_depth) ==
  CASE phase = "traverse_old" -> ~is_pruned(cell)
    [] phase = "traverse_new" -> ~is_pruned(cell)
    [] phase = "find_old"     -> hash(cell, merkle_depth) \in made.old_hashes

WalkChild(t) ==
  LET child == Child(t)
      h == repr_hash(child)
      merkle_depth == Top(t).merkle_depth
  IN /\ Walks /\ HasChild(t)
     /\ \/ /\ SplitsAt(t, child)
           /\ tasks' = Append([tasks EXCEPT ![t] = Advanced(t)], NewTask(child, merkle_depth))
           /\ UNCHANGED <<visited, found, invalid>>
        \/ /\ ~SplitsAt(t, child) /\ h \in visited
           /\ tasks' = [tasks EXCEPT ![t] = Advanced(t)]
           /\ UNCHANGED <<visited, found, invalid>>
        \/ /\ ~SplitsAt(t, child) /\ h \notin visited
           /\ visited' = visited \union {h}
           /\ LET enters == Enters(child, merkle_depth)
                  bad == phase = "traverse_new" /\ missing_old(child, merkle_depth, made.old_hashes)
              IN /\ found' = IF phase = "find_old" /\ ~enters THEN found ELSE Keeps(child, merkle_depth)
                 /\ invalid' = (invalid \/ bad)
                 /\ tasks' = [tasks EXCEPT ![t] =
                                IF bad THEN [@ EXCEPT !.stack = <<>>]
                                ELSE IF enters THEN Pushed(Advanced(t), child, merkle_depth)
                                ELSE Advanced(t)]
     /\ UNCHANGED <<job, phase, made, cells, pruned, boc>>

WalkPop(t) ==
  /\ Walks /\ tasks[t].stack # <<>> /\ ~HasChild(t)
  /\ tasks' = [tasks EXCEPT ![t].stack = Front(@)]
  /\ UNCHANGED <<job, phase, made, maps, boc>>

\* From one scope to the next; the applier follows the last one.
JoinWalk ==
  /\ Walks /\ ScopeIsOver
  /\ \/ /\ phase = "traverse_old"
        /\ made' = [made EXCEPT !.old_hashes = DOMAIN found]
        /\ Scope("traverse_new", NewTask(made.received.new, 0))
     \/ /\ phase = "traverse_new" /\ invalid
        /\ made' = [made EXCEPT !.result = Err]
        /\ NoScope("done")
     \/ /\ phase = "traverse_new" /\ ~invalid
        /\ Scope("find_old", NewTask(job.target, 0))
        /\ UNCHANGED made
     \/ /\ phase = "find_old"
        /\ made' = [made EXCEPT !.result = apply_found(made.received, found)]
        /\ NoScope("done")
  /\ UNCHANGED <<job, boc>>

-----------------------------------------------------------------------------
Init ==
  /\ job \in Jobs
  /\ phase = "start"
  /\ made = [new |-> None, pruned |-> {}, count |-> 0, changed |-> {}, old |-> None, message |-> None,
             received |-> None, old_hashes |-> {}, result |-> None]
  /\ tasks = <<>> /\ cells = <<>> /\ pruned = {} /\ visited = {} /\ found = <<>> /\ invalid = FALSE
  /\ hdr = EmptyHeader /\ roots = <<>> /\ wire = None

Next ==
  \/ Start \/ JoinNew \/ JoinOld \/ Receive \/ Use \/ Clear \/ JoinWalk
  \/ \E crc, without \in BOOLEAN : Configure(crc, without)
  \/ AddRoot(made.message) \/ AddRoot(job.old)
  \/ \E how \in {"plain", "writer", "rayon"} : Encode(how)
  \/ \E t \in DOMAIN tasks :
       BuildBegin(t) \/ BuildChild(t) \/ BuildPop(t) \/ WalkBegin(t) \/ WalkChild(t) \/ WalkPop(t)

Spec == Init /\ [][Next]_vars

-----------------------------------------------------------------------------
(* Properties                                                               *)

\* What the one-threaded builder makes of the update, from its new side on.
SameUpdate(new, changed) ==
  /\ made.new = new.cell /\ made.pruned = new.pruned
  /\ made.count = Cardinality(DOMAIN new.cells)
  /\ made.changed = changed
  /\ made.old = build_proof(OldSide(job.old, changed)).cell
SameFrom(new) == SameUpdate(new, changed_cells(job.old, job.filter, new.pruned))

\* MerkleProofBuilder::par_build and MerkleUpdateBuilder::par_build, in every order of
\* their tasks, give the proof, the pruned branches, the changed cells and the number of
\* new cells that the one-threaded builders give: a cell that two tasks build, or that is
\* shared with a part that waits for another task, is the same cell.
BuildIsSequential ==
  (phase = "send" /\ roots = <<>> /\ made.old # None) =>
    IF job.kind = "proof" THEN made.old = build_proof(BuildJob).cell
    ELSE SameFrom(build_proof(NewSide(job.new, job.filter)))

\* count_new_cells of the tests: the cells of the new side that are not pruned.
count_new_cells(u) ==
  IF u.old_hash = u.new_hash THEN 0
  ELSE Cardinality({repr_hash(c) : c \in {x \in Subcells(u.new) : ~is_pruned(x)}})

\* Pruned branches that the new tree had before the update.
InnerPruned(u) == {c \in Subcells(u.new) : is_pruned(c) /\ c \in Subcells(job.new)}

CellsByHash(root) == [h \in {repr_hash(c) : c \in Subcells(root)} |->
                        CHOOSE c \in Subcells(root) : repr_hash(c) = h]

\* `seen`, a cell of the proof, shows what the filter asks of `cell`: the cell itself, every
\* included child in the same way, the whole of a subtree, and of a skipped child nothing but
\* a leaf.
RECURSIVE ShowsAsked(_, _)
ShowsAsked(cell, seen) ==
  /\ seen.type = cell.type /\ seen.data = cell.data /\ seen.bits = cell.bits
  /\ seen.stored = cell.stored /\ Len(seen.refs) = Len(cell.refs)
  /\ \A i \in DOMAIN cell.refs :
       LET child == cell.refs[i]
           action == check(job.filter, repr_hash(child))
       IN /\ action = "include" => ShowsAsked(child, seen.refs[i])
          /\ action = "subtree" => seen.refs[i] = child
          /\ action = "skip" => is_pruned(seen.refs[i]) \/ (child.refs = <<>> /\ seen.refs[i] = child)

\* What was built, sent and loaded does its work at the receiver.  A builder fails only for a
\* root that the filter skips.  A proof has the root's hash and depth, shows every cell that its
\* filter includes and that included cells lead to, subtrees as a whole, and no skipped cell that
\* has references.  An update turns the old tree into the new one and counts the new cells as its
\* builder did (which counts the pruned branches of an inner proof as well), with the old cells
\* looked up by the walks or in a storage; another tree, or an update whose old side lacks what
\* the new one has pruned, is refused; and par_apply_ext_with_stats says what apply says in every
\* order of its tasks.
TransferDelivers ==
  /\ phase = "send" => (made.message = Err) = (job.kind = "proof" /\ empty_proof(BuildJob))
  /\ (phase = "done") =>
       IF job.kind = "proof"
         THEN /\ made.received # Err
              /\ made.received.hash = repr_hash(job.old) /\ hash(made.received.cell, 0) = repr_hash(job.old)
              /\ virtual_hash(made.received.cell, 0) = repr_hash(job.old)
              /\ virtual_depth(made.received.cell, 0) = repr_depth(job.old)
              /\ ShowsAsked(job.old, made.received.cell)
       ELSE /\ made.received # Err
            /\ made.result = apply(made.received, job.target)
            /\ (job.target # job.old \/ job.forged) => made.result = Err
            /\ (job.target = job.old /\ ~job.forged) =>
                 /\ made.result = [cell |-> job.new, new_cells_count |-> count_new_cells(made.received)]
                 /\ made.count = made.result.new_cells_count + Cardinality(InnerPruned(made.received))
                 /\ apply_trusted(made.received, CellsByHash(job.old)) = made.result

\* The sizes that add_root summed up are those of the cells under the options of now: they are
\* not when without_hashes is called after a root with stored hashes was added.
SizesAreFresh ==
  hdr.total_data_size =
    FoldLeft(LAMBDA n, cell : n + byte_len_full(cell, hdr.without_hashes), 0, hdr.rev_cells)

\* The assertion at the end of every encoder: what it wrote has the announced size.
EncoderAssertion == wire.counted = compute_stats(hdr).total_size

\* The bag of cells keeps its roots and their order.  With fresh sizes and no more roots than
\* cells, what any of the encoders writes is as long as compute_stats announced, decodes to the
\* roots that were added, and no shorter prefix of it decodes at all.  Any other bag is refused
\* as a whole, never read as other roots.  The assertion of the encoder fails for stale sizes,
\* and for every checksum that encode_to_writer writes.
BocKeepsRoots ==
  (phase = "receive") =>
    /\ IF SizesAreFresh /\ Len(roots) <= hdr.cell_count
         THEN /\ wire.len = compute_stats(hdr).total_size
              /\ decode_roots(wire, 1, MAX_ROOTS) = roots
              /\ \A n \in 0..(wire.len - 1) : decode([wire EXCEPT !.len = n], 1, MAX_ROOTS) = Err
         ELSE decode_roots(wire, 1, MAX_ROOTS) = Err
    /\ EncoderAssertion = (SizesAreFresh /\ ~(wire.encoder = "writer" /\ wire.has_crc))

\* A storage that counts references has, after old and new were stored and the cells of
\* compute_removed_cells were taken away, exactly the cells of new.
RemovedAreExact ==
  (phase = "done" /\ job.kind = "update" /\ job.target = job.old /\ ~job.forged) =>
    remove_batch(store_cell(store_cell(<<>>, job.old), job.new),
                 compute_removed_cells(made.received, job.old)) = store_cell(<<>>, job.new)

=============================================================================
