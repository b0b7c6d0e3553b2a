------------------------------ MODULE ParApply ------------------------------
(***************************************************************************)
(* ParMerkleUpdateApplier of src/merkle/update.rs: the `new` tree of a     *)
(* Merkle update is rebuilt by tasks of one rayon scope that share the map *)
(* `new_cells`, with the promises of src/merkle/sync_util.rs.              *)
(*                                                                         *)
(* A Node is a cell of the `new` tree, identified by its hash at its       *)
(* Merkle depth, the key of `new_cells`.  The tree is a DAG: cells that    *)
(* are reached by several paths are the reason for the map.                *)
(*                                                                         *)
(* A rebuilt cell is named by the node it is the rebuild of.  A cell with  *)
(* the data of n and other references than the rebuilds of n's children is *)
(* some other cell, Garbage.  An ExtCell is the cell it stands for and the *)
(* set of promises inside it: none for `Ordinary`, its own for `Deferred`, *)
(* those of its references, which are not all ordinary, for `Partial`.     *)
(*                                                                         *)
(* One action is one access to shared memory, with the local computation   *)
(* that leads up to it or follows it.                                      *)
(***************************************************************************)
EXTENDS Integers, Sequences, FiniteSets

CONSTANTS Node,
          Root,        \* MerkleUpdate::new
          Children,    \* the references of a node, a sequence
          Pruned,      \* the pruned branches
          Foreign,     \* the pruned branches of another Merkle depth
          Depth,       \* DynCell::repr_depth
          RootSplit,   \* ROOT_SPLIT_DEPTH
          ChildSplit,  \* CHILD_SPLIT_DEPTH
          None, Err, Garbage

New == Node \ Pruned

ASSUME NodeAssumption ==
  /\ IsFiniteSet(Node)
  /\ Root \in New
  /\ Pruned \subseteq Node /\ Foreign \subseteq Pruned
  /\ Children \in [Node -> Seq(Node)]
  /\ Depth \in [Node -> Nat]
  /\ RootSplit \in Nat /\ ChildSplit \in Nat
  /\ {None, Err, Garbage} \intersect Node = {}
\* A reference leads to a cell of lesser depth, and never to the root.
ASSUME DagAssumption ==
  \A n \in Node : \A i \in 1..Len(Children[n]) :
    Depth[Children[n][i]] < Depth[n] /\ Children[n][i] # Root

\* A pruned branch has no references: a cell with references is no pruned branch to
\* CellParts::compute_hashes, nor to CellDescriptor::is_pruned_branch.
ASSUME LeafAssumption == \A n \in Pruned : Children[n] = <<>>

\* The ExtCells; None (Option::None, or nothing yet) and Err are not among them.
Ext == [cell : Node \union {Garbage}, waits : SUBSET New]
ASSUME ResultAssumption == None \notin Ext /\ Err \notin Ext /\ None # Err

VARIABLES
  present,          \* the pruned branches for which `find_cell` has a cell
  new_cells,        \* ParMerkleUpdateApplier::new_cells
  total_new_cells,  \* ParMerkleUpdateApplier::total_new_cells
  stage,            \* where each task is; a task is named by the node it rebuilds
  stack,            \* its frames of run_inner
  scope_total,      \* its `scope_total`
  value,            \* what its `run` returned
  promise,          \* the promise it fulfils
  outcome,          \* what apply returned
  by                \* history: the task that first put a node into new_cells

taskVars == <<stage, stack, scope_total, value>>
vars == <<present, new_cells, total_new_cells, stage, stack, scope_total, value, promise, outcome, by>>

Stage == {"absent", "run", "entry", "add", "set", "done"}

-----------------------------------------------------------------------------
(* ExtCell and ChildrenBuilder                                              *)

Ordinary(c) == [cell |-> c, waits |-> {}]
Deferred(n) == [cell |-> n, waits |-> {n}]

\* CellBuilder::build_ext: the cell with the data of n and the given references.
build_ext(n, cells) == IF cells = Children[n] THEN n ELSE Garbage

\* The end of run_inner: a cell when all references are cells, else its parts.
finish_children(f) == [cell |-> build_ext(f.cell, f.refs), waits |-> f.waits]

-----------------------------------------------------------------------------
(* Frames of run_inner                                                      *)

\* The node, its traverse_depth and the references stored so far.
Frame(n, depth) == [cell |-> n, depth |-> depth, refs |-> <<>>, waits |-> {}]
Top(t) == stack[t][Len(stack[t])]

\* The loop over the references of the innermost frame is not over.
AtChild(t) == stage[t] = "run" /\ Len(Top(t).refs) < Len(Children[Top(t).cell])
AtEnd(t) == stage[t] = "run" /\ Len(Top(t).refs) = Len(Children[Top(t).cell])
NextChild(t) == Children[Top(t).cell][Len(Top(t).refs) + 1]

\* builder.store_reference(child)
AddRef(f, e) == [f EXCEPT !.refs = Append(@, e.cell), !.waits = @ \union e.waits]
WithRef(stk, e) == [stk EXCEPT ![Len(stk)] = AddRef(@, e)]
StoreReference(t, e) == stack' = [stack EXCEPT ![t] = WithRef(@, e)]

\* `find_cell` answers from a map that does not change while the update is applied.
Init ==
  /\ present \in SUBSET (Pruned \ Foreign)
  /\ new_cells = [n \in New |-> None]
  /\ total_new_cells = 0
  /\ stage = [t \in New |-> IF t = Root THEN "run" ELSE "absent"]
  /\ stack = [t \in New |-> IF t = Root THEN <<Frame(Root, 0)>> ELSE <<>>]
  /\ scope_total = [t \in New |-> 0]
  /\ value = [t \in New |-> None]
  /\ promise = [t \in New |-> None]
  /\ outcome = None
  /\ by = [n \in New |-> None]

\* Mutant: a pruned branch that is not found is asked for again.
MutPrunedRetry(t) ==
  LET c == NextChild(t) IN
  /\ AtChild(t) /\ c \in Pruned
  /\ c \in Foreign \union present
  /\ StoreReference(t, Ordinary(c))
  /\ UNCHANGED <<present, new_cells, total_new_cells, stage, scope_total, value, promise, outcome, by>>

\* Mutant: a pruned branch that is not found stays pruned.
MutPrunedKept(t) ==
  LET c == NextChild(t) IN
  /\ AtChild(t) /\ c \in Pruned
  /\ StoreReference(t, Ordinary(c))
  /\ UNCHANGED <<present, new_cells, total_new_cells, stage, scope_total, value, promise, outcome, by>>

\* Mutant: a pruned branch that is not found is taken for an empty answer.
MutPrunedUnwrap(t) ==
  LET c == NextChild(t) IN
  /\ AtChild(t) /\ c \in Pruned
  /\ StoreReference(t, Ordinary(IF c \in Foreign \union present THEN c ELSE None))
  /\ UNCHANGED <<present, new_cells, total_new_cells, stage, scope_total, value, promise, outcome, by>>

\* resolve_pruned_branch with find_in_new_cells = false, as every apply has it.
\* A missing cell is an error that unwinds all frames of the task.
ResolvePruned(t) ==
  LET c == NextChild(t) IN
  /\ AtChild(t) /\ c \in Pruned
  /\ IF c \in Foreign \union present
       THEN StoreReference(t, Ordinary(c)) /\ UNCHANGED <<stage, value>>
       ELSE /\ value' = [value EXCEPT ![t] = Err]
            /\ stage' = [stage EXCEPT ![t] = "add"]
            /\ UNCHANGED stack
  /\ UNCHANGED <<present, new_cells, total_new_cells, scope_total, promise, outcome, by>>

\* resolve_subtree: the first look into new_cells.
LookupHit(t) ==
  LET c == NextChild(t) IN
  /\ AtChild(t) /\ c \in New /\ new_cells[c] # None
  /\ StoreReference(t, new_cells[c])
  /\ UNCHANGED <<present, new_cells, total_new_cells, stage, scope_total, value, promise, outcome, by>>

\* A task of the scope is spawned by the first task only: the others have scope
\* `None`.  Everything else is rebuilt by the task itself.
LookupMiss(t) ==
  LET c == NextChild(t) IN
  /\ AtChild(t) /\ c \in New /\ new_cells[c] = None
  /\ IF t = Root /\ Top(t).depth > RootSplit /\ Depth[c] > ChildSplit
       THEN stage' = [stage EXCEPT ![t] = "entry"] /\ UNCHANGED stack
       ELSE /\ stack' = [stack EXCEPT ![t] = Append(@, Frame(c, Top(t).depth + 1))]
            /\ UNCHANGED stage
  /\ UNCHANGED <<present, new_cells, total_new_cells, scope_total, value, promise, outcome, by>>

\* The task of node c, its promise and its place in new_cells.
Spawn(t, c) ==
  /\ new_cells' = [new_cells EXCEPT ![c] = Deferred(c)]
  /\ scope_total' = [scope_total EXCEPT ![t] = @ + 1]
  /\ stage' = [stage EXCEPT ![t] = "run", ![c] = "run"]
  /\ stack' = [stack EXCEPT ![t] = WithRef(@, Deferred(c)),
                            ![c] = <<Frame(c, Top(t).depth + 1)>>]
  /\ by' = [by EXCEPT ![c] = IF @ = None THEN t ELSE @]

\* Mutant: what another task inserted after the first look is not noticed.
MutEntryUnchecked(t) ==
  /\ stage[t] = "entry"
  /\ Spawn(t, NextChild(t))
  /\ UNCHANGED <<present, total_new_cells, value, promise, outcome>>

\* The entry of the map is locked: either another task has inserted the cell
\* meanwhile or the promise is inserted and the task spawned.
Entry(t) ==
  LET c == NextChild(t) IN
  /\ stage[t] = "entry"
  /\ IF new_cells[c] # None
       THEN /\ stage' = [stage EXCEPT ![t] = "run"]
            /\ StoreReference(t, new_cells[c])
            /\ UNCHANGED <<new_cells, scope_total, by>>
       ELSE Spawn(t, c)
  /\ UNCHANGED <<present, total_new_cells, value, promise, outcome>>

\* Mutant: the cell is stored under the key of the cell that refers to it.
MutInsertWrongKey(t) ==
  LET f == Top(t)
      cell == finish_children(f)
      below == SubSeq(stack[t], 1, Len(stack[t]) - 1)
      key == below[Len(below)].cell
  IN /\ AtEnd(t) /\ Len(stack[t]) > 1
     /\ new_cells' = [new_cells EXCEPT ![key] = cell]
     /\ scope_total' = [scope_total EXCEPT ![t] = @ + (IF new_cells[key] = None THEN 1 ELSE 0)]
     /\ stack' = [stack EXCEPT ![t] = WithRef(below, cell)]
     /\ by' = [by EXCEPT ![key] = IF @ = None THEN t ELSE @]
     /\ UNCHANGED <<present, total_new_cells, stage, value, promise, outcome>>

\* The return of a nested run_inner: the cell replaces whatever new_cells held
\* under its hash and counts when there was nothing.
Insert(t) ==
  LET f == Top(t)
      cell == finish_children(f)
      below == SubSeq(stack[t], 1, Len(stack[t]) - 1)
  IN /\ AtEnd(t) /\ Len(stack[t]) > 1
     /\ new_cells' = [new_cells EXCEPT ![f.cell] = cell]
     /\ scope_total' = [scope_total EXCEPT
          ![t] = @ + (IF new_cells[f.cell] = None THEN 1 ELSE 0)]
     /\ stack' = [stack EXCEPT ![t] = WithRef(below, cell)]
     /\ by' = [by EXCEPT ![f.cell] = IF @ = None THEN t ELSE @]
     /\ UNCHANGED <<present, total_new_cells, stage, value, promise, outcome>>

\* The return of the outermost run_inner of a task.
Finish(t) ==
  /\ AtEnd(t) /\ Len(stack[t]) = 1
  /\ value' = [value EXCEPT ![t] = finish_children(Top(t))]
  /\ stage' = [stage EXCEPT ![t] = "add"]
  /\ UNCHANGED <<present, new_cells, total_new_cells, stack, scope_total, promise, outcome, by>>

\* Mutant: only a task that succeeds adds its count and fulfils its promise.
MutAddOnSuccess(t) ==
  /\ stage[t] = "add"
  /\ total_new_cells' = total_new_cells + scope_total[t]
  /\ stage' = [stage EXCEPT ![t] = IF t = Root \/ value[t] = Err THEN "done" ELSE "set"]
  /\ UNCHANGED <<present, new_cells, stack, scope_total, value, promise, outcome, by>>

\* The end of `run`: the count is added whether or not the task succeeded.
AddTotal(t) ==
  /\ stage[t] = "add"
  /\ total_new_cells' = total_new_cells + scope_total[t]
  /\ stage' = [stage EXCEPT ![t] = IF t = Root THEN "done" ELSE "set"]
  /\ UNCHANGED <<present, new_cells, stack, scope_total, value, promise, outcome, by>>

\* Mutant: a task that fails takes its promise out of the map.
MutSetPromiseRemoves(t) ==
  /\ stage[t] = "set"
  /\ promise' = [promise EXCEPT ![t] = value[t]]
  /\ new_cells' = [new_cells EXCEPT ![t] = IF value[t] = Err THEN None ELSE @]
  /\ stage' = [stage EXCEPT ![t] = "done"]
  /\ UNCHANGED <<present, total_new_cells, stack, scope_total, value, outcome, by>>

\* Promise::set by a spawned task.
SetPromise(t) ==
  /\ stage[t] = "set"
  /\ promise' = [promise EXCEPT ![t] = value[t]]
  /\ stage' = [stage EXCEPT ![t] = "done"]
  /\ UNCHANGED <<present, new_cells, total_new_cells, stack, scope_total, value, outcome, by>>

Step(t) ==
  \/ ResolvePruned(t) \/ LookupHit(t) \/ LookupMiss(t) \/ Entry(t)
  \/ Insert(t) \/ Finish(t) \/ AddTotal(t) \/ SetPromise(t)

-----------------------------------------------------------------------------
(* The end of par_apply                                                     *)

\* rayon::scope returns when its body and all spawned tasks are done.
ScopeEnded == \A t \in New : stage[t] \in {"absent", "done"}

\* The promises `resolve` waits for: those inside e, and inside what they deliver.
Closed(W) == \A n \in W : promise[n] \notin {None, Err} => promise[n].waits \subseteq W
Awaited(e) == {n \in New : \A W \in SUBSET New : Closed(W) /\ e.waits \subseteq W => n \in W}

Result(cell) == IF cell = Root THEN [cell |-> cell, count |-> total_new_cells + 1] ELSE Err

\* ExtCell::resolve, which waits for every promise on its way (Promise::wait_cloned),
\* and the comparison of the hash with new_hash.
Resolve ==
  LET e == value[Root]
      aw == Awaited(e)
  IN /\ ScopeEnded /\ outcome = None
     /\ IF e = Err THEN outcome' = Err
        ELSE /\ \A n \in aw : promise[n] # None
             /\ outcome' = IF \E n \in aw : promise[n] = Err THEN Err
                           ELSE IF \A n \in aw : promise[n].cell = n THEN Result(e.cell)
                           ELSE Err
     /\ UNCHANGED <<present, new_cells, total_new_cells, taskVars, promise, by>>

Next == Resolve \/ \E t \in New : Step(t)

Spec == Init /\ [][Next]_vars

\* The pool runs every spawned task, no task waits for another, and the caller of
\* rayon::scope goes on when they are done.
FairSpec == Spec /\ WF_vars(Resolve) /\ \A t \in New : WF_vars(Step(t))

-----------------------------------------------------------------------------
(* Properties                                                               *)

FrameType == [cell : New, depth : Nat, refs : Seq(Node \union {Garbage}), waits : SUBSET New]

TypeOK ==
  /\ present \subseteq Pruned
  /\ new_cells \in [New -> Ext \union {None}]
  /\ total_new_cells \in Nat
  /\ stage \in [New -> Stage]
  /\ stack \in [New -> Seq(FrameType)]
  /\ scope_total \in [New -> Nat]
  /\ value \in [New -> Ext \union {None, Err}]
  /\ promise \in [New -> Ext \union {None, Err}]
  /\ outcome \in [cell : {Root}, count : Nat] \union {None, Err}
  /\ by \in [New -> New \union {None}]

Keys == {n \in New : new_cells[n] # None}

\* When the scope has ended, the counter is the number of cells in new_cells, as in
\* the sequential applier, whatever tasks raced for the same cells: a promise that
\* an inline rebuild overwrote, or a cell two tasks rebuilt, counts once.
CountIsKeys == ScopeEnded => total_new_cells = Cardinality(Keys)

\* Whatever a task takes from new_cells under a hash is the cell with that hash, or
\* a promise or parts of that cell: nobody finds a cell under the key of another.
EntriesMatchKeys == \A n \in Keys : new_cells[n].cell = n

\* A promise somebody holds belongs to a task that will fulfil it, and the promises
\* inside a value belong to cells strictly below it, so that `resolve`, which waits
\* for one after the other, cannot wait for itself.
PromisesAreKept ==
  \A n \in New :
    \A e \in {new_cells[n], value[n], promise[n]} \ {None, Err} :
      \A w \in e.waits :
        /\ stage[w] # "absent"
        /\ stage[w] = "done" => promise[w] # None
        /\ Depth[w] < Depth[n] \/ (w = n /\ e = Deferred(n))

\* The cells of the `new` tree, as count_new_cells in the tests finds them.
Reached ==
  {n \in Node : \A W \in SUBSET Node :
     (Root \in W /\ \A m \in W : \A i \in 1..Len(Children[m]) : Children[m][i] \in W) => n \in W}

\* par_apply returns what apply returns: the new root, with the number of cells that
\* are not pruned, or an error when a pruned branch of this depth is not found.
OutcomeIsSequential ==
  outcome # None =>
    outcome = IF Reached \intersect (Pruned \ Foreign) \subseteq present
                THEN [cell |-> Root, count |-> Cardinality(Reached \ Pruned)]
                ELSE Err

\* A cell that is in new_cells stays there, and a promise is set only once.
NothingForgotten ==
  [][\A n \in New : /\ new_cells[n] # None => new_cells'[n] # None
                    /\ promise[n] # None => promise'[n] = promise[n]]_vars

\* par_apply returns: no wait for a promise lasts forever.
Terminates == <>(outcome # None)
=============================================================================
