------------------------------ MODULE UsageTree ------------------------------
(***************************************************************************)
(* The usage tree of src/cell/usage_tree.rs as built with the `sync`       *)
(* feature: threads read the data and load the references of wrapped       *)
(* (usage) cells, and the tree records the representation hashes of the    *)
(* cells they touched.  A Merkle proof or update is later built from       *)
(* exactly the recorded cells, so a cell that was used and not recorded    *)
(* makes the proof useless to the one who replays the computation.         *)
(*                                                                         *)
(* A usage cell is created at most once for every position of the unfolded *)
(* cell DAG (the `Once` of its parent sees to it), so a usage cell is      *)
(* identified with that position, a Node.  Several nodes may wrap the same *)
(* cell: CellOf gives the representation hash.                             *)
(*                                                                         *)
(* One action is one atomic access to shared memory.  Only the accesses    *)
(* another thread can observe are kept apart.                              *)
(***************************************************************************)
EXTENDS Integers

CONSTANTS Thread,   \* threads that share the wrapped cells
          Node,     \* positions of the unfolded cell DAG
          Root,     \* the nodes handed to `track`
          Cell,     \* representation hashes
          CellOf,   \* the hash of the cell at a node
          Child,    \* the node behind reference i of node n, or NoNode
          NoNode,
          Asked,    \* <<node, index>>: the references the callers ask for
          SubtreeRoot,  \* the cells the owner may give to `add_subtree`
          Mode      \* UsageTreeMode: "OnLoad" or "OnDataAccess"

Slot == 0..3

ASSUME ModeAssumption == Mode \in {"OnLoad", "OnDataAccess"}
ASSUME NodeAssumption ==
  /\ NoNode \notin Node
  /\ Root \subseteq Node
  /\ CellOf \in [Node -> Cell]
  /\ Child \in [Node \X Slot -> Node \union {NoNode}]
  /\ Asked \subseteq Node \X (0..255)
  /\ SubtreeRoot \subseteq Cell
\* The positions form a forest: a node has one parent and roots have none.
ASSUME ForestAssumption ==
  \A s, t \in Node \X Slot : Child[s] # NoNode =>
    /\ Child[s] \notin Root
    /\ Child[s] = Child[t] => s = t
\* Nodes that wrap the same cell have the same references.
ASSUME SameCellAssumption ==
  \A m, n \in Node : CellOf[m] = CellOf[n] => \A i \in Slot :
    IF Child[<<m, i>>] = NoNode THEN Child[<<n, i>>] = NoNode
    ELSE Child[<<n, i>>] # NoNode /\ CellOf[Child[<<n, i>>]] = CellOf[Child[<<m, i>>]]

VARIABLES
  owner,     \* the strong reference held by the `UsageTree` itself
  visited,   \* UsageTreeState::visited
  subtrees,  \* UsageTreeWithSubtrees::subtrees
  extended,  \* `with_subtrees` was called
  tracked,   \* roots wrapped by `track`
  once,      \* UsageCell::reference_states
  inserted,  \* usage cells whose `inserted` flag is set
  orphaned,  \* usage cells whose `orphaned` flag is set
  pc, at, ix,  \* where each thread is, and the usage cell and index it works on
  read,      \* history: nodes whose data was returned to a caller
  returned,  \* history: nodes returned by a reference to a caller
  escaped    \* history: cells handed out without a wrapper

treeVars == <<owner, subtrees, extended, tracked>>
cellVars == <<once, inserted, orphaned>>
threadVars == <<pc, at, ix>>
histVars == <<read, returned, escaped>>
vars == <<owner, visited, subtrees, extended, tracked, once, inserted, orphaned,
          pc, at, ix, read, returned, escaped>>

\* Program points of `data` and of `reference`.
DataPC == {"data_upgrade", "data_insert", "data_orphan", "data_mark"}
RefPC == {"ref_once", "ref_init", "ref_upgrade", "ref_insert", "ref_orphan",
          "ref_return"}
PC == {"idle"} \union DataPC \union RefPC

\* `wrap` and `UsageCell::new` run for every node of a tracked tree at most once;
\* their initial values are the initial values of the flags of all nodes.
Init ==
  /\ owner = TRUE
  /\ visited = {} /\ subtrees = {} /\ extended = FALSE
  /\ tracked = {}
  /\ once = [s \in Node \X Slot |-> "new"]
  /\ inserted = (IF Mode = "OnLoad" THEN Node ELSE {})
  /\ orphaned = {}
  /\ pc = [t \in Thread |-> "idle"]
  /\ at = [t \in Thread |-> NoNode] /\ ix = [t \in Thread |-> 0]
  /\ read = {} /\ returned = {} /\ escaped = {}

\* Mutant: the owner's strong reference is not counted.
MutCanUpgradeNoOwner == \E t \in Thread : pc[t] \in {"data_insert", "ref_insert"}

\* Weak::upgrade: the state lives while the owner or a thread that upgraded
\* and has not yet inserted holds a strong reference.
CanUpgrade == owner \/ \E t \in Thread : pc[t] \in {"data_insert", "ref_insert"}

\* A usage cell exists when it was tracked or when its parent's slot is done.
Published == tracked \union
  {Child[s] : s \in {s \in Node \X Slot : once[s] = "done" /\ Child[s] # NoNode}}

\* Usage cells a caller holds, of its own or passed on by another thread.
Reachable == tracked \union returned

Goto(t, label) == pc' = [pc EXCEPT ![t] = label]

\* Thread t enters a method of usage cell n, and leaves it.
Enter(t, label, n, i) ==
  /\ Goto(t, label)
  /\ at' = [at EXCEPT ![t] = n]
  /\ ix' = [ix EXCEPT ![t] = i]
Leave(t) == Enter(t, "idle", NoNode, 0)

-----------------------------------------------------------------------------
(* The owner of the tree.                                                   *)

\* Mutant: the root is recorded whatever the mode.
MutTrackAlways(n) ==
  /\ owner /\ n \in Root \ tracked
  /\ visited' = visited \union {CellOf[n]}
  /\ tracked' = tracked \union {n}
  /\ UNCHANGED <<owner, subtrees, extended, cellVars, threadVars, histVars>>

\* Mutant: the root is wrapped and not recorded.
MutTrackNever(n) ==
  /\ owner /\ n \in Root \ tracked
  /\ tracked' = tracked \union {n}
  /\ UNCHANGED <<owner, visited, subtrees, extended, cellVars, threadVars, histVars>>

\* `track` of UsageTree and of UsageTreeWithSubtrees.
Track(n) ==
  /\ owner /\ n \in Root \ tracked
  /\ visited' = IF Mode = "OnLoad" THEN visited \union {CellOf[n]} ELSE visited
  /\ tracked' = tracked \union {n}
  /\ UNCHANGED <<owner, subtrees, extended, cellVars, threadVars, histVars>>

WithSubtrees ==
  /\ owner /\ ~extended
  /\ extended' = TRUE
  /\ UNCHANGED <<owner, visited, subtrees, tracked, cellVars, threadVars, histVars>>

AddSubtree(c) ==
  /\ owner /\ extended
  /\ subtrees' = subtrees \union {c}
  /\ UNCHANGED <<owner, visited, extended, tracked, cellVars, threadVars, histVars>>

\* The owner drops the tree; wrapped cells only hold weak references to it.
DropTree ==
  /\ owner
  /\ owner' = FALSE
  /\ UNCHANGED <<visited, subtrees, extended, tracked, cellVars, threadVars, histVars>>

\* MerkleFilter::check of UsageTree and of UsageTreeWithSubtrees.
Check(c) == IF c \in visited THEN "Include"
            ELSE IF extended /\ c \in subtrees THEN "IncludeSubtree"
            ELSE "Skip"

-----------------------------------------------------------------------------
(* UsageCell::data                                                          *)

\* The first test of `inserted`; an inserted cell returns its data at once.
DataCall(t, n) ==
  /\ pc[t] = "idle" /\ n \in Reachable
  /\ IF n \in inserted
       THEN read' = read \union {n} /\ UNCHANGED threadVars
       ELSE Enter(t, "data_upgrade", n, 0) /\ UNCHANGED read
  /\ UNCHANGED <<treeVars, visited, cellVars, returned, escaped>>

\* Mutant: `set_inserted` comes before the insertion.
MutDataMarkFirst(t) ==
  /\ pc[t] = "data_upgrade"
  /\ Goto(t, IF CanUpgrade THEN "data_insert" ELSE "data_orphan")
  /\ inserted' = inserted \union {at[t]}
  /\ UNCHANGED <<treeVars, visited, once, orphaned, at, ix, histVars>>

\* Mutant: a strong reference instead of a weak one.
MutDataStrong(t) ==
  /\ pc[t] = "data_upgrade"
  /\ Goto(t, "data_insert")
  /\ UNCHANGED <<treeVars, visited, cellVars, at, ix, histVars>>

DataUpgrade(t) ==
  /\ pc[t] = "data_upgrade"
  /\ Goto(t, IF CanUpgrade THEN "data_insert" ELSE "data_orphan")
  /\ UNCHANGED <<treeVars, visited, cellVars, at, ix, histVars>>

DataInsert(t) ==
  /\ pc[t] = "data_insert"
  /\ visited' = visited \union {CellOf[at[t]]}
  /\ Goto(t, "data_mark")
  /\ UNCHANGED <<treeVars, cellVars, at, ix, histVars>>

DataOrphan(t) ==
  /\ pc[t] = "data_orphan"
  /\ orphaned' = orphaned \union {at[t]}
  /\ Goto(t, "data_mark")
  /\ UNCHANGED <<treeVars, visited, once, inserted, at, ix, histVars>>

\* `set_inserted`, after which the data is returned.
DataMark(t) ==
  /\ pc[t] = "data_mark"
  /\ inserted' = inserted \union {at[t]}
  /\ read' = read \union {at[t]}
  /\ Leave(t)
  /\ UNCHANGED <<treeVars, visited, once, orphaned, returned, escaped>>

-----------------------------------------------------------------------------
(* UsageCell::reference and reference_cloned, with load_reference           *)

\* The wrapped cell's own reference is returned by an orphaned usage cell.
RefCall(t, n, i) ==
  /\ pc[t] = "idle" /\ n \in Reachable
  /\ IF n \in orphaned
       THEN /\ escaped' = IF i \in Slot /\ Child[<<n, i>>] # NoNode
                            THEN escaped \union {CellOf[Child[<<n, i>>]]} ELSE escaped
            /\ UNCHANGED threadVars
       ELSE IF i \in Slot
         THEN Enter(t, "ref_once", n, i) /\ UNCHANGED escaped
         ELSE UNCHANGED <<threadVars, escaped>>   \* index >= 4: None
  /\ UNCHANGED <<treeVars, visited, cellVars, read, returned>>

\* Mutant: a caller does not wait for a closure that is running.
MutRefOnceNoWait(t) ==
  LET s == <<at[t], ix[t]>> IN
  /\ pc[t] = "ref_once"
  /\ \/ once[s] = "done" /\ Goto(t, "ref_return") /\ UNCHANGED once
     \/ once[s] # "done" /\ Goto(t, "ref_init")
                         /\ once' = [once EXCEPT ![s] = "running"]
  /\ UNCHANGED <<treeVars, visited, inserted, orphaned, at, ix, histVars>>

\* Mutant: the child is recorded before its usage cell exists.
MutRefOnceEager(t) ==
  LET s == <<at[t], ix[t]>> IN
  /\ pc[t] = "ref_once"
  /\ \/ once[s] = "done" /\ Goto(t, "ref_return") /\ UNCHANGED <<once, visited>>
     \/ /\ once[s] = "new" /\ Goto(t, "ref_init")
        /\ once' = [once EXCEPT ![s] = "running"]
        /\ visited' = IF Child[s] = NoNode THEN visited
                      ELSE visited \union {CellOf[Child[s]]}
  /\ UNCHANGED <<treeVars, inserted, orphaned, at, ix, histVars>>

\* Once::call_once_force: the first caller runs the closure, later callers
\* wait until it is done (while it is running this action is disabled).
RefOnce(t) ==
  LET s == <<at[t], ix[t]>> IN
  /\ pc[t] = "ref_once"
  /\ \/ once[s] = "done" /\ Goto(t, "ref_return") /\ UNCHANGED once
     \/ once[s] = "new" /\ Goto(t, "ref_init")
                        /\ once' = [once EXCEPT ![s] = "running"]
  /\ UNCHANGED <<treeVars, visited, inserted, orphaned, at, ix, histVars>>

\* Mutant: `should_insert` stays false.
MutRefInitNoInsert(t) ==
  /\ pc[t] = "ref_init"
  /\ once' = [once EXCEPT ![<<at[t], ix[t]>>] = "done"]
  /\ Goto(t, "ref_return")
  /\ UNCHANGED <<treeVars, visited, inserted, orphaned, at, ix, histVars>>

\* Mutant: the early return for a missing child leaves the slot unfinished.
MutRefInitUnfinished(t) ==
  LET s == <<at[t], ix[t]>> IN
  /\ pc[t] = "ref_init"
  /\ once' = [once EXCEPT ![s] = IF Child[s] = NoNode THEN "running" ELSE "done"]
  /\ Goto(t, IF Child[s] # NoNode /\ Mode = "OnLoad" THEN "ref_upgrade" ELSE "ref_return")
  /\ UNCHANGED <<treeVars, visited, inserted, orphaned, at, ix, histVars>>

\* The closure creates the child's usage cell; `should_insert` is set for an
\* existing child in OnLoad mode and is acted upon after the Once is done.
RefInit(t) ==
  LET s == <<at[t], ix[t]>> IN
  /\ pc[t] = "ref_init"
  /\ once' = [once EXCEPT ![s] = "done"]
  /\ Goto(t, IF Child[s] # NoNode /\ Mode = "OnLoad" THEN "ref_upgrade" ELSE "ref_return")
  /\ UNCHANGED <<treeVars, visited, inserted, orphaned, at, ix, histVars>>

\* Mutant: a strong reference instead of a weak one.
MutRefStrong(t) ==
  /\ pc[t] = "ref_upgrade"
  /\ Goto(t, "ref_insert")
  /\ UNCHANGED <<treeVars, visited, cellVars, at, ix, histVars>>

RefUpgrade(t) ==
  /\ pc[t] = "ref_upgrade"
  /\ Goto(t, IF CanUpgrade THEN "ref_insert" ELSE "ref_orphan")
  /\ UNCHANGED <<treeVars, visited, cellVars, at, ix, histVars>>

RefInsert(t) ==
  /\ pc[t] = "ref_insert"
  /\ visited' = visited \union {CellOf[Child[<<at[t], ix[t]>>]]}
  /\ Goto(t, "ref_return")
  /\ UNCHANGED <<treeVars, cellVars, at, ix, histVars>>

RefOrphan(t) ==
  /\ pc[t] = "ref_orphan"
  /\ orphaned' = orphaned \union {at[t]}
  /\ Goto(t, "ref_return")
  /\ UNCHANGED <<treeVars, visited, once, inserted, at, ix, histVars>>

\* Mutant: a missing child is not told apart from a present one.
MutRefReturnUnchecked(t) ==
  /\ pc[t] = "ref_return"
  /\ returned' = returned \union {Child[<<at[t], ix[t]>>]}
  /\ Leave(t)
  /\ UNCHANGED <<treeVars, visited, cellVars, read, escaped>>

\* The caller gets the child, or None when the cell has no such reference.
RefReturn(t) ==
  LET c == Child[<<at[t], ix[t]>>] IN
  /\ pc[t] = "ref_return"
  /\ returned' = IF c = NoNode THEN returned ELSE returned \union {c}
  /\ Leave(t)
  /\ UNCHANGED <<treeVars, visited, cellVars, read, escaped>>

-----------------------------------------------------------------------------

\* The steps of a call that is under way.
Progress(t) ==
  \/ DataUpgrade(t) \/ DataInsert(t) \/ DataOrphan(t) \/ DataMark(t)
  \/ RefOnce(t) \/ RefInit(t) \/ RefUpgrade(t) \/ RefInsert(t)
  \/ RefOrphan(t) \/ RefReturn(t)

Owner ==
  \/ \E n \in Root : Track(n)
  \/ WithSubtrees
  \/ \E c \in SubtreeRoot : AddSubtree(c)
  \/ DropTree

Call(t) ==
  \/ \E n \in Node : DataCall(t, n)
  \/ \E s \in Asked : RefCall(t, s[1], s[2])

Next == Owner \/ \E t \in Thread : Call(t) \/ Progress(t)

Spec == Init /\ [][Next]_vars

\* A thread that entered a call keeps being scheduled until it returns; nothing
\* obliges anyone to make a call or the owner to act.
FairSpec == Spec /\ \A t \in Thread : WF_vars(Progress(t))

-----------------------------------------------------------------------------
(* Properties                                                               *)

TypeOK ==
  /\ owner \in BOOLEAN /\ extended \in BOOLEAN
  /\ visited \subseteq Cell /\ subtrees \subseteq Cell /\ escaped \subseteq Cell
  /\ tracked \subseteq Root
  /\ once \in [Node \X Slot -> {"new", "running", "done"}]
  /\ inserted \subseteq Node /\ orphaned \subseteq Node
  /\ pc \in [Thread -> PC] /\ ix \in [Thread -> Slot]
  /\ at \in [Thread -> Node \union {NoNode}]
  /\ read \subseteq Node /\ returned \subseteq Node

Recorded(n) == CellOf[n] \in visited

\* Thread t created the usage cell of n and still has to record it.
Pending(t, n) == /\ pc[t] \in {"ref_upgrade", "ref_insert"}
                 /\ Child[<<at[t], ix[t]>>] = n

\* Nodes a caller used in the sense of the mode: `OnLoad` counts a load,
\* `OnDataAccess` a read of the data.
Used == IF Mode = "OnLoad" THEN tracked \union returned ELSE read

\* While the tree lives, every cell some caller used is recorded, or the thread
\* that created its usage cell is about to record it.  `data` must therefore not
\* set `inserted` before the insertion, since another thread that sees the flag
\* skips its own, and `load_reference` must not lose the insertion of the thread
\* that won the Once.
UsedIsRecorded ==
  owner => \A n \in Used : Recorded(n) \/ \E t \in Thread : Pending(t, n)

\* The record holds nothing that was not touched: in `OnDataAccess` mode only
\* cells whose data was, or is just being, returned; in `OnLoad` mode only
\* cells with a usage cell.  A proof built from it stays minimal.
NothingSpurious ==
  visited \subseteq
    IF Mode = "OnLoad" THEN {CellOf[n] : n \in Published}
    ELSE {CellOf[n] : n \in read \union {at[t] : t \in {t \in Thread : pc[t] = "data_mark"}}}

\* A usage cell gives up tracking (`orphaned`), and hands out bare cells, only
\* after the tree was dropped: no access escapes a live tree.
NoEscapeWhileAlive ==
  owner => escaped = {} /\ orphaned = {}

\* Every usage cell hangs under one that was published before it, so the
\* recorded cells of a quiescent `OnLoad` tree contain the path from the root
\* to every loaded cell, as the top-down proof builder needs.
QuiescentPathsRecorded ==
  (owner /\ Mode = "OnLoad" /\ \A t \in Thread : pc[t] = "idle") =>
    \A s \in Node \X Slot :
      Child[s] \in returned => s[1] \in Published /\ Recorded(s[1]) /\ Recorded(Child[s])

\* The closure of a Once is run by one thread at a time, and a Once that is
\* running has a thread in its closure: the waiting ones are not stranded.
OnceHasOneRunner ==
  \A s \in Node \X Slot :
    LET runners == {t \in Thread : pc[t] = "ref_init" /\ <<at[t], ix[t]>> = s} IN
    /\ once[s] = "running" <=> runners # {}
    /\ \A t, u \in runners : t = u

\* Once the last strong reference is gone the record is frozen: no weak
\* reference revives it.
FrozenAfterDrop == [][~CanUpgrade => ~CanUpgrade' /\ visited' = visited]_vars

\* Every call of `data`, `reference` or `reference_cloned` returns.
CallsReturn == \A t \in Thread : pc[t] # "idle" ~> pc[t] = "idle"

\* In `OnLoad` mode a loaded cell is eventually recorded unless the tree is
\* dropped first.
LoadsGetRecorded ==
  Mode = "OnLoad" => \A n \in Node : n \in Published ~> Recorded(n) \/ ~owner

\* "Include cell on load": a cell returned by `reference` is in the tree when
\* the caller gets it.  The `rc` variant keeps to this; here it does not hold
\* (README, known divergences): a second thread may get the child between the
\* end of the Once and the insertion.
ReturnedIsRecorded ==
  owner /\ Mode = "OnLoad" => \A n \in returned : Recorded(n)

\* "Adds a subtree to the usage tree": the filter includes the whole subtree of
\* every cell given to `add_subtree`.  It does not hold for a cell that was also
\* visited (README, known divergences).
SubtreeIncluded == \A c \in subtrees : Check(c) = "IncludeSubtree"
=============================================================================
