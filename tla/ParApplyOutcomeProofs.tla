------------------------ MODULE ParApplyOutcomeProofs ------------------------
(***************************************************************************)
(* Proofs, for any DAG of cells and any interleaving of the tasks, that no *)
(* promise is left waiting or waits for itself, and that the parallel      *)
(* applier returns what the sequential one returns.                        *)
(***************************************************************************)
EXTENDS ParApplyProofs, WellFoundedInduction

\* The pruned branches that make an apply fail.
Missing == Pruned \ (Foreign \union present)

ChildClosed(C) == \A n \in C : \A i \in 1..Len(Children[n]) : Children[n][i] \in C

\* Nothing is missing below the node: what makes its rebuild succeed, whoever
\* rebuilds it and whatever the rebuild finds in the map.
Clean(n) == \E C \in SUBSET Node : n \in C /\ C \intersect Missing = {} /\ ChildClosed(C)

AllClean(W) == \A w \in W : Clean(w)

\* A promise in the set belongs to a started task of a node other than the root.
Started(W) == \A w \in W : stage[w] # "absent" /\ w # Root

\* The first k references of n that are not pruned are in the map.
RefsInMap(n, k) == \A i \in 1..k : Children[n][i] \in New => new_cells[Children[n][i]] # None

\* A cell of node n with the promises W inside it was rebuilt: the promises
\* belong to nodes below n and stand for all that may still be missing.
Rebuilt(n, W) ==
  /\ Started(W) /\ \A w \in W : Depth[w] < Depth[n]
  /\ Clean(n) <=> AllClean(W)
  /\ RefsInMap(n, Len(Children[n]))

\* The same of the references a frame of task t has stored.
FrameInv(t, f) ==
  /\ f.cell \in Reached
  /\ Clean(t) => Clean(f.cell)
  /\ Started(f.waits) /\ \A w \in f.waits : Depth[w] < Depth[f.cell]
  /\ Clean(f.cell) => AllClean(f.waits)
  /\ AllClean(f.waits) => \A i \in 1..Len(f.refs) : Clean(Children[f.cell][i])
  /\ RefsInMap(f.cell, Len(f.refs))

Frames(t) == {stack[t][k] : k \in 1..Len(stack[t])}

FramesInv ==
  \A t \in New : stage[t] # "absent" =>
    stack[t][1].cell = t /\ \A f \in Frames(t) : FrameInv(t, f)

\* The map holds cells of the new tree below its root: rebuilt ones, and the
\* promises of tasks that were started.
EntryInv(n, e) ==
  /\ n # Root /\ n \in Reached
  /\ Rebuilt(n, e.waits) \/ (e = Deferred(n) /\ stage[n] # "absent")

MapInv == \A n \in New : \A e \in {new_cells[n]} \ {None} : EntryInv(n, e)

\* A task returns once, an error only when something is missing below its node,
\* and its promise is fulfilled with what it returned.
ReturnInv(t, e) ==
  /\ e = Err => ~Clean(t)
  /\ e # Err => e.cell = t /\ Rebuilt(t, e.waits)

ValueInv ==
  \A t \in New :
    /\ value[t] # None <=> stage[t] \in {"add", "set", "done"}
    /\ \A e \in {value[t]} \ {None} : ReturnInv(t, e)
    /\ promise[t] # None => promise[t] = value[t]
    /\ stage[t] = "done" /\ t # Root => promise[t] # None

OutInv == FramesInv /\ MapInv /\ ValueInv

-----------------------------------------------------------------------------
(* Nodes below which nothing is missing                                     *)

\* A reference of a node.
LEMMA RefFacts ==
  ASSUME NEW n \in Node, NEW i \in 1..Len(Children[n])
  PROVE  Children[n][i] \in Node /\ Children[n][i] # Root /\ Depth[Children[n][i]] < Depth[n]
<1>1. Children[n] \in Seq(Node)
  BY NodeAssumption
<1>2. Children[n][i] \in Node
  BY <1>1, ElementOfSeq
<1> QED BY <1>2, DagAssumption

\* A node is clean when it is not missing itself and all its references are clean.
LEMMA CleanFacts ==
  ASSUME NEW n \in Node
  PROVE  Clean(n) <=> n \notin Missing /\ \A i \in 1..Len(Children[n]) : Clean(Children[n][i])
<1>1. ASSUME Clean(n)
      PROVE  n \notin Missing /\ \A i \in 1..Len(Children[n]) : Clean(Children[n][i])
  <2>1. PICK C \in SUBSET Node : n \in C /\ C \intersect Missing = {} /\ ChildClosed(C)
    BY <1>1, Zenon DEF Clean
  <2>2. \A i \in 1..Len(Children[n]) : Children[n][i] \in C
    BY <2>1, Zenon DEF ChildClosed
  <2>3. \A i \in 1..Len(Children[n]) : Clean(Children[n][i])
    BY <2>1, <2>2, Zenon DEF Clean
  <2> QED BY <2>1, <2>3
<1>2. ASSUME n \notin Missing, \A i \in 1..Len(Children[n]) : Clean(Children[n][i])
      PROVE  Clean(n)
  <2> DEFINE D == {m \in Node : Clean(m)}
             C == D \union {n}
  <2>1. \A m \in D : m \notin Missing /\ \A i \in 1..Len(Children[m]) : Children[m][i] \in D
    <3> SUFFICES ASSUME NEW m \in Node, Clean(m)
                 PROVE  m \notin Missing /\ \A i \in 1..Len(Children[m]) : Children[m][i] \in D
      OBVIOUS
    <3>1. PICK B \in SUBSET Node : m \in B /\ B \intersect Missing = {} /\ ChildClosed(B)
      BY Zenon DEF Clean
    <3>2. \A k \in B : Clean(k)
      BY <3>1, Zenon DEF Clean
    <3>3. \A i \in 1..Len(Children[m]) : Children[m][i] \in B
      BY <3>1, Zenon DEF ChildClosed
    <3> QED BY <3>1, <3>2, <3>3
  <2>2. \A i \in 1..Len(Children[n]) : Children[n][i] \in D
    BY <1>2, RefFacts
  <2> HIDE DEF D
  <2>3. ChildClosed(C)
    BY <2>1, <2>2 DEF ChildClosed
  <2>4. C \in SUBSET Node /\ n \in C /\ C \intersect Missing = {}
    BY <1>2, <2>1 DEF D
  <2> HIDE DEF C
  <2> QED BY <2>3, <2>4, Zenon DEF Clean
<1> QED BY <1>1, <1>2

\* A pruned branch is clean unless it is missing.
LEMMA PrunedClean ==
  ASSUME NEW n \in Pruned
  PROVE  Clean(n) <=> n \in Foreign \union present
<1>1. Children[n] = <<>> /\ n \in Node
  BY LeafAssumption, NodeAssumption
<1>2. Len(Children[n]) = 0
  BY <1>1
<1> QED BY <1>1, <1>2, CleanFacts DEF Missing

\* The nodes the root leads to contain the root, lead to each other only and are
\* the least such set.
LEMMA ReachedFacts ==
  /\ Reached \subseteq Node /\ Root \in Reached /\ ChildClosed(Reached)
  /\ \A W \in SUBSET Node : Root \in W /\ ChildClosed(W) => Reached \subseteq W
<1>1. \A n : n \in Reached <=>
        n \in Node /\ \A W \in SUBSET Node : Root \in W /\ ChildClosed(W) => n \in W
  BY Zenon DEF Reached, ChildClosed
<1>2. Root \in Node
  BY NodeAssumption DEF New
<1>3. Reached \subseteq Node /\ Root \in Reached
  BY <1>1, <1>2
<1>4. ChildClosed(Reached)
  <2> SUFFICES ASSUME NEW n \in Reached, NEW i \in 1..Len(Children[n])
               PROVE  Children[n][i] \in Reached
    BY Zenon DEF ChildClosed
  <2>1. Children[n][i] \in Node
    BY <1>3, RefFacts
  <2>2. ASSUME NEW W \in SUBSET Node, Root \in W, ChildClosed(W) PROVE Children[n][i] \in W
    <3>1. n \in W
      BY <1>1, <2>2, Zenon
    <3> QED BY <2>2, <3>1, Zenon DEF ChildClosed
  <2> QED BY <1>1, <2>1, <2>2, Zenon
<1>5. \A W \in SUBSET Node : Root \in W /\ ChildClosed(W) => Reached \subseteq W
  BY <1>1, Zenon
<1> QED BY <1>3, <1>4, <1>5

\* The root is clean when every pruned branch of the new tree can be resolved.
LEMMA RootClean == Clean(Root) <=> Reached \intersect (Pruned \ Foreign) \subseteq present
<1>1. Missing \subseteq Node
  BY NodeAssumption DEF Missing
<1>2. ASSUME Clean(Root) PROVE Reached \intersect Missing = {}
  <2>1. PICK C \in SUBSET Node : Root \in C /\ C \intersect Missing = {} /\ ChildClosed(C)
    BY <1>2, Zenon DEF Clean
  <2>2. Reached \subseteq C
    BY <2>1, ReachedFacts, Zenon
  <2> QED BY <2>1, <2>2
<1>3. ASSUME Reached \intersect Missing = {} PROVE Clean(Root)
  BY <1>3, ReachedFacts, Zenon DEF Clean
<1> QED BY <1>2, <1>3 DEF Missing

-----------------------------------------------------------------------------
(* What later steps cannot undo                                             *)

\* No step changes what find_cell answers, empties an entry or undoes a spawn.
Grows ==
  /\ present' = present
  /\ \A n \in New : new_cells[n] # None => new_cells'[n] # None
  /\ \A n \in New : stage[n] # "absent" => stage'[n] # "absent"

LEMMA CleanKept == ASSUME present' = present, NEW n PROVE Clean(n)' <=> Clean(n)
BY Zenon DEF Clean, Missing

LEMMA RebuiltKept ==
  ASSUME Grows, NEW n \in New, NEW W \in SUBSET New, Rebuilt(n, W)
  PROVE  Rebuilt(n, W)'
<1>1. \A m : Clean(m)' <=> Clean(m)
  BY CleanKept DEF Grows
<1>2. AllClean(W)' <=> AllClean(W)
  BY <1>1 DEF AllClean
<1>3. Started(W)'
  BY DEF Started, Rebuilt, Grows
<1>4. RefsInMap(n, Len(Children[n]))'
  BY DEF RefsInMap, Rebuilt, Grows
<1> QED BY <1>1, <1>2, <1>3, <1>4 DEF Rebuilt

LEMMA FrameKept ==
  ASSUME Grows, NEW t \in New, NEW f \in FrameType, FrameInv(t, f)
  PROVE  FrameInv(t, f)'
<1>1. \A m : Clean(m)' <=> Clean(m)
  BY CleanKept DEF Grows
<1>2. f.cell \in New /\ f.waits \in SUBSET New
  BY DEF FrameType
<1>3. AllClean(f.waits)' <=> AllClean(f.waits)
  BY <1>1 DEF AllClean
<1>4. Started(f.waits)'
  BY <1>2 DEF Started, FrameInv, Grows
<1>5. RefsInMap(f.cell, Len(f.refs))'
  BY DEF RefsInMap, FrameInv, Grows
<1> QED BY <1>1, <1>3, <1>4, <1>5 DEF FrameInv

-----------------------------------------------------------------------------
(* Storing references and finishing a cell                                  *)

\* A cell of node c with the promises W inside it may be stored as a reference.
Available(c, W) ==
  /\ Started(W) /\ \A w \in W : Depth[w] <= Depth[c]
  /\ Clean(c) <=> AllClean(W)
  /\ c \in New => new_cells[c] # None

LEMMA RebuiltAvailable ==
  ASSUME NEW c \in New, NEW W \in SUBSET New, Rebuilt(c, W), new_cells[c] # None
  PROVE  Available(c, W)
<1>1. \A w \in W : Depth[w] < Depth[c] /\ Depth[w] \in Nat /\ Depth[c] \in Nat
  BY NodeAssumption DEF Rebuilt, New
<1>2. \A w \in W : Depth[w] <= Depth[c]
  BY <1>1
<1> QED BY <1>2 DEF Available, Rebuilt

\* A promise stands for all that may be missing below its node.
LEMMA DeferredAvailable ==
  ASSUME NEW c \in New, c # Root, stage[c] # "absent", new_cells[c] # None
  PROVE  Available(c, Deferred(c).waits)
<1>1. Deferred(c).waits = {c} /\ Depth[c] \in Nat
  BY NodeAssumption DEF Deferred, New
<1> QED BY <1>1 DEF Available, Started, AllClean

LEMMA EntryAvailable ==
  ASSUME NEW c \in New, NEW e \in Ext, EntryInv(c, e), new_cells[c] # None
  PROVE  Available(c, e.waits)
<1>1. e.waits \in SUBSET New
  BY DEF Ext
<1> QED BY <1>1, RebuiltAvailable, DeferredAvailable DEF EntryInv

LEMMA PrunedAvailable ==
  ASSUME NEW c \in Pruned, c \in Foreign \union present
  PROVE  Available(c, Ordinary(c).waits)
BY PrunedClean DEF Available, Started, AllClean, Ordinary, New

\* The step that stores the next reference of a frame keeps its invariant when the
\* reference is available after the step.
LEMMA StoreInv ==
  ASSUME Grows, NEW t \in New, NEW f \in FrameType, FrameInv(t, f), NEW e \in Ext,
         Len(f.refs) < Len(Children[f.cell]),
         e.cell = Children[f.cell][Len(f.refs) + 1], Available(e.cell, e.waits)'
  PROVE  FrameInv(t, AddRef(f, e))'
<1> DEFINE g == AddRef(f, e)
           c == e.cell
           k == Len(f.refs)
<1>1. \A m : Clean(m)' <=> Clean(m)
  BY CleanKept DEF Grows
<1>2. /\ f.cell \in New /\ f.cell \in Node /\ f.waits \in SUBSET New /\ e.waits \in SUBSET New
      /\ f.refs \in Seq(Node \union {Garbage}) /\ e.cell \in Node \union {Garbage}
  BY DEF FrameType, Ext, New
<1>3. k \in Nat /\ k + 1 \in 1..Len(Children[f.cell])
  BY <1>2, LenProperties, NodeAssumption
<1>4. c \in Node /\ Depth[c] < Depth[f.cell]
  BY <1>2, <1>3, RefFacts
<1>5. /\ g.cell = f.cell /\ g.waits = f.waits \union e.waits
      /\ g.refs = Append(f.refs, c)
  BY DEF AddRef, FrameType
<1>6. Len(g.refs) = k + 1
  BY <1>2, <1>5, AppendProperties
<1>7. FrameInv(t, f)'
  BY FrameKept
<1>8. Clean(f.cell) => Clean(c)
  BY <1>2, <1>3, CleanFacts
<1> HIDE DEF g
<1>9. Started(g.waits)'
  BY <1>5, <1>7 DEF Started, FrameInv, Available
<1>10. \A w \in g.waits : Depth[w] < Depth[f.cell]
  <2>1. \A w \in e.waits : Depth[w] <= Depth[c] /\ Depth[w] \in Nat /\ Depth[c] \in Nat /\ Depth[f.cell] \in Nat
    BY <1>2, <1>4, NodeAssumption DEF Available, New
  <2>2. \A w \in e.waits : Depth[w] < Depth[f.cell]
    BY <1>4, <2>1
  <2> QED BY <1>5, <2>2 DEF FrameInv
<1>11. Clean(f.cell)' => AllClean(g.waits)'
  BY <1>1, <1>5, <1>7, <1>8 DEF AllClean, FrameInv, Available
<1>12. AllClean(g.waits)' => \A i \in 1..Len(g.refs) : Clean(Children[f.cell][i])'
  <2> SUFFICES ASSUME AllClean(g.waits)', NEW i \in 1..Len(g.refs)
               PROVE  Clean(Children[f.cell][i])'
    OBVIOUS
  <2>1. AllClean(f.waits)' /\ AllClean(e.waits)'
    BY <1>5 DEF AllClean
  <2>2. CASE i = k + 1
    BY <2>1, <2>2 DEF Available
  <2>3. CASE i \in 1..k
    BY <1>7, <2>1, <2>3 DEF FrameInv
  <2> QED BY <1>3, <1>6, <2>2, <2>3
<1>13. RefsInMap(f.cell, k + 1)'
  <2> SUFFICES ASSUME NEW i \in 1..(k + 1), Children[f.cell][i] \in New
               PROVE  new_cells'[Children[f.cell][i]] # None
    BY DEF RefsInMap
  <2>1. CASE i = k + 1
    BY <2>1 DEF Available
  <2>2. CASE i \in 1..k
    BY <1>7, <2>2 DEF FrameInv, RefsInMap
  <2> QED BY <1>3, <2>1, <2>2
<1>14. /\ f.cell \in Reached
       /\ Clean(t)' => Clean(f.cell)'
  BY <1>1 DEF FrameInv
<1>15. FrameInv(t, g)'
  BY <1>5, <1>6, <1>9, <1>10, <1>11, <1>12, <1>13, <1>14 DEF FrameInv
<1> QED BY <1>15 DEF g

\* A frame whose references are all stored is a rebuilt cell.
LEMMA EndInv ==
  ASSUME NEW t \in New, NEW f \in FrameType, FrameInv(t, f),
         Len(f.refs) = Len(Children[f.cell])
  PROVE  Rebuilt(f.cell, f.waits)
<1>1. f.cell \in Node /\ f.cell \notin Missing
  BY DEF FrameType, New, Missing
<1>2. AllClean(f.waits) => Clean(f.cell)
  BY <1>1, CleanFacts DEF FrameInv
<1> QED BY <1>2 DEF FrameInv, Rebuilt

\* A frame that has just been entered for a reference of a frame of the task.
LEMMA NewFrameInv ==
  ASSUME NEW t \in New, NEW c \in New, NEW d \in Nat, c \in Reached, Clean(t) => Clean(c)
  PROVE  FrameInv(t, Frame(c, d))
<1>1. /\ Frame(c, d).cell = c /\ Frame(c, d).waits = {}
      /\ Len(Frame(c, d).refs) = 0
  BY DEF Frame
<1> QED BY <1>1 DEF FrameInv, Started, AllClean, RefsInMap

LEMMA AvailableKept ==
  ASSUME Grows, NEW c \in Node, NEW W \in SUBSET New, Available(c, W)
  PROVE  Available(c, W)'
<1>1. \A m : Clean(m)' <=> Clean(m)
  BY CleanKept DEF Grows
<1>2. AllClean(W)' <=> AllClean(W)
  BY <1>1 DEF AllClean
<1>3. Started(W)'
  BY DEF Started, Available, Grows
<1> QED BY <1>1, <1>2, <1>3 DEF Available, Grows

\* Every step only adds to the map and to the tasks.
LEMMA GrowsStep == IInv /\ [Next]_vars => Grows
<1> SUFFICES ASSUME IInv, [Next]_vars PROVE Grows
  OBVIOUS
<1>1. ASSUME NEW t \in New, Step(t) PROVE Grows
  <2>1. present' = present
    BY <1>1 DEF Step, ResolvePruned, LookupHit, LookupMiss, Entry, Insert, Finish, AddTotal, SetPromise
  <2>2. \A n \in New : new_cells[n] # None => new_cells'[n] # None
    BY <1>1, KeysStay
  <2>3. \A n \in New : stage[n] # "absent" => stage'[n] # "absent"
    BY <1>1, ZenonT(40) DEF Step, ResolvePruned, LookupHit, LookupMiss, Entry, Spawn, Insert, Finish,
         AddTotal, SetPromise, IInv, TypeOK
  <2> QED BY <2>1, <2>2, <2>3 DEF Grows
<1>2. CASE Resolve
  BY <1>2 DEF Resolve, taskVars, Grows
<1>3. CASE UNCHANGED vars
  BY <1>3 DEF vars, Grows
<1> QED BY <1>1, <1>2, <1>3 DEF Next

-----------------------------------------------------------------------------
(* The frames of the tasks                                                  *)

\* The frames of a started task; the innermost is one of them.
LEMMA FrameFacts ==
  ASSUME IInv, FramesInv, NEW t \in New, stage[t] # "absent"
  PROVE  /\ stack[t] \in Seq(FrameType) /\ Len(stack[t]) \in Nat /\ Len(stack[t]) >= 1
         /\ stack[t][1].cell = t
         /\ \A k \in 1..Len(stack[t]) : stack[t][k] \in FrameType /\ FrameInv(t, stack[t][k])
         /\ Top(t) \in FrameType /\ FrameInv(t, Top(t))
<1>1. stack[t] \in Seq(FrameType) /\ Len(stack[t]) \in Nat /\ Len(stack[t]) >= 1
  BY TopFacts DEF IInv
<1>2. \A k \in 1..Len(stack[t]) : stack[t][k] \in FrameType
  BY <1>1, ElementOfSeq
<1>3. \A k \in 1..Len(stack[t]) : stack[t][k] \in Frames(t)
  BY Zenon DEF Frames
<1>4. \A k \in 1..Len(stack[t]) : FrameInv(t, stack[t][k])
  BY <1>3 DEF FramesInv
<1>5. Len(stack[t]) \in 1..Len(stack[t])
  BY <1>1
<1> QED BY <1>1, <1>2, <1>4, <1>5 DEF FramesInv, Top

\* The next reference of a frame: a node the root leads to, clean if the task's is.
LEMMA NextFacts ==
  ASSUME IInv, FramesInv, NEW t \in New, stage[t] # "absent",
         Len(Top(t).refs) < Len(Children[Top(t).cell])
  PROVE  /\ NextChild(t) \in Node /\ NextChild(t) # Root /\ NextChild(t) \in Reached
         /\ Clean(t) => Clean(NextChild(t))
<1>1. PICK f \in FrameType : f = Top(t) /\ FrameInv(t, f)
  BY FrameFacts
<1>2. f.refs \in Seq(Node \union {Garbage}) /\ f.cell \in Node
  BY DEF FrameType, New
<1> DEFINE i == Len(f.refs) + 1
<1>3. i \in 1..Len(Children[f.cell])
  BY <1>1, <1>2, LenProperties, NodeAssumption
<1>4. NextChild(t) = Children[f.cell][i]
  BY <1>1 DEF NextChild
<1> HIDE DEF i
<1>5. Children[f.cell][i] \in Node /\ Children[f.cell][i] # Root
  BY <1>2, <1>3, RefFacts
<1>6. Children[f.cell][i] \in Reached
  BY <1>1, <1>3, ReachedFacts DEF FrameInv, ChildClosed
<1>7. Clean(t) => Clean(Children[f.cell][i])
  BY <1>1, <1>2, <1>3, CleanFacts DEF FrameInv
<1> QED BY <1>4, <1>5, <1>6, <1>7

\* The frames of a stack, as they are after a step.
GoodFrames(t, stk) == stk[1].cell = t /\ \A k \in 1..Len(stk) : \A f \in {stk[k]} : FrameInv(t, f)

\* The frames of all tasks are good after a step if those of the stacks it changes are.
LEMMA FramesKept ==
  ASSUME IInv, FramesInv, Grows,
         \A u \in New : stage'[u] # "absent" =>
           \/ stage[u] # "absent" /\ stack'[u] = stack[u]
           \/ \E stk : stk = stack'[u] /\ GoodFrames(u, stk)'
  PROVE  FramesInv'
<1> SUFFICES ASSUME NEW u \in New, stage'[u] # "absent"
             PROVE  stack'[u][1].cell = u /\ \A f \in Frames(u)' : FrameInv(u, f)'
  BY DEF FramesInv
<1>1. \A f : f \in Frames(u)' <=> \E k \in 1..Len(stack'[u]) : f = stack'[u][k]
  BY Zenon DEF Frames
<1>2. CASE stage[u] # "absent" /\ stack'[u] = stack[u]
  <2>1. \A k \in 1..Len(stack[u]) : \A f \in {stack[u][k]} : FrameInv(u, f)'
    BY <1>2, FrameFacts, FrameKept
  <2>2. stack[u][1].cell = u
    BY <1>2, FrameFacts
  <2> QED BY <1>1, <1>2, <2>1, <2>2
<1>3. ASSUME NEW stk, stk = stack'[u], GoodFrames(u, stk)'
      PROVE  stack'[u][1].cell = u /\ \A f \in Frames(u)' : FrameInv(u, f)'
  BY <1>1, <1>3 DEF GoodFrames
<1> QED BY <1>2, <1>3

\* Storing an available reference in the innermost frame.
LEMMA StoreFrames ==
  ASSUME IInv, FramesInv, Grows, NEW t \in New, stage[t] # "absent",
         Len(Top(t).refs) < Len(Children[Top(t).cell]),
         NEW e \in Ext, e.cell = NextChild(t), Available(e.cell, e.waits)',
         NEW stk, stk = WithRef(stack[t], e)
  PROVE  GoodFrames(t, stk)'
<1> DEFINE n == Len(stack[t])
<1>1. /\ stack[t] \in Seq(FrameType) /\ n \in Nat /\ n >= 1 /\ stack[t][1].cell = t
      /\ \A k \in 1..n : stack[t][k] \in FrameType /\ FrameInv(t, stack[t][k])
      /\ Top(t) = stack[t][n]
  BY FrameFacts DEF Top
<1>2. /\ Len(stk) = n
      /\ \A k \in 1..n : stk[k] = IF k = n THEN AddRef(stack[t][k], e) ELSE stack[t][k]
  BY <1>1, WithRefFacts
<1> HIDE DEF n
<1>3. \A k \in 1..n : AddRef(stack[t][k], e).cell = stack[t][k].cell
  BY <1>1 DEF AddRef, FrameType
<1>4. stk[1].cell = t
  BY <1>1, <1>2, <1>3
<1>5. ASSUME NEW k \in 1..Len(stk), NEW f, f = stk[k] PROVE FrameInv(t, f)'
  <2>1. PICK g \in FrameType : g = stack[t][k] /\ FrameInv(t, g)
    BY <1>1, <1>2
  <2>2. CASE k = n
    <3>1. f = AddRef(g, e) /\ g = Top(t)
      BY <1>1, <1>2, <1>5, <2>1, <2>2
    <3>2. FrameInv(t, AddRef(g, e))'
      BY <2>1, <3>1, StoreInv DEF NextChild
    <3> QED BY <3>1, <3>2
  <2>3. CASE k # n
    <3>1. f = g
      BY <1>2, <1>5, <2>1, <2>3
    <3>2. FrameInv(t, g)'
      BY <2>1, FrameKept
    <3> QED BY <3>1, <3>2
  <2> QED BY <2>2, <2>3
<1> QED BY <1>4, <1>5 DEF GoodFrames

\* A frame for the next reference, on the stack of its task or on one of its own.
LEMMA PushFrames ==
  ASSUME IInv, FramesInv, Grows, NEW t \in New, stage[t] # "absent",
         Len(Top(t).refs) < Len(Children[Top(t).cell]), NextChild(t) \in New,
         NEW stk, stk = Append(stack[t], Frame(NextChild(t), Top(t).depth + 1))
  PROVE  GoodFrames(t, stk)'
<1>1. PICK g : g = Frame(NextChild(t), Top(t).depth + 1)
  OBVIOUS
<1>2. Top(t).depth + 1 \in Nat
  BY FrameFacts DEF FrameType
<1>3. g \in FrameType /\ FrameInv(t, g)
  BY <1>1, <1>2, NextFacts, NewFrameInv, FrameStep
<1> DEFINE n == Len(stack[t])
<1>4. /\ stack[t] \in Seq(FrameType) /\ n \in Nat /\ n >= 1 /\ stack[t][1].cell = t
      /\ \A k \in 1..n : stack[t][k] \in FrameType /\ FrameInv(t, stack[t][k])
  BY FrameFacts
<1>5. Len(stk) = n + 1 /\ stk[n + 1] = g /\ \A k \in 1..n : stk[k] = stack[t][k]
  BY <1>1, <1>3, <1>4, AppendProperties
<1> HIDE DEF n
<1>6. ASSUME NEW k \in 1..Len(stk), NEW f, f = stk[k] PROVE FrameInv(t, f)'
  <2>1. f \in FrameType /\ FrameInv(t, f)
    BY <1>3, <1>4, <1>5, <1>6
  <2> QED BY <2>1, FrameKept
<1>7. stk[1].cell = t
  BY <1>4, <1>5
<1> QED BY <1>6, <1>7 DEF GoodFrames

LEMMA OwnFrames ==
  ASSUME Grows, NEW c \in New, c \in Reached, NEW d \in Nat, NEW stk, stk = <<Frame(c, d)>>
  PROVE  GoodFrames(c, stk)'
<1>1. Frame(c, d) \in FrameType /\ FrameInv(c, Frame(c, d)) /\ Frame(c, d).cell = c
  BY NewFrameInv, FrameStep DEF Frame
<1>2. Len(stk) = 1 /\ stk[1] = Frame(c, d)
  OBVIOUS
<1>3. \A k \in 1..Len(stk) : \A f \in {stk[k]} : f \in FrameType /\ FrameInv(c, f)
  BY <1>1, <1>2
<1>4. \A k \in 1..Len(stk) : \A f \in {stk[k]} : FrameInv(c, f)'
  BY <1>3, FrameKept
<1> QED BY <1>1, <1>2, <1>4 DEF GoodFrames

\* The frame below gets the rebuilt cell as its next reference.
LEMMA PopFrames ==
  ASSUME IInv, FramesInv, Grows, NEW t \in New, AtEnd(t), Len(stack[t]) > 1,
         NEW e \in Ext, e.cell = Top(t).cell, Available(e.cell, e.waits)',
         NEW stk, stk = WithRef(SubSeq(stack[t], 1, Len(stack[t]) - 1), e)
  PROVE  GoodFrames(t, stk)'
<1> DEFINE n == Len(stack[t])
           m == n - 1
           below == SubSeq(stack[t], 1, m)
<1>0. stage[t] # "absent"
  BY DEF AtEnd
<1>1. /\ stack[t] \in Seq(FrameType) /\ n \in Nat /\ n > 1 /\ stack[t][1].cell = t
      /\ \A k \in 1..n : stack[t][k] \in FrameType /\ FrameInv(t, stack[t][k])
      /\ Top(t) = stack[t][n]
  BY <1>0, FrameFacts DEF Top
<1>2. m \in Nat /\ m >= 1 /\ n = m + 1
  BY <1>1
<1>3. /\ below \in Seq(FrameType) /\ Len(below) = m
      /\ \A k \in 1..m : below[k] = stack[t][k]
  <2> HIDE DEF m
  <2>1. /\ below \in Seq(FrameType)
        /\ Len(below) = IF 1 <= m THEN m - 1 + 1 ELSE 0
        /\ \A i \in 1..(m - 1 + 1) : below[i] = stack[t][1 + i - 1]
    BY <1>1, <1>2, SubSeqProperties
  <2> QED BY <1>2, <2>1
<1>4. Entered(stack[t][m], stack[t][m + 1])
  BY <1>0, <1>1, <1>2 DEF IInv, StackInv, GoodStack
<1>5. stk = WithRef(below, e)
  OBVIOUS
<1> HIDE DEF n, m, below
<1>6. /\ Len(stk) = m
      /\ \A k \in 1..m : stk[k] = IF k = m THEN AddRef(below[k], e) ELSE below[k]
  BY <1>2, <1>3, <1>5, WithRefFacts
<1>7. ASSUME NEW k \in 1..Len(stk), NEW f, f = stk[k]
      PROVE  FrameInv(t, f)' /\ f.cell = stack[t][k].cell
  <2>1. PICK g \in FrameType : g = stack[t][k] /\ FrameInv(t, g)
    BY <1>1, <1>2, <1>6
  <2>2. CASE k = m
    <3>1. f = AddRef(g, e) /\ g = stack[t][m]
      BY <1>3, <1>6, <1>7, <2>1, <2>2
    <3>2. Len(g.refs) < Len(Children[g.cell]) /\ e.cell = Children[g.cell][Len(g.refs) + 1]
      BY <1>1, <1>2, <1>4, <3>1 DEF Entered
    <3>3. FrameInv(t, AddRef(g, e))'
      BY <2>1, <3>2, StoreInv
    <3>4. AddRef(g, e).cell = g.cell
      BY DEF AddRef, FrameType
    <3> QED BY <3>1, <3>3, <3>4, <2>2
  <2>3. CASE k # m
    <3>1. f = g
      BY <1>3, <1>6, <1>7, <2>1, <2>3
    <3>2. FrameInv(t, g)'
      BY <2>1, FrameKept
    <3> QED BY <3>1, <3>2, <2>1
  <2> QED BY <2>2, <2>3
<1>8. stk[1].cell = t
  BY <1>1, <1>2, <1>6, <1>7
<1> QED BY <1>7, <1>8 DEF GoodFrames

-----------------------------------------------------------------------------
(* The steps                                                                *)

\* The map after a step that changes at most the entry of one node.
LEMMA MapKept ==
  ASSUME IInv, MapInv, Grows,
         \A n \in New : \A e \in {new_cells'[n]} \ {None} : e = new_cells[n] \/ EntryInv(n, e)'
  PROVE  MapInv'
<1> SUFFICES ASSUME NEW n \in New, NEW e, e = new_cells'[n], e # None PROVE EntryInv(n, e)'
  BY DEF MapInv
<1>1. CASE e = new_cells[n]
  <2>1. EntryInv(n, e) /\ e \in Ext
    BY <1>1 DEF MapInv, IInv, TypeOK
  <2>2. e.waits \in SUBSET New
    BY <2>1 DEF Ext
  <2>3. Rebuilt(n, e.waits) => Rebuilt(n, e.waits)'
    BY <2>2, RebuiltKept
  <2> QED BY <2>1, <2>3 DEF EntryInv, Grows
<1> QED BY <1>1

\* The values of the tasks after a step that changes at most one of them.
LEMMA ValueKept ==
  ASSUME IInv, ValueInv, Grows, UNCHANGED promise,
         \A u \in New : value'[u] # None <=> stage'[u] \in {"add", "set", "done"},
         \A u \in New : stage'[u] = "done" /\ u # Root => promise[u] # None,
         \A u \in New : value'[u] = value[u] \/
           (promise[u] = None /\ \A e \in {value'[u]} : ReturnInv(u, e)')
  PROVE  ValueInv'
<1>1. \A u \in New, e \in Ext \union {Err} : ReturnInv(u, e) => ReturnInv(u, e)'
  <2> SUFFICES ASSUME NEW u \in New, NEW e \in Ext \union {Err}, ReturnInv(u, e)
               PROVE  ReturnInv(u, e)'
    OBVIOUS
  <2>1. Clean(u)' <=> Clean(u)
    BY CleanKept DEF Grows
  <2>2. CASE e = Err
    BY <2>1, <2>2 DEF ReturnInv
  <2>3. CASE e # Err
    <3>1. e.waits \in SUBSET New
      BY <2>3 DEF Ext
    <3> QED BY <2>3, <3>1, RebuiltKept DEF ReturnInv
  <2> QED BY <2>2, <2>3
<1>2. \A u \in New : \A e \in {value'[u]} \ {None} : ReturnInv(u, e)'
  BY <1>1 DEF ValueInv, IInv, TypeOK
<1>3. \A u \in New : promise'[u] # None => promise'[u] = value'[u]
  BY DEF ValueInv
<1> QED BY <1>2, <1>3 DEF ValueInv

\* A step of a task that only stores a reference in its innermost frame.
LEMMA StoreOut ==
  ASSUME IInv, OutInv, Grows, NEW t \in New, stage[t] = "run",
         Len(Top(t).refs) < Len(Children[Top(t).cell]),
         NEW e \in Ext, e.cell = NextChild(t), Available(e.cell, e.waits),
         stack' = [stack EXCEPT ![t] = WithRef(stack[t], e)],
         UNCHANGED <<new_cells, stage, value, promise>>
  PROVE  OutInv'
<1> USE DEF OutInv
<1>1. NextChild(t) \in Node /\ e.waits \in SUBSET New
  BY NextFacts DEF Ext
<1>2. Available(e.cell, e.waits)'
  BY <1>1, AvailableKept
<1>3. stack'[t] = WithRef(stack[t], e) /\ \A u \in New \ {t} : stack'[u] = stack[u]
  BY DEF IInv, TypeOK
<1>4. \E stk : stk = stack'[t] /\ GoodFrames(t, stk)'
  BY <1>2, <1>3, StoreFrames
<1>5. FramesInv'
  BY <1>3, <1>4, FramesKept
<1>6. MapInv'
  BY MapKept
<1>7. ValueInv'
  BY ValueKept DEF ValueInv
<1> QED BY <1>5, <1>6, <1>7

\* A resolved pruned branch is stored; one that is missing taints all frames below.
LEMMA PrunedOut ==
  ASSUME IInv, OutInv, Grows, NEW t \in New, ResolvePruned(t)
  PROVE  OutInv'
<1> USE DEF OutInv
<1>0. PICK c : c = NextChild(t)
  OBVIOUS
<1>1. /\ stage[t] = "run" /\ Len(Top(t).refs) < Len(Children[Top(t).cell]) /\ c \in Pruned
      /\ UNCHANGED <<new_cells, promise>>
  BY <1>0 DEF ResolvePruned, AtChild
<1>2. c \in Node /\ (Clean(t) => Clean(c))
  BY <1>0, <1>1, NextFacts
<1>3. CASE c \in Foreign \union present
  <2>1. Ordinary(c) \in Ext /\ Ordinary(c).cell = c
    BY <1>2 DEF Ordinary, Ext
  <2>2. Available(c, Ordinary(c).waits)
    BY <1>1, <1>3, PrunedAvailable
  <2>3. /\ stack' = [stack EXCEPT ![t] = WithRef(stack[t], Ordinary(c))]
        /\ UNCHANGED <<stage, value>>
    BY <1>0, <1>3 DEF ResolvePruned, StoreReference, IInv, TypeOK
  <2> QED BY <1>0, <1>1, <2>1, <2>2, <2>3, StoreOut
<1>4. CASE c \notin Foreign \union present
  <2>1. /\ value' = [value EXCEPT ![t] = Err] /\ stage' = [stage EXCEPT ![t] = "add"]
        /\ UNCHANGED stack
    BY <1>0, <1>4 DEF ResolvePruned
  <2>2. ~Clean(t)
    BY <1>1, <1>2, <1>4, PrunedClean
  <2>3. /\ value'[t] = Err /\ stage'[t] = "add"
        /\ \A u \in New \ {t} : value'[u] = value[u] /\ stage'[u] = stage[u]
    BY <2>1 DEF IInv, TypeOK
  <2>4. FramesInv'
    BY <1>1, <2>1, <2>3, FramesKept
  <2>5. MapInv'
    BY <1>1, MapKept
  <2>6. ReturnInv(t, Err)'
    BY <2>2, CleanKept DEF ReturnInv, Grows
  <2>7. value[t] = None /\ promise[t] = None
    BY <1>1 DEF ValueInv
  <2>8. Err # None
    BY ResultAssumption
  <2>9. ValueInv'
    <3>1. \A u \in New : value'[u] # None <=> stage'[u] \in {"add", "set", "done"}
      BY <2>3, <2>8 DEF ValueInv
    <3>2. \A u \in New : stage'[u] = "done" /\ u # Root => promise[u] # None
      BY <2>3 DEF ValueInv
    <3>3. \A u \in New : value'[u] = value[u] \/
           (promise[u] = None /\ \A e \in {value'[u]} : ReturnInv(u, e)')
      BY <2>3, <2>6, <2>7
    <3> QED BY <1>1, <3>1, <3>2, <3>3, ValueKept
  <2> QED BY <2>4, <2>5, <2>9
<1> QED BY <1>3, <1>4

LEMMA HitOut ==
  ASSUME IInv, OutInv, Grows, NEW t \in New, LookupHit(t)
  PROVE  OutInv'
<1> USE DEF OutInv
<1>0. PICK c, e : c = NextChild(t) /\ e = new_cells[c]
  OBVIOUS
<1>1. /\ stage[t] = "run" /\ Len(Top(t).refs) < Len(Children[Top(t).cell])
      /\ c \in New /\ e # None
      /\ UNCHANGED <<new_cells, stage, value, promise>>
  BY <1>0 DEF LookupHit, AtChild
<1>2. e \in Ext /\ e.cell = c /\ EntryInv(c, e)
  BY <1>0, <1>1 DEF IInv, TypeOK, EntriesMatchKeys, Keys, MapInv
<1>3. Available(c, e.waits)
  BY <1>0, <1>1, <1>2, EntryAvailable
<1>4. stack' = [stack EXCEPT ![t] = WithRef(stack[t], e)]
  BY <1>0 DEF LookupHit, StoreReference, IInv, TypeOK
<1> QED BY <1>0, <1>1, <1>2, <1>3, <1>4, StoreOut

LEMMA MissOut ==
  ASSUME IInv, OutInv, Grows, NEW t \in New, LookupMiss(t)
  PROVE  OutInv'
<1> USE DEF OutInv
<1> DEFINE c == NextChild(t)
           own == t = Root /\ Top(t).depth > RootSplit /\ Depth[c] > ChildSplit
<1>1. /\ stage[t] = "run" /\ Len(Top(t).refs) < Len(Children[Top(t).cell])
      /\ c \in New /\ UNCHANGED <<new_cells, value, promise>>
  BY DEF LookupMiss, AtChild
<1>2. MapInv'
  BY <1>1, MapKept
<1>3. CASE own
  <2>1. stage' = [stage EXCEPT ![t] = "entry"] /\ UNCHANGED stack
    BY <1>3 DEF LookupMiss
  <2>2. stage'[t] = "entry" /\ \A u \in New \ {t} : stage'[u] = stage[u]
    BY <2>1 DEF IInv, TypeOK
  <2>3. FramesInv'
    BY <1>1, <2>1, <2>2, FramesKept
  <2>4. ValueInv'
    BY <1>1, <2>2, ValueKept DEF ValueInv
  <2> QED BY <1>2, <2>3, <2>4
<1>4. CASE ~own
  <2>1. /\ stack' = [stack EXCEPT ![t] = Append(stack[t], Frame(c, Top(t).depth + 1))]
        /\ UNCHANGED stage
    BY <1>4 DEF LookupMiss, IInv, TypeOK
  <2>2. /\ stack'[t] = Append(stack[t], Frame(c, Top(t).depth + 1))
        /\ \A u \in New \ {t} : stack'[u] = stack[u]
    BY <2>1 DEF IInv, TypeOK
  <2>3. \E stk : stk = stack'[t] /\ GoodFrames(t, stk)'
    BY <1>1, <2>2, PushFrames
  <2>4. FramesInv'
    BY <2>1, <2>2, <2>3, FramesKept
  <2>5. ValueInv'
    BY <1>1, <2>1, ValueKept DEF ValueInv
  <2> QED BY <1>2, <2>4, <2>5
<1> QED BY <1>3, <1>4

\* Under the lock: the cell another task put there, or a promise and its task.
LEMMA EntryOut ==
  ASSUME IInv, OutInv, Grows, NEW t \in New, Entry(t)
  PROVE  OutInv'
<1> USE DEF OutInv
<1>0. PICK c : c = NextChild(t)
  OBVIOUS
<1>1. /\ stage[t] = "entry" /\ Len(Top(t).refs) < Len(Children[Top(t).cell])
      /\ c \in New /\ UNCHANGED <<value, promise>>
  BY <1>0 DEF Entry, IInv, StackInv
<1>2. c \in Node /\ c # Root /\ c \in Reached
  BY <1>0, <1>1, NextFacts
<1>3. CASE new_cells[c] # None
  <2>0. PICK e : e = new_cells[c]
    OBVIOUS
  <2>1. e \in Ext /\ e.cell = c /\ EntryInv(c, e) /\ e.waits \in SUBSET New
    BY <2>0, <1>1, <1>3 DEF IInv, TypeOK, EntriesMatchKeys, Keys, MapInv, Ext
  <2>2. Available(c, e.waits)'
    BY <2>0, <1>1, <1>2, <1>3, <2>1, EntryAvailable, AvailableKept
  <2>3. /\ stack' = [stack EXCEPT ![t] = WithRef(stack[t], e)]
        /\ stage' = [stage EXCEPT ![t] = "run"] /\ UNCHANGED new_cells
    BY <1>0, <1>3, <2>0 DEF Entry, StoreReference, IInv, TypeOK
  <2>4. /\ stack'[t] = WithRef(stack[t], e) /\ stage'[t] = "run"
        /\ \A u \in New \ {t} : stack'[u] = stack[u] /\ stage'[u] = stage[u]
    BY <2>3 DEF IInv, TypeOK
  <2>5. \E stk : stk = stack'[t] /\ GoodFrames(t, stk)'
    BY <1>0, <1>1, <2>1, <2>2, <2>4, StoreFrames
  <2>6. FramesInv'
    BY <2>4, <2>5, FramesKept
  <2>7. MapInv'
    BY <2>3, MapKept
  <2>8. ValueInv'
    BY <1>1, <2>4, ValueKept DEF ValueInv
  <2> QED BY <2>6, <2>7, <2>8
<1>4. CASE new_cells[c] = None
  <2>1. stage[c] = "absent" /\ c # t
    BY <1>1, <1>2, <1>4 DEF IInv, TaskInv
  <2>2. Deferred(c) \in Ext /\ Deferred(c).cell = c /\ Deferred(c) # None
    BY <1>1, ResultAssumption DEF Deferred, Ext, New
  <2>3. Top(t).depth + 1 \in Nat
    BY <1>1, FrameFacts DEF FrameType
  <2>4. PICK d \in Nat : d = Top(t).depth + 1
    BY <2>3
  <2>5. /\ new_cells' = [new_cells EXCEPT ![c] = Deferred(c)]
        /\ stage' = [stage EXCEPT ![t] = "run", ![c] = "run"]
        /\ stack' = [stack EXCEPT ![t] = WithRef(stack[t], Deferred(c)), ![c] = <<Frame(c, d)>>]
    BY <1>0, <1>4, <2>4 DEF Entry, Spawn, IInv, TypeOK
  <2>6. /\ stack'[t] = WithRef(stack[t], Deferred(c)) /\ stack'[c] = <<Frame(c, d)>>
        /\ stage'[t] = "run" /\ stage'[c] = "run"
        /\ new_cells'[c] = Deferred(c)
        /\ \A u \in New \ {t, c} : stack'[u] = stack[u] /\ stage'[u] = stage[u]
        /\ \A u \in New \ {c} : new_cells'[u] = new_cells[u]
    BY <1>1, <2>1, <2>5 DEF IInv, TypeOK
  <2>7. Available(c, Deferred(c).waits)'
    <3>1. Deferred(c).waits = {c} /\ Depth[c] \in Nat
      BY <1>1, NodeAssumption DEF Deferred, New
    <3> QED BY <1>2, <2>2, <2>6, <3>1 DEF Available, Started, AllClean
  <2>8. \E stk : stk = stack'[t] /\ GoodFrames(t, stk)'
    BY <1>0, <1>1, <2>2, <2>6, <2>7, StoreFrames
  <2>9. \E stk : stk = stack'[c] /\ GoodFrames(c, stk)'
    BY <1>1, <1>2, <2>6, OwnFrames
  <2>10. FramesInv'
    BY <2>6, <2>8, <2>9, FramesKept
  <2>11. EntryInv(c, Deferred(c))'
    BY <1>2, <2>6 DEF EntryInv
  <2>12. MapInv'
    BY <2>6, <2>11, MapKept
  <2>13. ValueInv'
    <3>1. value[c] = None /\ value[t] = None
      BY <1>1, <2>1 DEF ValueInv
    <3> QED BY <1>1, <2>6, <3>1, ValueKept DEF ValueInv
  <2> QED BY <2>10, <2>12, <2>13
<1> QED BY <1>3, <1>4

\* What the innermost frame yields when all its references are stored.
LEMMA FinishFacts ==
  ASSUME IInv, FramesInv, Grows, NEW t \in New, AtEnd(t)
  PROVE  /\ stage[t] = "run" /\ Top(t).cell \in New
         /\ \E e \in Ext : /\ e = finish_children(Top(t)) /\ e.cell = Top(t).cell
                           /\ e.waits \in SUBSET New /\ Rebuilt(e.cell, e.waits)'
<1>1. stage[t] = "run" /\ Len(Top(t).refs) = Len(Children[Top(t).cell])
  BY DEF AtEnd
<1>2. PICK f \in FrameType : f = Top(t) /\ FrameInv(t, f)
  BY <1>1, FrameFacts
<1>3. PICK e \in Ext : e = finish_children(f)
  BY <1>2, EndFacts DEF IInv
<1>4. e.cell = f.cell /\ e.waits = f.waits /\ f.cell \in New /\ f.waits \in SUBSET New
  BY <1>2, <1>3, EndFacts DEF IInv, finish_children, FrameType
<1>5. Rebuilt(f.cell, f.waits)
  BY <1>1, <1>2, EndInv
<1>6. Rebuilt(f.cell, f.waits)'
  BY <1>4, <1>5, RebuiltKept
<1> QED BY <1>1, <1>2, <1>3, <1>4, <1>6

\* A rebuilt cell goes into the map and into the frame below.
LEMMA InsertOut ==
  ASSUME IInv, OutInv, Grows, NEW t \in New, Insert(t)
  PROVE  OutInv'
<1> USE DEF OutInv
<1>0. AtEnd(t) /\ Len(stack[t]) > 1
  BY DEF Insert
<1>1. PICK e \in Ext : /\ e = finish_children(Top(t)) /\ e.cell = Top(t).cell
                       /\ e.waits \in SUBSET New /\ Rebuilt(e.cell, e.waits)'
  BY <1>0, FinishFacts
<1>2. PICK c \in New : c = Top(t).cell
  BY <1>0, FinishFacts
<1>3. /\ new_cells' = [new_cells EXCEPT ![c] = e]
      /\ stack' = [stack EXCEPT ![t] = WithRef(SubSeq(stack[t], 1, Len(stack[t]) - 1), e)]
      /\ UNCHANGED <<stage, value, promise>>
  BY <1>1, <1>2 DEF Insert
<1>4. /\ new_cells'[c] = e /\ e # None
      /\ \A n \in New \ {c} : new_cells'[n] = new_cells[n]
      /\ stack'[t] = WithRef(SubSeq(stack[t], 1, Len(stack[t]) - 1), e)
      /\ \A u \in New \ {t} : stack'[u] = stack[u]
  BY <1>3, ResultAssumption DEF IInv, TypeOK
<1>5. c # Root /\ c \in Reached
  <2> DEFINE n == Len(stack[t])
             m == n - 1
  <2>1. stage[t] # "absent"
    BY <1>0 DEF AtEnd
  <2>2. /\ n \in Nat /\ n > 1 /\ \A k \in 1..n : stack[t][k] \in FrameType
        /\ FrameInv(t, Top(t)) /\ Top(t) = stack[t][n]
    BY <1>0, <2>1, FrameFacts DEF Top
  <2>3. m \in Nat /\ m >= 1 /\ n = m + 1
    BY <2>2
  <2>4. Entered(stack[t][m], stack[t][m + 1])
    BY <2>1, <2>2, <2>3 DEF IInv, StackInv, GoodStack
  <2> HIDE DEF n, m
  <2>5. PICK f \in FrameType : f = stack[t][m]
    BY <2>2, <2>3
  <2>6. f.cell \in Node /\ Len(f.refs) \in Nat /\ Len(Children[f.cell]) \in Nat
    BY NodeAssumption, LenProperties DEF FrameType, New
  <2>7. c = Children[f.cell][Len(f.refs) + 1] /\ Len(f.refs) + 1 \in 1..Len(Children[f.cell])
    <3>1. stack[t][m + 1] = Top(t)
      BY <2>2, <2>3
    <3>2. /\ Len(f.refs) < Len(Children[f.cell])
          /\ Children[f.cell][Len(f.refs) + 1] = Top(t).cell
      BY <2>4, <2>5, <3>1, Zenon DEF Entered
    <3> QED BY <1>2, <2>6, <3>2
  <2>8. c # Root
    BY <2>6, <2>7, RefFacts
  <2> QED BY <1>2, <2>2, <2>8 DEF FrameInv
<1>6. Available(c, e.waits)'
  <2>1. \A w \in e.waits : Depth[w] < Depth[c] /\ Depth[w] \in Nat /\ Depth[c] \in Nat
    BY <1>1, <1>2, NodeAssumption DEF Rebuilt, New
  <2>2. \A w \in e.waits : Depth[w] <= Depth[c]
    BY <2>1
  <2> QED BY <1>1, <1>2, <1>4, <2>2 DEF Rebuilt, Available
<1>7. \E stk : stk = stack'[t] /\ GoodFrames(t, stk)'
  BY <1>0, <1>1, <1>2, <1>4, <1>6, PopFrames
<1>8. FramesInv'
  BY <1>3, <1>4, <1>7, FramesKept
<1>9. EntryInv(c, e)'
  BY <1>1, <1>2, <1>5 DEF EntryInv
<1>10. MapInv'
  BY <1>4, <1>9, MapKept
<1>11. ValueInv'
  BY <1>3, ValueKept DEF ValueInv
<1> QED BY <1>8, <1>10, <1>11

\* The outermost frame yields the value of the task.
LEMMA FinishOut ==
  ASSUME IInv, OutInv, Grows, NEW t \in New, Finish(t)
  PROVE  OutInv'
<1> USE DEF OutInv
<1>0. AtEnd(t) /\ Len(stack[t]) = 1 /\ stage[t] = "run"
  BY DEF Finish, AtEnd
<1>1. PICK e \in Ext : /\ e = finish_children(Top(t)) /\ e.cell = Top(t).cell
                       /\ e.waits \in SUBSET New /\ Rebuilt(e.cell, e.waits)'
  BY <1>0, FinishFacts
<1>2. Top(t).cell = t
  BY <1>0, FrameFacts DEF Top
<1>3. /\ value' = [value EXCEPT ![t] = e] /\ stage' = [stage EXCEPT ![t] = "add"]
      /\ UNCHANGED <<new_cells, stack, promise>>
  BY <1>1 DEF Finish
<1>4. /\ value'[t] = e /\ stage'[t] = "add" /\ e # None /\ e # Err
      /\ \A u \in New \ {t} : value'[u] = value[u] /\ stage'[u] = stage[u]
  BY <1>3, ResultAssumption DEF IInv, TypeOK
<1>5. FramesInv'
  BY <1>0, <1>3, <1>4, FramesKept
<1>6. MapInv'
  BY <1>3, MapKept
<1>7. ReturnInv(t, e)' /\ promise[t] = None
  BY <1>0, <1>1, <1>2, <1>4 DEF ReturnInv, ValueInv
<1>8. ValueInv'
  <2>1. \A u \in New : value'[u] # None <=> stage'[u] \in {"add", "set", "done"}
    BY <1>4 DEF ValueInv
  <2>2. \A u \in New : stage'[u] = "done" /\ u # Root => promise[u] # None
    BY <1>4 DEF ValueInv
  <2>3. \A u \in New : value'[u] = value[u] \/
         (promise[u] = None /\ \A x \in {value'[u]} : ReturnInv(u, x)')
    BY <1>4, <1>7
  <2> QED BY <1>3, <2>1, <2>2, <2>3, ValueKept
<1> QED BY <1>5, <1>6, <1>8

\* The last steps of a task; its promise gets the value.
LEMMA EndOut ==
  ASSUME IInv, OutInv, Grows, NEW t \in New, AddTotal(t) \/ SetPromise(t)
  PROVE  OutInv'
<1> USE DEF OutInv
<1>1. UNCHANGED <<new_cells, stack, value>>
  BY DEF AddTotal, SetPromise
<1>2. /\ stage[t] \in {"add", "set"} /\ stage'[t] \in {"set", "done"}
      /\ \A u \in New \ {t} : stage'[u] = stage[u]
  BY DEF AddTotal, SetPromise, IInv, TypeOK
<1>3. FramesInv'
  BY <1>1, <1>2, FramesKept
<1>4. MapInv'
  BY <1>1, MapKept
<1>5. CASE AddTotal(t)
  <2>1. UNCHANGED promise /\ (stage'[t] = "done" => t = Root)
    BY <1>5 DEF AddTotal, IInv, TypeOK
  <2>2. ValueInv'
    BY <1>1, <1>2, <2>1, ValueKept DEF ValueInv
  <2> QED BY <1>3, <1>4, <2>2
<1>6. CASE SetPromise(t)
  <2>1. promise'[t] = value[t] /\ \A u \in New \ {t} : promise'[u] = promise[u]
    BY <1>6 DEF SetPromise, IInv, TypeOK
  <2>2. value[t] # None
    BY <1>2 DEF ValueInv
  <2>3. \A u \in New : \A e \in {value[u]} \ {None} : ReturnInv(u, e)'
    <3> SUFFICES ASSUME NEW u \in New, NEW e, e = value[u], e # None PROVE ReturnInv(u, e)'
      OBVIOUS
    <3>1. ReturnInv(u, e) /\ e \in Ext \union {Err}
      BY DEF ValueInv, IInv, TypeOK
    <3>2. Clean(u)' <=> Clean(u)
      BY CleanKept DEF Grows
    <3>3. CASE e = Err
      BY <3>1, <3>2, <3>3 DEF ReturnInv
    <3>4. CASE e # Err
      <4>1. e.waits \in SUBSET New
        BY <3>1, <3>4 DEF Ext
      <4> QED BY <3>1, <3>4, <4>1, RebuiltKept DEF ReturnInv
    <3> QED BY <3>3, <3>4
  <2>4. ValueInv'
    BY <1>1, <1>2, <2>1, <2>2, <2>3 DEF ValueInv
  <2> QED BY <1>3, <1>4, <2>4
<1> QED BY <1>5, <1>6

\* Every step keeps frames, map and values.
LEMMA OutStep == IInv /\ OutInv /\ [Next]_vars => OutInv'
<1> SUFFICES ASSUME IInv, OutInv, [Next]_vars PROVE OutInv'
  OBVIOUS
<1>0. Grows
  BY GrowsStep
<1>1. ASSUME NEW t \in New, Step(t) PROVE OutInv'
  BY <1>0, <1>1, PrunedOut, HitOut, MissOut, EntryOut, InsertOut, FinishOut, EndOut DEF Step
<1>2. CASE Resolve \/ UNCHANGED vars
  <2>1. UNCHANGED <<new_cells, stage, stack, value, promise>>
    BY <1>2 DEF Resolve, taskVars, vars
  <2>2. FramesInv'
    BY <1>0, <2>1, FramesKept DEF OutInv
  <2>3. MapInv'
    BY <1>0, <2>1, MapKept DEF OutInv
  <2>4. ValueInv'
    BY <1>0, <2>1, ValueKept DEF OutInv, ValueInv
  <2> QED BY <2>2, <2>3, <2>4 DEF OutInv
<1> QED BY <1>1, <1>2 DEF Next

\* The first task starts at the root with an empty map.
LEMMA InitOut == Init => OutInv
<1> SUFFICES ASSUME Init PROVE OutInv
  OBVIOUS
<1>1. Root \in New /\ Root \in Reached
  BY NodeAssumption, ReachedFacts
<1>2. PICK f : f = Frame(Root, 0)
  OBVIOUS
<1>3. f.cell = Root /\ FrameInv(Root, f)
  BY <1>1, <1>2, NewFrameInv DEF Frame
<1>4. FramesInv
  <2> SUFFICES ASSUME NEW t \in New, stage[t] # "absent"
               PROVE  stack[t][1].cell = t /\ \A g \in Frames(t) : FrameInv(t, g)
    BY DEF FramesInv
  <2>1. t = Root /\ stack[t] = <<f>>
    BY <1>2 DEF Init
  <2>2. Len(stack[t]) = 1 /\ stack[t][1] = f
    BY <2>1
  <2>3. \A g \in Frames(t) : g = f
    BY <2>2 DEF Frames
  <2> QED BY <1>3, <2>1, <2>2, <2>3
<1>5. MapInv
  BY DEF Init, MapInv
<1>6. ValueInv
  BY DEF Init, ValueInv
<1> QED BY <1>4, <1>5, <1>6 DEF OutInv

THEOREM OutInvariance == Spec => []OutInv
BY InitOut, OutStep, Invariance, PTL DEF Spec

-----------------------------------------------------------------------------
(* The theorems                                                             *)

\* Whatever the tree and the interleaving: a promise inside a cell somebody holds
\* belongs to a task that was started and, when it is done, has been fulfilled, and
\* the promises inside a cell belong to nodes of lesser depth, except the promise
\* of a node itself.  `resolve` never waits in a circle.
THEOREM PromisesAreKeptCorrect == Spec => []PromisesAreKept
<1>1. IInv /\ OutInv => PromisesAreKept
  <2> SUFFICES ASSUME IInv, OutInv, NEW n \in New,
                      NEW e \in {new_cells[n], value[n], promise[n]} \ {None, Err},
                      NEW w \in e.waits
               PROVE  /\ stage[w] # "absent"
                      /\ stage[w] = "done" => promise[w] # None
                      /\ Depth[w] < Depth[n] \/ (w = n /\ e = Deferred(n))
    BY DEF PromisesAreKept
  <2>1. e \in Ext
    BY DEF IInv, TypeOK
  <2>2. Rebuilt(n, e.waits) \/ (e = Deferred(n) /\ stage[n] # "absent" /\ n # Root)
    <3>1. CASE e = new_cells[n]
      BY <3>1 DEF OutInv, MapInv, EntryInv
    <3>2. CASE e \in {value[n], promise[n]}
      BY <3>2 DEF OutInv, ValueInv, ReturnInv
    <3> QED BY <3>1, <3>2
  <2>3. w \in New
    BY <2>1 DEF Ext
  <2>4. stage[w] # "absent" /\ w # Root /\ (Depth[w] < Depth[n] \/ (w = n /\ e = Deferred(n)))
    <3>1. CASE Rebuilt(n, e.waits)
      BY <3>1 DEF Rebuilt, Started
    <3>2. CASE e = Deferred(n) /\ stage[n] # "absent" /\ n # Root
      BY <3>2 DEF Deferred
    <3> QED BY <2>2, <3>1, <3>2
  <2> QED BY <2>3, <2>4 DEF OutInv, ValueInv
<1> QED BY Invariance, OutInvariance, <1>1, PTL

\* A set of naturals that is not empty has a least element.
LEMMA LeastNat ==
  ASSUME NEW T, T \subseteq Nat, T # {}
  PROVE  \E x \in T : \A y \in T : x <= y
<1>1. PICK x \in T : \A y \in T : ~ (<<y, x>> \in OpToRel(<, Nat))
  BY NatLessThanWellFounded, WFMin, Zenon
<1>2. \A y \in T : ~(y < x)
  BY <1>1, Zenon DEF OpToRel
<1>3. x \in Nat /\ \A y \in T : y \in Nat /\ ~(y < x)
  BY <1>2
<1>4. \A y \in T : x <= y
  BY <1>3, SMT
<1> QED BY <1>4

\* The promises `resolve` waits for contain those inside the cell and those inside
\* what they deliver, and are the least such set.
LEMMA AwaitedFacts ==
  ASSUME IInv, NEW e \in Ext
  PROVE  /\ Awaited(e) \subseteq New /\ e.waits \subseteq Awaited(e) /\ Closed(Awaited(e))
         /\ \A W \in SUBSET New : Closed(W) /\ e.waits \subseteq W => Awaited(e) \subseteq W
<1>1. \A n : n \in Awaited(e) <=>
        n \in New /\ \A W \in SUBSET New : Closed(W) /\ e.waits \subseteq W => n \in W
  BY Zenon DEF Awaited
<1>2. e.waits \subseteq Awaited(e)
  BY <1>1 DEF Ext
<1>3. Closed(Awaited(e))
  <2> SUFFICES ASSUME NEW n \in Awaited(e), promise[n] \notin {None, Err},
                      NEW w \in promise[n].waits
               PROVE  w \in Awaited(e)
    BY Zenon DEF Closed
  <2>1. n \in New /\ promise[n] \in Ext
    BY <1>1 DEF IInv, TypeOK
  <2>2. w \in New
    BY <2>1 DEF Ext
  <2>3. ASSUME NEW W \in SUBSET New, Closed(W), e.waits \subseteq W PROVE w \in W
    <3>1. n \in W
      BY <1>1, <2>3, Zenon
    <3> QED BY <2>3, <3>1, Zenon DEF Closed
  <2> QED BY <1>1, <2>2, <2>3, Zenon
<1> QED BY <1>1, <1>2, <1>3, Zenon

\* If none of the awaited promises was broken, nothing is missing below their nodes:
\* a node of least depth below which something is missing would wait for none.
LEMMA KeptAreClean ==
  ASSUME IInv, OutInv, NEW A \in SUBSET New, Closed(A), \A n \in A : promise[n] \notin {None, Err}
  PROVE  AllClean(A)
<1> DEFINE B == {n \in A : ~Clean(n)}
           T == {Depth[n] : n \in B}
<1> SUFFICES ASSUME B # {} PROVE FALSE
  BY DEF AllClean
<1>1. T \subseteq Nat /\ T # {}
  BY NodeAssumption DEF New
<1>2. PICK d \in T : \A y \in T : d <= y
  <2> HIDE DEF T
  <2> QED BY <1>1, LeastNat
<1>3. PICK n \in B : Depth[n] = d
  OBVIOUS
<1>4. n \in New /\ ~Clean(n) /\ promise[n] \notin {None, Err}
  OBVIOUS
<1>5. Rebuilt(n, promise[n].waits)
  BY <1>4 DEF OutInv, ValueInv, ReturnInv
<1>6. PICK w \in promise[n].waits : ~Clean(w)
  BY <1>4, <1>5 DEF Rebuilt, AllClean
<1>7. w \in A /\ Depth[w] < Depth[n]
  BY <1>4, <1>5 DEF Rebuilt, Closed
<1>8. Depth[w] \in T
  BY <1>6, <1>7
<1>9. Depth[n] <= Depth[w] /\ Depth[n] \in Nat /\ Depth[w] \in Nat
  BY <1>2, <1>3, <1>4, <1>7, <1>8, NodeAssumption DEF New
<1> QED BY <1>7, <1>9

\* When the scope has ended and nothing is missing, the map holds all cells of the
\* new tree that are not pruned, but the root.
LEMMA KeysAreReached ==
  ASSUME IInv, OutInv, ScopeEnded, stage[Root] # "absent", Clean(Root)
  PROVE  Reached \ Pruned = Keys \union {Root} /\ Root \notin Keys
<1>1. Keys \subseteq New /\ Root \in New /\ Root \notin Keys
  BY NodeAssumption DEF OutInv, MapInv, EntryInv, Keys
<1>2. Keys \subseteq Reached
  BY DEF OutInv, MapInv, EntryInv, Keys
<1>3. \A n \in Reached : Clean(n)
  <2>1. PICK C \in SUBSET Node : Root \in C /\ C \intersect Missing = {} /\ ChildClosed(C)
    BY Zenon DEF Clean
  <2>2. Reached \subseteq C
    BY <2>1, ReachedFacts, Zenon
  <2> QED BY <2>1, <2>2, Zenon DEF Clean
<1>4. \A n \in Keys \union {Root} : RefsInMap(n, Len(Children[n]))
  <2>1. ASSUME NEW n \in New, n \in Reached, stage[n] # "absent"
        PROVE  RefsInMap(n, Len(Children[n]))
    <3>1. stage[n] = "done"
      BY <2>1 DEF ScopeEnded
    <3>2. value[n] # None /\ value[n] # Err
      BY <1>3, <2>1, <3>1 DEF OutInv, ValueInv, ReturnInv
    <3>3. Rebuilt(n, value[n].waits)
      BY <3>2 DEF OutInv, ValueInv, ReturnInv
    <3> QED BY <3>3 DEF Rebuilt
  <2>2. ASSUME NEW n \in Keys PROVE RefsInMap(n, Len(Children[n]))
    <3>1. Rebuilt(n, new_cells[n].waits) \/ stage[n] # "absent"
      BY DEF OutInv, MapInv, EntryInv, Keys
    <3> QED BY <1>1, <1>2, <2>1, <3>1 DEF Rebuilt
  <2> QED BY <1>1, <2>1, <2>2, ReachedFacts
<1>5. Reached \subseteq Keys \union {Root} \union Pruned
  <2> DEFINE W == Keys \union {Root} \union Pruned
  <2>1. W \in SUBSET Node /\ Root \in W
    BY <1>1, NodeAssumption DEF New
  <2>2. ChildClosed(W)
    <3> SUFFICES ASSUME NEW n \in W, NEW i \in 1..Len(Children[n]) PROVE Children[n][i] \in W
      BY DEF ChildClosed
    <3>1. n \notin Pruned
      BY LeafAssumption
    <3>2. Children[n][i] \in Node
      BY <2>1, RefFacts
    <3>3. Children[n][i] \in New => new_cells[Children[n][i]] # None
      BY <1>4, <3>1 DEF RefsInMap
    <3> QED BY <3>2, <3>3 DEF New, Keys
  <2> HIDE DEF W
  <2>3. Reached \subseteq W
    BY <2>1, <2>2, ReachedFacts, Zenon
  <2> QED BY <2>3 DEF W
<1> QED BY <1>1, <1>2, <1>5, ReachedFacts DEF New

\* When the scope has ended and nothing is missing, the tasks have counted all cells
\* of the new tree that are not pruned, but the root.
LEMMA CountFacts ==
  ASSUME IInv, OutInv, ScopeEnded, stage[Root] # "absent", Clean(Root)
  PROVE  total_new_cells + 1 = Cardinality(Reached \ Pruned)
<1>1. \A n \in New : by[n] # None => by[n] \in New /\ stage[by[n]] = "done"
  BY DEF IInv, TypeOK, CountInv, ScopeEnded
<1>2. Added = Keys
  BY <1>1 DEF IInv, CountInv, Added, Keys
<1>3. total_new_cells = Cardinality(Keys)
  BY <1>2 DEF IInv, CountInv
<1>4. IsFiniteSet(Keys)
  <2>1. Keys \subseteq Node
    BY DEF Keys, New
  <2> QED BY <2>1, NodeAssumption, FS_Subset
<1>5. Reached \ Pruned = Keys \union {Root} /\ Root \notin Keys
  BY KeysAreReached
<1> QED BY <1>3, <1>4, <1>5, FS_AddElement

\* A broken promise is inside a value only if something is missing below its node:
\* the clean nodes are closed under waiting.
LEMMA BrokenIsMissing ==
  ASSUME IInv, OutInv, NEW e \in Ext, AllClean(e.waits), NEW n \in Awaited(e)
  PROVE  Clean(n)
<1> DEFINE W == {w \in New : Clean(w)}
<1>1. W \in SUBSET New /\ e.waits \subseteq W
  BY DEF AllClean, Ext
<1>2. Closed(W)
  <2> SUFFICES ASSUME NEW m \in W, promise[m] \notin {None, Err},
                      NEW w \in promise[m].waits
               PROVE  w \in W
    BY DEF Closed
  <2>1. m \in New /\ Clean(m) /\ promise[m] \in Ext
    BY DEF IInv, TypeOK
  <2>2. Rebuilt(m, promise[m].waits)
    BY <2>1 DEF OutInv, ValueInv, ReturnInv
  <2> QED BY <2>1, <2>2 DEF Rebuilt, AllClean, Ext
<1> HIDE DEF W
<1>3. n \in W
  BY <1>1, <1>2, AwaitedFacts
<1> QED BY <1>3 DEF W

\* What `resolve` returns is what the sequential applier returns.
LEMMA ResolveOutcome ==
  ASSUME IInv, OutInv, stage[Root] # "absent", Resolve
  PROVE  outcome' = IF Clean(Root) THEN [cell |-> Root, count |-> Cardinality(Reached \ Pruned)]
                                   ELSE Err
<1>1. Root \in New /\ ScopeEnded
  BY NodeAssumption DEF Resolve
<1>2. stage[Root] = "done"
  BY <1>1 DEF ScopeEnded
<1>3. PICK e : e = value[Root]
  OBVIOUS
<1>4. e # None /\ ReturnInv(Root, e) /\ e \in Ext \union {Err}
  BY <1>1, <1>2, <1>3 DEF OutInv, ValueInv, IInv, TypeOK
<1>5. CASE e = Err
  BY <1>3, <1>4, <1>5 DEF Resolve, ReturnInv
<1>6. CASE e # Err
  <2>1. e \in Ext /\ e.cell = Root /\ Rebuilt(Root, e.waits)
    BY <1>4, <1>6 DEF ReturnInv
  <2>2. PICK aw : aw = Awaited(e)
    OBVIOUS
  <2>3. /\ \A n \in aw : promise[n] # None
        /\ outcome' = IF \E n \in aw : promise[n] = Err THEN Err
                      ELSE IF \A n \in aw : promise[n].cell = n THEN Result(e.cell) ELSE Err
    BY <1>3, <1>6, <2>2 DEF Resolve
  <2>4. /\ aw \in SUBSET New /\ e.waits \subseteq aw /\ Closed(aw)
    BY <2>1, <2>2, AwaitedFacts
  <2>5. \A n \in aw : ReturnInv(n, promise[n])
    BY <2>3, <2>4 DEF OutInv, ValueInv
  <2>6. CASE \E n \in aw : promise[n] = Err
    <3>1. PICK n \in aw : promise[n] = Err
      BY <2>6
    <3>2. ~Clean(n)
      BY <2>5, <3>1 DEF ReturnInv
    <3>3. ~AllClean(e.waits)
      BY <2>1, <2>2, <3>2, BrokenIsMissing
    <3> QED BY <2>1, <2>3, <2>6, <3>3 DEF Rebuilt
  <2>7. CASE \A n \in aw : promise[n] # Err
    <3>1. AllClean(aw)
      BY <2>3, <2>4, <2>7, KeptAreClean
    <3>2. Clean(Root)
      BY <2>1, <2>4, <3>1 DEF Rebuilt, AllClean
    <3>3. \A n \in aw : promise[n].cell = n
      BY <2>5, <2>7 DEF ReturnInv
    <3>4. outcome' = Result(Root)
      BY <2>1, <2>3, <2>7, <3>3
    <3>5. total_new_cells + 1 = Cardinality(Reached \ Pruned)
      BY <1>1, <3>2, CountFacts
    <3> QED BY <3>2, <3>4, <3>5 DEF Result
  <2> QED BY <2>6, <2>7
<1> QED BY <1>5, <1>6

\* Whatever the tree, the cells `find_cell` has and the interleaving of the tasks:
\* par_apply returns what the sequential apply returns, the new root with the number
\* of its cells that are not pruned, or an error exactly when a pruned branch of the
\* update's own depth is not found.
THEOREM OutcomeIsSequentialCorrect == Spec => []OutcomeIsSequential
<1> DEFINE Live == stage[Root] # "absent"
<1>1. Init => Live /\ OutcomeIsSequential
  BY NodeAssumption DEF Init, OutcomeIsSequential
<1>2. IInv /\ OutInv /\ Live /\ [Next]_vars => Live'
  BY GrowsStep, NodeAssumption DEF Grows
<1>3. IInv /\ OutInv /\ Live /\ OutcomeIsSequential /\ [Next]_vars => OutcomeIsSequential'
  <2> SUFFICES ASSUME IInv, OutInv, Live, OutcomeIsSequential, [Next]_vars
               PROVE  OutcomeIsSequential'
    OBVIOUS
  <2>1. CASE Resolve
    <3>1. UNCHANGED present
      BY <2>1 DEF Resolve
    <3>2. Clean(Root) <=> Reached \intersect (Pruned \ Foreign) \subseteq present
      BY RootClean
    <3> QED BY <2>1, <3>1, <3>2, ResolveOutcome DEF OutcomeIsSequential, Reached
  <2>2. CASE (\E t \in New : Step(t)) \/ UNCHANGED vars
    <3>1. UNCHANGED <<present, outcome>>
      BY <2>2 DEF Step, ResolvePruned, LookupHit, LookupMiss, Entry, Insert, Finish,
                  AddTotal, SetPromise, vars
    <3> QED BY <3>1 DEF OutcomeIsSequential, Reached
  <2> QED BY <2>1, <2>2 DEF Next
<1> QED BY <1>1, <1>2, <1>3, Invariance, OutInvariance, PTL DEF Spec

=============================================================================
