--------------------------- MODULE ParApplyProofs ---------------------------
(***************************************************************************)
(* Proofs, for any tree of cells and any interleaving of the tasks, that   *)
(* the shared map of the parallel applier holds every cell under its own   *)
(* key and that the tasks together count each of its cells once.           *)
(***************************************************************************)
EXTENDS ParApply, SequenceTheorems, FiniteSetTheorems, TLAPS

\* The references stored so far are the first references of the node, in order.
GoodFrame(f) ==
  /\ Len(f.refs) <= Len(Children[f.cell])
  /\ \A i \in 1..Len(f.refs) : f.refs[i] = Children[f.cell][i]

\* The frame g was entered for the next reference of the frame f.
Entered(f, g) ==
  /\ Len(f.refs) < Len(Children[f.cell])
  /\ Children[f.cell][Len(f.refs) + 1] = g.cell

GoodStack(stk) ==
  /\ Len(stk) >= 1
  /\ \A k \in 1..Len(stk) : GoodFrame(stk[k])
  /\ \A k \in 1..(Len(stk) - 1) : Entered(stk[k], stk[k + 1])

\* A task that was started has a stack; only the first task locks an entry, and
\* only for a reference that is left and not pruned.
StackInv ==
  /\ \A t \in New : stage[t] # "absent" => GoodStack(stack[t])
  /\ \A t \in New : stage[t] = "entry" =>
       /\ Len(Top(t).refs) < Len(Children[Top(t).cell])
       /\ NextChild(t) \in New

\* A task other than the first was started together with its entry.
TaskInv == \A n \in New : stage[n] # "absent" => n = Root \/ new_cells[n] # None

\* The cells a task put into the map first, and those of the tasks that have
\* added their count.
Share(t) == {n \in New : by[n] = t}
Added == {n \in New : by[n] # None /\ stage[by[n]] \in {"set", "done"}}

\* Each cell of the map is in the share of one started task, and the counters
\* are the sizes of the shares.
CountInv ==
  /\ \A n \in New : by[n] = None <=> new_cells[n] = None
  /\ \A n \in New : by[n] # None => stage[by[n]] # "absent"
  /\ \A t \in New : scope_total[t] = Cardinality(Share(t))
  /\ total_new_cells = Cardinality(Added)

IInv == TypeOK /\ StackInv /\ TaskInv /\ EntriesMatchKeys /\ CountInv

-----------------------------------------------------------------------------
(* Frames and stacks                                                        *)

\* Storing a reference changes the innermost frame only.
LEMMA WithRefFacts ==
  ASSUME NEW stk \in Seq(FrameType), Len(stk) >= 1, NEW e \in Ext
  PROVE  /\ AddRef(stk[Len(stk)], e) \in FrameType
         /\ WithRef(stk, e) \in Seq(FrameType)
         /\ Len(WithRef(stk, e)) = Len(stk)
         /\ \A k \in 1..Len(stk) :
              WithRef(stk, e)[k] = IF k = Len(stk) THEN AddRef(stk[k], e) ELSE stk[k]
<1> DEFINE f == stk[Len(stk)]
           g == AddRef(f, e)
<1>1. Len(stk) \in 1..Len(stk) /\ f \in FrameType
  BY LenProperties, ElementOfSeq
<1>2. Append(f.refs, e.cell) \in Seq(Node \union {Garbage})
  BY <1>1, AppendProperties DEF FrameType, Ext
<1>3. g \in FrameType
  BY <1>1, <1>2 DEF AddRef, FrameType, Ext
<1>4. WithRef(stk, e) = [stk EXCEPT ![Len(stk)] = g]
  BY <1>1 DEF WithRef
<1>5. /\ WithRef(stk, e) \in Seq(FrameType)
      /\ Len(WithRef(stk, e)) = Len(stk)
      /\ \A k \in 1..Len(stk) : WithRef(stk, e)[k] = IF k = Len(stk) THEN g ELSE stk[k]
  BY <1>1, <1>3, <1>4, ExceptSeq
<1> QED BY <1>3, <1>5

\* A stack stays good when the reference stored is the next one of its frame.
LEMMA StoreGood ==
  ASSUME NEW stk \in Seq(FrameType), GoodStack(stk), NEW e \in Ext,
         LET f == stk[Len(stk)]
         IN Len(f.refs) < Len(Children[f.cell]) /\ e.cell = Children[f.cell][Len(f.refs) + 1]
  PROVE  GoodStack(WithRef(stk, e))
<1> DEFINE n == Len(stk)
           f == stk[n]
           g == AddRef(f, e)
           res == WithRef(stk, e)
<1>1. n \in Nat /\ n >= 1 /\ f \in FrameType
  BY LenProperties, ElementOfSeq DEF GoodStack
<1>2. /\ Len(res) = n /\ res[n] = g
      /\ \A k \in 1..n : k # n => res[k] = stk[k]
  BY <1>1, WithRefFacts, SMTT(30)
<1>3. /\ g.cell = f.cell
      /\ Len(g.refs) = Len(f.refs) + 1
      /\ \A i \in 1..Len(f.refs) : g.refs[i] = f.refs[i]
      /\ g.refs[Len(f.refs) + 1] = e.cell
  <2>1. g.cell = f.cell /\ g.refs = Append(f.refs, e.cell)
    BY <1>1 DEF AddRef, FrameType
  <2> QED BY <1>1, <2>1, AppendProperties DEF FrameType, Ext
<1>4. /\ GoodFrame(f) /\ Len(f.refs) \in Nat /\ Len(Children[f.cell]) \in Nat
      /\ Len(f.refs) < Len(Children[f.cell])
      /\ e.cell = Children[f.cell][Len(f.refs) + 1]
  BY <1>1, LenProperties, NodeAssumption DEF GoodStack, FrameType, New
<1>5. GoodFrame(g)
  <2> HIDE DEF f, g
  <2>1. Len(g.refs) <= Len(Children[g.cell])
    BY <1>3, <1>4
  <2>2. ASSUME NEW i \in 1..Len(g.refs) PROVE g.refs[i] = Children[g.cell][i]
    <3>1. CASE i = Len(f.refs) + 1
      BY <1>3, <1>4, <3>1
    <3>2. CASE i \in 1..Len(f.refs)
      BY <1>3, <1>4, <3>2 DEF GoodFrame
    <3> QED BY <1>3, <1>4, <3>1, <3>2
  <2> QED BY <2>1, <2>2 DEF GoodFrame
<1>6. \A k \in 1..n : GoodFrame(res[k])
  BY <1>1, <1>2, <1>5 DEF GoodStack
<1>7. \A k \in 1..(n - 1) : Entered(res[k], res[k + 1])
  <2> SUFFICES ASSUME NEW k \in 1..(n - 1) PROVE Entered(res[k], res[k + 1])
    OBVIOUS
  <2>1. res[k] = stk[k] /\ res[k + 1].cell = stk[k + 1].cell
    BY <1>1, <1>2, <1>3
  <2> QED BY <1>1, <2>1 DEF GoodStack, Entered
<1> QED BY <1>1, <1>2, <1>6, <1>7 DEF GoodStack

\* A started task has an innermost frame, of a node that is not pruned.
LEMMA TopFacts ==
  ASSUME TypeOK, StackInv, NEW t \in New, stage[t] # "absent"
  PROVE  /\ stack[t] \in Seq(FrameType) /\ Len(stack[t]) \in Nat /\ Len(stack[t]) >= 1
         /\ GoodStack(stack[t]) /\ GoodFrame(Top(t))
         /\ Top(t) \in FrameType /\ Top(t).cell \in New
         /\ Children[Top(t).cell] \in Seq(Node)
         /\ Len(Children[Top(t).cell]) \in Nat /\ Len(Top(t).refs) \in Nat
<1>1. stack[t] \in Seq(FrameType) /\ GoodStack(stack[t])
  BY DEF TypeOK, StackInv
<1>2. Len(stack[t]) \in Nat /\ Len(stack[t]) >= 1
  BY <1>1, LenProperties DEF GoodStack
<1>3. Top(t) \in FrameType /\ GoodFrame(Top(t))
  BY <1>1, <1>2, ElementOfSeq DEF Top, GoodStack
<1>4. Top(t).cell \in New /\ Top(t).refs \in Seq(Node \union {Garbage})
  BY <1>3 DEF FrameType
<1>5. Children[Top(t).cell] \in Seq(Node)
  BY <1>4, NodeAssumption DEF New
<1> QED BY <1>1, <1>2, <1>3, <1>4, <1>5, LenProperties

\* The next reference of a frame is a node other than the root.
LEMMA ChildFacts ==
  ASSUME TypeOK, StackInv, NEW t \in New, stage[t] # "absent",
         Len(Top(t).refs) < Len(Children[Top(t).cell])
  PROVE  NextChild(t) \in Node /\ NextChild(t) # Root
<1> DEFINE i == Len(Top(t).refs) + 1
<1>1. i \in 1..Len(Children[Top(t).cell])
  BY TopFacts
<1>2. Children[Top(t).cell][i] \in Node
  BY <1>1, TopFacts, ElementOfSeq
<1>3. Children[Top(t).cell][i] # Root
  BY <1>1, TopFacts, DagAssumption DEF New
<1> QED BY <1>2, <1>3 DEF NextChild

\* A frame whose references are all stored yields the rebuild of its node.
LEMMA EndFacts ==
  ASSUME TypeOK, StackInv, NEW t \in New, AtEnd(t)
  PROVE  /\ finish_children(Top(t)) \in Ext
         /\ finish_children(Top(t)).cell = Top(t).cell
<1>1. stage[t] # "absent" /\ Len(Top(t).refs) = Len(Children[Top(t).cell])
  BY DEF AtEnd
<1> DEFINE f == Top(t)
<1>2. f \in FrameType /\ GoodFrame(f) /\ Children[f.cell] \in Seq(Node)
  BY <1>1, TopFacts
<1>3. f.refs \in Seq(Node \union {Garbage}) /\ f.cell \in New /\ f.waits \in SUBSET New
  BY <1>2 DEF FrameType
<1>4. Children[f.cell] \in Seq(Node \union {Garbage})
  BY <1>2, SeqMonotonic
<1>5. f.refs = Children[f.cell]
  <2> HIDE DEF f
  <2>1. \A i \in 1..Len(f.refs) : f.refs[i] = Children[f.cell][i]
    BY <1>2 DEF GoodFrame
  <2>2. Len(f.refs) = Len(Children[f.cell])
    BY <1>1 DEF f
  <2> QED BY <1>3, <1>4, <2>1, <2>2, SeqEqual
<1>6. finish_children(f) = [cell |-> f.cell, waits |-> f.waits]
  BY <1>5 DEF finish_children, build_ext
<1> QED BY <1>3, <1>6 DEF Ext, New

-----------------------------------------------------------------------------
(* Types and stacks                                                         *)

\* A step that stores the next reference leaves a good stack.
LEMMA StoreStep ==
  ASSUME TypeOK, StackInv, NEW t \in New, stage[t] # "absent", NEW e \in Ext,
         Len(Top(t).refs) < Len(Children[Top(t).cell]), e.cell = NextChild(t)
  PROVE  /\ WithRef(stack[t], e) \in Seq(FrameType)
         /\ GoodStack(WithRef(stack[t], e))
<1>1. stack[t] \in Seq(FrameType) /\ GoodStack(stack[t]) /\ Len(stack[t]) >= 1
  BY TopFacts
<1>2. WithRef(stack[t], e) \in Seq(FrameType)
  BY <1>1, WithRefFacts
<1>3. GoodStack(WithRef(stack[t], e))
  BY <1>1, StoreGood DEF Top, NextChild
<1> QED BY <1>2, <1>3

\* A new frame, on a stack of its own or above a frame whose next reference it is.
LEMMA FrameStep ==
  ASSUME NEW n \in New, NEW d \in Nat
  PROVE  /\ Frame(n, d) \in FrameType /\ GoodFrame(Frame(n, d))
         /\ <<Frame(n, d)>> \in Seq(FrameType) /\ GoodStack(<<Frame(n, d)>>)
<1>1. Frame(n, d) \in FrameType
  BY EmptySeq DEF Frame, FrameType
<1>2. Children[n] \in Seq(Node) /\ Len(Children[n]) \in Nat
  BY NodeAssumption, LenProperties DEF New
<1>3. GoodFrame(Frame(n, d))
  BY <1>2 DEF Frame, GoodFrame
<1>4. /\ <<Frame(n, d)>> \in Seq(FrameType)
      /\ Len(<<Frame(n, d)>>) = 1 /\ <<Frame(n, d)>>[1] = Frame(n, d)
  BY <1>1
<1>5. GoodStack(<<Frame(n, d)>>)
  <2> DEFINE stk == <<Frame(n, d)>>
  <2>1. Len(stk) = 1 /\ GoodFrame(stk[1])
    BY <1>3, <1>4
  <2> HIDE DEF stk
  <2>2. GoodStack(stk)
    BY <2>1 DEF GoodStack
  <2> QED BY <2>2 DEF stk
<1> QED BY <1>1, <1>3, <1>4, <1>5

\* The stack with a frame for the next reference on top.
LEMMA PushStep ==
  ASSUME TypeOK, StackInv, NEW t \in New, stage[t] # "absent",
         Len(Top(t).refs) < Len(Children[Top(t).cell]), NextChild(t) \in New
  PROVE  LET stk == Append(stack[t], Frame(NextChild(t), Top(t).depth + 1))
         IN stk \in Seq(FrameType) /\ GoodStack(stk)
<1> DEFINE n == Len(stack[t])
           g == Frame(NextChild(t), Top(t).depth + 1)
           stk == Append(stack[t], g)
<1>1. Top(t).depth + 1 \in Nat
  BY TopFacts DEF FrameType
<1>2. g \in FrameType /\ GoodFrame(g) /\ g.cell = NextChild(t)
  BY <1>1, FrameStep DEF Frame
<1>3. stack[t] \in Seq(FrameType) /\ GoodStack(stack[t]) /\ n \in Nat /\ n >= 1
  BY TopFacts
<1>4. /\ stk \in Seq(FrameType) /\ Len(stk) = n + 1 /\ stk[n + 1] = g
      /\ \A i \in 1..n : stk[i] = stack[t][i]
  BY <1>2, <1>3, AppendProperties
<1> HIDE DEF g, stk
<1>5. \A k \in 1..Len(stk) : GoodFrame(stk[k])
  BY <1>2, <1>3, <1>4 DEF GoodStack
<1>6. ASSUME NEW k \in 1..(Len(stk) - 1) PROVE Entered(stk[k], stk[k + 1])
  <2>1. CASE k = n
    <3>1. stk[n] = Top(t) /\ stk[n + 1].cell = NextChild(t)
      BY <1>2, <1>3, <1>4 DEF Top
    <3> QED BY <2>1, <3>1 DEF Entered, NextChild
  <2>2. CASE k \in 1..(n - 1)
    BY <1>3, <1>4, <2>2, SMTT(30) DEF GoodStack
  <2> QED BY <1>3, <1>4, <2>1, <2>2
<1>7. GoodStack(stk)
  BY <1>3, <1>4, <1>5, <1>6 DEF GoodStack
<1> QED BY <1>4, <1>7 DEF g, stk

\* The frame that returns was entered for the next reference of the one below.
LEMMA PopStep ==
  ASSUME TypeOK, StackInv, NEW t \in New, AtEnd(t), Len(stack[t]) > 1
  PROVE  LET stk == WithRef(SubSeq(stack[t], 1, Len(stack[t]) - 1), finish_children(Top(t)))
         IN stk \in Seq(FrameType) /\ GoodStack(stk)
<1> DEFINE n == Len(stack[t])
           below == SubSeq(stack[t], 1, n - 1)
           e == finish_children(Top(t))
<1>1. stage[t] # "absent"
  BY DEF AtEnd
<1>2. stack[t] \in Seq(FrameType) /\ GoodStack(stack[t]) /\ n \in Nat /\ n > 1
  BY <1>1, TopFacts
<1> DEFINE m == n - 1
<1>3. m \in Nat /\ m >= 1 /\ \A i \in 1..m : stack[t][i] \in FrameType
  BY <1>2, ElementOfSeq
<1>4. /\ below \in Seq(FrameType) /\ Len(below) = m
      /\ \A i \in 1..m : below[i] = stack[t][i]
  <2>1. below = SubSeq(stack[t], 1, m)
    OBVIOUS
  <2> HIDE DEF m, below
  <2>2. /\ below \in Seq(FrameType)
        /\ Len(below) = IF 1 <= m THEN m - 1 + 1 ELSE 0
        /\ \A i \in 1..(m - 1 + 1) : below[i] = stack[t][1 + i - 1]
    BY <1>3, <2>1, SubSeqProperties
  <2> QED BY <1>3, <2>2
<1>5. GoodStack(below) /\ Entered(below[m], Top(t))
  <2>1. \A k \in 1..m : GoodFrame(below[k])
    BY <1>2, <1>3, <1>4 DEF GoodStack
  <2>2. \A k \in 1..m : Entered(stack[t][k], stack[t][k + 1])
    BY <1>2 DEF GoodStack
  <2>3. \A k \in 1..(m - 1) : below[k] = stack[t][k] /\ below[k + 1] = stack[t][k + 1]
    BY <1>3, <1>4
  <2>4. below[m] = stack[t][m] /\ Top(t) = stack[t][m + 1]
    BY <1>2, <1>3, <1>4 DEF Top
  <2> HIDE DEF m, below
  <2>5. \A k \in 1..(m - 1) : Entered(below[k], below[k + 1])
    BY <1>3, <2>2, <2>3
  <2>6. GoodStack(below)
    BY <1>3, <1>4, <2>1, <2>5 DEF GoodStack
  <2> QED BY <1>3, <2>2, <2>4, <2>6
<1>6. e \in Ext /\ e.cell = Top(t).cell
  BY EndFacts
<1> HIDE DEF m, below, e
<1>7. WithRef(below, e) \in Seq(FrameType)
  BY <1>3, <1>4, <1>6, WithRefFacts
<1>8. GoodStack(WithRef(below, e))
  BY <1>4, <1>5, <1>6, StoreGood DEF Entered
<1> QED BY <1>7, <1>8 DEF m, below, e

\* All parts of the invariant but the counts.
ShapeInv == TypeOK /\ StackInv /\ TaskInv /\ EntriesMatchKeys

\* ShapeInv holds when the map and the stages are as before and one stack changed
\* to a good one.
LEMMA OneStack ==
  ASSUME ShapeInv, NEW t \in New, stage[t] = "run",
         NEW stk \in Seq(FrameType), GoodStack(stk),
         stack' = [stack EXCEPT ![t] = stk],
         UNCHANGED <<present, new_cells, total_new_cells, stage, scope_total, value, promise, outcome, by>>
  PROVE  ShapeInv'
<1> USE DEF ShapeInv
<1>1. TypeOK'
  BY DEF TypeOK
<1>2. stack'[t] = stk /\ \A u \in New \ {t} : stack'[u] = stack[u]
  BY DEF TypeOK
<1>3. StackInv'
  BY <1>2 DEF StackInv, Top, NextChild
<1>4. TaskInv' /\ EntriesMatchKeys'
  BY DEF TaskInv, EntriesMatchKeys, Keys
<1> QED BY <1>1, <1>3, <1>4

\* A pruned branch is replaced by the cell of the same hash, or the task fails.
LEMMA PrunedShape == ASSUME ShapeInv, NEW t \in New, ResolvePruned(t) PROVE ShapeInv'
<1> USE DEF ShapeInv
<1> DEFINE c == NextChild(t)
<1>1. stage[t] = "run" /\ Len(Top(t).refs) < Len(Children[Top(t).cell])
  BY DEF ResolvePruned, AtChild
<1>2. c \in Node
  BY <1>1, ChildFacts
<1>3. CASE c \in Foreign \union present
  <2>1. Ordinary(c) \in Ext /\ Ordinary(c).cell = c
    BY <1>2 DEF Ordinary, Ext
  <2>2. WithRef(stack[t], Ordinary(c)) \in Seq(FrameType) /\ GoodStack(WithRef(stack[t], Ordinary(c)))
    BY <1>1, <2>1, StoreStep
  <2>3. stack' = [stack EXCEPT ![t] = WithRef(stack[t], Ordinary(c))]
    BY <1>3 DEF ResolvePruned, StoreReference, TypeOK
  <2> QED BY <1>1, <1>3, <2>2, <2>3, OneStack DEF ResolvePruned
<1>4. CASE c \notin Foreign \union present
  <2>1. /\ value' = [value EXCEPT ![t] = Err] /\ stage' = [stage EXCEPT ![t] = "add"]
        /\ UNCHANGED <<present, new_cells, total_new_cells, stack, scope_total, promise, outcome, by>>
    BY <1>4 DEF ResolvePruned
  <2>2. TypeOK'
    BY <2>1 DEF TypeOK, Stage
  <2>3. StackInv' /\ TaskInv' /\ EntriesMatchKeys'
    BY <1>1, <2>1 DEF TypeOK, StackInv, TaskInv, EntriesMatchKeys, Keys, Top, NextChild
  <2> QED BY <2>2, <2>3
<1> QED BY <1>3, <1>4

\* What a task finds in the map is the cell it looked for.
LEMMA HitShape == ASSUME ShapeInv, NEW t \in New, LookupHit(t) PROVE ShapeInv'
<1> USE DEF ShapeInv
<1> DEFINE c == NextChild(t)
<1>1. /\ stage[t] = "run" /\ Len(Top(t).refs) < Len(Children[Top(t).cell])
      /\ c \in New /\ new_cells[c] # None
  BY DEF LookupHit, AtChild
<1>2. new_cells[c] \in Ext /\ new_cells[c].cell = c
  BY <1>1 DEF TypeOK, EntriesMatchKeys, Keys
<1>3. WithRef(stack[t], new_cells[c]) \in Seq(FrameType) /\ GoodStack(WithRef(stack[t], new_cells[c]))
  BY <1>1, <1>2, StoreStep
<1>4. stack' = [stack EXCEPT ![t] = WithRef(stack[t], new_cells[c])]
  BY DEF LookupHit, StoreReference, TypeOK
<1> QED BY <1>1, <1>3, <1>4, OneStack DEF LookupHit

\* A cell that is not in the map gets a frame, or the lock of its entry.
LEMMA MissShape == ASSUME ShapeInv, NEW t \in New, LookupMiss(t) PROVE ShapeInv'
<1> USE DEF ShapeInv
<1> DEFINE c == NextChild(t)
           own == t = Root /\ Top(t).depth > RootSplit /\ Depth[c] > ChildSplit
<1>1. /\ stage[t] = "run" /\ Len(Top(t).refs) < Len(Children[Top(t).cell])
      /\ c \in New /\ new_cells[c] = None
  BY DEF LookupMiss, AtChild
<1>2. CASE own
  <2>1. /\ stage' = [stage EXCEPT ![t] = "entry"]
        /\ UNCHANGED <<present, new_cells, total_new_cells, stack, scope_total, value, promise, outcome, by>>
    BY <1>2 DEF LookupMiss
  <2>2. TypeOK'
    BY <2>1 DEF TypeOK, Stage
  <2>3. TaskInv' /\ EntriesMatchKeys'
    BY <1>1, <2>1 DEF TypeOK, TaskInv, EntriesMatchKeys, Keys
  <2>4. StackInv'
    BY <1>1, <2>1 DEF TypeOK, StackInv, Top, NextChild
  <2> QED BY <2>2, <2>3, <2>4
<1>3. CASE ~own
  <2> DEFINE stk == Append(stack[t], Frame(c, Top(t).depth + 1))
  <2>1. stk \in Seq(FrameType) /\ GoodStack(stk)
    BY <1>1, PushStep
  <2>2. stack' = [stack EXCEPT ![t] = stk]
    BY <1>3 DEF LookupMiss, TypeOK
  <2>3. UNCHANGED <<present, new_cells, total_new_cells, stage, scope_total, value, promise, outcome, by>>
    BY <1>3 DEF LookupMiss
  <2> HIDE DEF stk
  <2> QED BY <1>1, <2>1, <2>2, <2>3, OneStack
<1> QED BY <1>2, <1>3

\* Under the lock, the cell found is the one looked for, or a task is started for it.
LEMMA EntryShape == ASSUME ShapeInv, NEW t \in New, Entry(t) PROVE ShapeInv'
<1> USE DEF ShapeInv
<1> DEFINE c == NextChild(t)
<1>1. /\ stage[t] = "entry" /\ Len(Top(t).refs) < Len(Children[Top(t).cell])
      /\ c \in New
  BY DEF Entry, StackInv
<1>2. CASE new_cells[c] # None
  <2> DEFINE stk == WithRef(stack[t], new_cells[c])
  <2>1. new_cells[c] \in Ext /\ new_cells[c].cell = c
    BY <1>1, <1>2 DEF TypeOK, EntriesMatchKeys, Keys
  <2>2. stk \in Seq(FrameType) /\ GoodStack(stk)
    BY <1>1, <2>1, StoreStep
  <2>3. /\ stack' = [stack EXCEPT ![t] = stk] /\ stage' = [stage EXCEPT ![t] = "run"]
        /\ UNCHANGED <<present, new_cells, total_new_cells, scope_total, value, promise, outcome, by>>
    BY <1>2 DEF Entry, StoreReference, TypeOK
  <2> HIDE DEF stk
  <2>4. TypeOK'
    BY <2>2, <2>3 DEF TypeOK, Stage
  <2>5. StackInv'
    BY <2>2, <2>3 DEF TypeOK, StackInv, Top, NextChild
  <2>6. TaskInv' /\ EntriesMatchKeys'
    BY <1>1, <2>3 DEF TypeOK, TaskInv, EntriesMatchKeys, Keys
  <2> QED BY <2>4, <2>5, <2>6
<1>3. CASE new_cells[c] = None
  <2> DEFINE stk == WithRef(stack[t], Deferred(c))
             own == <<Frame(c, Top(t).depth + 1)>>
  <2>1. Deferred(c) \in Ext /\ Deferred(c).cell = c
    BY <1>1 DEF Deferred, Ext, New
  <2>2. stk \in Seq(FrameType) /\ GoodStack(stk)
    BY <1>1, <2>1, StoreStep
  <2>3. Top(t).depth + 1 \in Nat
    BY <1>1, TopFacts DEF FrameType
  <2>4. own \in Seq(FrameType) /\ GoodStack(own)
    BY <1>1, <2>3, FrameStep
  <2>5. c # t
    \* A task that holds the entry of c is not the task of c: that one is started
    \* with the entry, or is the root, which is nobody's reference.
    <3>1. c # Root
      BY <1>1, ChildFacts
    <3> QED BY <1>1, <1>3, <3>1 DEF TaskInv
  <2>6. /\ new_cells' = [new_cells EXCEPT ![c] = Deferred(c)]
        /\ scope_total' = [scope_total EXCEPT ![t] = @ + 1]
        /\ stage' = [stage EXCEPT ![t] = "run", ![c] = "run"]
        /\ by' = [by EXCEPT ![c] = IF @ = None THEN t ELSE @]
        /\ UNCHANGED <<present, total_new_cells, value, promise, outcome>>
    BY <1>3 DEF Entry, Spawn
  <2>7. stack' = [stack EXCEPT ![t] = stk, ![c] = own]
    BY <1>3 DEF Entry, Spawn, TypeOK
  <2> HIDE DEF stk, own
  <2>8. TypeOK'
    <3>1. stack' \in [New -> Seq(FrameType)]
      BY <2>2, <2>4, <2>7 DEF TypeOK
    <3>2. new_cells' \in [New -> Ext \union {None}] /\ stage' \in [New -> Stage]
      BY <2>1, <2>6 DEF TypeOK, Stage
    <3>3. scope_total' \in [New -> Nat]
      BY <2>6 DEF TypeOK
    <3>4. by' \in [New -> New \union {None}]
      <4> HIDE DEF c
      <4> QED BY <2>6 DEF TypeOK
    <3> QED BY <2>6, <3>1, <3>2, <3>3, <3>4 DEF TypeOK
  <2>9. StackInv'
    <3>1. /\ stack'[t] = stk /\ stack'[c] = own /\ stage'[t] = "run" /\ stage'[c] = "run"
          /\ \A u \in New \ {t, c} : stack'[u] = stack[u] /\ stage'[u] = stage[u]
      BY <1>1, <2>5, <2>6, <2>7 DEF TypeOK
    <3> QED BY <2>2, <2>4, <3>1 DEF StackInv, Top, NextChild
  <2>10. TaskInv' /\ EntriesMatchKeys'
    <3>1. new_cells'[c] = Deferred(c) /\ \A n \in New \ {c} : new_cells'[n] = new_cells[n]
      BY <1>1, <2>6 DEF TypeOK
    <3>2. Deferred(c) # None
      BY <2>1, ResultAssumption
    <3> QED BY <1>1, <2>1, <2>6, <3>1, <3>2 DEF TypeOK, TaskInv, EntriesMatchKeys, Keys
  <2> QED BY <2>8, <2>9, <2>10
<1> QED BY <1>2, <1>3

\* A rebuilt cell goes under its own key and is the reference of the frame below.
LEMMA InsertShape == ASSUME ShapeInv, NEW t \in New, Insert(t) PROVE ShapeInv'
<1> USE DEF ShapeInv
<1> DEFINE c == Top(t).cell
           e == finish_children(Top(t))
           stk == WithRef(SubSeq(stack[t], 1, Len(stack[t]) - 1), e)
           one == IF new_cells[c] = None THEN 1 ELSE 0
<1>1. AtEnd(t) /\ Len(stack[t]) > 1 /\ stage[t] = "run"
  BY DEF Insert, AtEnd
<1>2. c \in New
  BY <1>1, TopFacts
<1>3. e \in Ext /\ e.cell = c
  BY <1>1, EndFacts
<1>4. stk \in Seq(FrameType) /\ GoodStack(stk)
  BY <1>1, PopStep
<1>5. /\ new_cells' = [new_cells EXCEPT ![c] = e]
      /\ scope_total' = [scope_total EXCEPT ![t] = @ + one]
      /\ stack' = [stack EXCEPT ![t] = stk]
      /\ by' = [by EXCEPT ![c] = IF @ = None THEN t ELSE @]
      /\ UNCHANGED <<present, total_new_cells, stage, value, promise, outcome>>
  BY DEF Insert
<1>6. one \in Nat
  OBVIOUS
<1> HIDE DEF c, e, stk, one
<1>7. TypeOK'
  <2>1. stack' \in [New -> Seq(FrameType)] /\ new_cells' \in [New -> Ext \union {None}]
    BY <1>3, <1>4, <1>5 DEF TypeOK
  <2>2. scope_total' \in [New -> Nat]
    BY <1>5, <1>6 DEF TypeOK
  <2>3. by' \in [New -> New \union {None}]
    BY <1>5 DEF TypeOK
  <2> QED BY <1>5, <2>1, <2>2, <2>3 DEF TypeOK
<1>8. StackInv'
  <2>1. stack'[t] = stk /\ \A u \in New \ {t} : stack'[u] = stack[u]
    BY <1>5 DEF TypeOK
  <2> QED BY <1>1, <1>4, <1>5, <2>1 DEF StackInv, Top, NextChild
<1>9. TaskInv' /\ EntriesMatchKeys'
  <2>1. new_cells'[c] = e /\ \A n \in New \ {c} : new_cells'[n] = new_cells[n]
    BY <1>2, <1>5 DEF TypeOK
  <2>2. e # None
    BY <1>3, ResultAssumption
  <2> QED BY <1>3, <1>5, <2>1, <2>2 DEF TaskInv, EntriesMatchKeys, Keys
<1> QED BY <1>7, <1>8, <1>9

\* The steps at the end of a task, and the end of apply, leave map and stacks alone.
LEMMA EndShape ==
  ASSUME ShapeInv, NEW t \in New, Finish(t) \/ AddTotal(t) \/ SetPromise(t)
  PROVE  ShapeInv'
<1> USE DEF ShapeInv
<1>1. /\ UNCHANGED <<new_cells, stack>> /\ stage[t] # "absent"
      /\ \E l \in {"add", "set", "done"} : stage' = [stage EXCEPT ![t] = l]
  BY DEF Finish, AddTotal, SetPromise, AtEnd
<1>2. TypeOK'
  <2>1. CASE Finish(t)
    <3>1. finish_children(Top(t)) \in Ext
      BY <2>1, EndFacts DEF Finish
    <3> QED BY <2>1, <3>1 DEF Finish, TypeOK, Stage
  <2>2. CASE AddTotal(t)
    BY <2>2 DEF AddTotal, TypeOK, Stage
  <2>3. CASE SetPromise(t)
    BY <2>3 DEF SetPromise, TypeOK, Stage
  <2> QED BY <2>1, <2>2, <2>3
<1>3. StackInv' /\ TaskInv' /\ EntriesMatchKeys'
  BY <1>1 DEF TypeOK, StackInv, TaskInv, EntriesMatchKeys, Keys, Top, NextChild
<1> QED BY <1>2, <1>3

\* The end of apply leaves the map and the tasks alone.
LEMMA ResolveShape == ASSUME ShapeInv, Resolve PROVE ShapeInv'
<1> USE DEF ShapeInv
<1>1. UNCHANGED <<present, new_cells, total_new_cells, stage, stack, scope_total, value, promise, by>>
  BY DEF Resolve, taskVars
<1>2. \A c : Result(c) \in [cell : {Root}, count : Nat] \union {None, Err}
  BY DEF Result, TypeOK
<1>3. outcome' \in [cell : {Root}, count : Nat] \union {None, Err}
  BY <1>2 DEF Resolve
<1>4. TypeOK'
  BY <1>1, <1>3 DEF TypeOK
<1>5. StackInv' /\ TaskInv' /\ EntriesMatchKeys'
  BY <1>1 DEF StackInv, TaskInv, EntriesMatchKeys, Keys, Top, NextChild
<1> QED BY <1>4, <1>5

\* Every step preserves the shape of the map and of the stacks.
LEMMA ShapeStep == ShapeInv /\ [Next]_vars => ShapeInv'
<1> SUFFICES ASSUME ShapeInv, [Next]_vars PROVE ShapeInv'
  OBVIOUS
<1>1. ASSUME NEW t \in New, Step(t) PROVE ShapeInv'
  BY <1>1, PrunedShape, HitShape, MissShape, EntryShape, InsertShape, EndShape DEF Step
<1>2. CASE UNCHANGED vars
  BY <1>2 DEF vars, ShapeInv, TypeOK, StackInv, TaskInv, EntriesMatchKeys, Keys, Top, NextChild
<1> QED BY <1>1, <1>2, ResolveShape DEF Next

-----------------------------------------------------------------------------
(* Counts                                                                   *)

\* The counts hold when no cell is new and no task has added its count.
LEMMA QuietCount ==
  ASSUME TypeOK, CountInv, UNCHANGED <<by, scope_total, total_new_cells>>,
         \A n \in New : new_cells'[n] = None <=> new_cells[n] = None,
         \A t \in New : stage[t] # "absent" => stage'[t] # "absent",
         \A t \in New : stage'[t] \in {"set", "done"} <=> stage[t] \in {"set", "done"}
  PROVE  CountInv'
<1>1. \A n \in New : by[n] # None => by[n] \in New
  BY DEF TypeOK
<1>2. Added' = Added
  BY <1>1 DEF Added
<1>3. \A t \in New : Share(t)' = Share(t)
  BY DEF Share
<1> QED BY <1>1, <1>2, <1>3 DEF CountInv

\* The counts hold when a running task puts a new cell into the map and counts it.
LEMMA ShareCount ==
  ASSUME TypeOK, CountInv, NEW t \in New, NEW c \in New, new_cells[c] = None,
         by' = [by EXCEPT ![c] = t], scope_total' = [scope_total EXCEPT ![t] = @ + 1],
         UNCHANGED total_new_cells,
         new_cells'[c] # None, \A n \in New \ {c} : new_cells'[n] = new_cells[n],
         stage[t] \notin {"absent", "set", "done"}, stage'[t] = "run",
         \A u \in New : stage[u] # "absent" => stage'[u] # "absent",
         \A u \in New : stage'[u] \in {"set", "done"} <=> stage[u] \in {"set", "done"}
  PROVE  CountInv'
<1>1. \A n \in New : by[n] # None => by[n] \in New
  BY DEF TypeOK
<1>2. by[c] = None /\ by'[c] = t /\ \A n \in New \ {c} : by'[n] = by[n]
  BY DEF TypeOK, CountInv
<1>3. t # None
  BY NodeAssumption DEF New
<1>4. Added' = Added
  BY <1>1, <1>2, <1>3 DEF Added
<1>5. \A u \in New \ {t} : Share(u)' = Share(u)
  BY <1>2, NodeAssumption DEF Share, New
<1>6. Share(t)' = Share(t) \union {c} /\ c \notin Share(t)
  BY <1>2, <1>3 DEF Share
<1>7. IsFiniteSet(Share(t))
  BY NodeAssumption, FS_Subset DEF Share, New
<1>8. Cardinality(Share(t)') = Cardinality(Share(t)) + 1
  BY <1>6, <1>7, FS_AddElement
<1>9. \A u \in New : scope_total'[u] = Cardinality(Share(u)')
  <2>1. scope_total'[t] = scope_total[t] + 1 /\ \A u \in New \ {t} : scope_total'[u] = scope_total[u]
    BY DEF TypeOK
  <2> QED BY <1>5, <1>8, <2>1 DEF CountInv
<1>10. \A n \in New : by'[n] = None <=> new_cells'[n] = None
  BY <1>2, <1>3 DEF CountInv
<1>11. \A n \in New : by'[n] # None => stage'[by'[n]] # "absent"
  BY <1>1, <1>2 DEF CountInv
<1> QED BY <1>4, <1>9, <1>10, <1>11 DEF CountInv

\* The share a task adds to the counter has not been added before.
LEMMA AddCount ==
  ASSUME TypeOK, CountInv, NEW t \in New, AddTotal(t)
  PROVE  CountInv'
<1>1. /\ UNCHANGED <<by, new_cells, scope_total>> /\ stage[t] = "add"
      /\ stage'[t] \in {"set", "done"} /\ \A u \in New \ {t} : stage'[u] = stage[u]
      /\ total_new_cells' = total_new_cells + scope_total[t]
  BY DEF AddTotal, TypeOK
<1>2. t # None /\ \A n \in New : by[n] # None => by[n] \in New
  BY NodeAssumption DEF New, TypeOK
<1>3. Added' = Added \union Share(t) /\ Added \intersect Share(t) = {}
  BY <1>1, <1>2 DEF Added, Share
<1>4. IsFiniteSet(Added) /\ IsFiniteSet(Share(t))
  BY NodeAssumption, FS_Subset DEF Added, Share, New
<1>5. Cardinality(Added') = Cardinality(Added) + Cardinality(Share(t))
  <2>1. Cardinality(Added \union Share(t))
          = Cardinality(Added) + Cardinality(Share(t)) - Cardinality(Added \intersect Share(t))
    BY <1>4, FS_Union
  <2>2. Cardinality(Added \intersect Share(t)) = 0
    BY <1>3, FS_EmptySet
  <2>3. Cardinality(Added) \in Nat /\ Cardinality(Share(t)) \in Nat
    BY <1>4, FS_CardinalityType
  <2> QED BY <1>3, <2>1, <2>2, <2>3
<1>6. total_new_cells' = Cardinality(Added')
  BY <1>1, <1>5 DEF CountInv
<1>7. \A u \in New : scope_total'[u] = Cardinality(Share(u)')
  BY <1>1 DEF CountInv, Share
<1>8. /\ \A n \in New : by'[n] = None <=> new_cells'[n] = None
      /\ \A n \in New : by'[n] # None => stage'[by'[n]] # "absent"
  BY <1>1, <1>2 DEF CountInv
<1> QED BY <1>6, <1>7, <1>8 DEF CountInv

\* Under the lock of its entry a cell is counted by the task that starts its task.
LEMMA EntryCount == ASSUME IInv, NEW t \in New, Entry(t) PROVE CountInv'
<1> USE DEF IInv
<1> DEFINE c == NextChild(t)
<1>1. /\ stage[t] = "entry" /\ c \in New
      /\ Len(Top(t).refs) < Len(Children[Top(t).cell])
  BY DEF Entry, StackInv
<1>2. CASE new_cells[c] # None
  <2>1. /\ stage' = [stage EXCEPT ![t] = "run"]
        /\ UNCHANGED <<new_cells, total_new_cells, scope_total, by>>
    BY <1>2 DEF Entry
  <2>2. stage'[t] = "run" /\ \A u \in New \ {t} : stage'[u] = stage[u]
    BY <2>1 DEF TypeOK
  <2> QED BY <1>1, <2>1, <2>2, QuietCount
<1>3. CASE new_cells[c] = None
  <2>1. c # Root
    BY <1>1, ChildFacts
  <2>2. stage[c] = "absent"
    BY <1>1, <1>3, <2>1 DEF TaskInv
  <2>3. by[c] = None
    BY <1>1, <1>3 DEF CountInv
  <2>4. /\ new_cells' = [new_cells EXCEPT ![c] = Deferred(c)]
        /\ scope_total' = [scope_total EXCEPT ![t] = @ + 1]
        /\ stage' = [stage EXCEPT ![t] = "run", ![c] = "run"]
        /\ by' = [by EXCEPT ![c] = t]
        /\ UNCHANGED total_new_cells
    BY <1>1, <1>3, <2>3 DEF Entry, Spawn, TypeOK
  <2>5. Deferred(c) # None
    BY <1>1, ResultAssumption DEF Deferred, Ext, New
  <2>6. /\ stage'[t] = "run" /\ stage'[c] = "run"
        /\ \A u \in New \ {t, c} : stage'[u] = stage[u]
    BY <1>1, <2>4 DEF TypeOK
  <2>7. /\ \A u \in New : stage[u] # "absent" => stage'[u] # "absent"
        /\ \A u \in New : stage'[u] \in {"set", "done"} <=> stage[u] \in {"set", "done"}
    BY <1>1, <2>2, <2>6
  <2>8. new_cells'[c] # None /\ \A n \in New \ {c} : new_cells'[n] = new_cells[n]
    BY <1>1, <2>4, <2>5 DEF TypeOK
  <2> HIDE DEF c
  <2> QED BY <1>1, <1>3, <2>4, <2>6, <2>7, <2>8, ShareCount
<1> QED BY <1>2, <1>3

\* A cell that is rebuilt inline is counted when nothing was under its key.
LEMMA InsertCount == ASSUME IInv, NEW t \in New, Insert(t) PROVE CountInv'
<1> USE DEF IInv
<1> DEFINE c == Top(t).cell
           e == finish_children(Top(t))
<1>1. AtEnd(t) /\ stage[t] = "run"
  BY DEF Insert, AtEnd
<1>2. c \in New /\ e # None
  BY <1>1, TopFacts, EndFacts, ResultAssumption
<1>3. /\ new_cells' = [new_cells EXCEPT ![c] = e]
      /\ scope_total' = [scope_total EXCEPT ![t] = @ + (IF new_cells[c] = None THEN 1 ELSE 0)]
      /\ by' = [by EXCEPT ![c] = IF @ = None THEN t ELSE @]
      /\ UNCHANGED <<total_new_cells, stage>>
  BY DEF Insert
<1>4. new_cells'[c] = e /\ \A n \in New \ {c} : new_cells'[n] = new_cells[n]
  BY <1>2, <1>3 DEF TypeOK
<1> HIDE DEF c, e
<1>5. CASE new_cells[c] = None
  <2>1. by[c] = None
    BY <1>2, <1>5 DEF CountInv
  <2>2. by' = [by EXCEPT ![c] = t]
    BY <1>2, <1>3, <2>1 DEF TypeOK
  <2>3. scope_total' = [scope_total EXCEPT ![t] = @ + 1]
    BY <1>3, <1>5
  <2> QED BY <1>1, <1>2, <1>3, <1>4, <1>5, <2>2, <2>3, ShareCount
<1>6. CASE new_cells[c] # None
  <2>1. by[c] # None
    BY <1>2, <1>6 DEF CountInv
  <2>2. by' = by
    BY <1>2, <1>3, <2>1 DEF TypeOK
  <2>3. scope_total' = scope_total
    BY <1>3, <1>6 DEF TypeOK
  <2>4. \A n \in New : new_cells'[n] = None <=> new_cells[n] = None
    BY <1>2, <1>4, <1>6
  <2> QED BY <1>3, <2>2, <2>3, <2>4, QuietCount
<1> QED BY <1>5, <1>6

\* Every step preserves the counts.
LEMMA CountStep == IInv /\ [Next]_vars => CountInv'
<1> SUFFICES ASSUME IInv, [Next]_vars PROVE CountInv'
  OBVIOUS
<1> USE DEF IInv
<1>1. ASSUME NEW t \in New, ResolvePruned(t) \/ LookupMiss(t) \/ Finish(t) \/ SetPromise(t)
      PROVE  CountInv'
  <2>1. /\ UNCHANGED <<new_cells, total_new_cells, scope_total, by>>
        /\ \/ UNCHANGED stage
           \/ stage[t] = "run" /\ stage' = [stage EXCEPT ![t] = "add"]
           \/ stage[t] = "run" /\ stage' = [stage EXCEPT ![t] = "entry"]
           \/ stage[t] = "set" /\ stage' = [stage EXCEPT ![t] = "done"]
    BY <1>1 DEF ResolvePruned, LookupMiss, Finish, SetPromise, AtChild, AtEnd
  <2>2. /\ \A u \in New : stage[u] # "absent" => stage'[u] # "absent"
        /\ \A u \in New : stage'[u] \in {"set", "done"} <=> stage[u] \in {"set", "done"}
    BY <2>1 DEF TypeOK
  <2> QED BY <2>1, <2>2, QuietCount
<1>2. ASSUME NEW t \in New, LookupHit(t) PROVE CountInv'
  BY <1>2, QuietCount DEF LookupHit
<1>3. CASE Resolve
  BY <1>3, QuietCount DEF Resolve, taskVars
<1>4. CASE UNCHANGED vars
  BY <1>4, QuietCount DEF vars
<1> QED BY <1>1, <1>2, <1>3, <1>4, EntryCount, InsertCount, AddCount DEF Next, Step

-----------------------------------------------------------------------------
(* The theorems                                                             *)

\* The invariant holds when the first task starts at the root.
LEMMA InitIInv == Init => IInv
<1> SUFFICES ASSUME Init PROVE IInv
  OBVIOUS
<1>1. Frame(Root, 0) \in FrameType /\ <<Frame(Root, 0)>> \in Seq(FrameType) /\ GoodStack(<<Frame(Root, 0)>>)
  BY NodeAssumption, FrameStep
<1>2. TypeOK
  <2>1. stack \in [New -> Seq(FrameType)]
    BY <1>1, EmptySeq DEF Init
  <2>2. stage \in [New -> Stage]
    BY DEF Init, Stage
  <2> QED BY <2>1, <2>2 DEF Init, TypeOK
<1>3. StackInv /\ TaskInv /\ EntriesMatchKeys
  BY <1>1 DEF Init, StackInv, TaskInv, EntriesMatchKeys, Keys
<1>4. CountInv
  <2>1. \A t \in New : Share(t) = {}
    BY NodeAssumption DEF Init, Share, New
  <2>2. Added = {}
    BY DEF Init, Added
  <2> QED BY <2>1, <2>2, FS_EmptySet DEF Init, CountInv
<1> QED BY <1>2, <1>3, <1>4 DEF IInv

\* The invariant holds in every state of every apply, for every tree of cells.
THEOREM Invariance == Spec => []IInv
<1>1. IInv /\ [Next]_vars => IInv'
  BY ShapeStep, CountStep DEF IInv, ShapeInv
<1> QED BY <1>1, InitIInv, PTL DEF Spec

\* Every variable keeps its type: no task ever stores nothing as a reference.
THEOREM TypeCorrect == Spec => []TypeOK
<1>1. IInv => TypeOK
  BY DEF IInv
<1> QED BY <1>1, Invariance, PTL

\* Whatever a task takes from new_cells under a hash is the cell of that hash.
THEOREM EntriesMatchKeysCorrect == Spec => []EntriesMatchKeys
<1>1. IInv => EntriesMatchKeys
  BY DEF IInv
<1> QED BY <1>1, Invariance, PTL

\* When the scope has ended, the tasks have counted every cell of new_cells once.
THEOREM CountIsKeysCorrect == Spec => []CountIsKeys
<1>1. IInv => CountIsKeys
  <2> SUFFICES ASSUME IInv, ScopeEnded PROVE total_new_cells = Cardinality(Keys)
    BY DEF CountIsKeys
  <2>1. \A n \in New : by[n] # None => by[n] \in New /\ stage[by[n]] = "done"
    BY DEF IInv, TypeOK, CountInv, ScopeEnded
  <2>2. Added = Keys
    BY <2>1 DEF IInv, CountInv, Added, Keys
  <2> QED BY <2>2 DEF IInv, CountInv
<1> QED BY <1>1, Invariance, PTL

\* Only the last step of a task sets its promise.
PromiseInv == \A n \in New : promise[n] # None => stage[n] = "done"

\* The step of a task that is not done leaves the promise of every other task, and
\* the stage of every task that is done, as they were.
LEMMA DoneStays ==
  ASSUME IInv, PromiseInv, NEW t \in New, Step(t)
  PROVE  /\ stage[t] # "done"
         /\ \A n \in New : stage[n] = "done" => stage'[n] = "done" /\ promise'[n] = promise[n]
         /\ \A n \in New : promise'[n] # promise[n] => stage'[n] = "done"
<1> USE DEF IInv, TypeOK
<1>1. CASE Entry(t)
  <2> DEFINE c == NextChild(t)
  <2>1. stage[t] = "entry" /\ UNCHANGED promise
    BY <1>1 DEF Entry
  <2>2. c \in New /\ c # Root
    BY <2>1, ChildFacts DEF StackInv
  <2>3. CASE new_cells[c] # None
    BY <1>1, <2>1, <2>3 DEF Entry
  <2>4. CASE new_cells[c] = None
    <3>1. stage[c] = "absent"
      BY <2>2, <2>4 DEF TaskInv
    <3>2. stage' = [stage EXCEPT ![t] = "run", ![c] = "run"]
      BY <1>1, <2>4 DEF Entry, Spawn
    <3> QED BY <2>1, <2>2, <3>1, <3>2
  <2> QED BY <2>3, <2>4
<1>2. CASE SetPromise(t)
  BY <1>2 DEF SetPromise
<1>3. CASE ResolvePruned(t) \/ LookupHit(t) \/ LookupMiss(t) \/ Insert(t) \/ Finish(t) \/ AddTotal(t)
  <2>1. /\ UNCHANGED promise /\ stage[t] # "done"
        /\ \/ UNCHANGED stage
           \/ \E l \in Stage : stage' = [stage EXCEPT ![t] = l]
    BY <1>3 DEF ResolvePruned, LookupHit, LookupMiss, Insert, Finish, AddTotal, AtChild, AtEnd, Stage
  <2> QED BY <2>1
<1> QED BY <1>1, <1>2, <1>3 DEF Step

\* No step takes an entry out of the map.
LEMMA KeysStay ==
  ASSUME IInv, NEW t \in New, Step(t), NEW n \in New, new_cells[n] # None
  PROVE  new_cells'[n] # None
<1> USE DEF IInv
<1>1. CASE Entry(t)
  <2> DEFINE c == NextChild(t)
  <2>1. c \in New
    BY <1>1 DEF Entry, StackInv
  <2>2. Deferred(c) # None
    BY <2>1, ResultAssumption DEF Deferred, Ext, New
  <2> QED BY <1>1, <2>1, <2>2 DEF Entry, Spawn, TypeOK
<1>2. CASE Insert(t)
  <2>1. AtEnd(t)
    BY <1>2 DEF Insert
  <2>2. finish_children(Top(t)) # None
    BY <2>1, EndFacts, ResultAssumption
  <2>3. new_cells' = [new_cells EXCEPT ![Top(t).cell] = finish_children(Top(t))]
    BY <1>2 DEF Insert
  <2> QED BY <2>2, <2>3 DEF TypeOK
<1>3. CASE ~Entry(t) /\ ~Insert(t)
  <2>1. UNCHANGED new_cells
    BY <1>3 DEF Step, ResolvePruned, LookupHit, LookupMiss, Finish, AddTotal, SetPromise
  <2> QED BY <2>1
<1> QED BY <1>1, <1>2, <1>3

\* No step takes a cell out of new_cells, or sets a promise a second time.
THEOREM NothingForgottenCorrect == Spec => NothingForgotten
<1>1. Init => PromiseInv
  BY DEF Init, PromiseInv
<1>2. IInv /\ PromiseInv /\ [Next]_vars => PromiseInv'
  <2> SUFFICES ASSUME IInv, PromiseInv, [Next]_vars PROVE PromiseInv'
    OBVIOUS
  <2>1. ASSUME NEW t \in New, Step(t) PROVE PromiseInv'
    BY <2>1, DoneStays DEF PromiseInv
  <2>2. CASE Resolve
    BY <2>2 DEF Resolve, taskVars, PromiseInv
  <2>3. CASE UNCHANGED vars
    BY <2>3 DEF vars, PromiseInv
  <2> QED BY <2>1, <2>2, <2>3 DEF Next
<1>3. IInv /\ PromiseInv /\ [Next]_vars =>
        [\A n \in New : /\ new_cells[n] # None => new_cells'[n] # None
                        /\ promise[n] # None => promise'[n] = promise[n]]_vars
  <2> SUFFICES ASSUME IInv, PromiseInv, Next, NEW n \in New
               PROVE  /\ new_cells[n] # None => new_cells'[n] # None
                      /\ promise[n] # None => promise'[n] = promise[n]
    OBVIOUS
  <2>1. CASE Resolve
    BY <2>1 DEF Resolve
  <2>2. ASSUME NEW t \in New, Step(t)
        PROVE  /\ new_cells[n] # None => new_cells'[n] # None
               /\ promise[n] # None => promise'[n] = promise[n]
    BY <2>2, DoneStays, KeysStay DEF PromiseInv
  <2> QED BY <2>1, <2>2 DEF Next
<1> QED BY <1>1, <1>2, <1>3, Invariance, PTL DEF Spec, NothingForgotten
=============================================================================
