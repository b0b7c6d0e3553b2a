--------------------------- MODULE UsageTreeProofs ---------------------------
(***************************************************************************)
(* Proofs, for any number of threads and any forest of cells, that the     *)
(* usage tree records what is used and that nothing escapes a live tree.   *)
(***************************************************************************)
EXTENDS UsageTree, TLAPS

\* A thread inside a method has a usage cell; the points of load_reference
\* after the Once are reached only for a slot that is done, those that record
\* the child only in OnLoad mode and for a child that exists.
ThreadInv ==
  \A t \in Thread :
    /\ pc[t] # "idle" => at[t] \in Node
    /\ pc[t] = "ref_init" => once[<<at[t], ix[t]>>] = "running"
    /\ pc[t] \in {"ref_upgrade", "ref_insert", "ref_orphan", "ref_return"}
         => once[<<at[t], ix[t]>>] = "done"
    /\ pc[t] \in {"ref_upgrade", "ref_insert", "ref_orphan"}
         => Mode = "OnLoad" /\ Child[<<at[t], ix[t]>>] # NoNode
    /\ pc[t] \in DataPC => Mode = "OnDataAccess"

\* Two threads are never in the closure of one Once.
MutexInv ==
  \A t, u \in Thread :
    pc[t] = "ref_init" /\ pc[u] = "ref_init" /\ at[t] = at[u] /\ ix[t] = ix[u] => t = u

\* Who gave up tracking did so because the owner was gone.
OrphanInv ==
  owner => /\ \A t \in Thread : pc[t] \notin {"data_orphan", "ref_orphan"}
           /\ orphaned = {} /\ escaped = {}

\* OnLoad: a finished slot has its child recorded or about to be.
LoadInv ==
  Mode = "OnLoad" =>
    /\ inserted = Node
    /\ \A n \in returned : \E s \in Node \X Slot : Child[s] = n /\ once[s] = "done"
    /\ owner => \A n \in tracked : Recorded(n)
    /\ owner => \A s \in Node \X Slot :
         once[s] = "done" /\ Child[s] # NoNode =>
           Recorded(Child[s]) \/ \E t \in Thread : Pending(t, Child[s])

\* OnDataAccess: `inserted` and the step that sets it come after the record.
DataInv ==
  Mode = "OnDataAccess" =>
    /\ read \subseteq inserted
    /\ owner => \A n \in inserted : Recorded(n)
    /\ owner => \A t \in Thread : pc[t] = "data_mark" => Recorded(at[t])

IInv == TypeOK /\ ThreadInv /\ MutexInv /\ OrphanInv /\ LoadInv /\ DataInv

-----------------------------------------------------------------------------

USE DEF Slot, PC, DataPC, RefPC

\* The invariant holds before anything is tracked.
LEMMA InitIInv == Init => IInv
<1> SUFFICES ASSUME Init PROVE IInv
  OBVIOUS
<1> USE ModeAssumption, NodeAssumption DEF Init
<1>1. owner \in BOOLEAN /\ extended \in BOOLEAN
  BY Zenon
<1>2. TypeOK
  BY <1>1 DEF TypeOK
<1>3. ThreadInv /\ MutexInv /\ OrphanInv
  BY DEF ThreadInv, MutexInv, OrphanInv
<1>4. LoadInv
  BY DEF LoadInv
<1>5. DataInv
  BY DEF DataInv
<1> QED BY <1>2, <1>3, <1>4, <1>5 DEF IInv

\* The type invariant holds initially and is preserved by every step; it needs
\* the part of ThreadInv that says where the threads are.
LEMMA TypeStep == TypeOK /\ ThreadInv /\ [Next]_vars => TypeOK'
<1> SUFFICES ASSUME TypeOK, ThreadInv, [Next]_vars PROVE TypeOK'
  OBVIOUS
<1> USE ModeAssumption, NodeAssumption DEF TypeOK, treeVars, cellVars, threadVars, histVars
<1>1. CASE Owner
  <2>1. owner' \in BOOLEAN /\ extended' \in BOOLEAN
    BY <1>1, Zenon DEF Owner, Track, WithSubtrees, AddSubtree, DropTree
  <2> QED BY <1>1, <2>1 DEF Owner, Track, WithSubtrees, AddSubtree, DropTree
<1>2. ASSUME NEW t \in Thread, Call(t) PROVE TypeOK'
  <2>1. ASSUME NEW n \in Node, DataCall(t, n) PROVE TypeOK'
    BY <2>1 DEF DataCall, Enter, Goto
  <2>2. ASSUME NEW s \in Asked, RefCall(t, s[1], s[2]) PROVE TypeOK'
    BY <2>2 DEF RefCall, Enter, Goto
  <2> QED BY <1>2, <2>1, <2>2 DEF Call
<1>3. ASSUME NEW t \in Thread, Progress(t) PROVE TypeOK'
  <2>0. pc[t] # "idle" => at[t] \in Node
    BY DEF ThreadInv
  <2>1. CASE DataUpgrade(t) \/ DataInsert(t) \/ DataOrphan(t) \/ DataMark(t)
    BY <2>0, <2>1, SMTT(30) DEF DataUpgrade, DataInsert, DataOrphan, DataMark, Leave, Enter, Goto
  <2>2. CASE RefOnce(t) \/ RefInit(t) \/ RefUpgrade(t)
    BY <2>0, <2>2, SMTT(30) DEF RefOnce, RefInit, RefUpgrade, Goto
  <2>3. CASE RefInsert(t)
    BY <2>0, <2>3 DEF RefInsert, Goto, ThreadInv
  <2>4. CASE RefOrphan(t)
    BY <2>0, <2>4 DEF RefOrphan, Goto
  <2>5. CASE RefReturn(t)
    <3>1. <<at[t], ix[t]>> \in Node \X Slot
      BY <2>0, <2>5 DEF RefReturn
    <3>2. returned' \subseteq Node
      BY <3>1, <2>5 DEF RefReturn
    <3> QED BY <3>2, <2>5 DEF RefReturn, Leave, Enter, Goto
  <2> QED BY <1>3, <2>1, <2>2, <2>3, <2>4, <2>5 DEF Progress
<1>4. CASE UNCHANGED vars
  BY <1>4 DEF vars
<1> QED BY <1>1, <1>2, <1>3, <1>4 DEF Next

\* Where the threads are is a matter of their own steps and of the slot they
\* work on: no other thread moves a slot that is running or done.
LEMMA ThreadStep ==
  TypeOK /\ ThreadInv /\ MutexInv /\ LoadInv /\ [Next]_vars => ThreadInv' /\ MutexInv'
<1> SUFFICES ASSUME TypeOK, ThreadInv, MutexInv, LoadInv, [Next]_vars
             PROVE  ThreadInv' /\ MutexInv'
  OBVIOUS
<1> USE ModeAssumption, NodeAssumption
    DEF TypeOK, ThreadInv, MutexInv, treeVars, cellVars, threadVars, histVars
<1>0. \A u \in Thread : pc[u] # "idle" => <<at[u], ix[u]>> \in Node \X Slot
  OBVIOUS
<1>1. CASE Owner
  BY <1>1 DEF Owner, Track, WithSubtrees, AddSubtree, DropTree
<1>2. ASSUME NEW t \in Thread, Call(t) PROVE ThreadInv' /\ MutexInv'
  <2>1. ASSUME NEW n \in Node, DataCall(t, n) PROVE ThreadInv' /\ MutexInv'
    BY <2>1 DEF DataCall, Enter, Goto, LoadInv
  <2>2. ASSUME NEW s \in Asked, RefCall(t, s[1], s[2]) PROVE ThreadInv' /\ MutexInv'
    BY <2>2 DEF RefCall, Enter, Goto
  <2> QED BY <1>2, <2>1, <2>2 DEF Call
<1>3. ASSUME NEW t \in Thread, Progress(t) PROVE ThreadInv' /\ MutexInv'
  <2>1. CASE DataUpgrade(t) \/ DataInsert(t) \/ DataOrphan(t) \/ DataMark(t)
    BY <2>1 DEF DataUpgrade, DataInsert, DataOrphan, DataMark, Leave, Enter, Goto
  <2>2. CASE RefOnce(t) /\ once[<<at[t], ix[t]>>] = "done"
    <3>1. /\ at' = at /\ ix' = ix /\ once' = once /\ pc'[t] = "ref_return"
          /\ at[t] \in Node
          /\ \A u \in Thread : u # t => pc'[u] = pc[u]
      BY <2>2 DEF RefOnce, Goto
    <3>2. ThreadInv'
      BY <2>2, <3>1
    <3>3. MutexInv'
      BY <3>1
    <3> QED BY <3>2, <3>3
  <2>3. CASE RefOnce(t) /\ once[<<at[t], ix[t]>>] = "new"
    <3>1. <<at[t], ix[t]>> \in Node \X Slot
      BY <1>0, <2>3 DEF RefOnce
    <3>2. \A s \in Node \X Slot :
            once'[s] = IF s = <<at[t], ix[t]>> THEN "running" ELSE once[s]
      BY <3>1, <2>3 DEF RefOnce
    <3>3. /\ at' = at /\ ix' = ix /\ pc'[t] = "ref_init"
          /\ \A u \in Thread : u # t => pc'[u] = pc[u]
      BY <2>3 DEF RefOnce, Goto
    <3>4. \A u \in Thread : pc[u] = "ref_init" => <<at[u], ix[u]>> # <<at[t], ix[t]>>
      BY <2>3
    <3>5. ThreadInv'
      BY <1>0, <2>3, <3>1, <3>2, <3>3
    <3>6. MutexInv'
      BY <3>3, <3>4
    <3> QED BY <3>5, <3>6
  <2>4. CASE RefInit(t)
    <3>1. <<at[t], ix[t]>> \in Node \X Slot
      BY <1>0, <2>4 DEF RefInit
    <3>2. \A s \in Node \X Slot :
            once'[s] = IF s = <<at[t], ix[t]>> THEN "done" ELSE once[s]
      BY <3>1, <2>4 DEF RefInit
    <3>3. /\ at' = at /\ ix' = ix /\ pc'[t] \in {"ref_upgrade", "ref_return"}
          /\ pc'[t] = "ref_upgrade" => Mode = "OnLoad" /\ Child[<<at[t], ix[t]>>] # NoNode
          /\ \A u \in Thread : u # t => pc'[u] = pc[u]
      BY <2>4 DEF RefInit, Goto
    <3>4. \A u \in Thread \ {t} :
            pc[u] = "ref_init" => <<at[u], ix[u]>> # <<at[t], ix[t]>>
      BY <2>4 DEF RefInit
    <3>5. ThreadInv'
      BY <1>0, <3>1, <3>2, <3>3, <3>4
    <3>6. MutexInv'
      BY <3>3
    <3> QED BY <3>5, <3>6
  <2>5. CASE RefUpgrade(t) \/ RefInsert(t) \/ RefOrphan(t) \/ RefReturn(t)
    BY <2>5, SMTT(30) DEF RefUpgrade, RefInsert, RefOrphan, RefReturn, Leave, Enter, Goto
  <2>6. RefOnce(t) => once[<<at[t], ix[t]>>] \in {"done", "new"}
    BY DEF RefOnce
  <2> QED BY <1>3, <2>1, <2>2, <2>3, <2>4, <2>5, <2>6 DEF Progress
<1>4. CASE UNCHANGED vars
  BY <1>4 DEF vars
<1> QED BY <1>1, <1>2, <1>3, <1>4 DEF Next

\* A dropped tree stays dropped.
LEMMA OwnerStep == [Next]_vars /\ owner' => owner
<1> SUFFICES ASSUME [Next]_vars, owner' PROVE owner
  OBVIOUS
<1> USE DEF vars, treeVars, cellVars, threadVars, histVars
<1>1. CASE Owner
  BY <1>1, Zenon DEF Owner, Track, WithSubtrees, AddSubtree, DropTree
<1>2. ASSUME NEW t \in Thread, Call(t) PROVE owner
  BY <1>2, Zenon DEF Call, DataCall, RefCall
<1>3. ASSUME NEW t \in Thread, Progress(t) PROVE owner
  BY <1>3, Zenon DEF Progress, DataUpgrade, DataInsert, DataOrphan, DataMark,
        RefOnce, RefInit, RefUpgrade, RefInsert, RefOrphan, RefReturn
<1> QED BY <1>1, <1>2, <1>3 DEF Next

\* A usage cell is orphaned only by a thread that found the tree dropped, and stays so.
LEMMA OrphanStep == TypeOK /\ OrphanInv /\ [Next]_vars => OrphanInv'
<1> SUFFICES ASSUME TypeOK, OrphanInv, [Next]_vars, owner' PROVE OrphanInv'
  BY DEF OrphanInv
<1>0. owner
  BY OwnerStep
<1> USE ModeAssumption, NodeAssumption
    DEF TypeOK, OrphanInv, treeVars, cellVars, threadVars, histVars
<1>1. CASE Owner
  BY <1>0, <1>1 DEF Owner, Track, WithSubtrees, AddSubtree, DropTree
<1>2. ASSUME NEW t \in Thread, Call(t) PROVE OrphanInv'
  <2>1. ASSUME NEW n \in Node, DataCall(t, n) PROVE OrphanInv'
    BY <1>0, <2>1 DEF DataCall, Enter, Goto
  <2>2. ASSUME NEW s \in Asked, RefCall(t, s[1], s[2]) PROVE OrphanInv'
    BY <1>0, <2>2 DEF RefCall, Enter, Goto
  <2> QED BY <1>2, <2>1, <2>2 DEF Call
<1>3. ASSUME NEW t \in Thread, Progress(t) PROVE OrphanInv'
  <2>0. CanUpgrade
    BY <1>0 DEF CanUpgrade
  <2>1. CASE DataUpgrade(t) \/ DataInsert(t) \/ DataOrphan(t) \/ DataMark(t)
    BY <1>0, <2>0, <2>1 DEF DataUpgrade, DataInsert, DataOrphan, DataMark, Leave, Enter, Goto
  <2>2. CASE RefOnce(t) \/ RefInit(t) \/ RefUpgrade(t)
    BY <1>0, <2>0, <2>2 DEF RefOnce, RefInit, RefUpgrade, Goto
  <2>3. CASE RefInsert(t) \/ RefOrphan(t) \/ RefReturn(t)
    BY <1>0, <2>3 DEF RefInsert, RefOrphan, RefReturn, Leave, Enter, Goto
  <2> QED BY <1>3, <2>1, <2>2, <2>3 DEF Progress
<1>4. CASE UNCHANGED vars
  BY <1>0, <1>4 DEF vars
<1> QED BY <1>1, <1>2, <1>3, <1>4 DEF Next

\* In OnDataAccess mode only `data` records, and it does so before it marks.
LEMMA DataStep ==
  TypeOK /\ ThreadInv /\ OrphanInv /\ DataInv /\ [Next]_vars => DataInv'
<1> SUFFICES ASSUME TypeOK, ThreadInv, OrphanInv, DataInv, [Next]_vars,
                    Mode = "OnDataAccess"
             PROVE  DataInv'
  BY DEF DataInv
<1> USE NodeAssumption
    DEF TypeOK, DataInv, Recorded, treeVars, cellVars, threadVars, histVars
<1>1. CASE Owner
  BY <1>1 DEF Owner, Track, WithSubtrees, AddSubtree, DropTree
<1>2. ASSUME NEW t \in Thread, Call(t) PROVE DataInv'
  <2>1. ASSUME NEW n \in Node, DataCall(t, n) PROVE DataInv'
    BY <2>1 DEF DataCall, Enter, Goto
  <2>2. ASSUME NEW s \in Asked, RefCall(t, s[1], s[2]) PROVE DataInv'
    BY <2>2 DEF RefCall, Enter, Goto
  <2> QED BY <1>2, <2>1, <2>2 DEF Call
<1>3. ASSUME NEW t \in Thread, Progress(t) PROVE DataInv'
  <2>1. CASE DataUpgrade(t)
    BY <2>1 DEF DataUpgrade, Goto
  <2>2. CASE DataInsert(t)
    BY <2>2 DEF DataInsert, Goto
  <2>3. CASE DataOrphan(t)
    BY <2>3 DEF DataOrphan, Goto, OrphanInv
  <2>4. CASE DataMark(t)
    BY <2>4 DEF DataMark, Leave, Enter, Goto, ThreadInv
  <2>5. CASE RefOnce(t) \/ RefInit(t) \/ RefUpgrade(t) \/ RefOrphan(t)
    BY <2>5 DEF RefOnce, RefInit, RefUpgrade, RefOrphan, Goto
  <2>6. CASE RefInsert(t) \/ RefReturn(t)
    BY <2>6 DEF RefInsert, RefReturn, Leave, Enter, Goto
  <2> QED BY <1>3, <2>1, <2>2, <2>3, <2>4, <2>5, <2>6 DEF Progress
<1>4. CASE UNCHANGED vars
  BY <1>4 DEF vars
<1> QED BY <1>1, <1>2, <1>3, <1>4 DEF Next

\* What a step must keep for LoadInv to survive: no flag or mark is lost, no slot
\* is finished anew, and a pending record stays pending or is made.
LEMMA LoadKept ==
  ASSUME LoadInv, Mode = "OnLoad", owner' => owner,
         inserted' = inserted, tracked' = tracked, visited \subseteq visited',
         \A s \in Node \X Slot : once[s] = "done" <=> once'[s] = "done",
         \A n \in returned' :
            n \in returned \/ \E s \in Node \X Slot : Child[s] = n /\ once[s] = "done",
         owner' => \A u \in Thread, n \in Node :
                     Pending(u, n) => Pending(u, n)' \/ Recorded(n)'
  PROVE  LoadInv'
<1>1. \A n : Recorded(n) => Recorded(n)'
  BY DEF Recorded
<1>2. \A s \in Node \X Slot : Child[s] # NoNode => Child[s] \in Node
  BY NodeAssumption
<1>3. ASSUME owner', NEW s \in Node \X Slot, once'[s] = "done", Child[s] # NoNode
      PROVE  Recorded(Child[s])' \/ \E t \in Thread : Pending(t, Child[s])'
  BY <1>1, <1>2, <1>3 DEF LoadInv
<1> QED BY <1>1, <1>3 DEF LoadInv

\* In OnLoad mode the thread that finishes a slot takes over the duty to record
\* the child, and gives it up only by recording it or when the owner is gone.
LEMMA LoadStep ==
  TypeOK /\ ThreadInv /\ OrphanInv /\ LoadInv /\ [Next]_vars => LoadInv'
<1> SUFFICES ASSUME TypeOK, ThreadInv, OrphanInv, LoadInv, [Next]_vars,
                    Mode = "OnLoad"
             PROVE  LoadInv'
  BY DEF LoadInv
<1> USE DEF treeVars, cellVars, threadVars, histVars
<1>0. /\ \A u \in Thread : pc[u] # "idle" => <<at[u], ix[u]>> \in Node \X Slot
      /\ owner' => owner
      /\ pc \in [Thread -> PC]
  BY OwnerStep DEF ThreadInv, TypeOK
<1>1. CASE Owner
  <2>1. ASSUME NEW n \in Root, Track(n) PROVE LoadInv'
    <3>1. /\ UNCHANGED <<inserted, returned, once, pc, at, ix>>
          /\ visited' = visited \union {CellOf[n]} /\ tracked' = tracked \union {n}
      BY <2>1 DEF Track
    <3> QED BY <1>0, <3>1 DEF LoadInv, Recorded, Pending
  <2>2. CASE WithSubtrees \/ (\E c \in SubtreeRoot : AddSubtree(c)) \/ DropTree
    <3>1. UNCHANGED <<inserted, returned, once, pc, at, ix, visited, tracked>>
      BY <2>2, Zenon DEF WithSubtrees, AddSubtree, DropTree
    <3> QED BY <1>0, <3>1, LoadKept DEF Pending
  <2> QED BY <1>1, <2>1, <2>2 DEF Owner
<1>2. ASSUME NEW t \in Thread, Call(t) PROVE LoadInv'
  <2>1. UNCHANGED <<inserted, returned, once, visited, tracked>>
    BY <1>2, Zenon DEF Call, DataCall, RefCall
  <2>2. \A u \in Thread, n \in Node : Pending(u, n) => Pending(u, n)'
    BY <1>0, <1>2 DEF Call, DataCall, RefCall, Enter, Goto, Pending, TypeOK
  <2> QED BY <1>0, <2>1, <2>2, LoadKept
<1>3. ASSUME NEW t \in Thread, Progress(t) PROVE LoadInv'
  <2>1. pc[t] \notin DataPC
    BY DEF ThreadInv
  <2>2. CASE RefOnce(t)
    <3>1. /\ UNCHANGED <<inserted, returned, visited, tracked>>
          /\ \A s \in Node \X Slot : once[s] = "done" <=> once'[s] = "done"
      BY <2>2 DEF RefOnce, TypeOK
    <3>2. \A u \in Thread, n \in Node : Pending(u, n) => Pending(u, n)'
      BY <1>0, <2>2 DEF RefOnce, Goto, Pending
    <3> QED BY <1>0, <3>1, <3>2, LoadKept
  <2>3. CASE RefInit(t)
    <3>1. <<at[t], ix[t]>> \in Node \X Slot
      BY <1>0, <2>3 DEF RefInit
    <3>2. \A s \in Node \X Slot :
            once'[s] = IF s = <<at[t], ix[t]>> THEN "done" ELSE once[s]
      BY <3>1, <2>3 DEF RefInit, TypeOK
    <3>3. /\ UNCHANGED <<inserted, returned, visited, tracked, at, ix>>
          /\ Child[<<at[t], ix[t]>>] # NoNode => pc'[t] = "ref_upgrade"
          /\ \A u \in Thread : u # t => pc'[u] = pc[u]
          /\ pc[t] = "ref_init"
      BY <1>0, <2>3 DEF RefInit, Goto
    <3>4. ASSUME owner', NEW s \in Node \X Slot, once'[s] = "done", Child[s] # NoNode
          PROVE  Recorded(Child[s])' \/ \E u \in Thread : Pending(u, Child[s])'
      <4>1. CASE s = <<at[t], ix[t]>>
        BY <3>3, <3>4, <4>1 DEF Pending
      <4>2. CASE s # <<at[t], ix[t]>>
        <5>1. Recorded(Child[s]) \/ \E u \in Thread : Pending(u, Child[s])
          BY <1>0, <3>2, <3>4, <4>2 DEF LoadInv
        <5>2. \A u \in Thread : Pending(u, Child[s]) => Pending(u, Child[s])'
          BY <3>3 DEF Pending
        <5>3. Recorded(Child[s]) => Recorded(Child[s])'
          BY <3>3 DEF Recorded
        <5> QED BY <5>1, <5>2, <5>3
      <4> QED BY <4>1, <4>2
    <3>5. /\ \A n \in returned' :
               \E s \in Node \X Slot : Child[s] = n /\ once'[s] = "done"
          /\ owner' => \A n \in tracked' : Recorded(n)'
      BY <1>0, <3>2, <3>3 DEF LoadInv, Recorded
    <3> QED BY <3>3, <3>4, <3>5 DEF LoadInv
  <2>4. CASE RefUpgrade(t)
    <3>1. UNCHANGED <<inserted, returned, once, visited, tracked>>
      BY <2>4 DEF RefUpgrade
    <3>2. owner' => \A u \in Thread, n \in Node : Pending(u, n) => Pending(u, n)'
      BY <1>0, <2>4 DEF RefUpgrade, Goto, Pending, CanUpgrade
    <3> QED BY <1>0, <3>1, <3>2, LoadKept
  <2>5. CASE RefInsert(t)
    <3>1. /\ UNCHANGED <<inserted, returned, once, tracked>>
          /\ visited \subseteq visited'
      BY <2>5 DEF RefInsert
    <3>2. \A u \in Thread, n \in Node : Pending(u, n) => Pending(u, n)' \/ Recorded(n)'
      BY <1>0, <2>5 DEF RefInsert, Goto, Pending, Recorded
    <3> QED BY <1>0, <3>1, <3>2, LoadKept
  <2>6. CASE RefOrphan(t)
    <3>1. UNCHANGED <<inserted, returned, once, visited, tracked>>
      BY <2>6 DEF RefOrphan
    <3>2. \A u \in Thread, n \in Node : Pending(u, n) => Pending(u, n)'
      BY <1>0, <2>6 DEF RefOrphan, Goto, Pending
    <3> QED BY <1>0, <3>1, <3>2, LoadKept
  <2>7. CASE RefReturn(t)
    <3>1. UNCHANGED <<inserted, once, visited, tracked>>
      BY <2>7 DEF RefReturn
    <3>2. \A n \in returned' :
            n \in returned \/ \E s \in Node \X Slot : Child[s] = n /\ once[s] = "done"
      BY <1>0, <2>7 DEF RefReturn, ThreadInv
    <3>3. \A u \in Thread, n \in Node : Pending(u, n) => Pending(u, n)'
      BY <1>0, <2>7 DEF RefReturn, Leave, Enter, Goto, Pending, TypeOK
    <3> QED BY <1>0, <3>1, <3>2, <3>3, LoadKept
  <2> QED BY <1>3, <2>1, <2>2, <2>3, <2>4, <2>5, <2>6, <2>7
          DEF Progress, DataUpgrade, DataInsert, DataOrphan, DataMark
<1>4. CASE UNCHANGED vars
  BY <1>0, <1>4, LoadKept DEF vars, Pending
<1> QED BY <1>1, <1>2, <1>3, <1>4 DEF Next

\* The inductive invariant holds in every reachable state.
THEOREM Invariance == Spec => []IInv
<1>1. IInv /\ [Next]_vars => IInv'
  BY TypeStep, ThreadStep, OrphanStep, LoadStep, DataStep DEF IInv
<1> QED BY InitIInv, <1>1, PTL DEF Spec

-----------------------------------------------------------------------------

\* The type invariant of the usage tree.
THEOREM TypeCorrect == Spec => []TypeOK
<1>1. IInv => TypeOK
  BY DEF IInv
<1> QED BY Invariance, <1>1, PTL

\* For any number of threads and any forest of cells: while the tree lives, a
\* cell that `data` (OnDataAccess) or `reference` (OnLoad) gave to a caller is
\* recorded, or the thread that created its usage cell is about to record it.
THEOREM UsedIsRecordedCorrect == Spec => []UsedIsRecorded
<1>1. IInv => UsedIsRecorded
  <2> SUFFICES ASSUME IInv, owner, NEW n \in Used
               PROVE  Recorded(n) \/ \E t \in Thread : Pending(t, n)
    BY DEF UsedIsRecorded
  <2>1. CASE Mode = "OnLoad"
    BY <2>1, NodeAssumption DEF IInv, LoadInv, Used, TypeOK
  <2>2. CASE Mode = "OnDataAccess"
    BY <2>2 DEF IInv, DataInv, Used
  <2> QED BY <2>1, <2>2, ModeAssumption
<1> QED BY Invariance, <1>1, PTL

\* No usage cell of a live tree is orphaned, and no bare cell is handed out.
THEOREM NoEscapeCorrect == Spec => []NoEscapeWhileAlive
<1>1. IInv => NoEscapeWhileAlive
  BY DEF IInv, OrphanInv, NoEscapeWhileAlive
<1> QED BY Invariance, <1>1, PTL


-----------------------------------------------------------------------------
(* The record holds nothing else, and its cells hang together               *)

\* What a usage cell must have behind it: a method runs on, a slot is started
\* in and a reference returns only a usage cell that exists.
PublishedInv ==
  /\ returned \subseteq Published
  /\ \A t \in Thread : pc[t] # "idle" => at[t] \in Published
  /\ \A s \in Node \X Slot : once[s] # "new" => s[1] \in Published

\* A Once that is running has a thread in its closure.
RunnerInv ==
  \A s \in Node \X Slot : once[s] = "running" =>
    \E t \in Thread : pc[t] = "ref_init" /\ at[t] = s[1] /\ ix[t] = s[2]

PathInv == PublishedInv /\ RunnerInv /\ NothingSpurious

\* A usage cell exists when it was tracked or is behind a finished slot.
LEMMA PublishedDef ==
  ASSUME NEW n
  PROVE  n \in Published <=>
           n \in tracked \/ \E s \in Node \X Slot : once[s] = "done" /\ Child[s] # NoNode /\ n = Child[s]
BY Zenon DEF Published

\* Usage cells are not destroyed: roots stay tracked and slots stay done.
LEMMA PublishedGrows == IInv /\ [Next]_vars => Published \subseteq Published'
<1> SUFFICES ASSUME IInv, [Next]_vars PROVE Published \subseteq Published'
  OBVIOUS
<1> USE DEF vars, treeVars, cellVars, threadVars, histVars
<1>0. TypeOK /\ ThreadInv
  BY DEF IInv
<1>1. tracked \subseteq tracked'
  <2>1. CASE Owner
    BY <2>1, Zenon DEF Owner, Track, WithSubtrees, AddSubtree, DropTree
  <2>2. ASSUME NEW t \in Thread, Call(t) PROVE tracked \subseteq tracked'
    BY <2>2, Zenon DEF Call, DataCall, RefCall
  <2>3. ASSUME NEW t \in Thread, Progress(t) PROVE tracked \subseteq tracked'
    BY <2>3, Zenon DEF Progress, DataUpgrade, DataInsert, DataOrphan, DataMark,
         RefOnce, RefInit, RefUpgrade, RefInsert, RefOrphan, RefReturn
  <2> QED BY <2>1, <2>2, <2>3 DEF Next
<1>2. \A s \in Node \X Slot : once[s] = "done" => once'[s] = "done"
  <2>1. CASE Owner
    BY <2>1, Zenon DEF Owner, Track, WithSubtrees, AddSubtree, DropTree
  <2>2. ASSUME NEW t \in Thread, Call(t)
        PROVE  \A s \in Node \X Slot : once[s] = "done" => once'[s] = "done"
    BY <2>2, Zenon DEF Call, DataCall, RefCall
  <2>3. ASSUME NEW t \in Thread, Progress(t)
        PROVE  \A s \in Node \X Slot : once[s] = "done" => once'[s] = "done"
    <3>1. CASE RefOnce(t) \/ RefInit(t)
      BY <1>0, <3>1 DEF RefOnce, RefInit, TypeOK
    <3>2. CASE ~(RefOnce(t) \/ RefInit(t))
      BY <2>3, <3>2, Zenon DEF Progress, DataUpgrade, DataInsert, DataOrphan, DataMark,
           RefUpgrade, RefInsert, RefOrphan, RefReturn
    <3> QED BY <3>1, <3>2
  <2> QED BY <2>1, <2>2, <2>3 DEF Next
<1>3. \A n : n \in Published' <=>
        n \in tracked' \/ \E s \in Node \X Slot : once'[s] = "done" /\ Child[s] # NoNode /\ n = Child[s]
  BY Zenon DEF Published
<1> SUFFICES ASSUME NEW n \in Published PROVE n \in Published'
  OBVIOUS
<1>4. n \in tracked \/ \E s \in Node \X Slot : once[s] = "done" /\ Child[s] # NoNode /\ n = Child[s]
  BY PublishedDef
<1> QED BY <1>1, <1>2, <1>3, <1>4, Zenon

\* The initial state has no usage cell and an empty record.
LEMMA InitPath == Init => PathInv
<1> SUFFICES ASSUME Init PROVE PathInv
  OBVIOUS
<1>1. PublishedInv /\ RunnerInv
  BY DEF Init, PublishedInv, RunnerInv
<1>2. NothingSpurious
  BY DEF Init, NothingSpurious
<1> QED BY <1>1, <1>2 DEF PathInv

\* A caller reaches a usage cell through one that exists, and the closure of a
\* Once runs inside a method of one.
LEMMA PublishedStep == IInv /\ PublishedInv /\ [Next]_vars => PublishedInv'
<1> SUFFICES ASSUME IInv, PublishedInv, [Next]_vars PROVE PublishedInv'
  OBVIOUS
<1> USE NodeAssumption DEF treeVars, cellVars, threadVars, histVars
<1>0. /\ TypeOK /\ ThreadInv
      /\ Published \subseteq Published'
      /\ tracked \subseteq Published
  BY PublishedGrows, PublishedDef DEF IInv
<1> HIDE DEF Published
<1>1. CASE Owner
  <2>1. UNCHANGED <<returned, pc, at, once>>
    BY <1>1, Zenon DEF Owner, Track, WithSubtrees, AddSubtree, DropTree
  <2> QED BY <1>0, <2>1 DEF PublishedInv
<1>2. ASSUME NEW t \in Thread, Call(t) PROVE PublishedInv'
  <2>1. UNCHANGED <<returned, once>>
    BY <1>2, Zenon DEF Call, DataCall, RefCall
  <2>2. ASSUME NEW u \in Thread, pc'[u] # "idle" PROVE at'[u] \in Published
    <3>1. ASSUME NEW n \in Node, DataCall(t, n) PROVE at'[u] \in Published
      BY <1>0, <2>2, <3>1 DEF DataCall, Enter, Goto, PublishedInv, Reachable, TypeOK
    <3>2. ASSUME NEW s \in Asked, RefCall(t, s[1], s[2]) PROVE at'[u] \in Published
      BY <1>0, <2>2, <3>2 DEF RefCall, Enter, Goto, PublishedInv, Reachable, TypeOK
    <3> QED BY <1>2, <3>1, <3>2 DEF Call
  <2> QED BY <1>0, <2>1, <2>2 DEF PublishedInv
<1>3. ASSUME NEW t \in Thread, Progress(t) PROVE PublishedInv'
  <2>0. /\ pc[t] # "idle"
        /\ at[t] \in Published /\ <<at[t], ix[t]>> \in Node \X Slot
    BY <1>0, <1>3 DEF Progress, DataUpgrade, DataInsert, DataOrphan, DataMark, RefOnce,
         RefInit, RefUpgrade, RefInsert, RefOrphan, RefReturn, PublishedInv, ThreadInv, TypeOK
  <2>1. CASE DataUpgrade(t) \/ DataInsert(t) \/ DataOrphan(t) \/ RefUpgrade(t)
             \/ RefInsert(t) \/ RefOrphan(t)
    <3>1. UNCHANGED <<returned, at, once>>
      BY <2>1, Zenon DEF DataUpgrade, DataInsert, DataOrphan, RefUpgrade, RefInsert, RefOrphan
    <3>2. \A u \in Thread : pc'[u] # "idle" => pc[u] # "idle"
      BY <1>0, <2>0, <2>1 DEF DataUpgrade, DataInsert, DataOrphan, RefUpgrade, RefInsert,
           RefOrphan, Goto, TypeOK
    <3> QED BY <1>0, <3>1, <3>2 DEF PublishedInv
  <2>2. CASE DataMark(t)
    BY <1>0, <2>2 DEF DataMark, Leave, Enter, Goto, PublishedInv, TypeOK
  <2>3. CASE RefOnce(t) \/ RefInit(t)
    <3>1. /\ UNCHANGED <<returned, at>>
          /\ \A u \in Thread : pc'[u] # "idle" => pc[u] # "idle"
          /\ \A s \in Node \X Slot : once'[s] # "new" =>
               once[s] # "new" \/ s = <<at[t], ix[t]>>
      BY <1>0, <2>0, <2>3 DEF RefOnce, RefInit, Goto, TypeOK
    <3> QED BY <1>0, <2>0, <3>1 DEF PublishedInv
  <2>4. CASE RefReturn(t)
    <3>1. once[<<at[t], ix[t]>>] = "done"
      BY <1>0, <2>4 DEF RefReturn, ThreadInv
    <3>2. returned' \subseteq Published
      BY <2>0, <2>4, <3>1, PublishedDef DEF RefReturn, PublishedInv
    <3>3. \A u \in Thread : pc'[u] # "idle" => pc[u] # "idle" /\ at'[u] = at[u]
      BY <1>0, <2>4 DEF RefReturn, Leave, Enter, Goto, TypeOK
    <3>4. once' = once
      BY <2>4 DEF RefReturn
    <3> QED BY <1>0, <3>2, <3>3, <3>4 DEF PublishedInv
  <2> QED BY <1>3, <2>1, <2>2, <2>3, <2>4 DEF Progress
<1>4. CASE UNCHANGED vars
  BY <1>0, <1>4 DEF vars, PublishedInv
<1> QED BY <1>1, <1>2, <1>3, <1>4 DEF Next

\* The thread that starts a Once is in its closure until it finishes the slot.
LEMMA RunnerStep == IInv /\ RunnerInv /\ [Next]_vars => RunnerInv'
<1> SUFFICES ASSUME IInv, RunnerInv, [Next]_vars PROVE RunnerInv'
  OBVIOUS
<1> USE NodeAssumption DEF treeVars, cellVars, threadVars, histVars
<1>0. TypeOK /\ ThreadInv
  BY DEF IInv
\* Slots that start to run or stop running are the business of one action each.
<1> DEFINE Runs(u, s) == pc[u] = "ref_init" /\ at[u] = s[1] /\ ix[u] = s[2]
           RunsAfter(u, s) == pc'[u] = "ref_init" /\ at'[u] = s[1] /\ ix'[u] = s[2]
<1>1. ASSUME UNCHANGED once,
             \A u \in Thread, s \in Node \X Slot : Runs(u, s) => RunsAfter(u, s)
      PROVE  RunnerInv'
  BY <1>1 DEF RunnerInv
<1>2. CASE Owner
  <2>1. UNCHANGED <<once, pc, at, ix>>
    BY <1>2, Zenon DEF Owner, Track, WithSubtrees, AddSubtree, DropTree
  <2> QED BY <1>1, <2>1
<1>3. ASSUME NEW t \in Thread, Call(t) PROVE RunnerInv'
  <2>1. UNCHANGED once
    BY <1>3, Zenon DEF Call, DataCall, RefCall
  <2>2. \A u \in Thread, s \in Node \X Slot : Runs(u, s) => RunsAfter(u, s)
    BY <1>0, <1>3, ZenonT(40) DEF Call, DataCall, RefCall, Enter, Goto, TypeOK
  <2> QED BY <1>1, <2>1, <2>2
<1>4. ASSUME NEW t \in Thread, Progress(t) PROVE RunnerInv'
  <2>1. CASE RefOnce(t)
    <3>1. <<at[t], ix[t]>> \in Node \X Slot
      BY <1>0, <2>1 DEF RefOnce, ThreadInv, TypeOK
    <3>2. /\ UNCHANGED <<at, ix>>
          /\ \A u \in Thread : u # t => pc'[u] = pc[u]
          /\ pc[t] # "ref_init"
          /\ \A s \in Node \X Slot : once'[s] = "running" =>
               once[s] = "running" \/ (s = <<at[t], ix[t]>> /\ pc'[t] = "ref_init")
      BY <1>0, <2>1, <3>1 DEF RefOnce, Goto, TypeOK
    <3> QED BY <3>1, <3>2 DEF RunnerInv
  <2>2. CASE RefInit(t)
    <3>1. <<at[t], ix[t]>> \in Node \X Slot
      BY <1>0, <2>2 DEF RefInit, ThreadInv, TypeOK
    <3>2. /\ UNCHANGED <<at, ix>>
          /\ \A u \in Thread : u # t => pc'[u] = pc[u]
          /\ \A s \in Node \X Slot : once'[s] = "running" =>
               once[s] = "running" /\ s # <<at[t], ix[t]>>
      BY <1>0, <2>2, <3>1 DEF RefInit, Goto, TypeOK
    <3>3. \A s \in Node \X Slot : s = <<s[1], s[2]>>
      OBVIOUS
    <3>4. ASSUME NEW s \in Node \X Slot, once'[s] = "running"
          PROVE  \E u \in Thread : RunsAfter(u, s)
      <4>1. PICK u \in Thread : Runs(u, s)
        BY <3>2, <3>4 DEF RunnerInv
      <4>2. u # t
        BY <3>2, <3>3, <3>4, <4>1
      <4> QED BY <3>2, <4>1, <4>2
    <3> QED BY <3>4 DEF RunnerInv
  <2>3. CASE ~(RefOnce(t) \/ RefInit(t))
    <3>1. UNCHANGED once
      BY <1>4, <2>3, Zenon DEF Progress, DataUpgrade, DataInsert, DataOrphan, DataMark,
           RefUpgrade, RefInsert, RefOrphan, RefReturn
    <3>2. \A u \in Thread, s \in Node \X Slot : Runs(u, s) => RunsAfter(u, s)
      BY <1>0, <1>4, <2>3 DEF Progress, DataUpgrade, DataInsert, DataOrphan, DataMark,
           RefUpgrade, RefInsert, RefOrphan, RefReturn, Leave, Enter, Goto, TypeOK
    <3> QED BY <1>1, <3>1, <3>2
  <2> QED BY <2>1, <2>2, <2>3
<1>5. CASE UNCHANGED vars
  BY <1>1, <1>5 DEF vars
<1> QED BY <1>2, <1>3, <1>4, <1>5 DEF Next

\* What NothingSpurious says of one recorded cell.
Touched(n) ==
  IF Mode = "OnLoad" THEN n \in Published
  ELSE n \in read \/ \E t \in Thread : pc[t] = "data_mark" /\ at[t] = n

Reasons == \A c \in visited : \E n : Touched(n) /\ c = CellOf[n]

LEMMA SpuriousDef == NothingSpurious <=> Reasons
<1>1. CASE Mode = "OnLoad"
  BY <1>1, Zenon DEF NothingSpurious, Reasons, Touched
<1>2. CASE Mode # "OnLoad"
  BY <1>2, ZenonT(40) DEF NothingSpurious, Reasons, Touched
<1> QED BY <1>1, <1>2

\* A cell enters the record together with the reason for it, and the reason stays.
LEMMA SpuriousStep == IInv /\ NothingSpurious /\ [Next]_vars => NothingSpurious'
<1> SUFFICES ASSUME IInv, NothingSpurious, [Next]_vars PROVE NothingSpurious'
  OBVIOUS
<1> USE ModeAssumption, NodeAssumption DEF treeVars, cellVars, threadVars, histVars
<1>0. TypeOK /\ ThreadInv
  BY DEF IInv
\* A thread that leaves "data_mark" has read the cell; nothing else ends a reason.
<1>1. \A n : Touched(n) => Touched(n)'
  <2>1. CASE Mode = "OnLoad"
    BY <2>1, PublishedGrows DEF Touched
  <2>2. CASE Mode = "OnDataAccess"
    <3> SUFFICES ASSUME NEW n, Touched(n)
                 PROVE  n \in read' \/ \E t \in Thread : pc'[t] = "data_mark" /\ at'[t] = n
      BY <2>2 DEF Touched
    <3>1. CASE Owner \/ UNCHANGED vars
      <4>1. UNCHANGED <<read, pc, at>>
        BY <3>1, Zenon DEF Owner, Track, WithSubtrees, AddSubtree, DropTree, vars
      <4> QED BY <2>2, <4>1 DEF Touched
    <3>2. ASSUME NEW t \in Thread, Call(t)
          PROVE  n \in read' \/ \E u \in Thread : pc'[u] = "data_mark" /\ at'[u] = n
      BY <1>0, <2>2, <3>2, ZenonT(40) DEF Touched, Call, DataCall, RefCall, Enter, Goto, TypeOK
    <3>3. ASSUME NEW t \in Thread, Progress(t)
          PROVE  n \in read' \/ \E u \in Thread : pc'[u] = "data_mark" /\ at'[u] = n
      <4>1. CASE DataMark(t)
        BY <1>0, <2>2, <4>1 DEF Touched, DataMark, Leave, Enter, Goto, TypeOK
      <4>2. CASE ~DataMark(t)
        <5>1. /\ read' = read /\ pc[t] # "data_mark"
              /\ \A u \in Thread : u # t => pc'[u] = pc[u] /\ at'[u] = at[u]
          BY <1>0, <3>3, <4>2 DEF Progress, DataUpgrade, DataInsert, DataOrphan, RefOnce,
               RefInit, RefUpgrade, RefInsert, RefOrphan, RefReturn, Leave, Enter, Goto, TypeOK
        <5> QED BY <2>2, <5>1 DEF Touched
      <4> QED BY <4>1, <4>2
    <3> QED BY <3>1, <3>2, <3>3 DEF Next
  <2> QED BY <2>1, <2>2
\* What a step adds to the record.
<1>2. \A c \in visited' : c \in visited \/ \E n : Touched(n)' /\ c = CellOf[n]
  <2>1. ASSUME NEW n \in Root, Track(n)
        PROVE  \A c \in visited' : c \in visited \/ \E m : Touched(m)' /\ c = CellOf[m]
    <3>1. CASE Mode = "OnLoad"
      <4>1. n \in Published' /\ visited' = visited \union {CellOf[n]}
        BY <2>1, <3>1 DEF Track, Published
      <4> QED BY <3>1, <4>1 DEF Touched
    <3>2. CASE Mode # "OnLoad"
      BY <2>1, <3>2 DEF Track
    <3> QED BY <3>1, <3>2
  <2>2. ASSUME NEW t \in Thread, DataInsert(t)
        PROVE  \A c \in visited' : c \in visited \/ \E m : Touched(m)' /\ c = CellOf[m]
    <3>1. /\ Mode = "OnDataAccess" /\ visited' = visited \union {CellOf[at[t]]}
          /\ pc'[t] = "data_mark" /\ at'[t] = at[t]
      BY <1>0, <2>2 DEF DataInsert, Goto, ThreadInv, TypeOK
    <3>2. Touched(at[t])'
      BY <3>1 DEF Touched
    <3> QED BY <3>1, <3>2
  <2>3. ASSUME NEW t \in Thread, RefInsert(t)
        PROVE  \A c \in visited' : c \in visited \/ \E m : Touched(m)' /\ c = CellOf[m]
    <3> DEFINE s == <<at[t], ix[t]>>
    <3>1. /\ Mode = "OnLoad" /\ visited' = visited \union {CellOf[Child[s]]}
          /\ s \in Node \X Slot /\ once[s] = "done" /\ Child[s] # NoNode
      BY <1>0, <2>3 DEF RefInsert, ThreadInv, TypeOK
    <3>2. PICK n : n = Child[s]
      OBVIOUS
    <3>3. n \in Published
      BY <3>1, <3>2, PublishedDef
    <3>4. Touched(n)'
      BY <1>1, <3>1, <3>3 DEF Touched
    <3> QED BY <3>1, <3>2, <3>4
  <2>4. CASE /\ \A n \in Root : ~Track(n)
             /\ \A t \in Thread : ~DataInsert(t) /\ ~RefInsert(t)
    <3>1. visited' = visited
      BY <2>4, Zenon DEF Next, Owner, Call, Progress, WithSubtrees, AddSubtree, DropTree, DataCall,
           RefCall, DataUpgrade, DataOrphan, DataMark, RefOnce, RefInit, RefUpgrade,
           RefOrphan, RefReturn, vars
    <3> QED BY <3>1
  <2> QED BY <2>1, <2>2, <2>3, <2>4
<1>3. Reasons'
  BY <1>1, <1>2, SpuriousDef DEF Reasons
<1>4. NothingSpurious' <=> Reasons'
  BY SpuriousDef, PTL
<1> QED BY <1>3, <1>4

\* The reasons and the paths are there in every reachable state.
LEMMA PathInvariance == Spec => []PathInv
<1>1. IInv /\ PathInv /\ [Next]_vars => PathInv'
  BY PublishedStep, RunnerStep, SpuriousStep DEF PathInv
<1> QED BY InitPath, Invariance, <1>1, PTL DEF Spec

\* The record of a usage tree names only cells that were touched in the sense of
\* its mode, whatever the interleaving: a proof built from it is no larger than
\* the accesses of the callers make it.
THEOREM NothingSpuriousCorrect == Spec => []NothingSpurious
<1>1. PathInv => NothingSpurious
  BY DEF PathInv
<1> QED BY PathInvariance, <1>1, PTL

\* A quiescent OnLoad tree whose owner is there has recorded, with every cell it
\* handed out, the cell that refers to it, and this one has a usage cell, too:
\* applied again and again, the theorem yields the whole path up to a root.
THEOREM QuiescentPathsCorrect == Spec => []QuiescentPathsRecorded
<1>1. IInv /\ PathInv => QuiescentPathsRecorded
  <2> SUFFICES ASSUME IInv, PathInv, owner, Mode = "OnLoad",
                      \A t \in Thread : pc[t] = "idle",
                      NEW s \in Node \X Slot, Child[s] \in returned
               PROVE  s[1] \in Published /\ Recorded(s[1]) /\ Recorded(Child[s])
    BY DEF QuiescentPathsRecorded
  <2>1. \A n \in Published : Recorded(n)
    <3>1. \A t \in Thread, n \in Node : ~Pending(t, n)
      BY DEF Pending
    <3>2. \A r \in Node \X Slot : once[r] = "done" /\ Child[r] # NoNode => Recorded(Child[r])
      BY <3>1, NodeAssumption DEF IInv, LoadInv
    <3>3. \A n \in tracked : Recorded(n)
      BY DEF IInv, LoadInv
    <3> QED BY <3>2, <3>3, PublishedDef
  <2>2. once[s] = "done"
    <3>1. PICK r \in Node \X Slot : Child[r] = Child[s] /\ once[r] = "done"
      BY DEF IInv, LoadInv
    <3>2. Child[s] # NoNode
      BY NodeAssumption DEF IInv, TypeOK
    <3> QED BY <3>1, <3>2, ForestAssumption
  <2>3. s[1] \in Published /\ Child[s] \in Published
    BY <2>2 DEF PathInv, PublishedInv
  <2> QED BY <2>1, <2>3
<1> QED BY Invariance, PathInvariance, <1>1, PTL

\* Callers that wait for a Once wait for a thread that is in its closure, and
\* there is only one such thread.
THEOREM OnceHasOneRunnerCorrect == Spec => []OnceHasOneRunner
<1>1. IInv /\ PathInv => OnceHasOneRunner
  <2> SUFFICES ASSUME IInv, PathInv, NEW s \in Node \X Slot
               PROVE  LET runners == {t \in Thread : pc[t] = "ref_init" /\ <<at[t], ix[t]>> = s} IN
                      /\ once[s] = "running" <=> runners # {}
                      /\ \A t, u \in runners : t = u
    BY DEF OnceHasOneRunner
  <2>1. s = <<s[1], s[2]>>
    OBVIOUS
  <2>2. \A t \in Thread : pc[t] = "ref_init" => once[<<at[t], ix[t]>>] = "running"
    BY DEF IInv, ThreadInv
  <2>3. once[s] = "running" =>
          \E t \in Thread : pc[t] = "ref_init" /\ at[t] = s[1] /\ ix[t] = s[2]
    BY DEF PathInv, RunnerInv
  <2>4. \A t, u \in Thread : pc[t] = "ref_init" /\ pc[u] = "ref_init" /\ at[t] = at[u]
          /\ ix[t] = ix[u] => t = u
    BY DEF IInv, MutexInv
  <2> QED BY <2>1, <2>2, <2>3, <2>4
<1> QED BY Invariance, PathInvariance, <1>1, PTL

\* When the owner and every thread that upgraded have let go of the state, the
\* record is final: no later step changes it or gets hold of the state again.
THEOREM FrozenAfterDropCorrect == Spec => FrozenAfterDrop
<1>1. IInv /\ [Next]_vars => [~CanUpgrade => ~CanUpgrade' /\ visited' = visited]_vars
  <2> SUFFICES ASSUME IInv, Next, ~CanUpgrade
               PROVE  ~CanUpgrade' /\ visited' = visited
    OBVIOUS
  <2> USE DEF treeVars, cellVars, threadVars, histVars
  <2>0. TypeOK /\ ~owner /\ \A t \in Thread : pc[t] \notin {"data_insert", "ref_insert"}
    BY DEF IInv, CanUpgrade
  <2>1. CASE Owner
    BY <2>0, <2>1, Zenon DEF Owner, Track, WithSubtrees, AddSubtree, DropTree
  <2>2. ASSUME NEW t \in Thread, Call(t) PROVE ~CanUpgrade' /\ visited' = visited
    <3>1. visited' = visited /\ owner' = owner
      BY <2>2, Zenon DEF Call, DataCall, RefCall
    <3>2. \A u \in Thread : pc'[u] \notin {"data_insert", "ref_insert"}
      BY <2>0, <2>2 DEF Call, DataCall, RefCall, Enter, Goto, TypeOK
    <3> QED BY <2>0, <3>1, <3>2, Zenon DEF CanUpgrade
  <2>3. ASSUME NEW t \in Thread, Progress(t) PROVE ~CanUpgrade' /\ visited' = visited
    <3>1. ~DataInsert(t) /\ ~RefInsert(t)
      BY <2>0 DEF DataInsert, RefInsert
    <3>2. visited' = visited /\ owner' = owner
      BY <2>3, <3>1, Zenon DEF Progress, DataUpgrade, DataOrphan, DataMark, RefOnce, RefInit,
           RefUpgrade, RefOrphan, RefReturn
    <3>3. \A u \in Thread : pc'[u] \notin {"data_insert", "ref_insert"}
      BY <2>0, <2>3, <3>1 DEF Progress, DataUpgrade, DataOrphan, DataMark, RefOnce, RefInit,
           RefUpgrade, RefOrphan, RefReturn, Leave, Enter, Goto, TypeOK
    <3> QED BY <2>0, <3>2, <3>3, Zenon DEF CanUpgrade
  <2> QED BY <2>1, <2>2, <2>3 DEF Next
<1> QED BY Invariance, <1>1, PTL DEF Spec, FrozenAfterDrop

=============================================================================
