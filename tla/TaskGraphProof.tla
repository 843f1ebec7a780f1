--------------------------- MODULE TaskGraphProof ---------------------------
(***************************************************************************)
(* Proofs about TaskGraph.  The type invariant holds of every graph; the   *)
(* safety properties are proved for every acyclic graph (conditions and    *)
(* skips included) whose in-degrees fit one half of the counter.           *)
(***************************************************************************)
EXTENDS TaskGraph, FiniteSetTheorems, TLAPS

USE GraphAssumption, LoopAssumption, ThreadAssumption, HalfAssumption

----------------------------------------------------------------------------
(* Facts about the constants.                                              *)

\* The edges into a node, and what initialInDegree counts, are finite.
LEMMA InEdgesFinite ==
    ASSUME NEW n \in Nodes
    PROVE  IsFiniteSet(InEdges(n)) /\ initialInDegree(n) \in Nat
<1>1. InEdges(n) \subseteq Edges
  BY DEF InEdges
<1>2. IsFiniteSet(InEdges(n))
  BY <1>1, FS_Subset
<1> QED
  BY <1>2, FS_CardinalityType DEF initialInDegree

\* A number that fits one half is its own remainder.
LEMMA FitsHalf ==
    ASSUME NEW a \in Nat, a < HALF
    PROVE  a % HALF = a /\ a \div HALF = 0
  OBVIOUS

\* The remainder of a natural number by HALF fits one half.
LEMMA RemainderFits ==
    ASSUME NEW a \in Nat
    PROVE  a % HALF \in 0..HALF-1 /\ a \div HALF \in Nat
  OBVIOUS

\* What prepareRun stores into inDegree is a pair of halves.
LEMMA InitialWordType ==
    ASSUME NEW n \in Nodes
    PROVE  InitialWord(n) \in Words
  BY InEdgesFinite, RemainderFits DEF InitialWord, Words

\* The two read-modify-writes of inDegree stay in range.
LEMMA WordStepType ==
    ASSUME NEW w \in Words
    PROVE  AddFFFF(w) \in Words /\ SubOne(w) \in Words
<1>1. w.low \in 0..HALF-1 /\ w.up \in 0..HALF-1
  BY DEF Words
<1>2. (w.up + 1) % HALF \in 0..HALF-1 /\ (w.up + HALF - 1) % HALF \in 0..HALF-1
  BY <1>1, RemainderFits
<1>3. AddFFFF(w) \in Words
  BY <1>1, <1>2 DEF Words, AddFFFF
<1>4. SubOne(w) \in Words
  BY <1>1, <1>2 DEF Words, SubOne
<1> QED
  BY <1>3, <1>4

\* The nodes of a cycle are nodes of the graph, so ExecuteLoopBack adds a
\* number to pending.
LEMMA CycleNodesFinite ==
    ASSUME NEW h \in Nodes, NEW c \in Nodes
    PROVE  Cardinality(CycleNodes(h, c)) \in Nat
<1>1. CycleNodes(h, c) \subseteq Nodes
  BY DEF CycleNodes, ReachableFrom
<1> QED
  BY <1>1, FS_Subset, FS_CardinalityType

----------------------------------------------------------------------------
(* Type correctness.                                                       *)

\* The graph as it is built is well typed.
LEMMA TypeInit == Init => TypeOK
<1> SUFFICES ASSUME Init PROVE TypeOK
  OBVIOUS
<1>1. inDegree \in [Nodes -> Words]
  BY InitialWordType DEF Init
<1>2. running \in BOOLEAN
  BY DEF Init
<1> QED
  BY <1>1, <1>2 DEF Init, TypeOK

\* Every step keeps the state well typed.
LEMMA TypeStep == TypeOK /\ [Next]_vars => TypeOK'
<1> SUFFICES ASSUME TypeOK, [Next]_vars PROVE TypeOK'
  OBVIOUS
<1> USE DEF TypeOK
<1>1. CASE prepareRun
  BY <1>1, InitialWordType, FS_CardinalityType DEF prepareRun, Roots, Finished
<1>2. ASSUME NEW n \in Nodes, ScheduleRoot(n) PROVE TypeOK'
  BY <1>2 DEF ScheduleRoot, Schedule
<1>3. CASE runAndWaitReturns
  BY <1>3 DEF runAndWaitReturns
<1>4. ASSUME NEW t \in Threads, NEW n \in Nodes, TakeQueued(t, n) PROVE TypeOK'
  BY <1>4 DEF TakeQueued, StartExecute
<1>5. ASSUME NEW t \in Threads, TakeInline(t) PROVE TypeOK'
  BY <1>5 DEF TakeInline, StartExecute
<1>6. ASSUME NEW t \in Threads, ExecuteStatic(t) PROVE TypeOK'
  BY <1>6 DEF ExecuteStatic, OutEdges, Finished
<1>7. ASSUME NEW t \in Threads, NEW b \in Branches, ExecuteCondition(t, b) PROVE TypeOK'
  BY <1>7 DEF ExecuteCondition, OutEdges, Finished
<1>8. ASSUME NEW t \in Threads, NEW b \in Branches, NEW e \in Edges, ExecuteLoopBack(t, b, e)
      PROVE  TypeOK'
  <2>1. cur[t] \in Nodes /\ Target[e] \in Nodes
    BY <1>8 DEF ExecuteLoopBack
  <2>2. LoopBack[e]
    BY <1>8 DEF ExecuteLoopBack, LoopEdges
  <2>3. LoopNodes[e] = CycleNodes(Target[e], Source[e])
    BY <2>2 DEF LoopNodes
  <2>4. Cardinality(LoopNodes[e]) \in Nat
    BY <2>3, CycleNodesFinite
  <2> QED
    BY <1>8, <2>1, <2>4, InitialWordType DEF ExecuteLoopBack, Schedule, Finished
<1>9. ASSUME NEW t \in Threads, NEW e \in Edges, decrementActive(t, e) PROVE TypeOK'
  <2>1. AddFFFF(inDegree[Target[e]]) \in Words
    BY WordStepType
  <2> QED
    <3>1. /\ inDegree' \in [Nodes -> Words]
          /\ queued' \in [Nodes -> Nat]
          /\ inline' \in [Threads -> Nodes \cup {None}]
      BY <1>9, <2>1 DEF decrementActive, Schedule
    <3>2. act' \in [Threads -> SUBSET Edges]
      BY <1>9 DEF decrementActive
    <3> QED
      BY <1>9, <3>1, <3>2 DEF decrementActive
<1>10. ASSUME NEW t \in Threads, NEW e \in Edges, decrementSkipped(t, e) PROVE TypeOK'
  <2>1. SubOne(inDegree[Target[e]]) \in Words
    BY WordStepType
  <2> QED
    BY <1>10, <2>1 DEF decrementSkipped, Schedule
<1>11. ASSUME NEW t \in Threads, cascadeSkip(t) PROVE TypeOK'
  BY <1>11 DEF cascadeSkip, OutEdges, Finished
<1>12. ASSUME NEW t \in Threads, onTaskCompleted(t) PROVE TypeOK'
  BY <1>12 DEF onTaskCompleted
<1>13. CASE UNCHANGED vars
  BY <1>13 DEF vars
<1> QED
  BY <1>1, <1>2, <1>3, <1>4, <1>5, <1>6, <1>7, <1>8, <1>9, <1>10, <1>11, <1>12, <1>13
  DEF Next, CallerStep, ThreadStep

\* Every field keeps its type in every run of every graph: in particular
\* both halves of inDegree stay 16-bit numbers and no queue is taken from
\* more often than it was filled.
THEOREM TypeCorrect == Spec => []TypeOK
<1> QED
  BY TypeInit, TypeStep, PTL DEF Spec

----------------------------------------------------------------------------
(* Counting dependencies.                                                  *)

\* The dependencies owed to a node and the active ones delivered to it are
\* disjoint sets of edges into it: together the two halves never exceed the
\* in-degree, so no carry leaves a half.
LEMMA HalvesBound ==
    ASSUME Counts, NEW n \in Nodes
    PROVE  /\ IsFiniteSet(OwedTo(n)) /\ IsFiniteSet(ActiveAt(n))
           /\ inDegree[n].low \in Nat /\ inDegree[n].up \in Nat
           /\ inDegree[n].low + inDegree[n].up <= initialInDegree(n)
<1>1. OwedTo(n) \subseteq InEdges(n) /\ ActiveAt(n) \subseteq InEdges(n)
  BY DEF OwedTo, ActiveAt
<1>2. OwedTo(n) \cap ActiveAt(n) = {}
  BY DEF OwedTo, ActiveAt
<1>3. IsFiniteSet(InEdges(n))
  BY InEdgesFinite
<1>4. IsFiniteSet(OwedTo(n)) /\ IsFiniteSet(ActiveAt(n))
  BY <1>1, <1>3, FS_Subset
<1>5. Cardinality(OwedTo(n) \cup ActiveAt(n)) = Cardinality(OwedTo(n)) + Cardinality(ActiveAt(n))
  <2>1. Cardinality(OwedTo(n) \cup ActiveAt(n))
          = Cardinality(OwedTo(n)) + Cardinality(ActiveAt(n)) - Cardinality({})
    BY <1>2, <1>4, FS_Union
  <2> QED
    BY <2>1, <1>4, FS_EmptySet, FS_CardinalityType
<1>6. Cardinality(OwedTo(n) \cup ActiveAt(n)) <= Cardinality(InEdges(n))
  BY <1>1, <1>3, FS_Subset
<1> QED
  BY <1>4, <1>5, <1>6, FS_CardinalityType DEF Counts, initialInDegree

\* A step that touches no counter, delivers nothing and changes the kind of
\* no delivered edge keeps the counters exact.
LEMMA CountsFrame ==
    ASSUME Counts, inDegree' = inDegree,
           \A e \in Edges : Owed(e)' <=> Owed(e),
           \A e \in Edges : ~Owed(e) => (Active(e)' <=> Active(e))
    PROVE  Counts'
<1>1. \A n \in Nodes : InEdges(n) \subseteq Edges
  BY DEF InEdges
<1>2. \A n \in Nodes : OwedTo(n)' = OwedTo(n) /\ ActiveAt(n)' = ActiveAt(n)
  BY <1>1 DEF OwedTo, ActiveAt
<1> QED
  BY <1>2 DEF Counts

\* A node whose lower half is 0 has every dependency behind it.
LEMMA ZeroMeansDelivered ==
    ASSUME Counts, NEW n \in Nodes, inDegree[n].low = 0, NEW e \in InEdges(n)
    PROVE  ~Owed(e) /\ state[Source[e]] \in Finished
<1>1. OwedTo(n) = {}
  BY HalvesBound, FS_EmptySet DEF Counts
<1> QED
  BY <1>1 DEF OwedTo, Owed

\* The upper half of such a node tells whether an edge into it is active.
LEMMA UpperMeansActive ==
    ASSUME Counts, NEW n \in Nodes, inDegree[n].low = 0
    PROVE  inDegree[n].up > 0 <=> \E e \in InEdges(n) : Active(e)
<1>1. inDegree[n].up = 0 <=> ActiveAt(n) = {}
  BY HalvesBound, FS_EmptySet DEF Counts
<1>2. \A e \in InEdges(n) : ~Owed(e)
  BY ZeroMeansDelivered
<1>3. ActiveAt(n) = {e \in InEdges(n) : Active(e)}
  BY <1>2 DEF ActiveAt
<1>4. inDegree[n].up \in Nat
  BY HalvesBound
<1> QED
  BY <1>1, <1>3, <1>4

\* Delivering e takes e, and nothing else, from what is owed.
LEMMA DeliveredEdge ==
    ASSUME TypeOK, Deliveries,
           NEW t \in Threads, NEW e \in Edges, e \in act[t] \cup skp[t],
           state' = state, chosen' = chosen,
           \A u \in Threads : act'[u] \cup skp'[u] = (act[u] \cup skp[u]) \ {e}
    PROVE  /\ Owed(e) /\ state[Source[e]] \in Finished
           /\ \A f \in Edges : Owed(f)' <=> Owed(f) /\ f # e
           /\ \A f \in Edges : Active(f)' <=> Active(f)
<1>1. state[Source[e]] \in Finished
  BY DEF Deliveries, Active, Finished
<1>2. Owed(e)
  BY DEF Owed
<1>3. \A f \in Edges : Owed(f)' <=> Owed(f) /\ f # e
  BY <1>1 DEF Owed
<1>4. \A f \in Edges : Active(f)' <=> Active(f)
  BY DEF Active
<1> QED
  BY <1>1, <1>2, <1>3, <1>4

\* What a delivery does to the two sets that the halves of its target count.
LEMMA DeliveredSets ==
    ASSUME TypeOK, Deliveries, Acyclic,
           NEW t \in Threads, NEW e \in Edges, e \in act[t] \cup skp[t],
           state' = state, chosen' = chosen,
           \A u \in Threads : act'[u] \cup skp'[u] = (act[u] \cup skp[u]) \ {e}
    PROVE  /\ e \in OwedTo(Target[e]) /\ e \notin ActiveAt(Target[e])
           /\ OwedTo(Target[e])' = OwedTo(Target[e]) \ {e}
           /\ ActiveAt(Target[e])' = IF Active(e) THEN ActiveAt(Target[e]) \cup {e}
                                    ELSE ActiveAt(Target[e])
           /\ \A n \in Nodes : n # Target[e] =>
                  OwedTo(n)' = OwedTo(n) /\ ActiveAt(n)' = ActiveAt(n)
<1>1. /\ Owed(e)
      /\ \A f \in Edges : Owed(f)' <=> Owed(f) /\ f # e
      /\ \A f \in Edges : Active(f)' <=> Active(f)
  BY DeliveredEdge
<1>2. e \in InEdges(Target[e])
  BY DEF InEdges, Acyclic
<1>3. \A n \in Nodes : InEdges(n) \subseteq Edges /\ (n # Target[e] => e \notin InEdges(n))
  BY DEF InEdges
<1>4. e \in OwedTo(Target[e]) /\ e \notin ActiveAt(Target[e])
  BY <1>1, <1>2 DEF OwedTo, ActiveAt
<1>5. OwedTo(Target[e])' = OwedTo(Target[e]) \ {e}
  BY <1>1, <1>3 DEF OwedTo
<1>6. ActiveAt(Target[e])' = IF Active(e) THEN ActiveAt(Target[e]) \cup {e}
                             ELSE ActiveAt(Target[e])
  BY <1>1, <1>2, <1>3 DEF ActiveAt
<1>7. ASSUME NEW n \in Nodes, n # Target[e]
      PROVE  OwedTo(n)' = OwedTo(n) /\ ActiveAt(n)' = ActiveAt(n)
  BY <1>1, <1>3, <1>7 DEF OwedTo, ActiveAt
<1> QED
  BY <1>4, <1>5, <1>6, <1>7

\* decrementActive and decrementSkipped keep the counters exact.
LEMMA DeliveredCounts ==
    ASSUME TypeOK, Counts, Deliveries, Acyclic, DegreesFit,
           NEW t \in Threads, NEW e \in Edges, e \in act[t] \cup skp[t],
           state' = state, chosen' = chosen,
           \A u \in Threads : act'[u] \cup skp'[u] = (act[u] \cup skp[u]) \ {e},
           inDegree' = [inDegree EXCEPT ![Target[e]] =
                            IF Active(e) THEN AddFFFF(@) ELSE SubOne(@)]
    PROVE  /\ Counts'
           /\ inDegree[Target[e]].low > 0
           /\ inDegree'[Target[e]].low = inDegree[Target[e]].low - 1
           /\ inDegree'[Target[e]].up = IF Active(e) THEN inDegree[Target[e]].up + 1
                                        ELSE inDegree[Target[e]].up
<1> DEFINE n == Target[e]
<1>0. n \in Nodes
  OBVIOUS
<1>1. /\ e \in OwedTo(n) /\ e \notin ActiveAt(n)
      /\ OwedTo(n)' = OwedTo(n) \ {e}
      /\ ActiveAt(n)' = IF Active(e) THEN ActiveAt(n) \cup {e} ELSE ActiveAt(n)
      /\ \A m \in Nodes : m # n => OwedTo(m)' = OwedTo(m) /\ ActiveAt(m)' = ActiveAt(m)
  BY DeliveredSets
<1>2. /\ IsFiniteSet(OwedTo(n)) /\ IsFiniteSet(ActiveAt(n))
      /\ inDegree[n].low \in Nat /\ inDegree[n].up \in Nat
      /\ inDegree[n].low + inDegree[n].up < HALF
  <2>1. initialInDegree(n) \in Nat /\ initialInDegree(n) < HALF
    BY <1>0, InEdgesFinite DEF DegreesFit
  <2> QED
    BY <1>0, <2>1, HalvesBound
<1>3. inDegree[n].low = Cardinality(OwedTo(n)) /\ inDegree[n].up = Cardinality(ActiveAt(n))
  BY <1>0 DEF Counts
<1>4. inDegree[n].low > 0
  BY <1>1, <1>2, <1>3, FS_EmptySet
<1>5. Cardinality(OwedTo(n) \ {e}) = inDegree[n].low - 1
  <2>1. Cardinality(OwedTo(n) \ {e}) = Cardinality(OwedTo(n)) - 1
    BY <1>1, <1>2, FS_RemoveElement, Zenon
  <2> QED
    BY <2>1, <1>3
<1>6. Cardinality(ActiveAt(n) \cup {e}) = inDegree[n].up + 1
  <2>1. Cardinality(ActiveAt(n) \cup {e}) = Cardinality(ActiveAt(n)) + 1
    BY <1>1, <1>2, FS_AddElement, Zenon
  <2> QED
    BY <2>1, <1>3
<1>7. (inDegree[n].up + 1) % HALF = inDegree[n].up + 1
  BY <1>2, <1>4, FitsHalf
<1>8. inDegree'[n] = [low |-> inDegree[n].low - 1,
                      up |-> IF Active(e) THEN inDegree[n].up + 1 ELSE inDegree[n].up]
  <2>1. inDegree'[n] = IF Active(e) THEN AddFFFF(inDegree[n]) ELSE SubOne(inDegree[n])
    BY <1>0 DEF TypeOK
  <2> QED
    BY <2>1, <1>2, <1>4, <1>7 DEF AddFFFF, SubOne
<1>9. \A m \in Nodes : m # n => inDegree'[m] = inDegree[m]
  BY DEF TypeOK
<1>10. inDegree'[n].low = Cardinality(OwedTo(n)') /\ inDegree'[n].up = Cardinality(ActiveAt(n)')
  BY <1>1, <1>3, <1>5, <1>6, <1>8
<1>11. ASSUME NEW m \in Nodes
       PROVE  inDegree'[m].low = Cardinality(OwedTo(m)') /\ inDegree'[m].up = Cardinality(ActiveAt(m)')
  <2>1. CASE m = n
    BY <2>1, <1>10
  <2>2. CASE m # n
    BY <2>2, <1>1, <1>9 DEF Counts
  <2> QED
    BY <2>1, <2>2
<1>12. Counts'
  BY <1>11 DEF Counts
<1> QED
  BY <1>4, <1>8, <1>12

----------------------------------------------------------------------------
(* The steps of the invariant, one lemma per action.                       *)

\* The inductive invariant holds before the first run.
LEMMA InitIInv == ASSUME Acyclic, DegreesFit PROVE Init => IInv
<1> SUFFICES ASSUME Init PROVE IInv
  OBVIOUS
<1>1. TypeOK
  BY TypeInit
<1>2. \A e \in Edges : Owed(e)
  BY DEF Owed, Init, Finished
<1>3. \A n \in Nodes : OwedTo(n) = InEdges(n) /\ ActiveAt(n) = {}
  BY <1>2 DEF OwedTo, ActiveAt, InEdges
<1>4. \A n \in Nodes : InitialWord(n) = [low |-> initialInDegree(n), up |-> 0]
  BY InEdgesFinite, FitsHalf DEF InitialWord, DegreesFit
<1>5. Counts
  <2>1. \A n \in Nodes : inDegree[n].low = initialInDegree(n) /\ inDegree[n].up = 0
    BY <1>4 DEF Init
  <2>2. Cardinality({}) = 0
    BY FS_EmptySet
  <2> QED
    BY <1>3, <2>1, <2>2 DEF Counts, initialInDegree
<1>6. Deliveries
  BY DEF Deliveries, Init
<1>7. Placement
  BY DEF Placement, Holds, Runs, Init
<1>8. Decided
  BY DEF Decided, Init
<1>9. PendingCount /\ Resting
  BY DEF PendingCount, Resting, Init
<1> QED
  BY <1>1, <1>5, <1>6, <1>7, <1>8, <1>9 DEF IInv

\* A number for the two sets m_pendingTasks counts.
LEMMA PendingSets ==
    /\ IsFiniteSet(Unfinished) /\ Cardinality(Unfinished) \in Nat
    /\ IsFiniteSet(Unblocking) /\ Cardinality(Unblocking) \in Nat
<1>1. Unfinished \subseteq Nodes /\ Unblocking \subseteq Threads
  BY DEF Unfinished, Unblocking
<1> QED
  BY <1>1, FS_Subset, FS_CardinalityType

\* The reset of prepareRun re-establishes it for the next run.
LEMMA PrepareIInv ==
    ASSUME Acyclic, DegreesFit, IInv, prepareRun PROVE IInv'
<1> USE DEF IInv
<1>1. TypeOK'
  BY TypeStep DEF Next
<1>2. \A t \in Threads : pc[t] = "idle" /\ act[t] = {} /\ skp[t] = {} /\ skipping[t] = None
  BY DEF prepareRun, Resting, Deliveries
<1>3. \A e \in Edges : Owed(e)'
  BY DEF Owed, prepareRun, Finished
<1>4. \A n \in Nodes : OwedTo(n)' = InEdges(n) /\ ActiveAt(n)' = {}
  BY <1>3 DEF OwedTo, ActiveAt, InEdges
<1>5. \A n \in Nodes : InitialWord(n) = [low |-> initialInDegree(n), up |-> 0]
  BY InEdgesFinite, FitsHalf DEF InitialWord, DegreesFit
<1>6. Counts'
  <2>1. \A n \in Nodes : inDegree'[n].low = initialInDegree(n) /\ inDegree'[n].up = 0
    BY <1>5 DEF prepareRun
  <2>2. Cardinality({}) = 0
    BY FS_EmptySet
  <2> QED
    BY <1>4, <2>1, <2>2 DEF Counts, initialInDegree
<1>7. Deliveries'
  BY <1>2 DEF Deliveries, prepareRun
<1>8. Placement'
  BY <1>2 DEF Placement, Holds, Runs, Resting, prepareRun
<1>9. Decided'
  BY <1>2, <1>5 DEF Decided, Resting, prepareRun, Roots
<1>10. PendingCount'
  <2>1. Unfinished' = Nodes /\ Unblocking' = {}
    BY <1>2 DEF prepareRun, Unfinished, Unblocking, Finished
  <2> QED
    BY <2>1, FS_EmptySet, FS_CardinalityType DEF PendingCount, prepareRun
<1>11. Resting'
  BY DEF Resting, prepareRun
<1> QED
  BY <1>1, <1>6, <1>7, <1>8, <1>9, <1>10, <1>11

\* prepareRun schedules a root.
LEMMA ScheduleRootIInv ==
    ASSUME IInv, NEW r \in Nodes, ScheduleRoot(r) PROVE IInv'
<1> USE DEF IInv
<1>1. TypeOK'
  BY TypeStep DEF Next, CallerStep
<1>2. Counts'
  <2>1. inDegree' = inDegree
    BY DEF ScheduleRoot
  <2>2. \A e \in Edges : (Owed(e)' <=> Owed(e)) /\ (Active(e)' <=> Active(e))
    BY DEF ScheduleRoot, Owed, Active
  <2> QED
    BY <2>1, <2>2, CountsFrame
<1>3. Deliveries'
  BY DEF Deliveries, ScheduleRoot, Active
<1>4. Placement'
  BY DEF Placement, Holds, Runs, ScheduleRoot, Schedule, TypeOK
<1>5. Decided'
  BY DEF Decided, Placement, ScheduleRoot, Schedule, TypeOK
<1>6. PendingCount'
  BY DEF PendingCount, Unfinished, Unblocking, ScheduleRoot
<1>7. Resting'
  BY DEF Resting, ScheduleRoot
<1> QED
  BY <1>1, <1>2, <1>3, <1>4, <1>5, <1>6, <1>7

\* When the count is 0 nothing is left to do.
LEMMA ZeroPending ==
    ASSUME IInv, running, isCompleted
    PROVE  /\ \A n \in Nodes : state[n] \in Finished /\ ~Released(n)
           /\ \A t \in Threads : pc[t] = "idle" /\ skipping[t] = None /\ inline[t] = None
<1> USE DEF IInv
<1>1. Unfinished = {} /\ Unblocking = {}
  BY PendingSets, FS_EmptySet DEF PendingCount, isCompleted
<1>2. \A n \in Nodes : state[n] \in Finished
  BY <1>1 DEF Unfinished
<1>3. \A t \in Threads : pc[t] # "unblock"
  BY <1>1 DEF Unblocking
<1>4. \A t \in Threads, n \in Nodes : ~Runs(t, n) /\ inline[t] # n
  BY <1>2 DEF Placement, Finished
<1>5. \A t \in Threads : pc[t] = "idle" /\ inline[t] = None
  BY <1>3, <1>4 DEF Placement, Runs, TypeOK
<1>6. \A n \in Nodes : ~Released(n)
  <2>1. \A n \in Nodes : queued[n] = 0
    BY <1>2 DEF Placement, Finished
  <2>2. \A n \in Nodes : Keepers(n) = {} /\ Executors(n) = {}
    BY <1>4 DEF Keepers, Executors, Runs
  <2> QED
    BY ONLY <2>1, <2>2 DEF Released
<1>7. \A t \in Threads : skipping[t] = None
  BY <1>3 DEF Deliveries
<1> QED
  BY ONLY <1>2, <1>5, <1>6, <1>7

\* The caller leaves helpUntil.
LEMMA ReturnsIInv ==
    ASSUME IInv, runAndWaitReturns PROVE IInv'
<1> USE DEF IInv
<1>1. TypeOK'
  BY TypeStep DEF Next, CallerStep
<1>2. Counts'
  <2>1. inDegree' = inDegree
    BY DEF runAndWaitReturns
  <2>2. \A e \in Edges : (Owed(e)' <=> Owed(e)) /\ (Active(e)' <=> Active(e))
    BY DEF runAndWaitReturns, Owed, Active
  <2> QED
    BY <2>1, <2>2, CountsFrame
<1>3. Deliveries'
  BY DEF Deliveries, runAndWaitReturns, Active
<1>4. Placement'
  BY DEF Placement, Holds, Runs, runAndWaitReturns
<1>5. Decided'
  BY DEF Decided, runAndWaitReturns
<1>6. PendingCount'
  BY DEF PendingCount, runAndWaitReturns
<1>7. Resting'
  <2>1. running /\ isCompleted
    BY DEF runAndWaitReturns
  <2>2. \A n \in Nodes : queued[n] = 0
    BY <2>1, ZeroPending DEF Released, TypeOK
  <2>3. \A t \in Threads : pc[t] = "idle" /\ inline[t] = None
    BY <2>1, ZeroPending
  <2> QED
    BY <2>2, <2>3 DEF Resting, runAndWaitReturns
<1> QED
  BY <1>1, <1>2, <1>3, <1>4, <1>5, <1>6, <1>7

\* A thread takes a node from a queue or from its inline slot.
LEMMA TakeIInv ==
    ASSUME IInv, NEW t \in Threads, NEW n \in Nodes,
           TakeQueued(t, n) \/ (TakeInline(t) /\ inline[t] = n)
    PROVE  IInv'
<1> USE DEF IInv
<1>1. TypeOK'
  BY TypeStep DEF Next, ThreadStep
<1>2. /\ pc[t] = "idle" /\ state[n] = "Pending"
      /\ inDegree' = inDegree /\ chosen' = chosen /\ act' = act /\ skp' = skp
      /\ skipping' = skipping /\ running' = running /\ roots' = roots /\ pending' = pending
      /\ pc' = [pc EXCEPT ![t] = "execute"] /\ cur' = [cur EXCEPT ![t] = n]
      /\ state' = [state EXCEPT ![n] = "Executing"]
  BY DEF TakeQueued, TakeInline, StartExecute, Placement, TypeOK
<1>3. \A e \in Edges : (Owed(e)' <=> Owed(e)) /\ (Active(e)' <=> Active(e))
  BY <1>2 DEF Owed, Active, Finished, TypeOK
<1>4. Counts'
  BY <1>2, <1>3, CountsFrame
<1>5. Deliveries'
  BY <1>2, <1>3 DEF Deliveries, Finished, TypeOK
<1>6. Placement'
  <2>1. CASE TakeQueued(t, n)
    BY <1>2, <2>1 DEF TakeQueued, Placement, Holds, Runs, TypeOK
  <2>2. CASE TakeInline(t) /\ inline[t] = n
    BY <1>2, <2>2 DEF TakeInline, Placement, Holds, Runs, TypeOK
  <2> QED
    BY <2>1, <2>2
<1>7. Decided'
  <2>1. CASE TakeQueued(t, n)
    BY <1>2, <2>1 DEF TakeQueued, Placement, Decided, TypeOK
  <2>2. CASE TakeInline(t) /\ inline[t] = n
    BY <1>2, <2>2 DEF TakeInline, Placement, Decided, TypeOK
  <2> QED
    BY <2>1, <2>2
<1>8. PendingCount'
  <2>1. Unfinished' = Unfinished /\ Unblocking' = Unblocking
    BY <1>2 DEF Unfinished, Unblocking, Finished, TypeOK
  <2> QED
    BY <1>2, <2>1 DEF PendingCount
<1>9. Resting'
  BY <1>2 DEF Resting, TakeQueued, TakeInline
<1> QED
  BY <1>1, <1>4, <1>5, <1>6, <1>7, <1>8, <1>9

\* A callable returns: its node completes and its edges are to be delivered.
LEMMA ExecuteIInv ==
    ASSUME Acyclic, IInv, NEW t \in Threads,
           ExecuteStatic(t) \/ \E b \in Branches : ExecuteCondition(t, b)
    PROVE  IInv'
<1> USE DEF IInv
<1> DEFINE n == cur[t]
<1>1. TypeOK'
  BY TypeStep DEF Next, ThreadStep
<1>2. /\ pc[t] = "execute" /\ n \in Nodes /\ state[n] = "Executing"
      /\ act[t] = {} /\ skp[t] = {} /\ skipping[t] = None
      /\ running' = running /\ roots' = roots /\ pending' = pending
      /\ inDegree' = inDegree /\ queued' = queued /\ inline' = inline /\ cur' = cur
      /\ skipping' = skipping
      /\ state' = [state EXCEPT ![n] = "Completed"]
      /\ pc' = [pc EXCEPT ![t] = "unblock"]
      /\ \A m \in Nodes : m # n => chosen'[m] = chosen[m]
  BY DEF ExecuteStatic, ExecuteCondition, Placement, Runs, Deliveries, TypeOK
<1>3. /\ \A u \in Threads : u # t => act'[u] = act[u] /\ skp'[u] = skp[u]
      /\ \A e \in Edges : e \in act'[t] \cup skp'[t] <=> Source[e] = n
      /\ \A e \in act'[t] : Source[e] = n /\ (n \in Conditions => Selected(e, chosen'[n]))
      /\ \A e \in skp'[t] : Source[e] = n /\ n \in Conditions /\ ~Selected(e, chosen'[n])
  <2>1. CASE ExecuteStatic(t)
    BY <1>2, <2>1 DEF ExecuteStatic, OutEdges, TypeOK
  <2>2. ASSUME NEW b \in Branches, ExecuteCondition(t, b) PROVE <1>3
    BY <1>2, <2>2 DEF ExecuteCondition, OutEdges, TypeOK, Acyclic
  <2> QED
    BY <2>1, <2>2
<1>4. \A u \in Threads : \A e \in act[u] \cup skp[u] : e \in Edges /\ Source[e] # n
  BY <1>2 DEF Deliveries, Active, Finished, TypeOK
<1>5. \A e \in Edges : Source[e] = n => Owed(e) /\ Owed(e)'
  BY <1>2, <1>3 DEF Owed, Finished, TypeOK
<1>6. \A e \in Edges : Source[e] # n => (Owed(e)' <=> Owed(e)) /\ (Active(e)' <=> Active(e))
  <2> SUFFICES ASSUME NEW e \in Edges, Source[e] # n
               PROVE  (Owed(e)' <=> Owed(e)) /\ (Active(e)' <=> Active(e))
    OBVIOUS
  <2>1. Source[e] \in Nodes /\ state'[Source[e]] = state[Source[e]]
        /\ chosen'[Source[e]] = chosen[Source[e]]
    BY <1>2 DEF TypeOK
  <2>2. \A u \in Threads : e \in act'[u] \cup skp'[u] <=> e \in act[u] \cup skp[u]
    BY <1>2, <1>3
  <2> QED
    BY <2>1, <2>2 DEF Owed, Active
<1>7. Counts'
  BY <1>2, <1>5, <1>6, CountsFrame
<1>8. \A e \in Edges : Source[e] = n => (e \in act'[t] => Active(e)') /\ (e \in skp'[t] => ~Active(e)')
  BY <1>2, <1>3 DEF Active, TypeOK
<1>9. Deliveries'
  <2>1. \A u \in Threads : \A e \in act'[u] : Active(e)'
    <3> SUFFICES ASSUME NEW u \in Threads, NEW e \in act'[u]
                 PROVE  Active(e)'
      OBVIOUS
    <3>1. e \in Edges
      BY <1>1 DEF TypeOK
    <3>2. CASE u = t
      BY <3>1, <3>2, <1>3, <1>8
    <3>3. CASE u # t
      <4>1. e \in act[u] /\ Source[e] # n
        BY <3>3, <1>3, <1>4
      <4>2. Active(e)
        BY <4>1 DEF Deliveries
      <4> QED
        BY <3>1, <4>1, <4>2, <1>6
    <3> QED
      BY <3>2, <3>3
  <2>2. \A u \in Threads : \A e \in skp'[u] : state'[Source[e]] \in Finished /\ ~Active(e)'
    <3> SUFFICES ASSUME NEW u \in Threads, NEW e \in skp'[u]
                 PROVE  state'[Source[e]] \in Finished /\ ~Active(e)'
      OBVIOUS
    <3>1. e \in Edges /\ Source[e] \in Nodes
      BY <1>1 DEF TypeOK
    <3>2. CASE u = t
      <4>1. Source[e] = n
        BY <3>1, <3>2, <1>3
      <4> QED
        BY <3>1, <3>2, <4>1, <1>2, <1>8 DEF TypeOK, Finished
    <3>3. CASE u # t
      <4>1. e \in skp[u] /\ Source[e] # n
        BY <3>3, <1>3, <1>4
      <4>2. state[Source[e]] \in Finished /\ ~Active(e)
        BY <4>1 DEF Deliveries
      <4> QED
        BY <3>1, <4>1, <4>2, <1>2, <1>6 DEF TypeOK
    <3> QED
      BY <3>2, <3>3
  <2>3. \A u \in Threads : pc'[u] # "unblock" =>
            act'[u] = {} /\ skp'[u] = {} /\ skipping'[u] = None
    BY <1>2, <1>3 DEF Deliveries, TypeOK
  <2>4. \A u, v \in Threads : \A e \in Edges :
            e \in act'[u] \cup skp'[u] /\ e \in act'[v] \cup skp'[v] => u = v
    <3> SUFFICES ASSUME NEW u \in Threads, NEW v \in Threads, NEW e \in Edges,
                        e \in act'[u] \cup skp'[u], e \in act'[v] \cup skp'[v]
                 PROVE  u = v
      OBVIOUS
    <3>1. CASE Source[e] = n
      <4>1. \A w \in Threads : e \in act'[w] \cup skp'[w] => w = t
        BY <3>1, <1>3, <1>4
      <4> QED
        BY <4>1
    <3>2. CASE Source[e] # n
      <4>1. u # t /\ v # t
        BY <3>2, <1>3
      <4>2. e \in act[u] \cup skp[u] /\ e \in act[v] \cup skp[v]
        BY <4>1, <1>3
      <4> QED
        BY <4>2 DEF Deliveries
    <3> QED
      BY <3>1, <3>2
  <2> QED
    BY <2>1, <2>2, <2>3, <2>4 DEF Deliveries
<1>10. Placement'
  BY <1>2 DEF Placement, Holds, Runs, TypeOK
<1>11. Decided'
  BY <1>2 DEF Decided, TypeOK
<1>12. PendingCount'
  <2>1. Unfinished' = Unfinished \ {n} /\ n \in Unfinished
    BY <1>2 DEF Unfinished, Finished, TypeOK
  <2>2. Unblocking' = Unblocking \cup {t} /\ t \notin Unblocking
    BY <1>2 DEF Unblocking, TypeOK
  <2>3. Cardinality(Unfinished \ {n}) = Cardinality(Unfinished) - 1
    BY <2>1, PendingSets, FS_RemoveElement, Zenon
  <2>4. Cardinality(Unblocking \cup {t}) = Cardinality(Unblocking) + 1
    BY <2>2, PendingSets, FS_AddElement, Zenon
  <2> QED
    BY <1>2, <2>1, <2>2, <2>3, <2>4, PendingSets DEF PendingCount
<1>13. Resting'
  BY <1>2 DEF Resting
<1> QED
  BY <1>1, <1>7, <1>9, <1>10, <1>11, <1>12, <1>13

\* An active edge is delivered.
LEMMA DecrementActiveIInv ==
    ASSUME Acyclic, DegreesFit, IInv, NEW t \in Threads, NEW e \in Edges,
           decrementActive(t, e)
    PROVE  IInv'
<1> USE DEF IInv
<1> DEFINE n == Target[e]
<1>1. TypeOK'
  BY TypeStep DEF Next, ThreadStep
<1>2. /\ n \in Nodes /\ e \in act[t] /\ e \notin skp[t] /\ Active(e) /\ pc[t] = "unblock"
      /\ running' = running /\ roots' = roots /\ pending' = pending
      /\ state' = state /\ chosen' = chosen /\ pc' = pc /\ cur' = cur
      /\ skp' = skp /\ skipping' = skipping
      /\ act' = [act EXCEPT ![t] = @ \ {e}]
      /\ inDegree' = [inDegree EXCEPT ![n] = AddFFFF(@)]
  BY DEF decrementActive, Deliveries
<1>3. \A u \in Threads : act'[u] \cup skp'[u] = (act[u] \cup skp[u]) \ {e}
  <2>1. \A u \in Threads : u # t => e \notin act[u] \cup skp[u]
    BY <1>2 DEF Deliveries
  <2> QED
    BY <1>2, <2>1 DEF TypeOK
<1>4. /\ Counts'
      /\ inDegree[n].low > 0
      /\ inDegree'[n].low = inDegree[n].low - 1
      /\ inDegree'[n].up = inDegree[n].up + 1
  BY <1>2, <1>3, DeliveredCounts
<1>5. inDegree[n].up \in Nat /\ inDegree[n].low \in Nat
  BY <1>2, HalvesBound
<1>6. \A m \in Nodes : m # n => inDegree'[m] = inDegree[m]
  BY <1>2 DEF TypeOK
<1>7. /\ n \notin roots /\ queued[n] = 0 /\ state[n] = "Pending"
      /\ \A u \in Threads : ~Holds(u, n)
  BY <1>2, <1>4 DEF Decided, Placement, Holds, Runs, TypeOK
<1>8. Deliveries'
  <2>1. \A f \in Edges : Active(f)' <=> Active(f)
    BY <1>2 DEF Active
  <2> QED
    BY <1>2, <2>1 DEF Deliveries, TypeOK
<1>9. Placement' /\ Decided'
  <2>1. CASE inDegree[n].low = 1 /\ inline' = [inline EXCEPT ![t] = n] /\ queued' = queued /\ inline[t] = None
    <3>1. Placement'
      BY <1>2, <1>7, <2>1 DEF Placement, Holds, Runs, TypeOK
    <3>2. Decided'
      BY <1>2, <1>4, <1>5, <1>6, <1>7, <2>1 DEF Decided, Holds, Runs, TypeOK
    <3> QED
      BY <3>1, <3>2
  <2>2. CASE inDegree[n].low = 1 /\ queued' = [queued EXCEPT ![n] = @ + 1] /\ inline' = inline
    <3>1. Placement'
      BY <1>2, <1>7, <2>2 DEF Placement, Holds, Runs, TypeOK
    <3>2. Decided'
      BY <1>2, <1>4, <1>5, <1>6, <1>7, <2>2 DEF Decided, Holds, Runs, TypeOK
    <3> QED
      BY <3>1, <3>2
  <2>3. CASE queued' = queued /\ inline' = inline
    <3>1. Placement'
      BY <1>2, <2>3 DEF Placement, Holds, Runs, TypeOK
    <3>2. Decided'
      BY <1>2, <1>4, <1>5, <1>6, <1>7, <2>3 DEF Decided, Holds, Runs, TypeOK
    <3> QED
      BY <3>1, <3>2
  <2> QED
    BY <2>1, <2>2, <2>3 DEF decrementActive, Schedule
<1>10. PendingCount'
  BY <1>2 DEF PendingCount, Unfinished, Unblocking
<1>11. Resting'
  BY <1>2 DEF Resting
<1> QED
  BY <1>1, <1>4, <1>8, <1>9, <1>10, <1>11

\* A skipped edge is delivered.
LEMMA DecrementSkippedIInv ==
    ASSUME Acyclic, DegreesFit, IInv, NEW t \in Threads, NEW e \in Edges,
           decrementSkipped(t, e)
    PROVE  IInv'
<1> USE DEF IInv
<1> DEFINE n == Target[e]
<1>1. TypeOK'
  BY TypeStep DEF Next, ThreadStep
<1>2. /\ n \in Nodes /\ e \in skp[t] /\ e \notin act[t] /\ ~Active(e) /\ pc[t] = "unblock"
      /\ running' = running /\ roots' = roots /\ pending' = pending
      /\ state' = state /\ chosen' = chosen /\ pc' = pc /\ cur' = cur
      /\ act' = act /\ inline' = inline /\ skipping[t] = None
      /\ skp' = [skp EXCEPT ![t] = @ \ {e}]
      /\ inDegree' = [inDegree EXCEPT ![n] = SubOne(@)]
  BY DEF decrementSkipped, Deliveries
<1>3. \A u \in Threads : act'[u] \cup skp'[u] = (act[u] \cup skp[u]) \ {e}
  <2>1. \A u \in Threads : u # t => e \notin act[u] \cup skp[u]
    BY <1>2 DEF Deliveries
  <2> QED
    BY <1>2, <2>1 DEF TypeOK
<1>4. /\ Counts'
      /\ inDegree[n].low > 0
      /\ inDegree'[n].low = inDegree[n].low - 1
      /\ inDegree'[n].up = inDegree[n].up
  BY <1>2, <1>3, DeliveredCounts
<1>5. inDegree[n].up \in Nat /\ inDegree[n].low \in Nat
  BY <1>2, HalvesBound
<1>6. \A m \in Nodes : m # n => inDegree'[m] = inDegree[m]
  BY <1>2 DEF TypeOK
<1>7. /\ n \notin roots /\ queued[n] = 0 /\ state[n] = "Pending"
      /\ \A u \in Threads : ~Holds(u, n)
  BY <1>2, <1>4 DEF Decided, Placement, Holds, Runs, TypeOK
<1>8. n \notin Roots
  <2>1. inDegree[n].low + inDegree[n].up <= initialInDegree(n)
    BY <1>2, HalvesBound
  <2> QED
    BY <1>4, <1>5, <2>1 DEF Roots
<1>9. Deliveries'
  <2>1. \A f \in Edges : Active(f)' <=> Active(f)
    BY <1>2 DEF Active
  <2>2. \A u \in Threads : pc[u] # "unblock" => skipping'[u] = None
    BY <1>2 DEF decrementSkipped, Deliveries, TypeOK
  <2> QED
    BY <1>2, <2>1, <2>2 DEF Deliveries, TypeOK
<1>10. Placement' /\ Decided'
  <2>1. CASE /\ inDegree[n].low = 1 /\ inDegree[n].up > 0
             /\ queued' = [queued EXCEPT ![n] = @ + 1] /\ skipping' = skipping
    <3>1. Placement'
      BY <1>2, <1>7, <2>1 DEF Placement, Holds, Runs, TypeOK
    <3>2. Decided'
      BY <1>2, <1>4, <1>5, <1>6, <1>7, <2>1 DEF Decided, Holds, Runs, TypeOK
    <3> QED
      BY <3>1, <3>2
  <2>2. CASE /\ inDegree[n].low = 1 /\ inDegree[n].up = 0
             /\ skipping' = [skipping EXCEPT ![t] = n] /\ queued' = queued
    <3>1. Placement'
      BY <1>2, <1>7, <2>2 DEF Placement, Holds, Runs, TypeOK
    <3>2. Decided'
      BY <1>2, <1>4, <1>5, <1>6, <1>7, <1>8, <2>2 DEF Decided, Holds, Runs, TypeOK
    <3> QED
      BY <3>1, <3>2
  <2>3. CASE queued' = queued /\ skipping' = skipping
    <3>1. Placement'
      BY <1>2, <2>3 DEF Placement, Holds, Runs, TypeOK
    <3>2. Decided'
      BY <1>2, <1>4, <1>5, <1>6, <1>7, <2>3 DEF Decided, Holds, Runs, TypeOK
    <3> QED
      BY <3>1, <3>2
  <2> QED
    BY <1>5, <2>1, <2>2, <2>3 DEF decrementSkipped, Schedule
<1>11. PendingCount'
  BY <1>2 DEF PendingCount, Unfinished, Unblocking
<1>12. Resting'
  BY <1>2 DEF Resting, decrementSkipped
<1> QED
  BY <1>1, <1>4, <1>9, <1>10, <1>11, <1>12

\* A node is skipped and its edges are to be delivered as skipped.
LEMMA CascadeSkipIInv ==
    ASSUME IInv, NEW t \in Threads, cascadeSkip(t) PROVE IInv'
<1> USE DEF IInv
<1> DEFINE n == skipping[t]
<1>1. TypeOK'
  BY TypeStep DEF Next, ThreadStep
<1>2. /\ n \in Nodes /\ n # None /\ pc[t] = "unblock" /\ state[n] = "Pending"
      /\ running' = running /\ roots' = roots /\ pending' = pending - 1
      /\ inDegree' = inDegree /\ chosen' = chosen /\ queued' = queued
      /\ inline' = inline /\ pc' = pc /\ cur' = cur /\ act' = act
      /\ state' = [state EXCEPT ![n] = "Skipped"]
      /\ skp' = [skp EXCEPT ![t] = @ \cup OutEdges(n)]
      /\ skipping' = [skipping EXCEPT ![t] = None]
  BY DEF cascadeSkip, Deliveries, Placement, TypeOK
<1>3. \A u \in Threads : \A e \in act[u] \cup skp[u] : e \in Edges /\ Source[e] # n
  BY <1>2 DEF Deliveries, Active, Finished, TypeOK
<1>4. /\ \A u \in Threads : u # t => skp'[u] = skp[u]
      /\ \A e \in Edges : e \in skp'[t] <=> e \in skp[t] \/ Source[e] = n
  BY <1>2 DEF OutEdges, TypeOK
<1>5. \A e \in Edges : Source[e] = n => Owed(e) /\ Owed(e)' /\ ~Active(e)'
  BY <1>2, <1>4 DEF Owed, Active, Finished, TypeOK
<1>6. \A e \in Edges : Source[e] # n => (Owed(e)' <=> Owed(e)) /\ (Active(e)' <=> Active(e))
  <2> SUFFICES ASSUME NEW e \in Edges, Source[e] # n
               PROVE  (Owed(e)' <=> Owed(e)) /\ (Active(e)' <=> Active(e))
    OBVIOUS
  <2>1. Source[e] \in Nodes /\ state'[Source[e]] = state[Source[e]]
    BY <1>2 DEF TypeOK
  <2>2. \A u \in Threads : e \in act'[u] \cup skp'[u] <=> e \in act[u] \cup skp[u]
    BY <1>2, <1>4
  <2> QED
    BY <1>2, <2>1, <2>2 DEF Owed, Active
<1>7. Counts'
  BY <1>2, <1>5, <1>6, CountsFrame
<1>8. Deliveries'
  <2>1. \A u \in Threads : \A e \in act'[u] : Active(e)'
    BY <1>2, <1>3, <1>6 DEF Deliveries
  <2>2. \A u \in Threads : \A e \in skp'[u] : state'[Source[e]] \in Finished /\ ~Active(e)'
    <3> SUFFICES ASSUME NEW u \in Threads, NEW e \in skp'[u]
                 PROVE  state'[Source[e]] \in Finished /\ ~Active(e)'
      OBVIOUS
    <3>1. e \in Edges /\ Source[e] \in Nodes
      BY <1>1 DEF TypeOK
    <3>2. CASE Source[e] = n
      BY <3>2, <1>2, <1>5, <3>1 DEF Finished, TypeOK
    <3>3. CASE Source[e] # n
      <4>1. e \in skp[u]
        BY <3>1, <3>3, <1>4
      <4>2. state'[Source[e]] = state[Source[e]]
        BY <1>2, <3>1, <3>3 DEF TypeOK
      <4> QED
        BY <4>1, <4>2, <3>1, <3>3, <1>6 DEF Deliveries
    <3> QED
      BY <3>2, <3>3
  <2>3. \A u \in Threads : pc'[u] # "unblock" =>
            act'[u] = {} /\ skp'[u] = {} /\ skipping'[u] = None
    BY <1>2, <1>4 DEF Deliveries, TypeOK
  <2>4. \A u, v \in Threads : \A e \in Edges :
            e \in act'[u] \cup skp'[u] /\ e \in act'[v] \cup skp'[v] => u = v
    <3> SUFFICES ASSUME NEW u \in Threads, NEW v \in Threads, NEW e \in Edges,
                        e \in act'[u] \cup skp'[u], e \in act'[v] \cup skp'[v]
                 PROVE  u = v
      OBVIOUS
    <3>1. CASE Source[e] = n
      <4>1. \A w \in Threads : e \in act'[w] \cup skp'[w] => w = t
        BY <3>1, <1>2, <1>3, <1>4
      <4> QED
        BY <4>1
    <3>2. CASE Source[e] # n
      <4>1. e \in act[u] \cup skp[u] /\ e \in act[v] \cup skp[v]
        BY <3>2, <1>2, <1>4
      <4> QED
        BY <4>1 DEF Deliveries
    <3> QED
      BY <3>1, <3>2
  <2> QED
    BY <2>1, <2>2, <2>3, <2>4 DEF Deliveries
<1>9. Placement'
  BY <1>2 DEF Placement, Holds, Runs, TypeOK
<1>10. Decided'
  BY <1>2 DEF Decided, TypeOK
<1>11. PendingCount'
  <2>1. Unfinished' = Unfinished \ {n} /\ n \in Unfinished /\ Unblocking' = Unblocking
    BY <1>2 DEF Unfinished, Unblocking, Finished, TypeOK
  <2>2. Cardinality(Unfinished \ {n}) = Cardinality(Unfinished) - 1
    BY <2>1, PendingSets, FS_RemoveElement, Zenon
  <2> QED
    BY <1>2, <2>1, <2>2, PendingSets DEF PendingCount
<1>12. Resting'
  BY <1>2 DEF Resting
<1> QED
  BY <1>1, <1>7, <1>8, <1>9, <1>10, <1>11, <1>12

\* A thread leaves a node behind.
LEMMA OnTaskCompletedIInv ==
    ASSUME IInv, NEW t \in Threads, onTaskCompleted(t) PROVE IInv'
<1> USE DEF IInv
<1>1. TypeOK'
  BY TypeStep DEF Next, ThreadStep
<1>2. Counts'
  <2>1. inDegree' = inDegree
    BY DEF onTaskCompleted
  <2>2. \A e \in Edges : (Owed(e)' <=> Owed(e)) /\ (Active(e)' <=> Active(e))
    BY DEF onTaskCompleted, Owed, Active
  <2> QED
    BY <2>1, <2>2, CountsFrame
<1>3. Deliveries'
  BY DEF Deliveries, onTaskCompleted, Active, TypeOK
<1>4. Placement'
  BY DEF Placement, Holds, Runs, onTaskCompleted, TypeOK
<1>5. Decided'
  BY DEF Decided, onTaskCompleted
<1>6. PendingCount'
  <2>1. Unfinished' = Unfinished /\ Unblocking' = Unblocking \ {t} /\ t \in Unblocking
    BY DEF Unfinished, Unblocking, onTaskCompleted, TypeOK
  <2>2. Cardinality(Unblocking \ {t}) = Cardinality(Unblocking) - 1
    BY <2>1, PendingSets, FS_RemoveElement, Zenon
  <2> QED
    BY <2>1, <2>2, PendingSets DEF PendingCount, onTaskCompleted
<1>7. Resting'
  BY DEF Resting, onTaskCompleted
<1> QED
  BY <1>1, <1>2, <1>3, <1>4, <1>5, <1>6, <1>7

\* Without loop-back edges no condition closes a loop.
LEMMA NoLoopBack ==
    ASSUME Acyclic, NEW t \in Threads, NEW b \in Branches, NEW e \in Edges
    PROVE  ~ExecuteLoopBack(t, b, e)
  BY DEF ExecuteLoopBack, LoopEdges, OutEdges, Acyclic

\* A step that changes nothing keeps the inductive invariant.
LEMMA StutterIInv == ASSUME IInv, UNCHANGED vars PROVE IInv'
<1> USE DEF IInv, vars
<1>1. TypeOK'
  BY TypeStep
<1>2. Counts'
  <2>1. \A e \in Edges : (Owed(e)' <=> Owed(e)) /\ (Active(e)' <=> Active(e))
    BY DEF Owed, Active
  <2> QED
    BY <2>1, CountsFrame
<1>3. Deliveries'
  BY DEF Deliveries, Active
<1>4. Placement' /\ Decided'
  BY DEF Placement, Decided, Holds, Runs
<1>5. PendingCount' /\ Resting'
  BY DEF PendingCount, Unfinished, Unblocking, Resting
<1> QED
  BY <1>1, <1>2, <1>3, <1>4, <1>5

\* Every step of every thread keeps the inductive invariant.
LEMMA StepIInv == ASSUME Acyclic, DegreesFit PROVE IInv /\ [Next]_vars => IInv'
<1> SUFFICES ASSUME IInv, [Next]_vars PROVE IInv'
  OBVIOUS
<1>1. CASE prepareRun
  BY <1>1, PrepareIInv
<1>2. CASE CallerStep
  BY <1>2, ScheduleRootIInv, ReturnsIInv DEF CallerStep
<1>3. ASSUME NEW t \in Threads, ThreadStep(t) PROVE IInv'
  <2>1. CASE \E n \in Nodes : TakeQueued(t, n)
    BY <2>1, TakeIInv
  <2>2. CASE TakeInline(t)
    <3>1. inline[t] \in Nodes
      BY <2>2 DEF TakeInline, IInv, TypeOK
    <3> QED
      BY <2>2, <3>1, TakeIInv
  <2>3. CASE ExecuteStatic(t) \/ \E b \in Branches : ExecuteCondition(t, b)
    BY <2>3, ExecuteIInv
  <2>4. CASE \E e \in Edges : decrementActive(t, e)
    BY <2>4, DecrementActiveIInv
  <2>5. CASE \E e \in Edges : decrementSkipped(t, e)
    BY <2>5, DecrementSkippedIInv
  <2>6. CASE cascadeSkip(t) \/ onTaskCompleted(t)
    BY <2>6, CascadeSkipIInv, OnTaskCompletedIInv
  <2> QED
    BY <1>3, <2>1, <2>2, <2>3, <2>4, <2>5, <2>6, NoLoopBack DEF ThreadStep
<1>4. CASE UNCHANGED vars
  BY <1>4, StutterIInv
<1> QED
  BY <1>1, <1>2, <1>3, <1>4 DEF Next

----------------------------------------------------------------------------
(* The safety properties.                                                  *)

\* In every acyclic graph whose in-degrees fit one half of the counter, the
\* inductive invariant holds in every state of every sequence of runs.
THEOREM Inductive == ASSUME Acyclic, DegreesFit PROVE Spec => []IInv
<1>1. Init => IInv
  BY InitIInv
<1>2. IInv /\ [Next]_vars => IInv'
  BY StepIInv
<1> QED
  BY <1>1, <1>2, PTL DEF Spec

\* No callable starts before every predecessor has run or been skipped.
THEOREM PredecessorsFirstHolds ==
    ASSUME Acyclic, DegreesFit PROVE Spec => []PredecessorsFirst
<1>1. IInv => PredecessorsFirst
  <2> SUFFICES ASSUME IInv, NEW n \in Nodes, Released(n), NEW e \in InEdges(n)
               PROVE  state[Source[e]] \in Finished
    BY DEF PredecessorsFirst
  <2>1. inDegree[n].low = 0
    BY DEF IInv, Released, Keepers, Executors, Placement, Decided, Runs
  <2> QED
    BY <2>1, ZeroMeansDelivered DEF IInv
<1> QED
  BY <1>1, Inductive, PTL

\* When m_pendingTasks reads 0 every node has finished and no thread has
\* anything left to do with the graph.
THEOREM CompletedIsQuiescentHolds ==
    ASSUME Acyclic, DegreesFit PROVE Spec => []CompletedIsQuiescent
<1>1. IInv => CompletedIsQuiescent
  BY ZeroPending DEF CompletedIsQuiescent
<1> QED
  BY <1>1, Inductive, PTL

\* A node is skipped exactly when it has predecessors and none of its edges
\* is active, in whatever order they are delivered.
THEOREM SkipsAreExact ==
    ASSUME Acyclic, DegreesFit PROVE Spec => []SkippedIffNoActiveEdge
<1>1. IInv => SkippedIffNoActiveEdge
  <2> SUFFICES ASSUME IInv, NEW n \in Nodes, state[n] \in Finished
               PROVE  state[n] = "Skipped" <=>
                          n \notin Roots /\ \A e \in InEdges(n) : ~Active(e)
    BY DEF SkippedIffNoActiveEdge
  <2>1. inDegree[n].low = 0
    BY DEF IInv, Decided, Finished
  <2>2. inDegree[n].up > 0 <=> \E e \in InEdges(n) : Active(e)
    BY <2>1, UpperMeansActive DEF IInv
  <2>3. state[n] = "Skipped" => inDegree[n].up = 0 /\ n \notin Roots
    BY DEF IInv, Decided
  <2>4. state[n] = "Completed" => inDegree[n].up > 0 \/ n \in Roots
    BY DEF IInv, Decided
  <2> QED
    BY <2>2, <2>3, <2>4 DEF Finished
<1> QED
  BY <1>1, Inductive, PTL

\* A set with at most one member has at most one member to count.
LEMMA AtMostOne ==
    ASSUME NEW S, \A x, y \in S : x = y
    PROVE  Cardinality(S) \in {0, 1} /\ (Cardinality(S) = 0 <=> S = {})
<1>1. CASE S = {}
  BY <1>1, FS_EmptySet
<1>2. ASSUME NEW x \in S PROVE Cardinality(S) = 1
  <2>1. S = {x}
    OBVIOUS
  <2> QED
    BY <2>1, FS_Singleton
<1> QED
  BY <1>1, <1>2

\* A node is in one queue, one inline slot or one thread at most, and is not
\* released again after it has finished.
THEOREM ReleasedOnceHolds ==
    ASSUME Acyclic, DegreesFit PROVE Spec => []ReleasedOnce
<1>1. IInv => ReleasedOnce
  <2> SUFFICES ASSUME IInv, NEW n \in Nodes
               PROVE  /\ queued[n] + Cardinality(Keepers(n)) + Cardinality(Executors(n)) <= 1
                      /\ Released(n) => state[n] \notin Finished
    BY DEF ReleasedOnce
  <2>1. \A t, u \in Keepers(n) \cup Executors(n) : t = u
    BY DEF IInv, Placement, Holds, Runs, Keepers, Executors
  <2>2. Keepers(n) \cap Executors(n) = {}
    BY DEF IInv, Placement, Runs, Keepers, Executors
  <2>3. /\ Cardinality(Keepers(n)) \in {0, 1} /\ (Cardinality(Keepers(n)) = 0 <=> Keepers(n) = {})
        /\ Cardinality(Executors(n)) \in {0, 1} /\ (Cardinality(Executors(n)) = 0 <=> Executors(n) = {})
    BY <2>1, AtMostOne
  <2>4. queued[n] \in {0, 1} /\ (queued[n] = 1 => Keepers(n) = {} /\ Executors(n) = {})
    BY DEF IInv, Placement, Holds, Runs, Keepers, Executors
  <2>5. Keepers(n) = {} \/ Executors(n) = {}
    BY <2>1, <2>2
  <2>6. Released(n) => state[n] \in {"Pending", "Executing"}
    BY DEF IInv, Released, Placement, Runs, Keepers, Executors, TypeOK
  <2> QED
    BY <2>3, <2>4, <2>5, <2>6 DEF Finished
<1> QED
  BY <1>1, Inductive, PTL

\* While a graph runs, the state of a finished node is final: only a pending
\* node is taken, executed or skipped.
LEMMA FinishedIsFinal ==
    ASSUME Acyclic, IInv, running, Next, NEW n \in Nodes, state[n] \in Finished
    PROVE  state'[n] = state[n]
<1>0. state \in [Nodes -> {"Pending", "Executing"} \cup Finished] /\ Finished = {"Completed", "Skipped"}
  BY DEF IInv, TypeOK, Finished
<1>1. ASSUME NEW m \in Nodes, state[m] \in {"Pending", "Executing"}, NEW s,
             state' = [state EXCEPT ![m] = s]
      PROVE  state'[n] = state[n]
  BY <1>0, <1>1
<1>2. CASE CallerStep
  BY <1>2 DEF CallerStep, ScheduleRoot, runAndWaitReturns
<1>3. ASSUME NEW t \in Threads, ThreadStep(t) PROVE state'[n] = state[n]
  <2>1. ASSUME NEW m \in Nodes, TakeQueued(t, m) PROVE state'[n] = state[n]
    <3>1. state[m] = "Pending"
      BY <2>1 DEF TakeQueued, IInv, Placement
    <3> QED
      BY <2>1, <3>1, <1>1 DEF TakeQueued, StartExecute
  <2>2. CASE TakeInline(t)
    <3>1. inline[t] \in Nodes /\ state[inline[t]] = "Pending"
      BY <2>2 DEF TakeInline, IInv, TypeOK, Placement
    <3> QED
      BY <2>2, <3>1, <1>1 DEF TakeInline, StartExecute
  <2>3. CASE ExecuteStatic(t) \/ \E b \in Branches : ExecuteCondition(t, b)
    <3>1. cur[t] \in Nodes /\ state[cur[t]] = "Executing"
      BY <2>3 DEF ExecuteStatic, ExecuteCondition, IInv, Placement, Runs
    <3>2. state' = [state EXCEPT ![cur[t]] = "Completed"]
      BY <2>3 DEF ExecuteStatic, ExecuteCondition
    <3> QED
      BY <3>1, <3>2, <1>1
  <2>4. CASE cascadeSkip(t)
    <3>1. skipping[t] \in Nodes /\ state[skipping[t]] = "Pending"
      BY <2>4 DEF cascadeSkip, IInv, TypeOK, Placement
    <3> QED
      BY <2>4, <3>1, <1>1 DEF cascadeSkip
  <2>5. CASE \/ \E e \in Edges : decrementActive(t, e) \/ decrementSkipped(t, e)
             \/ onTaskCompleted(t)
    BY <2>5 DEF decrementActive, decrementSkipped, onTaskCompleted
  <2> QED
    BY <1>3, <2>1, <2>2, <2>3, <2>4, <2>5, NoLoopBack DEF ThreadStep
<1> QED
  BY <1>2, <1>3 DEF Next, prepareRun

\* Without loops no step but prepareRun makes a finished node start again.
THEOREM FinishedStaysFinishedHolds ==
    ASSUME Acyclic, DegreesFit PROVE Spec => FinishedStaysFinished
<1> DEFINE Stays ==
      \A n \in Nodes : state[n] \in Finished /\ state'[n] \notin Finished =>
          \/ ~running
          \/ \E t \in Threads : /\ cur[t] \in Conditions /\ pc[t] = "execute"
                                /\ reaches(n, cur[t])
<1>1. IInv /\ [Next]_vars => [Stays]_vars
  BY FinishedIsFinal
<1> QED
  BY <1>1, Inductive, PTL DEF Spec, FinishedStaysFinished
=============================================================================
