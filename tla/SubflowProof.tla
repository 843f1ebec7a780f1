---------------------------- MODULE SubflowProof ----------------------------
(***************************************************************************)
(* Proofs about Subflow, for any nesting of flows of the three modes, any  *)
(* edges among them and any number of threads that help inside join: a     *)
(* node runs once in a run, and when m_pendingTasks reads 0 nothing of the *)
(* run is left, so that the arenas of the child graphs may be reset; and,  *)
(* for graphs without cycles, nothing after a flow starts before its       *)
(* children are over.                                                      *)
(***************************************************************************)
EXTENDS Subflow, FiniteSetTheorems, TLAPS

(* The inductive invariant.                                                *)

FrameType ==
    [node : All, pc : {"execute", "dispatch", "join", "unblock"}, todo : SUBSET All]

TypeInv ==
    /\ running \in BOOLEAN /\ pending \in Int
    /\ successors \in [All -> SUBSET All] /\ inDegree \in [All -> Int]
    /\ state \in [All -> {None, "Pending", "Executing", "Completed"}]
    /\ queued \in [All -> Nat] /\ inline \in [Threads -> All \cup {None}]
    /\ stack \in [Threads -> Seq(FrameType)]

ToDispatch(t, i, n) == stack[t][i].pc = "dispatch" /\ n \in stack[t][i].todo

\* A node is executed in one frame, and only in one frame does it have
\* something to tell its successors.
Executed ==
    /\ \A t \in Threads : \A i \in Depth(stack, t) :
          /\ Active(t, i) => state[stack[t][i].node] = "Executing"
          /\ Telling(t, i) => state[stack[t][i].node] = "Completed"
    /\ \A t, u \in Threads : \A i \in Depth(stack, t), j \in Depth(stack, u) :
          /\ stack[t][i].node = stack[u][j].node
          /\ (Active(t, i) /\ Active(u, j)) \/ (Telling(t, i) /\ Telling(u, j))
          => t = u /\ i = j
    /\ \A n \in All : state[n] = "Executing" =>
          \E t \in Threads : \E i \in Depth(stack, t) : Active(t, i) /\ stack[t][i].node = n

\* A node that waits to be executed is in one place.
Placed ==
    /\ \A n \in All : queued[n] <= 1 /\ (queued[n] = 1 => state[n] = "Pending")
    /\ \A t \in Threads : inline[t] # None =>
          /\ state[inline[t]] = "Pending" /\ queued[inline[t]] = 0
          /\ \A u \in Threads : u # t => inline[u] # inline[t]
    /\ \A t \in Threads : \A i \in Depth(stack, t), n \in All : ToDispatch(t, i, n) =>
          /\ n \in Children(stack[t][i].node)
          /\ state[n] = "Pending" /\ queued[n] = 0 /\ \A u \in Threads : inline[u] # n

\* n has been released, or is about to be.
Given(n) ==
    \/ queued[n] > 0 \/ \E t \in Threads : inline[t] = n
    \/ \E t \in Threads : \E i \in Depth(stack, t) : ToDispatch(t, i, n)
    \/ state[n] \in {"Executing", "Completed"}

\* The count of n covers the dependencies it is owed.  It may be greater:
\* what an asynchronous flow of the graph handed to its exit node in an
\* earlier run is lost.
Degrees ==
    running => \A n \in All : state[n] # None =>
        /\ Cardinality(Owed(n)) <= inDegree[n]
        /\ Given(n) => inDegree[n] = 0

\* Nodes that do not exist are nobody's successors, and have none.
Exists ==
    /\ \A m \in All : \A n \in successors[m] : state[m] # None /\ state[n] # None
    /\ \A t \in Threads : \A i \in Depth(stack, t), n \in All : ToTell(t, i, n) => state[n] # None
    /\ \A m \in Top : state[m] # None /\ successors[m] \subseteq UserSuccessors(m)

\* The flow p has not yet been spliced.
Unspliced(p) ==
    \/ state[p] \in {None, "Pending"}
    \/ \E t \in Threads : \E i \in Depth(stack, t) : stack[t][i].node = p /\ stack[t][i].pc = "execute"

Fresh == \A p \in Flows : Unspliced(p) =>
            state[Exit[p]] = None /\ \A n \in Children(p) : state[n] = None

Unstarted == {n \in All : state[n] = "Pending"}
AllFrames == {f \in Threads \X Nat : f[2] \in Depth(stack, f[1])}

\* m_pendingTasks counts the nodes still to start and the frames.
Tally ==
    /\ IsFiniteSet(AllFrames)
    /\ pending = IF running THEN Cardinality(Unstarted) + Cardinality(AllFrames) ELSE 0

\* Between two runs nothing is anywhere.
Resting ==
    ~running =>
        /\ AllFrames = {} /\ \A t \in Threads : inline[t] = None
        /\ \A n \in All : queued[n] = 0 /\ (n \notin Top => state[n] = None)

IInv ==
    /\ TypeInv /\ Executed /\ Placed /\ Degrees /\ Exists /\ Fresh /\ Tally /\ Resting

----------------------------------------------------------------------------
(* Facts about the graph and the frames.                                   *)

\* What the constants say.
LEMMA Constants ==
    /\ IsFiniteSet(All) /\ \A S \in SUBSET All : IsFiniteSet(S) /\ Cardinality(S) \in Nat
    /\ None \notin All /\ None \notin {"Pending", "Executing", "Completed"}
    /\ Top \subseteq Nodes /\ Flows \subseteq Nodes /\ Nodes \subseteq All
    /\ \A p \in Flows : /\ Exit[p] \in All /\ Exit[p] \notin Nodes
                        /\ Children(p) \subseteq Nodes /\ Children(p) \cap Top = {}
    /\ \A p, q \in Flows : p # q => Exit[p] # Exit[q] /\ Children(p) \cap Children(q) = {}
    /\ \A n \in Nodes : UserSuccessors(n) \subseteq Nodes
    /\ \A n \in Top : UserSuccessors(n) \subseteq Top
    /\ \A p \in Flows : \A n \in Children(p) : UserSuccessors(n) \subseteq Children(p)
<1>1. IsFiniteSet(Flows)
  BY SubflowAssumption, FS_Subset
<1>2. IsFiniteSet(Exits)
  <2> DEFINE f == [p \in Flows |-> Exit[p]]
  <2>1. f \in Surjection(Flows, Exits)
    BY DEF Surjection, Exits
  <2> HIDE DEF f
  <2> QED
    BY <2>1, <1>1, FS_Surjection
<1>3. IsFiniteSet(All)
  BY <1>2, SubflowAssumption, FS_Union DEF All
<1>4. \A S \in SUBSET All : IsFiniteSet(S) /\ Cardinality(S) \in Nat
  BY <1>3, FS_Subset, FS_CardinalityType
<1>5. None \notin All /\ None \notin {"Pending", "Executing", "Completed"}
  BY SubflowAssumption
<1>6. Top \subseteq Nodes /\ Flows \subseteq Nodes /\ Nodes \subseteq All
  BY SubflowAssumption DEF Top, All
<1>7. \A p \in Flows : /\ Exit[p] \in All /\ Exit[p] \notin Nodes
                       /\ Children(p) \subseteq Nodes /\ Children(p) \cap Top = {}
  <2>1. \A p \in Flows : p # None
    BY <1>5, <1>6
  <2> QED
    BY <2>1, SubflowAssumption DEF Exits, All, Children, Top
<1>8. \A p, q \in Flows : p # q => Exit[p] # Exit[q] /\ Children(p) \cap Children(q) = {}
  BY SubflowAssumption DEF Children
<1>9. \A n \in Nodes : UserSuccessors(n) \subseteq Nodes
                       /\ \A m \in UserSuccessors(n) : Parent[m] = Parent[n]
  <2>1. ASSUME NEW n \in Nodes, NEW m \in UserSuccessors(n) PROVE m \in Nodes /\ Parent[m] = Parent[n]
    <3>1. m \in Nodes /\ <<n, m>> \in Edges
      BY <2>1 DEF UserSuccessors
    <3>2. Parent[<<n, m>>[1]] = Parent[<<n, m>>[2]]
      BY <3>1, SubflowAssumption
    <3> QED
      BY <3>1, <3>2
  <2> QED
    BY <2>1
<1>10. \A n \in Top : UserSuccessors(n) \subseteq Top
  BY <1>6, <1>9 DEF Top
<1>11. \A p \in Flows : \A n \in Children(p) : UserSuccessors(n) \subseteq Children(p)
  BY <1>9 DEF Children
<1> QED
  BY <1>3, <1>4, <1>5, <1>6, <1>7, <1>8, <1>9, <1>10, <1>11

\* A set of cardinality 0 is empty.
LEMMA NoneLeft == ASSUME NEW S, IsFiniteSet(S) PROVE Cardinality(S) = 0 <=> S = {}
BY FS_EmptySet

\* What a step that changes frame k of thread t leaves alone.
Elsewhere(t, k) ==
    \A u \in Threads : \A j \in Nat : u # t \/ j # k =>
        /\ j \in Depth(stack', u) <=> j \in Depth(stack, u)
        /\ j \in Depth(stack, u) => stack'[u][j] = stack[u][j]

\* The last frame of a thread that is busy.
LEMMA BusyFacts ==
    ASSUME TypeInv, NEW t \in Threads, NEW l, Busy(t, l), NEW k, k = Len(stack[t])
    PROVE  /\ k \in Depth(stack, t) /\ k \in Nat /\ Innermost(t) = stack[t][k]
           /\ stack[t][k] \in FrameType /\ stack[t][k].pc = l
           /\ stack[t][k].node \in All /\ stack[t][k].todo \in SUBSET All
<1>1. stack[t] \in Seq(FrameType) /\ stack[t] # <<>>
  BY DEF TypeInv, Busy
<1>2. k \in Nat /\ k \in Depth(stack, t) /\ stack[t][k] \in FrameType
  BY <1>1 DEF Depth
<1>3. Innermost(t) = stack[t][k]
  BY DEF Innermost, Last
<1> QED
  BY <1>2, <1>3 DEF Busy, FrameType

\* The last frame is replaced.
LEMMA ReplaceFacts ==
    ASSUME TypeInv, NEW t \in Threads, stack[t] # <<>>, NEW k, k = Len(stack[t]),
           NEW l \in {"execute", "dispatch", "join", "unblock"}, NEW S \in SUBSET All,
           Replace(t, l, S)
    PROVE  /\ stack' \in [Threads -> Seq(FrameType)] /\ Elsewhere(t, k)
           /\ k \in Nat /\ k \in Depth(stack, t) /\ k \in Depth(stack', t)
           /\ stack'[t][k].node = stack[t][k].node /\ stack'[t][k].pc = l
           /\ stack'[t][k].todo = S
<1> PICK f : f = [Last(stack[t]) EXCEPT !.pc = l, !.todo = S]
  OBVIOUS
<1> PICK s : s = Append(Front(stack[t]), f)
  OBVIOUS
<1>1. stack[t] \in Seq(FrameType) /\ stack \in [Threads -> Seq(FrameType)]
  BY DEF TypeInv
<1>2. k \in Nat \ {0} /\ k \in Depth(stack, t) /\ Last(stack[t]) = stack[t][k]
      /\ stack[t][k] \in FrameType
  BY <1>1 DEF Last, Depth
<1>3. f \in FrameType /\ f.node = stack[t][k].node /\ f.pc = l /\ f.todo = S
  BY <1>2 DEF FrameType
<1>4. Front(stack[t]) \in Seq(FrameType) /\ Len(Front(stack[t])) = k - 1
      /\ \A i \in 1 .. k - 1 : Front(stack[t])[i] = stack[t][i]
  BY <1>1, <1>2 DEF Front
<1>5. s \in Seq(FrameType) /\ Len(s) = k /\ s[k] = f /\ \A i \in 1 .. k - 1 : s[i] = stack[t][i]
  BY <1>2, <1>3, <1>4
<1>6. stack' = [stack EXCEPT ![t] = s]
  BY DEF Replace
<1>7. stack'[t] = s /\ \A u \in Threads : u # t => stack'[u] = stack[u]
  BY <1>1, <1>6
<1>8. stack' \in [Threads -> Seq(FrameType)]
  BY <1>1, <1>5, <1>6
<1>9. \A i \in 1..k : i # k => i \in 1 .. k - 1
  BY <1>2
<1>10. Elsewhere(t, k)
  BY <1>2, <1>5, <1>7, <1>9 DEF Elsewhere, Depth
<1>11. k \in Nat /\ k \in Depth(stack, t) /\ k \in Depth(stack', t)
  BY <1>2, <1>5, <1>7 DEF Depth
<1> QED
  BY <1>3, <1>5, <1>7, <1>8, <1>10, <1>11

\* A frame is added.
LEMMA PushFacts ==
    ASSUME TypeInv, NEW t \in Threads, NEW n \in All, StartExecute(t, n),
           NEW k, k = Len(stack[t]) + 1
    PROVE  /\ stack' \in [Threads -> Seq(FrameType)] /\ Elsewhere(t, k)
           /\ k \in Nat /\ k \notin Depth(stack, t) /\ k \in Depth(stack', t)
           /\ stack'[t][k].node = n /\ stack'[t][k].pc = "execute" /\ stack'[t][k].todo = {}
<1> PICK f : f = [node |-> n, pc |-> "execute", todo |-> {}]
  OBVIOUS
<1>1. stack[t] \in Seq(FrameType) /\ stack \in [Threads -> Seq(FrameType)] /\ Len(stack[t]) \in Nat
  BY DEF TypeInv
<1>2. f \in FrameType /\ f.node = n /\ f.pc = "execute" /\ f.todo = {}
  BY DEF FrameType
<1> PICK s : s = Append(stack[t], f)
  OBVIOUS
<1>3. stack' = [stack EXCEPT ![t] = s]
  BY DEF StartExecute
<1>4. s \in Seq(FrameType) /\ Len(s) = k /\ s[k] = f
      /\ \A i \in Depth(stack, t) : s[i] = stack[t][i]
  BY <1>1, <1>2 DEF Depth
<1>5. stack'[t] = s /\ \A u \in Threads : u # t => stack'[u] = stack[u]
  BY <1>1, <1>3
<1>6. stack' \in [Threads -> Seq(FrameType)]
  BY <1>1, <1>3, <1>4
<1>7. Elsewhere(t, k)
  <2>1. k = Len(stack[t]) + 1 /\ Len(s) = k /\ Len(stack[t]) \in Nat
    BY <1>1, <1>4
  <2> QED
    BY ONLY <1>4, <1>5, <2>1 DEF Elsewhere, Depth
<1>8. k \in Nat /\ k \notin Depth(stack, t) /\ k \in Depth(stack', t)
  BY <1>1, <1>4, <1>5 DEF Depth
<1> QED
  BY <1>2, <1>4, <1>5, <1>6, <1>7, <1>8

\* The last frame is removed.
LEMMA PopFacts ==
    ASSUME TypeInv, NEW t \in Threads, stack[t] # <<>>, NEW k, k = Len(stack[t]),
           NEW s, s = Front(stack[t]), stack' = [stack EXCEPT ![t] = s]
    PROVE  /\ stack' \in [Threads -> Seq(FrameType)] /\ Elsewhere(t, k)
           /\ k \in Nat /\ k \in Depth(stack, t) /\ k \notin Depth(stack', t)
<1>1. stack[t] \in Seq(FrameType) /\ stack \in [Threads -> Seq(FrameType)]
  BY DEF TypeInv
<1>2. k \in Nat \ {0} /\ k \in Depth(stack, t)
  BY <1>1 DEF Depth
<1>3. s \in Seq(FrameType) /\ Len(s) = k - 1 /\ \A i \in 1 .. k - 1 : s[i] = stack[t][i]
  BY <1>1, <1>2 DEF Front
<1>4. stack' = [stack EXCEPT ![t] = s]
  OBVIOUS
<1>5. stack'[t] = s /\ \A u \in Threads : u # t => stack'[u] = stack[u]
  BY <1>1, <1>4
<1>6. stack' \in [Threads -> Seq(FrameType)]
  BY <1>1, <1>3, <1>4
<1>7. \A i \in 1..k : i # k => i \in 1 .. k - 1
  BY <1>2
<1>8. Elsewhere(t, k)
  BY <1>2, <1>3, <1>5, <1>7 DEF Elsewhere, Depth
<1>9. k \in Nat /\ k \in Depth(stack, t) /\ k \notin Depth(stack', t)
  BY <1>1, <1>2, <1>3, <1>5 DEF Depth
<1> QED
  BY <1>6, <1>8, <1>9

\* A thread has a frame only during a run.
LEMMA RunningFacts ==
    ASSUME IInv, NEW t \in Threads, NEW i \in Depth(stack, t)
    PROVE  running
<1>1. <<t, i>> \in AllFrames
  BY DEF AllFrames, Depth
<1> QED
  BY <1>1 DEF IInv, Resting

\* Fewer dependencies are owed.
LEMMA Fewer ==
    ASSUME NEW S \in SUBSET All, NEW T \in SUBSET All, S \subseteq T
    PROVE  Cardinality(S) <= Cardinality(T) /\ Cardinality(S) \in Nat /\ Cardinality(T) \in Nat
BY Constants, FS_Subset

----------------------------------------------------------------------------
(* What a step that changes frame k of thread t has to show of each part   *)
(* of the invariant.                                                       *)

\* A frame after the step is the changed one or one of before.
LEMMA FrameFacts ==
    ASSUME NEW t \in Threads, NEW k \in Nat, Elsewhere(t, k)
    PROVE  /\ \A u \in Threads : \A j \in Depth(stack', u) : u # t \/ j # k =>
                 j \in Depth(stack, u) /\ stack'[u][j] = stack[u][j]
           /\ \A u \in Threads : \A j \in Depth(stack, u) : u # t \/ j # k =>
                 j \in Depth(stack', u) /\ stack'[u][j] = stack[u][j]
<1>1. \A s, u : \A j \in Depth(s, u) : j \in Nat
  BY DEF Depth
<1> QED
  BY <1>1 DEF Elsewhere

\* What a frame holds.
LEMMA FrameTypes ==
    ASSUME TypeInv, NEW u \in Threads, NEW j \in Depth(stack, u)
    PROVE  /\ stack[u][j] \in FrameType /\ stack[u][j].node \in All
           /\ stack[u][j].todo \in SUBSET All /\ j \in Nat
<1>1. stack[u] \in Seq(FrameType) /\ j \in 1 .. Len(stack[u])
  BY DEF Depth, TypeInv
<1>2. stack[u][j] \in FrameType /\ j \in Nat
  BY <1>1
<1> QED
  BY <1>2 DEF FrameType

LEMMA ExecutedStep ==
    ASSUME TypeInv, Executed, NEW t \in Threads, NEW k \in Nat, Elsewhere(t, k), NEW q \in All,
           \A n \in All : n # q =>
               state'[n] = state[n] \/ (state[n] = None /\ state'[n] = "Pending"),
           k \in Depth(stack', t), stack'[t][k].node = q,
           \A u \in Threads : \A j \in Depth(stack, u) :
               (u # t \/ j # k) /\ stack[u][j].node = q => ~Active(u, j) /\ ~Telling(u, j),
           stack'[t][k].pc # "unblock" => state'[q] = "Executing",
           stack'[t][k].pc = "unblock" /\ stack'[t][k].todo # {} => state'[q] = "Completed",
           state'[q] = "Executing" => stack'[t][k].pc # "unblock",
           k \in Depth(stack, t) => stack[t][k].node = q
    PROVE  Executed'
<1>1. \A u \in Threads : \A j \in Depth(stack', u) : u # t \/ j # k =>
          j \in Depth(stack, u) /\ stack'[u][j] = stack[u][j]
  BY FrameFacts
<1>2. \A u \in Threads : \A j \in Depth(stack, u) : u # t \/ j # k =>
          j \in Depth(stack', u) /\ stack'[u][j] = stack[u][j]
  BY FrameFacts
<1>3. \A u \in Threads : \A j \in Depth(stack, u) : stack[u][j].node \in All
  BY FrameTypes
<1>4. None \notin {"Pending", "Executing", "Completed"}
  BY Constants
<1>5. ASSUME NEW u \in Threads, NEW j \in Depth(stack', u)
      PROVE  /\ stack'[u][j].pc # "unblock" => state'[stack'[u][j].node] = "Executing"
             /\ stack'[u][j].pc = "unblock" /\ stack'[u][j].todo # {} =>
                    state'[stack'[u][j].node] = "Completed"
  <2>1. CASE u = t /\ j = k
    BY <2>1
  <2>2. CASE u # t \/ j # k
    <3>1. j \in Depth(stack, u) /\ stack'[u][j] = stack[u][j] /\ stack[u][j].node \in All
      BY <1>1, <1>3, <2>2
    <3>2. /\ Active(u, j) => state[stack[u][j].node] = "Executing"
          /\ Telling(u, j) => state[stack[u][j].node] = "Completed"
      BY <3>1 DEF Executed
    <3>3. CASE stack[u][j].node = q
      BY <2>2, <3>1, <3>3 DEF Active, Telling
    <3>4. CASE stack[u][j].node # q
      BY <1>4, <3>1, <3>2, <3>4 DEF Active, Telling
    <3> QED
      BY <3>3, <3>4
  <2> QED
    BY <2>1, <2>2
<1>6. ASSUME NEW u \in Threads, NEW v \in Threads,
             NEW i \in Depth(stack', u), NEW j \in Depth(stack', v),
             stack'[u][i].node = stack'[v][j].node,
             \/ stack'[u][i].pc # "unblock" /\ stack'[v][j].pc # "unblock"
             \/ /\ stack'[u][i].pc = "unblock" /\ stack'[u][i].todo # {}
                /\ stack'[v][j].pc = "unblock" /\ stack'[v][j].todo # {}
      PROVE  u = v /\ i = j
  <2>1. CASE u = t /\ i = k
    <3> SUFFICES ASSUME v # t \/ j # k PROVE FALSE
      BY <2>1
    <3> QED
      BY <1>1, <1>6, <2>1 DEF Active, Telling
  <2>2. CASE v = t /\ j = k
    <3> SUFFICES ASSUME u # t \/ i # k PROVE FALSE
      BY <2>2
    <3>1. i \in Depth(stack, u) /\ stack'[u][i] = stack[u][i]
      BY <1>1
    <3>2. stack[u][i].node = q
      BY <1>6, <2>2, <3>1
    <3>3. ~Active(u, i) /\ ~Telling(u, i)
      BY <3>1, <3>2
    <3> QED
      BY <1>6, <3>1, <3>3 DEF Active, Telling
  <2>3. CASE (u # t \/ i # k) /\ (v # t \/ j # k)
    <3>1. /\ i \in Depth(stack, u) /\ stack'[u][i] = stack[u][i]
          /\ j \in Depth(stack, v) /\ stack'[v][j] = stack[v][j]
      BY <1>1, <2>3
    <3>2. (Active(u, i) /\ Active(v, j)) \/ (Telling(u, i) /\ Telling(v, j))
      BY <1>6, <3>1 DEF Active, Telling
    <3>3. stack[u][i].node = stack[v][j].node
      BY <1>6, <3>1
    <3> QED
      BY <3>1, <3>2, <3>3 DEF Executed
  <2> QED
    BY <2>1, <2>2, <2>3
<1>7. ASSUME NEW n \in All, state'[n] = "Executing"
      PROVE  \E u \in Threads : \E i \in Depth(stack', u) :
                stack'[u][i].pc # "unblock" /\ stack'[u][i].node = n
  <2>1. CASE n = q
    BY <1>7, <2>1
  <2>2. CASE n # q
    <3>1. state[n] = "Executing"
      BY <1>4, <1>7, <2>2
    <3>2. PICK u \in Threads : \E i \in Depth(stack, u) : Active(u, i) /\ stack[u][i].node = n
      BY <3>1 DEF Executed
    <3>3. PICK i \in Depth(stack, u) : Active(u, i) /\ stack[u][i].node = n
      BY <3>2
    <3>4. u # t \/ i # k
      BY <2>2, <3>3
    <3> QED
      BY <1>2, <3>3, <3>4 DEF Active
  <2> QED
    BY <2>1, <2>2
<1> QED
  BY <1>5, <1>6, <1>7 DEF Executed, Active, Telling

\* A node that is executed is in no other frame that counts.
LEMMA Alone ==
    ASSUME Executed, NEW t \in Threads, NEW k \in Depth(stack, t), Active(t, k)
    PROVE  /\ state[stack[t][k].node] = "Executing"
           /\ \A u \in Threads : \A j \in Depth(stack, u) :
                 (u # t \/ j # k) /\ stack[u][j].node = stack[t][k].node =>
                     ~Active(u, j) /\ ~Telling(u, j)
<1>1. state[stack[t][k].node] = "Executing"
  BY DEF Executed
<1> SUFFICES ASSUME NEW u \in Threads, NEW j \in Depth(stack, u), u # t \/ j # k,
                    stack[u][j].node = stack[t][k].node
             PROVE  ~Active(u, j) /\ ~Telling(u, j)
  BY <1>1
<1>2. ~Active(u, j)
  BY DEF Executed
<1>3. Telling(u, j) => state[stack[u][j].node] = "Completed"
  BY DEF Executed
<1> QED
  BY <1>1, <1>2, <1>3

\* A node that still has something to tell is in no other frame that counts.
LEMMA Teller ==
    ASSUME Executed, NEW t \in Threads, NEW k \in Depth(stack, t), Telling(t, k)
    PROVE  /\ state[stack[t][k].node] = "Completed"
           /\ \A u \in Threads : \A j \in Depth(stack, u) :
                 (u # t \/ j # k) /\ stack[u][j].node = stack[t][k].node =>
                     ~Active(u, j) /\ ~Telling(u, j)
<1>1. state[stack[t][k].node] = "Completed"
  BY DEF Executed
<1> SUFFICES ASSUME NEW u \in Threads, NEW j \in Depth(stack, u), u # t \/ j # k,
                    stack[u][j].node = stack[t][k].node
             PROVE  ~Active(u, j) /\ ~Telling(u, j)
  BY <1>1
<1>2. ~Telling(u, j)
  BY DEF Executed
<1>3. Active(u, j) => state[stack[u][j].node] = "Executing"
  BY DEF Executed
<1> QED
  BY <1>1, <1>2, <1>3

LEMMA OwedStep ==
    ASSUME NEW t \in Threads, NEW k \in Nat, Elsewhere(t, k), NEW n \in All,
           \A m \in All : n \in successors'[m] /\ state'[m] \in {"Pending", "Executing"} =>
               n \in successors[m] /\ state[m] \in {"Pending", "Executing"},
           k \in Depth(stack', t) /\ stack'[t][k].pc = "unblock" /\ n \in stack'[t][k].todo =>
               stack'[t][k].node \in Owed(n)
    PROVE  Owed(n)' \subseteq Owed(n)
<1>1. \A u \in Threads : \A j \in Depth(stack', u) : u # t \/ j # k =>
          j \in Depth(stack, u) /\ stack'[u][j] = stack[u][j]
  BY FrameFacts
<1> SUFFICES ASSUME NEW m \in Owed(n)' PROVE m \in Owed(n)
  OBVIOUS
<1>2. m \in All
  BY DEF Owed
<1>3. CASE n \in successors'[m] /\ state'[m] \in {"Pending", "Executing"}
  BY <1>2, <1>3 DEF Owed
<1>4. ASSUME NEW u \in Threads, NEW j \in Depth(stack', u),
             stack'[u][j].pc = "unblock" /\ n \in stack'[u][j].todo, stack'[u][j].node = m
      PROVE  m \in Owed(n)
  <2>1. CASE u = t /\ j = k
    BY <1>4, <2>1
  <2>2. CASE u # t \/ j # k
    BY <1>1, <1>2, <1>4, <2>2 DEF Owed, ToTell
  <2> QED
    BY <2>1, <2>2
<1> QED
  BY <1>3, <1>4 DEF Owed, ToTell

LEMMA GivenStep ==
    ASSUME NEW t \in Threads, NEW k \in Nat, Elsewhere(t, k), NEW n \in All,
           queued'[n] > 0 => Given(n), \A u \in Threads : inline'[u] = n => Given(n),
           state'[n] \in {"Executing", "Completed"} => Given(n),
           k \in Depth(stack', t) /\ stack'[t][k].pc = "dispatch" /\ n \in stack'[t][k].todo =>
               Given(n)
    PROVE  Given(n)' => Given(n)
<1>1. \A u \in Threads : \A j \in Depth(stack', u) : u # t \/ j # k =>
          j \in Depth(stack, u) /\ stack'[u][j] = stack[u][j]
  BY FrameFacts
<1>2. ASSUME NEW u \in Threads, NEW j \in Depth(stack', u),
             stack'[u][j].pc = "dispatch" /\ n \in stack'[u][j].todo
      PROVE  Given(n)
  <2>1. CASE u = t /\ j = k
    BY <1>2, <2>1
  <2>2. CASE u # t \/ j # k
    BY <1>1, <1>2, <2>2 DEF Given, ToDispatch
  <2> QED
    BY <2>1, <2>2
<1>3. ASSUME Given(n)' PROVE Given(n)
  <2>1. \/ queued'[n] > 0 \/ \E u \in Threads : inline'[u] = n
        \/ state'[n] \in {"Executing", "Completed"}
        \/ \E u \in Threads : \E j \in Depth(stack', u) :
              stack'[u][j].pc = "dispatch" /\ n \in stack'[u][j].todo
    BY <1>3 DEF Given, ToDispatch
  <2> QED
    BY <2>1, <1>2
<1> QED
  BY <1>3

LEMMA DegreeStep ==
    ASSUME TypeInv, Degrees, running, NEW n \in All, state[n] # None, inDegree'[n] = inDegree[n],
           Owed(n)' \subseteq Owed(n), Given(n)' => Given(n)
    PROVE  Cardinality(Owed(n)') <= inDegree'[n] /\ (Given(n)' => inDegree'[n] = 0)
<1>1. Cardinality(Owed(n)) <= inDegree[n] /\ (Given(n) => inDegree[n] = 0)
  BY DEF Degrees
<1>2. Owed(n) \in SUBSET All /\ Owed(n)' \in SUBSET All
  BY DEF Owed
<1>3. Cardinality(Owed(n)') <= Cardinality(Owed(n)) /\ Cardinality(Owed(n)) \in Nat
      /\ Cardinality(Owed(n)') \in Nat
  BY <1>2, Fewer
<1>4. inDegree[n] \in Int
  BY DEF TypeInv
<1> QED
  BY <1>1, <1>3, <1>4

LEMMA ExistsStep ==
    ASSUME TypeInv, Exists, NEW t \in Threads, NEW k \in Nat, Elsewhere(t, k),
           successors' = successors, \A n \in All : state[n] # None => state'[n] # None,
           \A n \in All : k \in Depth(stack', t) /\ stack'[t][k].pc = "unblock"
                          /\ n \in stack'[t][k].todo => state[n] # None
    PROVE  Exists'
<1>1. \A u \in Threads : \A j \in Depth(stack', u) : u # t \/ j # k =>
          j \in Depth(stack, u) /\ stack'[u][j] = stack[u][j]
  BY FrameFacts
<1>2. \A m \in All : \A n \in successors'[m] : state'[m] # None /\ state'[n] # None
  BY DEF Exists, TypeInv
<1>3. \A m \in Top : state'[m] # None /\ successors'[m] \subseteq UserSuccessors(m)
  BY Constants DEF Exists
<1>4. ASSUME NEW u \in Threads, NEW j \in Depth(stack', u), NEW n \in All,
             stack'[u][j].pc = "unblock" /\ n \in stack'[u][j].todo
      PROVE  state'[n] # None
  <2>1. CASE u = t /\ j = k
    BY <1>4, <2>1
  <2>2. CASE u # t \/ j # k
    BY <1>1, <1>4, <2>2 DEF Exists, ToTell
  <2> QED
    BY <2>1, <2>2
<1> QED
  BY <1>2, <1>3, <1>4 DEF Exists, ToTell

LEMMA FreshStep ==
    ASSUME Fresh, NEW t \in Threads, NEW k \in Nat, Elsewhere(t, k),
           \A n \in All : state'[n] = None <=> state[n] = None,
           \A p \in Flows : state'[p] = "Pending" => state[p] = "Pending",
           k \in Depth(stack', t) /\ stack'[t][k].pc = "execute"
              /\ stack'[t][k].node \in Flows => Unspliced(stack'[t][k].node)
    PROVE  Fresh'
<1>1. \A u \in Threads : \A j \in Depth(stack', u) : u # t \/ j # k =>
          j \in Depth(stack, u) /\ stack'[u][j] = stack[u][j]
  BY FrameFacts
<1>2. ASSUME NEW p \in Flows, Unspliced(p)' PROVE Unspliced(p)
  <2>1. CASE state'[p] \in {None, "Pending"}
    BY <2>1, Constants DEF Unspliced
  <2>2. ASSUME NEW u \in Threads, NEW j \in Depth(stack', u), stack'[u][j].node = p,
               stack'[u][j].pc = "execute"
        PROVE  Unspliced(p)
    <3>1. CASE u = t /\ j = k
      BY <2>2, <3>1
    <3>2. CASE u # t \/ j # k
      BY <1>1, <2>2, <3>2 DEF Unspliced
    <3> QED
      BY <3>1, <3>2
  <2> QED
    BY <1>2, <2>1, <2>2 DEF Unspliced
<1>3. \A p \in Flows : Exit[p] \in All /\ Children(p) \subseteq All
  BY Constants
<1> QED
  BY <1>2, <1>3 DEF Fresh

LEMMA PlacedStep ==
    ASSUME Placed, NEW t \in Threads, NEW k \in Nat, Elsewhere(t, k),
           \A n \in All : queued'[n] <= 1 /\ (queued'[n] = 1 => state'[n] = "Pending"),
           \A u \in Threads : inline'[u] # None =>
               /\ state'[inline'[u]] = "Pending" /\ queued'[inline'[u]] = 0
               /\ \A v \in Threads : v # u => inline'[v] # inline'[u],
           \A u \in Threads : \A j \in Depth(stack, u) : \A n \in All :
               (u # t \/ j # k) /\ ToDispatch(u, j, n) =>
                   /\ state'[n] = "Pending" /\ queued'[n] = 0
                   /\ \A v \in Threads : inline'[v] # n,
           \A n \in All :
               k \in Depth(stack', t) /\ stack'[t][k].pc = "dispatch" /\ n \in stack'[t][k].todo =>
                   /\ n \in Children(stack'[t][k].node)
                   /\ state'[n] = "Pending" /\ queued'[n] = 0
                   /\ \A v \in Threads : inline'[v] # n
    PROVE  Placed'
<1>1. \A u \in Threads : \A j \in Depth(stack', u) : u # t \/ j # k =>
          j \in Depth(stack, u) /\ stack'[u][j] = stack[u][j]
  BY FrameFacts
<1>2. ASSUME NEW u \in Threads, NEW j \in Depth(stack', u), NEW n \in All,
             stack'[u][j].pc = "dispatch" /\ n \in stack'[u][j].todo
      PROVE  /\ n \in Children(stack'[u][j].node)
             /\ state'[n] = "Pending" /\ queued'[n] = 0 /\ \A v \in Threads : inline'[v] # n
  <2>1. CASE u = t /\ j = k
    BY <1>2, <2>1
  <2>2. CASE u # t \/ j # k
    <3>1. j \in Depth(stack, u) /\ stack'[u][j] = stack[u][j]
      BY <1>1, <2>2
    <3>2. ToDispatch(u, j, n)
      BY <1>2, <3>1 DEF ToDispatch
    <3>3. n \in Children(stack[u][j].node)
      BY <3>1, <3>2 DEF Placed
    <3> QED
      BY <2>2, <3>1, <3>2, <3>3
  <2> QED
    BY <2>1, <2>2
<1> QED
  BY <1>2 DEF Placed, ToDispatch

----------------------------------------------------------------------------
(* The steps of the threads.                                               *)

\* A node that waits in a queue or inline starts.
LEMMA TakeInv ==
    ASSUME IInv, NEW t \in Threads, NEW n \in All, StartExecute(t, n),
           UNCHANGED <<running, pending, successors, inDegree>>,
           \/ queued[n] > 0 /\ queued' = [queued EXCEPT ![n] = @ - 1] /\ inline' = inline
           \/ inline[t] = n /\ inline' = [inline EXCEPT ![t] = None] /\ queued' = queued
    PROVE  IInv'
<1> PICK k : k = Len(stack[t]) + 1
  OBVIOUS
<1>1. TypeInv /\ Executed /\ Placed /\ Degrees /\ Exists /\ Fresh /\ Tally /\ Resting
  BY DEF IInv
<1>2. /\ stack' \in [Threads -> Seq(FrameType)] /\ Elsewhere(t, k)
      /\ k \in Nat /\ k \notin Depth(stack, t) /\ k \in Depth(stack', t)
      /\ stack'[t][k].node = n /\ stack'[t][k].pc = "execute" /\ stack'[t][k].todo = {}
  <2>1. TypeInv /\ StartExecute(t, n) /\ k = Len(stack[t]) + 1
    BY <1>1
  <2> QED
    BY ONLY t \in Threads, n \in All, <2>1, PushFacts
<1>3. state' = [state EXCEPT ![n] = "Executing"]
  BY DEF StartExecute
<1>4. n # None /\ state[n] = "Pending" /\ running /\ Given(n)
  BY <1>1, Constants DEF Placed, TypeInv, Resting, Given
<1>5. /\ queued' \in [All -> Nat] /\ inline' \in [Threads -> All \cup {None}]
      /\ queued'[n] = 0 /\ \A u \in Threads : inline'[u] # n
      /\ \A m \in All : m # n => queued'[m] = queued[m]
      /\ \A u \in Threads : inline'[u] # None => inline'[u] = inline[u]
  <2>1. CASE queued[n] > 0 /\ queued' = [queued EXCEPT ![n] = @ - 1] /\ inline' = inline
    <3>1. queued \in [All -> Nat] /\ queued[n] = 1 /\ inline \in [Threads -> All \cup {None}]
      BY <1>1, <2>1 DEF TypeInv, Placed
    <3>2. \A u \in Threads : inline[u] # n
      BY <1>1, <1>4, <3>1 DEF Placed
    <3> QED
      BY <2>1, <3>1, <3>2
  <2>2. CASE inline[t] = n /\ inline' = [inline EXCEPT ![t] = None] /\ queued' = queued
    <3>1. queued \in [All -> Nat] /\ inline \in [Threads -> All \cup {None}]
      BY <1>1 DEF TypeInv
    <3>2. queued[n] = 0 /\ \A u \in Threads : u # t => inline[u] # n
      BY <1>1, <1>4, <2>2 DEF Placed
    <3> QED
      BY <1>4, <2>2, <3>1, <3>2
  <2> QED
    BY <2>1, <2>2
<1>6. state'[n] = "Executing" /\ \A m \in All : m # n => state'[m] = state[m]
  BY <1>1, <1>3 DEF TypeInv
<1>7. TypeInv'
  BY <1>1, <1>2, <1>3, <1>5 DEF TypeInv
<1>8. Executed'
  <2>1. \A u \in Threads : \A j \in Depth(stack, u) :
            stack[u][j].node = n => ~Active(u, j) /\ ~Telling(u, j)
    BY <1>1, <1>4 DEF Executed
  <2>2. \A m \in All : m # n =>
            state'[m] = state[m] \/ (state[m] = None /\ state'[m] = "Pending")
    BY <1>6
  <2>3. /\ stack'[t][k].pc # "unblock" => state'[n] = "Executing"
        /\ stack'[t][k].pc = "unblock" /\ stack'[t][k].todo # {} => state'[n] = "Completed"
        /\ state'[n] = "Executing" => stack'[t][k].pc # "unblock"
    BY <1>2, <1>6
  <2>4. k \in Depth(stack, t) => stack[t][k].node = n
    BY <1>2
  <2>5. TypeInv /\ Executed
    BY <1>1
  <2> QED
    BY ONLY t \in Threads, n \in All, <1>2, <2>1, <2>2, <2>3, <2>4, <2>5, ExecutedStep
<1>9. Placed'
  <2>1. \A m \in All : queued'[m] <= 1 /\ (queued'[m] = 1 => state'[m] = "Pending")
    BY <1>1, <1>5, <1>6 DEF Placed
  <2>2. \A u \in Threads : inline'[u] # None =>
          /\ state'[inline'[u]] = "Pending" /\ queued'[inline'[u]] = 0
          /\ \A v \in Threads : v # u => inline'[v] # inline'[u]
    BY <1>1, <1>5, <1>6 DEF Placed, TypeInv
  <2>3. ASSUME NEW u \in Threads, NEW j \in Depth(stack, u), NEW m \in All, ToDispatch(u, j, m)
        PROVE  state'[m] = "Pending" /\ queued'[m] = 0 /\ \A v \in Threads : inline'[v] # m
    <3>1. state[m] = "Pending" /\ queued[m] = 0 /\ \A v \in Threads : inline[v] # m
      BY <1>1, <2>3 DEF Placed
    <3>2. m # n
      BY <3>1
    <3> QED
      BY <1>5, <1>6, <3>1, <3>2, Constants
  <2> QED
    BY <1>1, <1>2, <2>1, <2>2, <2>3, PlacedStep
<1>10. Degrees'
  <2> SUFFICES ASSUME NEW m \in All, state'[m] # None
               PROVE  Cardinality(Owed(m)') <= inDegree'[m] /\ (Given(m)' => inDegree'[m] = 0)
    BY DEF Degrees
  <2>1. state[m] # None
    BY <1>4, <1>6, Constants
  <2>2. Given(m)' => Given(m)
    <3>1. queued'[m] > 0 => Given(m)
      BY <1>5 DEF Given
    <3>2. \A u \in Threads : inline'[u] = m => Given(m)
      BY <1>5, Constants DEF Given
    <3>3. state'[m] \in {"Executing", "Completed"} => Given(m)
      BY <1>4, <1>6 DEF Given
    <3> QED
      BY <1>2, <3>1, <3>2, <3>3, GivenStep
  <2>3. Owed(m)' \subseteq Owed(m)
    <3>1. \A q \in All : m \in successors'[q] /\ state'[q] \in {"Pending", "Executing"} =>
             m \in successors[q] /\ state[q] \in {"Pending", "Executing"}
      BY <1>4, <1>6
    <3> QED
      BY <1>2, <3>1, OwedStep
  <2> QED
    BY <1>1, <1>4, <2>1, <2>2, <2>3, DegreeStep
<1>11. Exists'
  BY <1>1, <1>2, <1>6, Constants, ExistsStep
<1>12. Fresh'
  <2>1. n \in Flows => Unspliced(n)
    BY <1>4 DEF Unspliced
  <2>2. \A m \in All : state'[m] = None <=> state[m] = None
    BY <1>4, <1>6, Constants
  <2>3. \A p \in Flows : state'[p] = "Pending" => state[p] = "Pending"
    BY <1>4, <1>6, Constants
  <2> QED
    BY <1>1, <1>2, <2>1, <2>2, <2>3, FreshStep
<1>13. Tally'
  <2>1. Unstarted' = Unstarted \ {n} /\ n \in Unstarted /\ IsFiniteSet(Unstarted)
    BY <1>4, <1>6, Constants DEF Unstarted
  <2>2. AllFrames' = AllFrames \cup {<<t, k>>} /\ <<t, k>> \notin AllFrames
    BY <1>2 DEF AllFrames, Elsewhere
  <2>3. Cardinality(Unstarted') = Cardinality(Unstarted) - 1 /\ Cardinality(Unstarted) \in Nat
    BY <2>1, FS_RemoveElement, FS_CardinalityType
  <2>4. IsFiniteSet(AllFrames') /\ Cardinality(AllFrames') = Cardinality(AllFrames) + 1
        /\ Cardinality(AllFrames) \in Nat
    BY <1>1, <2>2, FS_AddElement, FS_CardinalityType DEF Tally
  <2> QED
    BY <1>1, <1>4, <2>3, <2>4 DEF Tally
<1>14. Resting'
  BY <1>4 DEF Resting
<1> QED
  BY <1>7, <1>8, <1>9, <1>10, <1>11, <1>12, <1>13, <1>14 DEF IInv

\* The callable of a node returns: what the node owes is now to be told.
LEMMA ReturnInv ==
    ASSUME IInv, NEW t \in Threads, NEW l, Busy(t, l), l # "unblock",
           NEW p, p = Innermost(t).node, state' = [state EXCEPT ![p] = "Completed"],
           Replace(t, "unblock", successors[p]),
           UNCHANGED <<running, pending, successors, inDegree, queued, inline>>
    PROVE  IInv'
<1> PICK k : k = Len(stack[t])
  OBVIOUS
<1>1. TypeInv /\ Executed /\ Placed /\ Degrees /\ Exists /\ Fresh /\ Tally /\ Resting
  BY DEF IInv
<1>2. /\ k \in Depth(stack, t) /\ stack[t][k].pc = l
      /\ stack[t][k].node = p /\ p \in All
  BY <1>1, BusyFacts
<1>3. /\ stack' \in [Threads -> Seq(FrameType)] /\ Elsewhere(t, k)
      /\ k \in Nat /\ k \in Depth(stack', t)
      /\ stack'[t][k].node = p /\ stack'[t][k].pc = "unblock" /\ stack'[t][k].todo = successors[p]
  <2>1. Replace(t, "unblock", successors[p])
    OBVIOUS
  <2>2. k = Len(stack[t]) /\ TypeInv /\ stack[t] # <<>>
    BY <1>1 DEF Busy
  <2>3. successors[p] \in SUBSET All
    BY <1>1, <1>2 DEF TypeInv
  <2>4. "unblock" \in {"execute", "dispatch", "join", "unblock"}
    OBVIOUS
  <2> QED
    BY ONLY t \in Threads, <1>2, <2>1, <2>2, <2>3, <2>4, ReplaceFacts
<1>4. state[p] = "Executing" /\ Active(t, k) /\ running
  BY <1>1, <1>2, RunningFacts DEF Executed, Active
<1>5. state'[p] = "Completed" /\ \A m \in All : m # p => state'[m] = state[m]
  BY <1>1, <1>2 DEF TypeInv
<1>6. TypeInv'
  BY <1>1, <1>3 DEF TypeInv
<1>7. Executed'
  <2>1. \A u \in Threads : \A j \in Depth(stack, u) :
            (u # t \/ j # k) /\ stack[u][j].node = p => ~Active(u, j) /\ ~Telling(u, j)
    BY <1>1, <1>2, <1>4, Alone
  <2>2. \A m \in All : m # p =>
            state'[m] = state[m] \/ (state[m] = None /\ state'[m] = "Pending")
    BY <1>5
  <2>3. /\ stack'[t][k].pc # "unblock" => state'[p] = "Executing"
        /\ stack'[t][k].pc = "unblock" /\ stack'[t][k].todo # {} => state'[p] = "Completed"
        /\ state'[p] = "Executing" => stack'[t][k].pc # "unblock"
    BY <1>3, <1>5
  <2>4. stack[t][k].node = p /\ TypeInv /\ Executed
    BY <1>1, <1>2
  <2> QED
    BY ONLY t \in Threads, <1>2, <1>3, <2>1, <2>2, <2>3, <2>4, ExecutedStep, SMTT(30), ZenonT(30)
<1>8. Placed'
  <2>1. \A m \in All : state[m] = "Pending" => state'[m] = "Pending"
    BY <1>4, <1>5
  <2>2. \A m \in All : queued'[m] <= 1 /\ (queued'[m] = 1 => state'[m] = "Pending")
    BY <1>1, <2>1 DEF Placed
  <2>3. \A u \in Threads : inline'[u] # None =>
          /\ state'[inline'[u]] = "Pending" /\ queued'[inline'[u]] = 0
          /\ \A v \in Threads : v # u => inline'[v] # inline'[u]
    BY <1>1, <2>1 DEF Placed, TypeInv
  <2>4. \A u \in Threads : \A j \in Depth(stack, u) : \A m \in All : ToDispatch(u, j, m) =>
            state'[m] = "Pending" /\ queued'[m] = 0 /\ \A v \in Threads : inline'[v] # m
    BY <1>1, <2>1 DEF Placed
  <2> QED
    BY <1>1, <1>3, <2>2, <2>3, <2>4, PlacedStep
<1>9. Degrees'
  <2> SUFFICES ASSUME NEW m \in All, state'[m] # None
               PROVE  Cardinality(Owed(m)') <= inDegree'[m] /\ (Given(m)' => inDegree'[m] = 0)
    BY DEF Degrees
  <2>1. state[m] # None
    BY <1>4, <1>5, Constants
  <2>2. Given(m)' => Given(m)
    <3>1. queued'[m] > 0 => Given(m)
      BY DEF Given
    <3>2. \A u \in Threads : inline'[u] = m => Given(m)
      BY DEF Given
    <3>3. state'[m] \in {"Executing", "Completed"} => Given(m)
      BY <1>4, <1>5 DEF Given
    <3> QED
      BY <1>3, <3>1, <3>2, <3>3, GivenStep
  <2>3. Owed(m)' \subseteq Owed(m)
    <3>1. \A q \in All : m \in successors'[q] /\ state'[q] \in {"Pending", "Executing"} =>
             m \in successors[q] /\ state[q] \in {"Pending", "Executing"}
      BY <1>4, <1>5
    <3>2. m \in successors[p] => p \in Owed(m)
      BY <1>2, <1>4 DEF Owed
    <3> QED
      BY <1>3, <3>1, <3>2, OwedStep
  <2> QED
    BY <1>1, <1>4, <2>1, <2>2, <2>3, DegreeStep
<1>10. Exists'
  <2>1. \A m \in All : state[m] # None => state'[m] # None
    BY <1>5, Constants
  <2>2. \A m \in successors[p] : state[m] # None
    BY <1>1, <1>2 DEF Exists
  <2> QED
    BY <1>1, <1>3, <2>1, <2>2, ExistsStep
<1>11. Fresh'
  <2>1. \A m \in All : state'[m] = None <=> state[m] = None
    BY <1>4, <1>5, Constants
  <2>2. \A q \in Flows : state'[q] = "Pending" => state[q] = "Pending"
    BY <1>5, Constants
  <2> QED
    BY <1>1, <1>3, <2>1, <2>2, FreshStep
<1>12. Tally'
  <2>1. Unstarted' = Unstarted
    BY <1>4, <1>5 DEF Unstarted
  <2>2. AllFrames' = AllFrames
    BY <1>2, <1>3 DEF AllFrames, Elsewhere
  <2> QED
    BY <1>1, <2>1, <2>2 DEF Tally
<1>13. Resting'
  BY <1>4 DEF Resting
<1> QED
  BY <1>6, <1>7, <1>8, <1>9, <1>10, <1>11, <1>12, <1>13 DEF IInv

\* A repeater goes back to the queue.
LEMMA RepeatInv ==
    ASSUME IInv, NEW t \in Threads, ExecuteRepeat(t)
    PROVE  IInv'
<1> PICK k : k = Len(stack[t])
  OBVIOUS
<1> PICK p : p = Innermost(t).node
  OBVIOUS
<1>1. TypeInv /\ Executed /\ Placed /\ Degrees /\ Exists /\ Fresh /\ Tally /\ Resting
  BY DEF IInv
<1>a. /\ Busy(t, "execute") /\ p \in Repeaters /\ state' = [state EXCEPT ![p] = "Pending"]
      /\ pending' = pending + 1 /\ queued' = [queued EXCEPT ![p] = @ + 1]
      /\ Replace(t, "unblock", {}) /\ running' = running /\ successors' = successors
      /\ inDegree' = inDegree /\ inline' = inline
  BY DEF ExecuteRepeat
<1>2. /\ k \in Depth(stack, t) /\ stack[t][k].pc = "execute"
      /\ stack[t][k].node = p /\ p \in All
  BY <1>1, <1>a, BusyFacts
<1>3. /\ stack' \in [Threads -> Seq(FrameType)] /\ Elsewhere(t, k)
      /\ k \in Nat /\ k \in Depth(stack', t)
      /\ stack'[t][k].node = p /\ stack'[t][k].pc = "unblock" /\ stack'[t][k].todo = {}
  <2>1. Replace(t, "unblock", {})
    BY <1>a
  <2>2. k = Len(stack[t]) /\ TypeInv /\ stack[t] # <<>>
    BY <1>1, <1>a DEF Busy
  <2>3. {} \in SUBSET All
    OBVIOUS
  <2>4. "unblock" \in {"execute", "dispatch", "join", "unblock"}
    OBVIOUS
  <2> QED
    BY ONLY t \in Threads, <1>2, <2>1, <2>2, <2>3, <2>4, ReplaceFacts
<1>4. state[p] = "Executing" /\ Active(t, k) /\ running
  BY <1>1, <1>2, RunningFacts DEF Executed, Active
<1>5. state'[p] = "Pending" /\ \A m \in All : m # p => state'[m] = state[m]
  BY <1>1, <1>2, <1>a DEF TypeInv
<1>6. /\ queued[p] = 0 /\ (\A u \in Threads : inline[u] # p)
      /\ queued' \in [All -> Nat] /\ queued'[p] = 1
      /\ \A m \in All : m # p => queued'[m] = queued[m]
  <2>1. queued \in [All -> Nat] /\ queued[p] # 1 /\ queued[p] <= 1
    BY <1>1, <1>2, <1>4 DEF TypeInv, Placed
  <2>2. \A u \in Threads : inline[u] # p
    BY <1>1, <1>2, <1>4, Constants DEF Placed
  <2> QED
    BY <1>2, <1>a, <2>1, <2>2
<1>7. TypeInv'
  BY <1>1, <1>3, <1>6, <1>a DEF TypeInv
<1>8. Executed'
  <2>1. \A u \in Threads : \A j \in Depth(stack, u) :
            (u # t \/ j # k) /\ stack[u][j].node = p => ~Active(u, j) /\ ~Telling(u, j)
    BY <1>1, <1>2, <1>4, Alone
  <2>2. \A m \in All : m # p =>
            state'[m] = state[m] \/ (state[m] = None /\ state'[m] = "Pending")
    BY <1>5
  <2>3. /\ stack'[t][k].pc # "unblock" => state'[p] = "Executing"
        /\ stack'[t][k].pc = "unblock" /\ stack'[t][k].todo # {} => state'[p] = "Completed"
        /\ state'[p] = "Executing" => stack'[t][k].pc # "unblock"
    BY <1>3, <1>5
  <2>4. stack[t][k].node = p /\ TypeInv /\ Executed
    BY <1>1, <1>2
  <2> QED
    BY ONLY t \in Threads, <1>2, <1>3, <2>1, <2>2, <2>3, <2>4, ExecutedStep
<1>9. Placed'
  <2>1. \A m \in All : state[m] = "Pending" => state'[m] = "Pending" /\ m # p
    BY <1>4, <1>5
  <2>2. \A m \in All : queued'[m] <= 1 /\ (queued'[m] = 1 => state'[m] = "Pending")
    BY <1>1, <1>5, <1>6, <2>1 DEF Placed
  <2>3. \A u \in Threads : inline'[u] # None =>
          /\ state'[inline'[u]] = "Pending" /\ queued'[inline'[u]] = 0
          /\ \A v \in Threads : v # u => inline'[v] # inline'[u]
    BY <1>1, <1>6, <1>a, <2>1 DEF Placed, TypeInv
  <2>4. \A u \in Threads : \A j \in Depth(stack, u) : \A m \in All : ToDispatch(u, j, m) =>
            state'[m] = "Pending" /\ queued'[m] = 0 /\ \A v \in Threads : inline'[v] # m
    BY <1>1, <1>6, <1>a, <2>1 DEF Placed
  <2> QED
    BY <1>1, <1>3, <2>2, <2>3, <2>4, PlacedStep
<1>10. Degrees'
  <2> SUFFICES ASSUME NEW m \in All, state'[m] # None
               PROVE  Cardinality(Owed(m)') <= inDegree'[m] /\ (Given(m)' => inDegree'[m] = 0)
    BY DEF Degrees
  <2>1. state[m] # None
    BY <1>4, <1>5, Constants
  <2>2. Given(m)' => Given(m)
    <3>1. queued'[m] > 0 => Given(m)
      BY <1>4, <1>6 DEF Given
    <3>2. \A u \in Threads : inline'[u] = m => Given(m)
      BY <1>a DEF Given
    <3>3. state'[m] \in {"Executing", "Completed"} => Given(m)
      BY <1>4, <1>5 DEF Given
    <3> QED
      BY <1>3, <3>1, <3>2, <3>3, GivenStep
  <2>3. Owed(m)' \subseteq Owed(m)
    <3>1. \A q \in All : m \in successors'[q] /\ state'[q] \in {"Pending", "Executing"} =>
             m \in successors[q] /\ state[q] \in {"Pending", "Executing"}
      BY <1>4, <1>5, <1>a
    <3> QED
      BY <1>3, <3>1, OwedStep
  <2> QED
    BY <1>1, <1>4, <1>a, <2>1, <2>2, <2>3, DegreeStep
<1>11. Exists'
  <2>1. \A m \in All : state[m] # None => state'[m] # None
    BY <1>5, Constants
  <2> QED
    BY <1>1, <1>3, <1>a, <2>1, ExistsStep
<1>12. Fresh'
  <2>1. \A m \in All : state'[m] = None <=> state[m] = None
    BY <1>4, <1>5, Constants
  <2>2. \A q \in Flows : state'[q] = "Pending" => state[q] = "Pending"
    BY <1>5, <1>a, Constants, SubflowAssumption
  <2> QED
    BY <1>1, <1>3, <2>1, <2>2, FreshStep
<1>13. Tally'
  <2>1. Unstarted' = Unstarted \cup {p} /\ p \notin Unstarted /\ IsFiniteSet(Unstarted)
    BY <1>2, <1>4, <1>5, Constants DEF Unstarted
  <2>2. AllFrames' = AllFrames
    BY <1>2, <1>3 DEF AllFrames, Elsewhere
  <2>3. Cardinality(Unstarted') = Cardinality(Unstarted) + 1 /\ Cardinality(Unstarted) \in Nat
    BY <2>1, FS_AddElement, FS_CardinalityType
  <2>4. Cardinality(AllFrames) \in Nat
    BY <1>1, FS_CardinalityType DEF Tally
  <2> QED
    BY <1>1, <1>4, <1>a, <2>2, <2>3, <2>4 DEF Tally
<1>14. Resting'
  BY <1>4, <1>a DEF Resting
<1> QED
  BY <1>7, <1>8, <1>9, <1>10, <1>11, <1>12, <1>13, <1>14 DEF IInv

\* A root of the child graph goes from splice to a queue.
LEMMA DispatchInv ==
    ASSUME IInv, NEW t \in Threads, NEW n \in All, DispatchRoot(t, n)
    PROVE  IInv'
<1> PICK k : k = Len(stack[t])
  OBVIOUS
<1> PICK p : p = stack[t][k].node
  OBVIOUS
<1> PICK S : S = stack[t][k].todo
  OBVIOUS
<1>1. TypeInv /\ Executed /\ Placed /\ Degrees /\ Exists /\ Fresh /\ Tally /\ Resting
  BY DEF IInv
<1>a. /\ Busy(t, "dispatch") /\ queued' = [queued EXCEPT ![n] = @ + 1]
      /\ running' = running /\ pending' = pending /\ successors' = successors
      /\ inDegree' = inDegree /\ state' = state /\ inline' = inline
  BY DEF DispatchRoot
<1>2. /\ k \in Depth(stack, t) /\ k \in Nat /\ Innermost(t) = stack[t][k]
      /\ stack[t][k].pc = "dispatch" /\ p \in All /\ S \in SUBSET All
  BY <1>1, <1>a, BusyFacts
<1>b. n \in S /\ Replace(t, "dispatch", S \ {n})
  BY <1>2 DEF DispatchRoot
<1>3. /\ stack' \in [Threads -> Seq(FrameType)] /\ Elsewhere(t, k) /\ k \in Depth(stack', t)
      /\ stack'[t][k].node = p /\ stack'[t][k].pc = "dispatch" /\ stack'[t][k].todo = S \ {n}
  <2>1. Replace(t, "dispatch", S \ {n})
    BY <1>b
  <2>2. k = Len(stack[t]) /\ TypeInv /\ stack[t] # <<>>
    BY <1>1, <1>a DEF Busy
  <2>3. S \ {n} \in SUBSET All
    BY <1>2
  <2>4. "dispatch" \in {"execute", "dispatch", "join", "unblock"}
    OBVIOUS
  <2>5. p = stack[t][k].node
    OBVIOUS
  <2> QED
    BY ONLY t \in Threads, <2>1, <2>2, <2>3, <2>4, <2>5, ReplaceFacts
<1>4. state[p] = "Executing" /\ Active(t, k) /\ running
  BY <1>1, <1>2, RunningFacts DEF Executed, Active
<1>5. ToDispatch(t, k, n)
  BY <1>2, <1>b DEF ToDispatch
<1>6. /\ n \in Children(p) /\ state[n] = "Pending" /\ queued[n] = 0
      /\ \A u \in Threads : inline[u] # n
  BY <1>1, <1>2, <1>5 DEF Placed
<1>7. /\ queued' \in [All -> Nat] /\ queued'[n] = 1
      /\ \A m \in All : m # n => queued'[m] = queued[m]
  BY <1>1, <1>6, <1>a DEF TypeInv
<1>8. TypeInv'
  BY <1>1, <1>3, <1>7, <1>a DEF TypeInv
<1>9. Executed'
  <2>1. \A u \in Threads : \A j \in Depth(stack, u) :
            (u # t \/ j # k) /\ stack[u][j].node = p => ~Active(u, j) /\ ~Telling(u, j)
    BY <1>1, <1>2, <1>4, Alone
  <2>2. \A m \in All : m # p =>
            state'[m] = state[m] \/ (state[m] = None /\ state'[m] = "Pending")
    BY <1>a
  <2>3. /\ stack'[t][k].pc # "unblock" => state'[p] = "Executing"
        /\ stack'[t][k].pc = "unblock" /\ stack'[t][k].todo # {} => state'[p] = "Completed"
        /\ state'[p] = "Executing" => stack'[t][k].pc # "unblock"
    BY <1>3, <1>4, <1>a
  <2>4. stack[t][k].node = p /\ TypeInv /\ Executed
    BY <1>1, <1>2
  <2> QED
    BY ONLY t \in Threads, <1>2, <1>3, <2>1, <2>2, <2>3, <2>4, ExecutedStep
<1>10. Placed'
  <2>1. \A m \in All : queued'[m] <= 1 /\ (queued'[m] = 1 => state'[m] = "Pending")
    BY <1>1, <1>6, <1>7, <1>a DEF Placed
  <2>2. \A u \in Threads : inline'[u] # None =>
          /\ state'[inline'[u]] = "Pending" /\ queued'[inline'[u]] = 0
          /\ \A v \in Threads : v # u => inline'[v] # inline'[u]
    BY <1>1, <1>6, <1>7, <1>a DEF Placed, TypeInv
  <2>3. ASSUME NEW u \in Threads, NEW j \in Depth(stack, u), NEW m \in All,
               u # t \/ j # k, ToDispatch(u, j, m)
        PROVE  state'[m] = "Pending" /\ queued'[m] = 0 /\ \A v \in Threads : inline'[v] # m
    <3>1. /\ m \in Children(stack[u][j].node)
          /\ state[m] = "Pending" /\ queued[m] = 0 /\ \A v \in Threads : inline[v] # m
      BY <1>1, <2>3 DEF Placed
    <3>2. Active(u, j)
      BY <2>3 DEF Active, ToDispatch
    <3>3. stack[u][j].node # p
      BY <1>1, <1>2, <1>4, <2>3, <3>2, Alone
    <3>4. m # n
      BY <1>6, <3>1, <3>3 DEF Children
    <3> QED
      BY <1>7, <1>a, <3>1, <3>4
  <2>4. ASSUME NEW m \in S \ {n}
        PROVE  /\ m \in Children(p) /\ state'[m] = "Pending" /\ queued'[m] = 0
               /\ \A v \in Threads : inline'[v] # m
    <3>1. m \in All /\ ToDispatch(t, k, m)
      BY <1>2, <2>4 DEF ToDispatch
    <3>2. /\ m \in Children(p)
          /\ state[m] = "Pending" /\ queued[m] = 0 /\ \A v \in Threads : inline[v] # m
      BY <1>1, <1>2, <3>1 DEF Placed
    <3> QED
      BY <1>7, <1>a, <2>4, <3>1, <3>2
  <2> QED
    BY <1>1, <1>2, <1>3, <2>1, <2>2, <2>3, <2>4, PlacedStep
<1>11. Degrees'
  <2> SUFFICES ASSUME NEW m \in All, state'[m] # None
               PROVE  Cardinality(Owed(m)') <= inDegree'[m] /\ (Given(m)' => inDegree'[m] = 0)
    BY DEF Degrees
  <2>2. Given(m)' => Given(m)
    <3>1. queued'[m] > 0 => Given(m)
      BY <1>2, <1>5, <1>7 DEF Given
    <3>2. \A u \in Threads : inline'[u] = m => Given(m)
      BY <1>a DEF Given
    <3>3. state'[m] \in {"Executing", "Completed"} => Given(m)
      BY <1>a DEF Given
    <3>4. m \in S => Given(m)
      BY <1>2 DEF Given, ToDispatch
    <3> QED
      BY <1>2, <1>3, <3>1, <3>2, <3>3, <3>4, GivenStep
  <2>3. Owed(m)' \subseteq Owed(m)
    <3>1. \A q \in All : m \in successors'[q] /\ state'[q] \in {"Pending", "Executing"} =>
             m \in successors[q] /\ state[q] \in {"Pending", "Executing"}
      BY <1>a
    <3> QED
      BY <1>2, <1>3, <3>1, OwedStep
  <2> QED
    BY <1>1, <1>4, <1>a, <2>2, <2>3, DegreeStep
<1>12. Exists'
  BY <1>1, <1>2, <1>3, <1>a, ExistsStep
<1>13. Fresh'
  <2>1. \A m \in All : state'[m] = None <=> state[m] = None
    BY <1>a
  <2>2. \A q \in Flows : state'[q] = "Pending" => state[q] = "Pending"
    BY <1>a
  <2> QED
    BY <1>1, <1>2, <1>3, <2>1, <2>2, FreshStep
<1>14. Tally'
  <2>1. Unstarted' = Unstarted
    BY <1>a DEF Unstarted
  <2>2. AllFrames' = AllFrames
    BY <1>2, <1>3 DEF AllFrames, Elsewhere
  <2> QED
    BY <1>1, <1>a, <2>1, <2>2 DEF Tally
<1>15. Resting'
  BY <1>4, <1>a DEF Resting
<1> QED
  BY <1>8, <1>9, <1>10, <1>11, <1>12, <1>13, <1>14, <1>15 DEF IInv

\* A thread enters join.
LEMMA JoinInv ==
    ASSUME IInv, NEW t \in Threads, join(t)
    PROVE  IInv'
<1> PICK k : k = Len(stack[t])
  OBVIOUS
<1> PICK p : p = stack[t][k].node
  OBVIOUS
<1>1. TypeInv /\ Executed /\ Placed /\ Degrees /\ Exists /\ Fresh /\ Tally /\ Resting
  BY DEF IInv
<1>a. /\ Busy(t, "dispatch") /\ Replace(t, "join", {})
      /\ running' = running /\ pending' = pending /\ successors' = successors
      /\ inDegree' = inDegree /\ state' = state /\ inline' = inline /\ queued' = queued
  BY DEF join
<1>2. k \in Depth(stack, t) /\ k \in Nat /\ stack[t][k].pc = "dispatch" /\ p \in All
  BY <1>1, <1>a, BusyFacts
<1>3. /\ stack' \in [Threads -> Seq(FrameType)] /\ Elsewhere(t, k) /\ k \in Depth(stack', t)
      /\ stack'[t][k].node = p /\ stack'[t][k].pc = "join" /\ stack'[t][k].todo = {}
  <2>1. Replace(t, "join", {})
    BY <1>a
  <2>2. k = Len(stack[t]) /\ TypeInv /\ stack[t] # <<>>
    BY <1>1, <1>a DEF Busy
  <2>3. {} \in SUBSET All
    OBVIOUS
  <2>4. "join" \in {"execute", "dispatch", "join", "unblock"}
    OBVIOUS
  <2>5. p = stack[t][k].node
    OBVIOUS
  <2> QED
    BY ONLY t \in Threads, <2>1, <2>2, <2>3, <2>4, <2>5, ReplaceFacts
<1>4. state[p] = "Executing" /\ Active(t, k) /\ running
  BY <1>1, <1>2, RunningFacts DEF Executed, Active
<1>5. TypeInv'
  BY <1>1, <1>3, <1>a DEF TypeInv
<1>6. Executed'
  <2>1. \A u \in Threads : \A j \in Depth(stack, u) :
            (u # t \/ j # k) /\ stack[u][j].node = p => ~Active(u, j) /\ ~Telling(u, j)
    BY <1>1, <1>2, <1>4, Alone
  <2>2. \A m \in All : m # p =>
            state'[m] = state[m] \/ (state[m] = None /\ state'[m] = "Pending")
    BY <1>a
  <2>3. /\ stack'[t][k].pc # "unblock" => state'[p] = "Executing"
        /\ stack'[t][k].pc = "unblock" /\ stack'[t][k].todo # {} => state'[p] = "Completed"
        /\ state'[p] = "Executing" => stack'[t][k].pc # "unblock"
    BY <1>3, <1>4, <1>a
  <2>4. stack[t][k].node = p /\ TypeInv /\ Executed
    BY <1>1, <1>2
  <2> QED
    BY ONLY t \in Threads, <1>2, <1>3, <2>1, <2>2, <2>3, <2>4, ExecutedStep
<1>7. Placed'
  <2>1. \A m \in All : queued'[m] <= 1 /\ (queued'[m] = 1 => state'[m] = "Pending")
    BY <1>1, <1>a DEF Placed
  <2>2. \A u \in Threads : inline'[u] # None =>
          /\ state'[inline'[u]] = "Pending" /\ queued'[inline'[u]] = 0
          /\ \A v \in Threads : v # u => inline'[v] # inline'[u]
    BY <1>1, <1>a DEF Placed
  <2>3. \A u \in Threads : \A j \in Depth(stack, u) : \A m \in All : ToDispatch(u, j, m) =>
            state'[m] = "Pending" /\ queued'[m] = 0 /\ \A v \in Threads : inline'[v] # m
    BY <1>1, <1>a DEF Placed
  <2> QED
    BY <1>1, <1>2, <1>3, <2>1, <2>2, <2>3, PlacedStep
<1>8. Degrees'
  <2> SUFFICES ASSUME NEW m \in All, state'[m] # None
               PROVE  Cardinality(Owed(m)') <= inDegree'[m] /\ (Given(m)' => inDegree'[m] = 0)
    BY DEF Degrees
  <2>2. Given(m)' => Given(m)
    <3>1. queued'[m] > 0 => Given(m)
      BY <1>a DEF Given
    <3>2. \A u \in Threads : inline'[u] = m => Given(m)
      BY <1>a DEF Given
    <3>3. state'[m] \in {"Executing", "Completed"} => Given(m)
      BY <1>a DEF Given
    <3> QED
      BY <1>2, <1>3, <3>1, <3>2, <3>3, GivenStep
  <2>3. Owed(m)' \subseteq Owed(m)
    <3>1. \A q \in All : m \in successors'[q] /\ state'[q] \in {"Pending", "Executing"} =>
             m \in successors[q] /\ state[q] \in {"Pending", "Executing"}
      BY <1>a
    <3> QED
      BY <1>2, <1>3, <3>1, OwedStep
  <2> QED
    BY <1>1, <1>4, <1>a, <2>2, <2>3, DegreeStep
<1>9. Exists'
  BY <1>1, <1>2, <1>3, <1>a, ExistsStep
<1>10. Fresh'
  <2>1. \A m \in All : state'[m] = None <=> state[m] = None
    BY <1>a
  <2>2. \A q \in Flows : state'[q] = "Pending" => state[q] = "Pending"
    BY <1>a
  <2> QED
    BY <1>1, <1>2, <1>3, <2>1, <2>2, FreshStep
<1>11. Tally'
  <2>1. Unstarted' = Unstarted
    BY <1>a DEF Unstarted
  <2>2. AllFrames' = AllFrames
    BY <1>2, <1>3 DEF AllFrames, Elsewhere
  <2> QED
    BY <1>1, <1>a, <2>1, <2>2 DEF Tally
<1>12. Resting'
  BY <1>4, <1>a DEF Resting
<1> QED
  BY <1>5, <1>6, <1>7, <1>8, <1>9, <1>10, <1>11, <1>12 DEF IInv

\* One dependency of n is delivered: the node that delivers it owed it.
LEMMA UnblockInv ==
    ASSUME IInv, NEW t \in Threads, NEW n \in All, Unblock(t, n)
    PROVE  IInv'
<1> PICK k : k = Len(stack[t])
  OBVIOUS
<1> PICK p : p = stack[t][k].node
  OBVIOUS
<1> PICK S : S = stack[t][k].todo
  OBVIOUS
<1> PICK wins \in BOOLEAN : wins <=> inDegree[n] = 1
  OBVIOUS
<1>1. TypeInv /\ Executed /\ Placed /\ Degrees /\ Exists /\ Fresh /\ Tally /\ Resting
  BY DEF IInv
<1>a. /\ Busy(t, "unblock") /\ inDegree' = [inDegree EXCEPT ![n] = @ - 1]
      /\ running' = running /\ pending' = pending /\ successors' = successors /\ state' = state
  BY DEF Unblock
<1>2. /\ k \in Depth(stack, t) /\ k \in Nat /\ Innermost(t) = stack[t][k]
      /\ stack[t][k].pc = "unblock" /\ p \in All /\ S \in SUBSET All
  BY <1>1, <1>a, BusyFacts
<1>b. n \in S /\ Replace(t, "unblock", S \ {n})
  BY <1>2 DEF Unblock
<1>c. \/ ~wins /\ inline' = inline /\ queued' = queued
      \/ /\ wins
         /\ \/ /\ inline[t] = None /\ inline' = [inline EXCEPT ![t] = n] /\ queued' = queued
            \/ inline' = inline /\ queued' = [queued EXCEPT ![n] = @ + 1]
  BY DEF Unblock, GoesToQueue
<1>3. /\ stack' \in [Threads -> Seq(FrameType)] /\ Elsewhere(t, k) /\ k \in Depth(stack', t)
      /\ stack'[t][k].node = p /\ stack'[t][k].pc = "unblock" /\ stack'[t][k].todo = S \ {n}
  <2>1. Replace(t, "unblock", S \ {n})
    BY <1>b
  <2>2. k = Len(stack[t]) /\ TypeInv /\ stack[t] # <<>>
    BY <1>1, <1>a DEF Busy
  <2>3. S \ {n} \in SUBSET All
    BY <1>2
  <2>4. "unblock" \in {"execute", "dispatch", "join", "unblock"}
    OBVIOUS
  <2>5. p = stack[t][k].node
    OBVIOUS
  <2> QED
    BY ONLY t \in Threads, <2>1, <2>2, <2>3, <2>4, <2>5, ReplaceFacts
<1>4. ToTell(t, k, n) /\ Telling(t, k) /\ running
  BY <1>2, <1>b, RunningFacts DEF ToTell, Telling
<1>5. state[p] = "Completed"
  BY <1>1, <1>2, <1>4 DEF Executed
<1>6. \A u \in Threads : \A j \in Depth(stack, u) :
          (u # t \/ j # k) /\ stack[u][j].node = p => ~Active(u, j) /\ ~Telling(u, j)
  BY <1>1, <1>2, <1>4, Teller
\* n has not been released.
<1>7. p \in Owed(n)
  BY <1>2, <1>4 DEF Owed
<1>8. state[n] # None
  BY <1>1, <1>2, <1>4 DEF Exists
<1>9. /\ Cardinality(Owed(n)) <= inDegree[n] /\ (Given(n) => inDegree[n] = 0)
      /\ Cardinality(Owed(n)) \in Nat /\ IsFiniteSet(Owed(n)) /\ inDegree[n] \in Int
  <2>1. Owed(n) \in SUBSET All
    BY DEF Owed
  <2>2. Cardinality(Owed(n)) <= inDegree[n] /\ (Given(n) => inDegree[n] = 0)
    BY <1>1, <1>4, <1>8 DEF Degrees
  <2>3. Cardinality(Owed(n)) \in Nat /\ IsFiniteSet(Owed(n))
    BY <2>1, Constants
  <2>4. inDegree[n] \in Int
    BY <1>1 DEF TypeInv
  <2> QED
    BY <2>2, <2>3, <2>4
<1>10. Cardinality(Owed(n)) # 0
  BY <1>7, <1>9, NoneLeft
<1>11. ~Given(n)
  BY <1>9, <1>10
<1>12. /\ queued[n] = 0 /\ (\A u \in Threads : inline[u] # n) /\ state[n] = "Pending"
       /\ \A u \in Threads : \A j \in Depth(stack, u) : ~ToDispatch(u, j, n)
  <2>1. queued[n] \in Nat /\ state[n] \in {None, "Pending", "Executing", "Completed"}
    BY <1>1 DEF TypeInv
  <2> QED
    BY <1>8, <1>11, <2>1 DEF Given
<1>13. /\ queued' \in [All -> Nat] /\ inline' \in [Threads -> All \cup {None}]
       /\ \A m \in All : m # n => queued'[m] = queued[m]
       /\ \A u \in Threads : inline'[u] # n => inline'[u] = inline[u]
       /\ queued'[n] <= 1 /\ (queued'[n] = 1 => wins /\ \A u \in Threads : inline'[u] # n)
       /\ \A u \in Threads : inline'[u] = n => wins /\ queued'[n] = 0 /\ u = t
  <2>1. queued \in [All -> Nat] /\ inline \in [Threads -> All \cup {None}] /\ None # n
    BY <1>1, Constants DEF TypeInv
  <2>2. CASE inline' = inline /\ queued' = queued
    BY <1>12, <2>1, <2>2
  <2>3. CASE wins /\ inline[t] = None /\ inline' = [inline EXCEPT ![t] = n] /\ queued' = queued
    BY <1>12, <2>1, <2>3
  <2>4. CASE wins /\ inline' = inline /\ queued' = [queued EXCEPT ![n] = @ + 1]
    BY <1>12, <2>1, <2>4
  <2> QED
    BY <1>c, <2>2, <2>3, <2>4
<1>14. TypeInv'
  <2>1. inDegree' \in [All -> Int]
    BY <1>1, <1>a DEF TypeInv
  <2> QED
    BY <1>1, <1>3, <1>13, <1>a, <2>1 DEF TypeInv
<1>15. Executed'
  <2>2. \A m \in All : m # p =>
            state'[m] = state[m] \/ (state[m] = None /\ state'[m] = "Pending")
    BY <1>a
  <2>3. /\ stack'[t][k].pc # "unblock" => state'[p] = "Executing"
        /\ stack'[t][k].pc = "unblock" /\ stack'[t][k].todo # {} => state'[p] = "Completed"
        /\ state'[p] = "Executing" => stack'[t][k].pc # "unblock"
    BY <1>3, <1>5, <1>a
  <2>4. stack[t][k].node = p /\ TypeInv /\ Executed
    BY <1>1, <1>2
  <2> QED
    BY ONLY t \in Threads, <1>2, <1>3, <1>6, <2>2, <2>3, <2>4, ExecutedStep
<1>16. Placed'
  <2>1. \A m \in All : queued'[m] <= 1 /\ (queued'[m] = 1 => state'[m] = "Pending")
    BY <1>1, <1>12, <1>13, <1>a DEF Placed
  <2>2. ASSUME NEW u \in Threads, inline'[u] # None
        PROVE  /\ state'[inline'[u]] = "Pending" /\ queued'[inline'[u]] = 0
               /\ \A v \in Threads : v # u => inline'[v] # inline'[u]
    <3>1. CASE inline'[u] = n
      BY <1>12, <1>13, <1>a, <3>1
    <3>2. CASE inline'[u] # n
      <4>1. inline'[u] = inline[u] /\ inline[u] \in All
        BY <1>1, <1>13, <2>2, <3>2 DEF TypeInv
      <4>2. /\ state[inline[u]] = "Pending" /\ queued[inline[u]] = 0
            /\ \A v \in Threads : v # u => inline[v] # inline[u]
        BY <1>1, <2>2, <4>1 DEF Placed
      <4>3. queued'[inline[u]] = 0
        BY <1>13, <3>2, <4>1, <4>2
      <4>4. ASSUME NEW v \in Threads, v # u PROVE inline'[v] # inline'[u]
        BY <1>13, <3>2, <4>1, <4>2, <4>4
      <4> QED
        BY <1>a, <4>1, <4>2, <4>3, <4>4
    <3> QED
      BY <3>1, <3>2
  <2>3. ASSUME NEW u \in Threads, NEW j \in Depth(stack, u), NEW m \in All, ToDispatch(u, j, m)
        PROVE  state'[m] = "Pending" /\ queued'[m] = 0 /\ \A v \in Threads : inline'[v] # m
    <3>1. state[m] = "Pending" /\ queued[m] = 0 /\ \A v \in Threads : inline[v] # m
      BY <1>1, <2>3 DEF Placed
    <3>2. m # n
      BY <1>12, <2>3
    <3> QED
      BY <1>13, <1>a, <3>1, <3>2
  <2> QED
    BY <1>1, <1>2, <1>3, <2>1, <2>2, <2>3, PlacedStep
<1>17. \A m \in All : Owed(m)' \subseteq Owed(m)
  <2> SUFFICES ASSUME NEW m \in All PROVE Owed(m)' \subseteq Owed(m)
    OBVIOUS
  <2>1. \A q \in All : m \in successors'[q] /\ state'[q] \in {"Pending", "Executing"} =>
           m \in successors[q] /\ state[q] \in {"Pending", "Executing"}
    BY <1>a
  <2>2. m \in S => p \in Owed(m)
    BY <1>2 DEF Owed, ToTell
  <2> QED
    BY <1>2, <1>3, <2>1, <2>2, OwedStep
<1>18. p \notin Owed(n)'
  <2> SUFFICES ASSUME p \in Owed(n)' PROVE FALSE
    OBVIOUS
  <2>1. PICK u \in Threads : \E j \in Depth(stack', u) :
           stack'[u][j].pc = "unblock" /\ n \in stack'[u][j].todo /\ stack'[u][j].node = p
    BY <1>5, <1>a DEF Owed, ToTell
  <2>2. PICK j \in Depth(stack', u) :
           stack'[u][j].pc = "unblock" /\ n \in stack'[u][j].todo /\ stack'[u][j].node = p
    BY <2>1
  <2>3. u # t \/ j # k
    BY <1>3, <2>2
  <2>4. j \in Depth(stack, u) /\ stack'[u][j] = stack[u][j]
    <3>1. \A v \in Threads : \A i \in Depth(stack', v) : v # t \/ i # k =>
              i \in Depth(stack, v) /\ stack'[v][i] = stack[v][i]
      BY <1>2, <1>3, FrameFacts
    <3> QED
      BY <2>3, <3>1
  <2>5. Telling(u, j)
    BY <2>2, <2>4 DEF Telling
  <2> QED
    BY <1>6, <2>2, <2>3, <2>4, <2>5
<1>19. Degrees'
  <2> SUFFICES ASSUME NEW m \in All, state'[m] # None
               PROVE  Cardinality(Owed(m)') <= inDegree'[m] /\ (Given(m)' => inDegree'[m] = 0)
    BY DEF Degrees
  <2>1. CASE m = n
    <3>1. inDegree'[n] = inDegree[n] - 1
      BY <1>1, <1>a DEF TypeInv
    <3>2. Owed(n)' \subseteq Owed(n) \ {p}
      BY <1>17, <1>18
    <3>3. Owed(n) \ {p} \in SUBSET All /\ Owed(n)' \in SUBSET All
      BY DEF Owed
    <3>4. Cardinality(Owed(n)') <= Cardinality(Owed(n) \ {p}) /\ Cardinality(Owed(n)') \in Nat
          /\ Cardinality(Owed(n) \ {p}) \in Nat
      BY <3>2, <3>3, Fewer
    <3>5. Cardinality(Owed(n) \ {p}) = Cardinality(Owed(n)) - 1
      BY <1>7, <1>9, FS_RemoveElement, ZenonT(30)
    <3>6. Cardinality(Owed(n)') <= inDegree'[n]
      BY <1>9, <3>1, <3>4, <3>5
    <3>7. ~wins => (Given(n)' => Given(n))
      <4> SUFFICES ASSUME ~wins PROVE Given(n)' => Given(n)
        OBVIOUS
      <4>1. queued'[n] > 0 => Given(n)
        BY <1>13
      <4>2. \A u \in Threads : inline'[u] = n => Given(n)
        BY <1>13
      <4>3. state'[n] \in {"Executing", "Completed"} => Given(n)
        BY <1>12, <1>a
      <4> QED
        BY <1>2, <1>3, <4>1, <4>2, <4>3, GivenStep
    <3> QED
      BY <1>9, <1>11, <2>1, <3>1, <3>6, <3>7
  <2>2. CASE m # n
    <3>1. inDegree'[m] = inDegree[m]
      BY <1>1, <1>a, <2>2 DEF TypeInv
    <3>2. Given(m)' => Given(m)
      <4>1. queued'[m] > 0 => Given(m)
        BY <1>13, <2>2 DEF Given
      <4>2. \A u \in Threads : inline'[u] = m => Given(m)
        BY <1>13, <2>2 DEF Given
      <4>3. state'[m] \in {"Executing", "Completed"} => Given(m)
        BY <1>a DEF Given
      <4> QED
        BY <1>2, <1>3, <4>1, <4>2, <4>3, GivenStep
    <3> QED
      BY <1>1, <1>4, <1>17, <1>a, <3>1, <3>2, DegreeStep
  <2> QED
    BY <2>1, <2>2
<1>20. Exists'
  <2>1. \A m \in S : state[m] # None
    BY <1>1, <1>2 DEF Exists, ToTell
  <2> QED
    BY <1>1, <1>2, <1>3, <1>a, <2>1, ExistsStep
<1>21. Fresh'
  <2>1. \A m \in All : state'[m] = None <=> state[m] = None
    BY <1>a
  <2>2. \A q \in Flows : state'[q] = "Pending" => state[q] = "Pending"
    BY <1>a
  <2> QED
    BY <1>1, <1>2, <1>3, <2>1, <2>2, FreshStep
<1>22. Tally'
  <2>1. Unstarted' = Unstarted
    BY <1>a DEF Unstarted
  <2>2. AllFrames' = AllFrames
    BY <1>2, <1>3 DEF AllFrames, Elsewhere
  <2> QED
    BY <1>1, <1>a, <2>1, <2>2 DEF Tally
<1>23. Resting'
  BY <1>4, <1>a DEF Resting
<1> QED
  BY <1>14, <1>15, <1>16, <1>19, <1>20, <1>21, <1>22, <1>23 DEF IInv

\* A thread has told everyone and counts the task off.
LEMMA CompletedInv ==
    ASSUME IInv, NEW t \in Threads, onTaskCompleted(t)
    PROVE  IInv'
<1> PICK k : k = Len(stack[t])
  OBVIOUS
<1>1. TypeInv /\ Executed /\ Placed /\ Degrees /\ Exists /\ Fresh /\ Tally /\ Resting
  BY DEF IInv
<1>a. /\ Busy(t, "unblock") /\ Innermost(t).todo = {} /\ pending' = pending - 1
      /\ running' = running /\ successors' = successors /\ queued' = queued
      /\ inDegree' = inDegree /\ state' = state /\ inline' = inline
  BY DEF onTaskCompleted
<1>2. /\ k \in Depth(stack, t) /\ k \in Nat
      /\ stack[t][k].pc = "unblock" /\ stack[t][k].todo = {}
  BY <1>1, <1>a, BusyFacts
<1>3. /\ stack' \in [Threads -> Seq(FrameType)] /\ Elsewhere(t, k) /\ k \notin Depth(stack', t)
  <2> PICK s : s = Front(stack[t])
    OBVIOUS
  <2>1. stack' = [stack EXCEPT ![t] = s]
    BY DEF onTaskCompleted
  <2>2. k = Len(stack[t]) /\ TypeInv /\ stack[t] # <<>> /\ s = Front(stack[t])
    BY <1>1, <1>a DEF Busy
  <2> QED
    BY ONLY t \in Threads, <2>1, <2>2, PopFacts
<1>4. running
  BY <1>2, RunningFacts
<1>5. TypeInv'
  BY <1>1, <1>3, <1>a DEF TypeInv
<1>6. \A u \in Threads : \A j \in Depth(stack', u) :
          j \in Depth(stack, u) /\ stack'[u][j] = stack[u][j]
  BY <1>2, <1>3, FrameFacts
<1>7. \A u \in Threads : \A j \in Depth(stack, u) : Active(u, j) =>
          j \in Depth(stack', u) /\ stack'[u][j] = stack[u][j]
  BY <1>2, <1>3, FrameFacts DEF Active
<1>8. Executed'
  <2>1. \A u \in Threads : \A j \in Depth(stack', u) :
            /\ stack'[u][j].pc # "unblock" => state'[stack'[u][j].node] = "Executing"
            /\ stack'[u][j].pc = "unblock" /\ stack'[u][j].todo # {} =>
                   state'[stack'[u][j].node] = "Completed"
    BY <1>1, <1>6, <1>a DEF Executed, Active, Telling
  <2>2. ASSUME NEW u \in Threads, NEW v \in Threads,
               NEW i \in Depth(stack', u), NEW j \in Depth(stack', v),
               stack'[u][i].node = stack'[v][j].node,
               \/ stack'[u][i].pc # "unblock" /\ stack'[v][j].pc # "unblock"
               \/ /\ stack'[u][i].pc = "unblock" /\ stack'[u][i].todo # {}
                  /\ stack'[v][j].pc = "unblock" /\ stack'[v][j].todo # {}
        PROVE  u = v /\ i = j
    <3>1. /\ i \in Depth(stack, u) /\ stack'[u][i] = stack[u][i]
          /\ j \in Depth(stack, v) /\ stack'[v][j] = stack[v][j]
      BY <1>6
    <3>2. (Active(u, i) /\ Active(v, j)) \/ (Telling(u, i) /\ Telling(v, j))
      BY <2>2, <3>1 DEF Active, Telling
    <3>3. stack[u][i].node = stack[v][j].node
      BY <2>2, <3>1
    <3> QED
      BY <1>1, <3>1, <3>2, <3>3 DEF Executed
  <2>3. \A n \in All : state'[n] = "Executing" =>
            \E u \in Threads : \E j \in Depth(stack', u) :
                stack'[u][j].pc # "unblock" /\ stack'[u][j].node = n
    <3> SUFFICES ASSUME NEW n \in All, state[n] = "Executing"
                 PROVE  \E u \in Threads : \E j \in Depth(stack', u) :
                            stack'[u][j].pc # "unblock" /\ stack'[u][j].node = n
      BY <1>a
    <3>1. PICK u \in Threads : \E j \in Depth(stack, u) : Active(u, j) /\ stack[u][j].node = n
      BY <1>1 DEF Executed
    <3> QED
      BY <1>7, <3>1 DEF Active
  <2> QED
    BY <2>1, <2>2, <2>3 DEF Executed, Active, Telling
<1>9. Placed'
  <2>1. \A m \in All : queued'[m] <= 1 /\ (queued'[m] = 1 => state'[m] = "Pending")
    BY <1>1, <1>a DEF Placed
  <2>2. \A u \in Threads : inline'[u] # None =>
          /\ state'[inline'[u]] = "Pending" /\ queued'[inline'[u]] = 0
          /\ \A v \in Threads : v # u => inline'[v] # inline'[u]
    BY <1>1, <1>a DEF Placed
  <2>3. \A u \in Threads : \A j \in Depth(stack, u) : \A m \in All : ToDispatch(u, j, m) =>
            state'[m] = "Pending" /\ queued'[m] = 0 /\ \A v \in Threads : inline'[v] # m
    BY <1>1, <1>a DEF Placed
  <2> QED
    BY <1>1, <1>2, <1>3, <2>1, <2>2, <2>3, PlacedStep
<1>10. Degrees'
  <2> SUFFICES ASSUME NEW m \in All, state'[m] # None
               PROVE  Cardinality(Owed(m)') <= inDegree'[m] /\ (Given(m)' => inDegree'[m] = 0)
    BY DEF Degrees
  <2>2. Given(m)' => Given(m)
    <3>1. queued'[m] > 0 => Given(m)
      BY <1>a DEF Given
    <3>2. \A u \in Threads : inline'[u] = m => Given(m)
      BY <1>a DEF Given
    <3>3. state'[m] \in {"Executing", "Completed"} => Given(m)
      BY <1>a DEF Given
    <3> QED
      BY <1>2, <1>3, <3>1, <3>2, <3>3, GivenStep
  <2>3. Owed(m)' \subseteq Owed(m)
    <3>1. \A q \in All : m \in successors'[q] /\ state'[q] \in {"Pending", "Executing"} =>
             m \in successors[q] /\ state[q] \in {"Pending", "Executing"}
      BY <1>a
    <3> QED
      BY <1>2, <1>3, <3>1, OwedStep
  <2> QED
    BY <1>1, <1>4, <1>a, <2>2, <2>3, DegreeStep
<1>11. Exists'
  BY <1>1, <1>2, <1>3, <1>a, ExistsStep
<1>12. Fresh'
  <2>1. \A m \in All : state'[m] = None <=> state[m] = None
    BY <1>a
  <2>2. \A q \in Flows : state'[q] = "Pending" => state[q] = "Pending"
    BY <1>a
  <2> QED
    BY <1>1, <1>2, <1>3, <2>1, <2>2, FreshStep
<1>13. Tally'
  <2>1. Unstarted' = Unstarted /\ IsFiniteSet(Unstarted)
    BY <1>a, Constants DEF Unstarted
  <2>2. AllFrames' = AllFrames \ {<<t, k>>} /\ <<t, k>> \in AllFrames
    BY <1>2, <1>3 DEF AllFrames, Elsewhere
  <2>3. IsFiniteSet(AllFrames') /\ Cardinality(AllFrames') = Cardinality(AllFrames) - 1
        /\ Cardinality(AllFrames) \in Nat
    BY <1>1, <2>2, FS_RemoveElement, FS_CardinalityType DEF Tally
  <2>4. Cardinality(Unstarted) \in Nat
    BY <2>1, FS_CardinalityType
  <2> QED
    BY <1>1, <1>4, <1>a, <2>1, <2>3, <2>4 DEF Tally
<1>14. Resting'
  BY <1>4, <1>a DEF Resting
<1> QED
  BY <1>5, <1>8, <1>9, <1>10, <1>11, <1>12, <1>13, <1>14 DEF IInv

\* A flow splices its child graph: the new nodes did not exist, the exit node
\* owes what the flow owed, and each new node is counted once.
LEMMA SpliceInv ==
    ASSUME IInv, NEW t \in Threads, splice(t)
    PROVE  IInv'
<1> PICK k : k = Len(stack[t])
  OBVIOUS
<1> PICK p : p = stack[t][k].node
  OBVIOUS
<1> PICK C : C = Children(p)
  OBVIOUS
<1> PICK X : X = ExitsOf(p)
  OBVIOUS
<1> PICK new : new = C \cup X
  OBVIOUS
<1>1. TypeInv /\ Executed /\ Placed /\ Degrees /\ Exists /\ Fresh /\ Tally /\ Resting
  BY DEF IInv
<1>2. /\ k \in Depth(stack, t) /\ k \in Nat /\ Innermost(t) = stack[t][k]
      /\ stack[t][k].pc = "execute" /\ stack[t][k].node = p /\ p \in All /\ p = Innermost(t).node
  <2>1. Busy(t, "execute")
    BY DEF splice
  <2> QED
    BY <1>1, <2>1, BusyFacts
<1>a. /\ Busy(t, "execute") /\ p \in Flows
      /\ state' = [n \in All |-> IF n \in new THEN "Pending" ELSE state[n]]
      /\ successors' = [n \in All |-> SplicedSuccessors(p, n)]
      /\ inDegree' = [n \in All |-> IF n \in C THEN initialInDegree(n)
                                    ELSE IF n \in new THEN Cardinality(Sinks(p))
                                    ELSE inDegree[n]]
      /\ pending' = pending + Counted(p) /\ Replace(t, "dispatch", Roots(C))
      /\ running' = running /\ queued' = queued /\ inline' = inline
  BY <1>2 DEF splice
<1>3. /\ stack' \in [Threads -> Seq(FrameType)] /\ Elsewhere(t, k) /\ k \in Depth(stack', t)
      /\ stack'[t][k].node = p /\ stack'[t][k].pc = "dispatch" /\ stack'[t][k].todo = Roots(C)
  <2>1. Replace(t, "dispatch", Roots(C))
    BY <1>a
  <2>2. k = Len(stack[t]) /\ TypeInv /\ stack[t] # <<>>
    BY <1>1, <1>a DEF Busy
  <2>3. Roots(C) \in SUBSET All
    BY <1>a, Constants DEF Roots
  <2>4. "dispatch" \in {"execute", "dispatch", "join", "unblock"}
    OBVIOUS
  <2>5. p = stack[t][k].node
    OBVIOUS
  <2> QED
    BY ONLY t \in Threads, <2>1, <2>2, <2>3, <2>4, <2>5, ReplaceFacts
<1>4. state[p] = "Executing" /\ Active(t, k) /\ running
  BY <1>1, <1>2, RunningFacts DEF Executed, Active
<1>5. \A u \in Threads : \A j \in Depth(stack, u) :
          (u # t \/ j # k) /\ stack[u][j].node = p => ~Active(u, j) /\ ~Telling(u, j)
  BY <1>1, <1>2, <1>4, Alone
\* The new nodes.
<1>6. /\ C \subseteq Nodes /\ C \subseteq All /\ X \subseteq {Exit[p]} /\ X \subseteq All
      /\ X \cap Nodes = {} /\ new \subseteq All /\ C \cap Top = {} /\ new \cap Top = {}
  <2>1. /\ Exit[p] \in All /\ Exit[p] \notin Nodes /\ C \subseteq Nodes /\ C \cap Top = {}
        /\ Nodes \subseteq All /\ Top \subseteq Nodes
    BY <1>a, Constants
  <2> QED
    BY <2>1 DEF ExitsOf
<1>7. \A n \in new : state[n] = None
  <2>1. Unspliced(p)
    BY <1>2 DEF Unspliced
  <2> QED
    BY <1>1, <1>6, <1>a, <2>1 DEF Fresh
<1>8. p \notin new
  BY <1>4, <1>7, Constants
<1>9. /\ \A n \in All : n \in new => state'[n] = "Pending"
      /\ \A n \in All : n \notin new => state'[n] = state[n]
  BY <1>a
<1>10. /\ \A n \in C : UserSuccessors(n) \subseteq C /\ Sinks(p) \subseteq C
       /\ Sinks(p) \in SUBSET All
  BY <1>6, <1>a, Constants DEF Sinks
<1>11. /\ \A m \in C : successors'[m] \subseteq X \cup UserSuccessors(m)
                       /\ (m \notin Sinks(p) => successors'[m] = UserSuccessors(m))
       /\ \A m \in X : successors'[m] \subseteq successors[p]
                       /\ (Mode[p] # "async" => successors'[m] = {})
       /\ successors'[p] \subseteq successors[p] /\ (Mode[p] = "async" => successors'[p] = {})
       /\ \A m \in All : m \notin new /\ m # p => successors'[m] = successors[m]
  <2>1. ASSUME NEW m \in C
        PROVE  successors'[m] = IF m \in Sinks(p) THEN X ELSE UserSuccessors(m)
    <3>1. successors'[m] = SplicedSuccessors(p, m)
      BY <1>6, <1>a
    <3>2. m \in Children(p) /\ m \notin ExitsOf(p) /\ m # p
      BY <1>6, <1>8
    <3> QED
      BY <3>1, <3>2 DEF SplicedSuccessors
  <2>2. ASSUME NEW m \in X
        PROVE  successors'[m] = IF Mode[p] = "async" THEN successors[p] ELSE {}
    <3>1. successors'[m] = SplicedSuccessors(p, m)
      BY <1>6, <1>a
    <3>2. m \notin Children(p) /\ m \in ExitsOf(p) /\ m # p
      BY <1>6, <1>8
    <3> QED
      BY <3>1, <3>2 DEF SplicedSuccessors
  <2>3. successors'[p] = IF Mode[p] = "async" THEN {} ELSE successors[p]
    BY <1>2, <1>8, <1>a DEF SplicedSuccessors
  <2>4. \A m \in All : m \notin new /\ m # p => successors'[m] = successors[m]
    BY <1>8, <1>a DEF SplicedSuccessors
  <2> QED
    BY <2>1, <2>2, <2>3, <2>4
<1>12. TypeInv'
  <2>1. state' \in [All -> {None, "Pending", "Executing", "Completed"}]
    BY <1>1, <1>a DEF TypeInv
  <2>2. successors' \in [All -> SUBSET All]
    <3>1. \A m \in All : successors[m] \in SUBSET All
      BY <1>1 DEF TypeInv
    <3>2. \A m \in C : UserSuccessors(m) \subseteq All
      BY <1>6, <1>10
    <3>3. \A m \in All : successors'[m] \in SUBSET All
      BY <1>2, <1>6, <1>11, <3>1, <3>2
    <3> QED
      BY <1>a, <3>3
  <2>3. inDegree' \in [All -> Int]
    <3>1. \A n \in C : initialInDegree(n) \in Int
      <4> SUFFICES ASSUME NEW n \in C
                   PROVE  Cardinality({m \in Nodes : <<m, n>> \in Edges}) \in Int
        BY DEF initialInDegree
      <4> PICK S : S = {m \in Nodes : <<m, n>> \in Edges}
        OBVIOUS
      <4>1. S \in SUBSET All
        BY Constants
      <4>2. Cardinality(S) \in Nat
        BY ONLY <4>1, Constants
      <4> QED
        BY <4>2
    <3>2. Cardinality(Sinks(p)) \in Int
      BY <1>10, Constants
    <3> QED
      BY <1>1, <1>a, <3>1, <3>2 DEF TypeInv
  <2>4. pending' \in Int
    <3>1. Cardinality(C) \in Nat /\ Cardinality(X) \in Nat
      BY <1>6, Constants
    <3> QED
      BY <1>1, <1>a, <3>1 DEF TypeInv, Counted
  <2> QED
    BY <1>1, <1>3, <1>a, <2>1, <2>2, <2>3, <2>4 DEF TypeInv
<1>13. Executed'
  <2>2. \A m \in All : m # p =>
            state'[m] = state[m] \/ (state[m] = None /\ state'[m] = "Pending")
    BY <1>7, <1>9
  <2>3. /\ stack'[t][k].pc # "unblock" => state'[p] = "Executing"
        /\ stack'[t][k].pc = "unblock" /\ stack'[t][k].todo # {} => state'[p] = "Completed"
        /\ state'[p] = "Executing" => stack'[t][k].pc # "unblock"
    BY <1>2, <1>3, <1>4, <1>8, <1>9
  <2>4. stack[t][k].node = p /\ TypeInv /\ Executed
    BY <1>1, <1>2
  <2> QED
    BY ONLY t \in Threads, <1>2, <1>3, <1>5, <2>2, <2>3, <2>4, ExecutedStep, SMTT(30)
<1>14. \A n \in new : queued[n] = 0 /\ \A u \in Threads : inline[u] # n
  <2> SUFFICES ASSUME NEW n \in new PROVE queued[n] = 0 /\ \A u \in Threads : inline[u] # n
    OBVIOUS
  <2>1. n \in All /\ state[n] # "Pending" /\ n # None
    BY <1>6, <1>7, Constants
  <2>2. queued[n] \in Nat /\ queued[n] <= 1 /\ queued[n] # 1
    BY <1>1, <2>1 DEF TypeInv, Placed
  <2>3. \A u \in Threads : inline[u] # n
    BY <1>1, <2>1 DEF Placed
  <2> QED
    BY <2>2, <2>3
<1>15. Placed'
  <2>1. \A m \in All : state[m] = "Pending" => state'[m] = "Pending"
    BY <1>9
  <2>2. \A m \in All : queued'[m] <= 1 /\ (queued'[m] = 1 => state'[m] = "Pending")
    BY <1>1, <1>a, <2>1 DEF Placed
  <2>3. \A u \in Threads : inline'[u] # None =>
          /\ state'[inline'[u]] = "Pending" /\ queued'[inline'[u]] = 0
          /\ \A v \in Threads : v # u => inline'[v] # inline'[u]
    BY <1>1, <1>a, <2>1 DEF Placed, TypeInv
  <2>4. \A u \in Threads : \A j \in Depth(stack, u) : \A m \in All : ToDispatch(u, j, m) =>
            state'[m] = "Pending" /\ queued'[m] = 0 /\ \A v \in Threads : inline'[v] # m
    BY <1>1, <1>a, <2>1 DEF Placed
  <2>5. \A m \in Roots(C) : /\ m \in Children(p) /\ state'[m] = "Pending" /\ queued'[m] = 0
                            /\ \A v \in Threads : inline'[v] # m
    BY <1>6, <1>9, <1>14, <1>a DEF Roots
  <2> QED
    BY <1>1, <1>2, <1>3, <2>2, <2>3, <2>4, <2>5, PlacedStep, SMTT(30)
\* What is owed: to a child what its edges say, to the exit node the sinks,
\* to a successor of an asynchronous flow the exit node instead of the flow.
<1>16. \A m \in All : \A n \in new : n \notin successors[m]
  BY <1>1, <1>7 DEF Exists
<1>17. \A u \in Threads : \A j \in Depth(stack', u) : u # t \/ j # k =>
           j \in Depth(stack, u) /\ stack'[u][j] = stack[u][j]
  BY <1>2, <1>3, FrameFacts
<1>18. ASSUME NEW n \in All, NEW m \in Owed(n)'
       PROVE  /\ m \in All
              /\ \/ n \in successors'[m] /\ state'[m] \in {"Pending", "Executing"}
                 \/ /\ m \in Owed(n) /\ n \notin new
                    /\ \E u \in Threads : \E j \in Depth(stack, u) :
                          (u # t \/ j # k) /\ ToTell(u, j, n) /\ stack[u][j].node = m
  <2>1. m \in All
    BY <1>18 DEF Owed
  <2>2. CASE n \in successors'[m] /\ state'[m] \in {"Pending", "Executing"}
    BY <2>1, <2>2
  <2>3. ASSUME NEW u \in Threads, NEW j \in Depth(stack', u), stack'[u][j].pc = "unblock",
               n \in stack'[u][j].todo, stack'[u][j].node = m
        PROVE  /\ m \in Owed(n) /\ n \notin new
               /\ \E v \in Threads : \E i \in Depth(stack, v) :
                     (v # t \/ i # k) /\ ToTell(v, i, n) /\ stack[v][i].node = m
    <3>1. u # t \/ j # k
      BY <1>3, <2>3
    <3>2. j \in Depth(stack, u) /\ stack'[u][j] = stack[u][j]
      BY <1>17, <3>1
    <3>3. ToTell(u, j, n) /\ stack[u][j].node = m
      BY <2>3, <3>2 DEF ToTell
    <3>4. state[n] # None
      BY <1>1, <3>2, <3>3 DEF Exists
    <3>5. m \in Owed(n)
      BY <2>1, <3>2, <3>3 DEF Owed
    <3> QED
      BY <1>7, <3>1, <3>2, <3>3, <3>4, <3>5
  <2> QED
    BY <1>18, <2>1, <2>2, <2>3 DEF Owed, ToTell
<1>19. ASSUME NEW n \in C
       PROVE  Owed(n)' \subseteq {m \in Nodes : <<m, n>> \in Edges}
  <2> SUFFICES ASSUME NEW m \in Owed(n)' PROVE m \in Nodes /\ <<m, n>> \in Edges
    OBVIOUS
  <2>1. n \in All /\ n \in new /\ n \in Nodes
    BY <1>6
  <2>2. m \in All /\ n \in successors'[m]
    BY <1>18, <2>1
  <2>3. m \in C
    BY <1>2, <1>11, <1>16, <2>1, <2>2
  <2>4. n \in UserSuccessors(m)
    BY <1>6, <1>11, <2>1, <2>2, <2>3
  <2> QED
    BY <1>6, <2>3, <2>4 DEF UserSuccessors
<1>20. ASSUME NEW n \in X
       PROVE  Owed(n)' \subseteq Sinks(p)
  <2> SUFFICES ASSUME NEW m \in Owed(n)' PROVE m \in Sinks(p)
    OBVIOUS
  <2>1. n \in All /\ n \in new /\ n \notin Nodes
    BY <1>6
  <2>2. m \in All /\ n \in successors'[m]
    BY <1>18, <2>1
  <2>3. m \in C
    BY <1>2, <1>11, <1>16, <2>1, <2>2
  <2> QED
    BY <1>6, <1>10, <1>11, <2>1, <2>2, <2>3
<1>21. ASSUME NEW n \in All, n \notin new
       PROVE  Cardinality(Owed(n)') <= Cardinality(Owed(n))
  <2>1. ASSUME NEW m \in Owed(n)'
        PROVE  m \in Owed(n) \/ (m \in X /\ n \in successors[p] /\ Mode[p] = "async")
    <3>1. CASE n \in successors'[m] /\ state'[m] \in {"Pending", "Executing"}
      <4>1. m \in All
        BY <1>18, <2>1
      <4>2. CASE m \in C
        BY <1>10, <1>11, <1>21, <3>1, <4>2
      <4>3. CASE m \in X
        BY <1>11, <3>1, <4>3
      <4>4. CASE m \notin new
        <5>1. n \in successors[m] /\ state[m] \in {"Pending", "Executing"}
          BY <1>9, <1>11, <3>1, <4>1, <4>4
        <5> QED
          BY <4>1, <5>1 DEF Owed
      <4> QED
        BY <4>2, <4>3, <4>4
    <3> QED
      BY <1>18, <2>1, <3>1
  <2>2. Owed(n) \in SUBSET All /\ Owed(n)' \in SUBSET All
    BY DEF Owed
  <2>3. CASE Owed(n)' \subseteq Owed(n)
    BY <2>2, <2>3, Fewer
  <2>4. CASE n \in successors[p] /\ Mode[p] = "async"
    <3>1. p \in Owed(n)
      BY <1>2, <1>4, <2>4 DEF Owed
    <3>2. p \notin Owed(n)'
      <4> SUFFICES ASSUME p \in Owed(n)' PROVE FALSE
        OBVIOUS
      <4>1. n \notin successors'[p]
        BY <1>11, <2>4
      <4>2. PICK u \in Threads : \E j \in Depth(stack, u) :
                (u # t \/ j # k) /\ ToTell(u, j, n) /\ stack[u][j].node = p
        BY <1>18, <4>1
      <4> QED
        BY <1>5, <4>2 DEF Telling, ToTell
    <3>3. Owed(n)' \subseteq (Owed(n) \ {p}) \cup {Exit[p]}
      BY <1>6, <2>1, <3>2
    <3>4. IsFiniteSet(Owed(n)) /\ Cardinality(Owed(n)) \in Nat
      BY <2>2, Constants
    <3>5. /\ IsFiniteSet(Owed(n) \ {p}) /\ Cardinality(Owed(n) \ {p}) = Cardinality(Owed(n)) - 1
      BY <3>1, <3>4, FS_RemoveElement
    <3>6. Cardinality((Owed(n) \ {p}) \cup {Exit[p]}) <= Cardinality(Owed(n) \ {p}) + 1
      <4>1. Cardinality(Owed(n) \ {p}) \in Nat
        BY <3>5, FS_CardinalityType
      <4> PICK S : S = Owed(n) \ {p}
        OBVIOUS
      <4>2. IsFiniteSet(S) /\ Cardinality(S) \in Nat
        BY <3>5, <4>1
      <4>3. Cardinality(S \cup {Exit[p]}) <= Cardinality(S) + 1
        BY ONLY <4>2, FS_AddElement
      <4> QED
        BY <4>3
    <3>7. (Owed(n) \ {p}) \cup {Exit[p]} \in SUBSET All
      BY <1>a, <2>2, Constants
    <3>8. /\ Cardinality(Owed(n)') <= Cardinality((Owed(n) \ {p}) \cup {Exit[p]})
          /\ Cardinality(Owed(n)') \in Nat
          /\ Cardinality((Owed(n) \ {p}) \cup {Exit[p]}) \in Nat
      BY <2>2, <3>3, <3>7, Fewer
    <3> QED
      BY <3>4, <3>5, <3>6, <3>8
  <2> QED
    BY <2>1, <2>3, <2>4
<1>22. ASSUME NEW n \in All, n \notin Roots(C) PROVE Given(n)' => Given(n)
  <2>1. queued'[n] > 0 => Given(n)
    BY <1>a DEF Given
  <2>2. \A u \in Threads : inline'[u] = n => Given(n)
    BY <1>a DEF Given
  <2>3. state'[n] \in {"Executing", "Completed"} => Given(n)
    BY <1>9 DEF Given
  <2> QED
    BY <1>2, <1>3, <1>22, <2>1, <2>2, <2>3, GivenStep
<1>23. \A n \in new : ~Given(n)
  <2> SUFFICES ASSUME NEW n \in new, Given(n) PROVE FALSE
    OBVIOUS
  <2>1. n \in All /\ state[n] = None
    BY <1>6, <1>7
  <2>2. PICK u \in Threads : \E j \in Depth(stack, u) : ToDispatch(u, j, n)
    BY <1>14, <2>1, Constants DEF Given
  <2>3. state[n] = "Pending"
    BY <1>1, <2>1, <2>2 DEF Placed
  <2> QED
    BY <2>1, <2>3, Constants
<1>24. Degrees'
  <2> SUFFICES ASSUME NEW n \in All, state'[n] # None
               PROVE  Cardinality(Owed(n)') <= inDegree'[n] /\ (Given(n)' => inDegree'[n] = 0)
    BY DEF Degrees
  <2>1. CASE n \in C
    <3>1. inDegree'[n] = Cardinality({m \in Nodes : <<m, n>> \in Edges})
      BY <1>a, <2>1 DEF initialInDegree
    <3>2. Owed(n)' \subseteq {m \in Nodes : <<m, n>> \in Edges}
      BY <1>19, <2>1
    <3>3. {m \in Nodes : <<m, n>> \in Edges} \in SUBSET All /\ Owed(n)' \in SUBSET All
      BY Constants DEF Owed
    <3>4. Cardinality(Owed(n)') <= inDegree'[n]
      BY <3>1, <3>2, <3>3, Fewer
    <3>5. n \in Roots(C) => inDegree'[n] = 0
      BY <1>a, <2>1 DEF Roots
    <3>6. n \in new
      BY <2>1
    <3> QED
      BY <1>22, <1>23, <3>4, <3>5, <3>6
  <2>2. CASE n \in X
    <3>1. n \in new /\ n \notin C
      BY <1>6, <2>2
    <3>2. inDegree'[n] = Cardinality(Sinks(p))
      BY <1>a, <3>1
    <3>3. Owed(n)' \in SUBSET All
      BY DEF Owed
    <3>4. Cardinality(Owed(n)') <= inDegree'[n]
      BY <1>10, <1>20, <2>2, <3>2, <3>3, Fewer
    <3>5. n \notin Roots(C)
      BY <3>1 DEF Roots
    <3> QED
      BY <1>22, <1>23, <3>1, <3>4, <3>5
  <2>3. CASE n \notin new
    <3>1. n \notin C /\ n \notin Roots(C) /\ state[n] # None
      BY <1>9, <2>3 DEF Roots
    <3>2. inDegree'[n] = inDegree[n] /\ inDegree[n] \in Int
      BY <1>1, <1>a, <2>3, <3>1 DEF TypeInv
    <3>3. Cardinality(Owed(n)) <= inDegree[n] /\ (Given(n) => inDegree[n] = 0)
      BY <1>1, <1>4, <3>1 DEF Degrees
    <3>4. Cardinality(Owed(n)) \in Nat /\ Cardinality(Owed(n)') \in Nat
      <4>1. Owed(n) \in SUBSET All /\ Owed(n)' \in SUBSET All
        BY DEF Owed
      <4> QED
        BY <4>1, Constants
    <3> QED
      BY <1>21, <1>22, <2>3, <3>1, <3>2, <3>3, <3>4
  <2> QED
    BY <2>1, <2>2, <2>3
<1>25. Exists'
  <2>1. \A m \in All : state[m] # None => state'[m] # None
    BY <1>9, Constants
  <2>2. \A m \in All : m \in new => state'[m] # None
    BY <1>9, Constants
  <2>3. \A m \in All : \A n \in successors[m] : n \in All /\ state[m] # None /\ state[n] # None
    BY <1>1 DEF Exists, TypeInv
  <2>4. ASSUME NEW m \in All, NEW n \in successors'[m]
        PROVE  state'[m] # None /\ state'[n] # None
    <3>1. CASE m \in C
      BY <1>6, <1>10, <1>11, <2>2, <2>4, <3>1
    <3>2. CASE m \in X
      BY <1>2, <1>6, <1>11, <2>1, <2>2, <2>3, <2>4, <3>2
    <3>3. CASE m \notin new
      BY <1>2, <1>11, <2>1, <2>3, <2>4, <3>3
    <3> QED
      BY <3>1, <3>2, <3>3
  <2>5. ASSUME NEW m \in Top PROVE state'[m] # None /\ successors'[m] \subseteq UserSuccessors(m)
    <3>1. m \in All /\ m \notin new
      BY <1>6, Constants
    <3>2. state[m] # None /\ successors[m] \subseteq UserSuccessors(m)
      BY <1>1 DEF Exists
    <3> QED
      BY <1>11, <2>1, <3>1, <3>2
  <2>6. ASSUME NEW u \in Threads, NEW j \in Depth(stack', u), NEW n \in All,
               stack'[u][j].pc = "unblock" /\ n \in stack'[u][j].todo
        PROVE  state'[n] # None
    <3>1. u # t \/ j # k
      BY <1>3, <2>6
    <3>2. j \in Depth(stack, u) /\ ToTell(u, j, n)
      BY <1>17, <2>6, <3>1 DEF ToTell
    <3>3. state[n] # None
      BY <1>1, <3>2 DEF Exists
    <3> QED
      BY <2>1, <3>3
  <2> QED
    BY <2>4, <2>5, <2>6 DEF Exists, ToTell
<1>26. Fresh'
  <2> SUFFICES ASSUME NEW q \in Flows, Unspliced(q)'
               PROVE  state'[Exit[q]] = None /\ \A n \in Children(q) : state'[n] = None
    BY DEF Fresh
  <2>1. q # p /\ Unspliced(q)
    <3>1. CASE state'[q] \in {None, "Pending"}
      <4>1. q \in All
        BY Constants
      <4>2. state[q] \in {None, "Pending"}
        BY <1>7, <1>9, <3>1, <4>1
      <4>3. q # p
        BY <1>4, <4>2, Constants
      <4> QED
        BY <4>2, <4>3 DEF Unspliced
    <3>2. ASSUME NEW u \in Threads, NEW j \in Depth(stack', u), stack'[u][j].node = q,
                 stack'[u][j].pc = "execute"
          PROVE  q # p /\ Unspliced(q)
      <4>1. u # t \/ j # k
        BY <1>3, <3>2
      <4>2. j \in Depth(stack, u) /\ stack[u][j].node = q /\ stack[u][j].pc = "execute"
        BY <1>17, <3>2, <4>1
      <4>3. q # p
        BY <1>5, <4>1, <4>2 DEF Active
      <4> QED
        BY <4>2, <4>3 DEF Unspliced
    <3> QED
      BY <3>1, <3>2 DEF Unspliced
  <2>2. state[Exit[q]] = None /\ \A n \in Children(q) : state[n] = None
    BY <1>1, <2>1 DEF Fresh
  <2>3. /\ Exit[q] \in All /\ Exit[q] \notin Nodes /\ Children(q) \subseteq Nodes
        /\ Children(q) \subseteq All /\ Exit[p] # Exit[q] /\ C \cap Children(q) = {}
    BY <1>a, <2>1, Constants
  <2>4. Exit[q] \notin new /\ \A n \in Children(q) : n \notin new
    BY <1>6, <2>3
  <2> QED
    BY <1>9, <2>2, <2>3, <2>4
<1>27. Tally'
  <2>1. /\ Unstarted' = Unstarted \cup new /\ Unstarted \cap new = {}
        /\ Unstarted \in SUBSET All
    BY <1>6, <1>7, <1>9, Constants DEF Unstarted
  <2>2. AllFrames' = AllFrames
    BY <1>2, <1>3 DEF AllFrames, Elsewhere
  <2>3. C \cap X = {} /\ IsFiniteSet(C) /\ IsFiniteSet(X) /\ IsFiniteSet(Unstarted)
        /\ IsFiniteSet(new)
    BY <1>6, <2>1, Constants
  <2>4. Cardinality(new) = Cardinality(C) + Cardinality(X)
    <3>1. Cardinality(C \cup X) = Cardinality(C) + Cardinality(X) - Cardinality(C \cap X)
      BY <2>3, FS_Union
    <3>2. Cardinality(C \cap X) = 0
      BY <2>3, FS_EmptySet
    <3>3. Cardinality(C) \in Nat /\ Cardinality(X) \in Nat
      BY <2>3, FS_CardinalityType
    <3> QED
      BY <3>1, <3>2, <3>3
  <2>5. Cardinality(Unstarted') = Cardinality(Unstarted) + Cardinality(new)
    <3>1. Cardinality(Unstarted \cup new)
            = Cardinality(Unstarted) + Cardinality(new) - Cardinality(Unstarted \cap new)
      BY <2>3, FS_Union
    <3>2. Cardinality(Unstarted \cap new) = 0
      BY <2>1, FS_EmptySet
    <3>3. Cardinality(Unstarted) \in Nat /\ Cardinality(new) \in Nat
      BY <2>3, FS_CardinalityType
    <3> QED
      BY <2>1, <3>1, <3>2, <3>3
  <2>6. /\ Cardinality(C) \in Nat /\ Cardinality(X) \in Nat /\ Cardinality(Unstarted) \in Nat
        /\ Cardinality(AllFrames) \in Nat
    BY <1>1, <2>3, FS_CardinalityType DEF Tally
  <2>7. pending = Cardinality(Unstarted) + Cardinality(AllFrames)
    BY <1>1, <1>4 DEF Tally
  <2>8. pending' = pending + (Cardinality(C) + Cardinality(X))
    BY <1>a DEF Counted
  <2>9. pending' = Cardinality(Unstarted') + Cardinality(AllFrames')
    BY <2>2, <2>4, <2>5, <2>6, <2>7, <2>8
  <2> QED
    BY <1>1, <1>4, <1>a, <2>2, <2>9 DEF Tally
<1>28. Resting'
  BY <1>4, <1>a DEF Resting
<1> QED
  BY <1>12, <1>13, <1>15, <1>24, <1>25, <1>26, <1>27, <1>28 DEF IInv

----------------------------------------------------------------------------
(* The caller.                                                             *)

LEMMA NoFrames ==
    ASSUME AllFrames = {}
    PROVE  \A t \in Threads : \A i \in Depth(stack, t) : FALSE
<1> SUFFICES ASSUME NEW t \in Threads, NEW i \in Depth(stack, t) PROVE <<t, i>> \in AllFrames
  OBVIOUS
<1>1. i \in Nat
  BY DEF Depth
<1> QED
  BY <1>1 DEF AllFrames

\* What Tally says once m_pendingTasks is 0.
LEMMA NothingLeft ==
    ASSUME IInv, pending = 0
    PROVE  /\ AllFrames = {} /\ \A t \in Threads : inline[t] = None /\ stack[t] = <<>>
           /\ \A n \in All : queued[n] = 0 /\ state[n] # "Executing"
           /\ running => \A n \in All : state[n] # "Pending"
<1>1. TypeInv /\ Executed /\ Placed /\ Tally /\ Resting
  BY DEF IInv
<1>2. AllFrames = {} /\ (running => Unstarted = {})
  <2>1. CASE running
    <3>1. /\ pending = Cardinality(Unstarted) + Cardinality(AllFrames)
          /\ IsFiniteSet(AllFrames)
      BY <1>1, <2>1 DEF Tally
    <3>2. IsFiniteSet(Unstarted)
      BY Constants DEF Unstarted
    <3>3. Cardinality(Unstarted) \in Nat /\ Cardinality(AllFrames) \in Nat
      BY <3>1, <3>2, FS_CardinalityType
    <3>4. Cardinality(Unstarted) = 0 /\ Cardinality(AllFrames) = 0
      BY <3>1, <3>3
    <3> QED
      BY <3>1, <3>2, <3>4, NoneLeft
  <2>2. CASE ~running
    BY <1>1, <2>2 DEF Resting
  <2> QED
    BY <2>1, <2>2
<1>3. running => \A n \in All : state[n] # "Pending"
  BY <1>2 DEF Unstarted
<1>4. \A n \in All : queued[n] = 0
  <2>1. \A n \in All : queued[n] \in Nat /\ queued[n] <= 1
    BY <1>1 DEF TypeInv, Placed
  <2>2. running => \A n \in All : queued[n] # 1
    BY <1>1, <1>3 DEF Placed
  <2>3. ~running => \A n \in All : queued[n] = 0
    BY <1>1 DEF Resting
  <2> QED
    BY <2>1, <2>2, <2>3
<1>5. \A t \in Threads : inline[t] = None
  BY <1>1, <1>3 DEF Placed, Resting, TypeInv
<1>6. \A t \in Threads : \A i \in Depth(stack, t) : FALSE
  BY <1>2, NoFrames
<1>7. \A t \in Threads : stack[t] = <<>>
  BY <1>1, <1>6 DEF TypeInv, Depth
<1>8. \A n \in All : state[n] # "Executing"
  BY <1>1, <1>6 DEF Executed
<1> QED
  BY <1>2, <1>3, <1>4, <1>5, <1>7, <1>8

LEMMA InitInv == Init => IInv
<1> SUFFICES ASSUME Init PROVE IInv
  OBVIOUS
<1>1. TypeInv
  <2>1. successors \in [All -> SUBSET All]
    BY Constants DEF Init
  <2>2. stack \in [Threads -> Seq(FrameType)]
    BY DEF Init
  <2>3. running = FALSE /\ pending = 0 /\ inDegree = [n \in All |-> 0]
        /\ queued = [n \in All |-> 0] /\ inline = [t \in Threads |-> None]
    BY DEF Init
  <2>4. state \in [All -> {None, "Pending", "Executing", "Completed"}]
    BY DEF Init
  <2>5. running \in BOOLEAN
    BY ONLY <2>3, Zenon
  <2>8. pending \in Int
    BY ONLY <2>3, SMT
  <2>6. inDegree \in [All -> Int] /\ queued \in [All -> Nat]
    BY ONLY <2>3
  <2>7. inline \in [Threads -> All \cup {None}]
    BY ONLY <2>3
  <2> QED
    BY ONLY <2>1, <2>2, <2>4, <2>5, <2>6, <2>7, <2>8 DEF TypeInv
<1>2. \A t \in Threads : \A i \in Depth(stack, t) : FALSE
  BY DEF Init, Depth
<1>3. AllFrames = {}
  BY <1>2 DEF AllFrames
<1>4. Executed
  BY <1>2, Constants DEF Init, Executed
<1>5. Placed
  BY <1>2 DEF Init, Placed
<1>6. Degrees
  BY DEF Init, Degrees
<1>7. Exists
  BY <1>2, Constants DEF Init, Exists
<1>8. Fresh
  BY Constants DEF Init, Fresh
<1>9. Tally
  BY <1>3, FS_EmptySet DEF Init, Tally
<1>10. Resting
  BY <1>3, Constants DEF Init, Resting
<1> QED
  BY <1>1, <1>4, <1>5, <1>6, <1>7, <1>8, <1>9, <1>10 DEF IInv

\* The graph is reset: the successors of its nodes are among those it was
\* built with, so its counts cover what is owed.
LEMMA PrepareInv ==
    ASSUME IInv, prepareRun
    PROVE  IInv'
<1>1. TypeInv /\ Exists /\ Tally /\ Resting /\ ~running
  BY DEF IInv, prepareRun
<1>a. /\ running' = TRUE /\ pending' = Cardinality(Top)
      /\ inDegree' = [n \in All |-> IF n \in Top THEN initialInDegree(n) ELSE inDegree[n]]
      /\ state' = [n \in All |-> IF n \in Top THEN "Pending" ELSE state[n]]
      /\ queued' = [n \in All |-> queued[n] + IF n \in Roots(Top) THEN 1 ELSE 0]
      /\ successors' = successors /\ inline' = inline /\ stack' = stack
  BY DEF prepareRun
<1>2. /\ AllFrames = {} /\ \A t \in Threads : inline[t] = None
      /\ \A n \in All : queued[n] = 0 /\ (n \notin Top => state[n] = None)
  BY <1>1 DEF Resting
<1>3. \A t \in Threads : \A i \in Depth(stack, t) : FALSE
  BY <1>2, NoFrames
<1>4. Top \subseteq All /\ Roots(Top) \subseteq Top
  BY Constants DEF Roots
<1>5. /\ \A n \in All : n \in Top => state'[n] = "Pending"
      /\ \A n \in All : n \notin Top => state'[n] = None
      /\ \A n \in All : queued'[n] = IF n \in Roots(Top) THEN 1 ELSE 0
  BY <1>2, <1>a
<1>6. \A n \in Nodes : initialInDegree(n) \in Nat
  <2> SUFFICES ASSUME NEW n \in Nodes
               PROVE  Cardinality({m \in Nodes : <<m, n>> \in Edges}) \in Nat
    BY DEF initialInDegree
  <2> PICK S : S = {m \in Nodes : <<m, n>> \in Edges}
    OBVIOUS
  <2>1. S \in SUBSET All
    BY Constants
  <2>2. Cardinality(S) \in Nat
    BY ONLY <2>1, Constants
  <2> QED
    BY <2>2
<1>7. TypeInv'
  <2>1. pending' \in Int
    <3>1. Cardinality(Top) \in Nat
      BY <1>4, Constants
    <3> QED
      BY <1>a, <3>1
  <2>2. inDegree' \in [All -> Int]
    BY <1>1, <1>6, <1>a, Constants DEF TypeInv
  <2>3. state' \in [All -> {None, "Pending", "Executing", "Completed"}]
    BY <1>1, <1>a DEF TypeInv
  <2>4. queued' \in [All -> Nat]
    BY <1>1, <1>a DEF TypeInv
  <2> QED
    BY <1>1, <1>a, <2>1, <2>2, <2>3, <2>4 DEF TypeInv
<1>8. Executed'
  <2>1. \A n \in All : state'[n] # "Executing"
    BY <1>5, Constants
  <2> QED
    BY <1>3, <1>a, <2>1 DEF Executed
<1>9. Placed'
  BY <1>2, <1>3, <1>4, <1>5, <1>a DEF Placed
<1>10. Degrees'
  <2> SUFFICES ASSUME NEW n \in All, state'[n] # None
               PROVE  Cardinality(Owed(n)') <= inDegree'[n] /\ (Given(n)' => inDegree'[n] = 0)
    BY DEF Degrees
  <2> PICK S : S = {m \in Nodes : <<m, n>> \in Edges}
    OBVIOUS
  <2>1. n \in Top /\ inDegree'[n] = Cardinality(S)
    BY <1>5, <1>a DEF initialInDegree
  <2>2. Owed(n)' \subseteq S
    <3> SUFFICES ASSUME NEW m \in Owed(n)' PROVE m \in S
      OBVIOUS
    <3>1. m \in All /\ n \in successors[m] /\ state'[m] # None
      BY <1>3, <1>a, Constants DEF Owed
    <3>2. m \in Top
      BY <1>5, <3>1
    <3>3. n \in UserSuccessors(m)
      BY <1>1, <3>1, <3>2 DEF Exists
    <3> QED
      BY <3>2, <3>3, Constants DEF UserSuccessors
  <2>3. S \in SUBSET All /\ Owed(n)' \in SUBSET All
    BY Constants DEF Owed
  <2>4. Cardinality(Owed(n)') <= inDegree'[n]
    BY <2>1, <2>2, <2>3, Fewer
  <2>5. Given(n)' => n \in Roots(Top)
    <3>1. \A t \in Threads : inline'[t] # n
      BY <1>2, <1>a, Constants
    <3>2. state'[n] = "Pending"
      BY <1>5, <2>1
    <3>3. Given(n)' => queued'[n] > 0
      BY <1>3, <1>a, <3>1, <3>2 DEF Given
    <3> QED
      BY <1>5, <3>3
  <2>6. n \in Roots(Top) => inDegree'[n] = 0
    BY <2>1 DEF Roots, initialInDegree
  <2> QED
    BY <2>4, <2>5, <2>6
<1>11. Exists'
  <2>1. \A m \in All : state[m] # None => state'[m] # None
    BY <1>2, <1>5, Constants
  <2>2. \A m \in All : \A n \in successors[m] : n \in All /\ state[m] # None /\ state[n] # None
    BY <1>1 DEF Exists, TypeInv
  <2>3. \A m \in Top : m \in All /\ state'[m] # None /\ successors[m] \subseteq UserSuccessors(m)
    BY <1>1, <1>4, <2>1 DEF Exists
  <2> QED
    BY <1>3, <1>a, <2>1, <2>2, <2>3 DEF Exists
<1>12. Fresh'
  <2>1. \A p \in Flows : /\ Exit[p] \in All /\ Exit[p] \notin Top
                         /\ Children(p) \subseteq All /\ Children(p) \cap Top = {}
    BY Constants
  <2> QED
    BY <1>5, <2>1 DEF Fresh
<1>13. Tally'
  <2>1. Unstarted' = Top
    BY <1>4, <1>5, Constants DEF Unstarted
  <2>2. AllFrames' = {}
    BY <1>2, <1>a DEF AllFrames
  <2>3. IsFiniteSet(AllFrames') /\ Cardinality(AllFrames') = 0
    BY <2>2, FS_EmptySet
  <2>4. Cardinality(Top) \in Nat
    BY <1>4, Constants
  <2> QED
    BY <1>a, <2>1, <2>3, <2>4 DEF Tally
<1>14. Resting'
  BY <1>a DEF Resting
<1> QED
  BY <1>7, <1>8, <1>9, <1>10, <1>11, <1>12, <1>13, <1>14 DEF IInv

\* The run is over: the nodes of the subflows are gone with the arenas.
LEMMA RunReturnsInv ==
    ASSUME IInv, runAndWaitReturns
    PROVE  IInv'
<1>1. TypeInv /\ Exists /\ running /\ pending = 0
  BY DEF IInv, runAndWaitReturns
<1>a. /\ running' = FALSE
      /\ state' = [n \in All |-> IF n \in Top THEN state[n] ELSE None]
      /\ successors' = [n \in All |-> IF n \in Top THEN successors[n] ELSE {}]
      /\ pending' = pending /\ inDegree' = inDegree /\ queued' = queued /\ inline' = inline
      /\ stack' = stack
  BY DEF runAndWaitReturns
<1>2. /\ AllFrames = {} /\ \A t \in Threads : inline[t] = None /\ stack[t] = <<>>
      /\ \A n \in All : queued[n] = 0 /\ state[n] # "Executing"
  BY <1>1, NothingLeft
<1>3. \A t \in Threads : \A i \in Depth(stack, t) : FALSE
  BY <1>2, NoFrames
<1>4. /\ Top \subseteq All
      /\ \A n \in All : n \in Top => state'[n] = state[n] /\ successors'[n] = successors[n]
      /\ \A n \in All : n \notin Top => state'[n] = None /\ successors'[n] = {}
  BY <1>a, Constants
<1>5. TypeInv'
  <2>1. state' \in [All -> {None, "Pending", "Executing", "Completed"}]
    BY <1>1, <1>a DEF TypeInv
  <2>2. successors' \in [All -> SUBSET All]
    BY <1>1, <1>a DEF TypeInv
  <2> QED
    BY <1>1, <1>a, <2>1, <2>2 DEF TypeInv
<1>6. Executed'
  <2>1. \A n \in All : state'[n] # "Executing"
    BY <1>2, <1>4, Constants
  <2> QED
    BY <1>3, <1>a, <2>1 DEF Executed
<1>7. Placed'
  BY <1>2, <1>3, <1>a DEF Placed
<1>8. Degrees'
  BY <1>a DEF Degrees
<1>9. Exists'
  <2>1. ASSUME NEW m \in Top
        PROVE  /\ state'[m] # None /\ successors'[m] \subseteq UserSuccessors(m)
               /\ \A n \in successors'[m] : state'[n] # None
    <3>1. \A n \in Top : n \in All /\ state'[n] # None
      BY <1>1, <1>4 DEF Exists
    <3>2. successors'[m] \subseteq UserSuccessors(m) /\ UserSuccessors(m) \subseteq Top
      BY <1>1, <1>4, Constants DEF Exists
    <3> QED
      BY <3>1, <3>2
  <2>2. \A m \in All : \A n \in successors'[m] : state'[m] # None /\ state'[n] # None
    BY <1>4, <2>1
  <2> QED
    BY <1>3, <1>a, <2>1, <2>2 DEF Exists
<1>10. Fresh'
  <2>1. \A p \in Flows : /\ Exit[p] \in All /\ Exit[p] \notin Top
                         /\ Children(p) \subseteq All /\ Children(p) \cap Top = {}
    BY Constants
  <2> QED
    BY <1>4, <2>1 DEF Fresh
<1>11. AllFrames' = {}
  BY <1>2, <1>a DEF AllFrames
<1>12. Tally'
  BY <1>1, <1>11, <1>a, FS_EmptySet DEF Tally
<1>13. Resting'
  BY <1>2, <1>4, <1>11, <1>a DEF Resting
<1> QED
  BY <1>5, <1>6, <1>7, <1>8, <1>9, <1>10, <1>12, <1>13 DEF IInv

----------------------------------------------------------------------------
(* The theorems.                                                           *)

LEMMA ThreadInv ==
    ASSUME IInv, NEW t \in Threads, ThreadStep(t)
    PROVE  IInv'
<1>1. ASSUME NEW n \in All, TakeQueued(t, n) PROVE IInv'
  BY <1>1, TakeInv DEF TakeQueued
<1>2. ASSUME NEW n \in All, DispatchRoot(t, n) PROVE IInv'
  BY <1>2, DispatchInv
<1>3. ASSUME NEW n \in All, Unblock(t, n) PROVE IInv'
  BY <1>3, UnblockInv
<1>4. ASSUME TakeInline(t) PROVE IInv'
  <2> PICK n : n = inline[t]
    OBVIOUS
  <2>1. n \in All
    BY <1>4 DEF TakeInline, IInv, TypeInv
  <2> QED
    BY <1>4, <2>1, TakeInv DEF TakeInline
<1>5. ASSUME ExecuteStatic(t) PROVE IInv'
  <2>1. Busy(t, "execute") /\ "execute" # "unblock"
    BY <1>5 DEF ExecuteStatic
  <2> QED
    BY <1>5, <2>1, ReturnInv DEF ExecuteStatic
<1>6. ASSUME ExecuteRepeat(t) PROVE IInv'
  BY <1>6, RepeatInv
<1>7. ASSUME splice(t) PROVE IInv'
  BY <1>7, SpliceInv
<1>8. ASSUME join(t) PROVE IInv'
  BY <1>8, JoinInv
<1>9. ASSUME FlowReturns(t) PROVE IInv'
  <2>1. PICK l \in {"dispatch", "join", "execute"} : Busy(t, l)
    BY <1>9 DEF FlowReturns, Helping
  <2>2. l # "unblock"
    BY <2>1
  <2> QED
    BY <1>9, <2>1, <2>2, ReturnInv DEF FlowReturns
<1>10. ASSUME onTaskCompleted(t) PROVE IInv'
  BY <1>10, CompletedInv
<1> QED
  BY <1>1, <1>2, <1>3, <1>4, <1>5, <1>6, <1>7, <1>8, <1>9, <1>10 DEF ThreadStep

\* IInv holds in every state of every behaviour.
LEMMA Invariance == Spec => []IInv
<1>1. IInv /\ [Next]_vars => IInv'
  <2> SUFFICES ASSUME IInv, [Next]_vars PROVE IInv'
    OBVIOUS
  <2>1. CASE prepareRun
    BY <2>1, PrepareInv
  <2>2. CASE runAndWaitReturns
    BY <2>2, RunReturnsInv
  <2>3. ASSUME NEW t \in Threads, ThreadStep(t) PROVE IInv'
    BY <2>3, ThreadInv
  <2>4. CASE UNCHANGED vars
    <3>1. /\ running' = running /\ pending' = pending /\ successors' = successors
          /\ inDegree' = inDegree /\ state' = state /\ queued' = queued /\ inline' = inline
          /\ stack' = stack
      BY <2>4 DEF vars
    <3>2. TypeInv'
      BY <3>1 DEF IInv, TypeInv
    <3>3. Executed'
      BY <3>1 DEF IInv, Executed, Active, Telling
    <3>4. Placed'
      BY <3>1 DEF IInv, Placed, ToDispatch
    <3>5. Degrees'
      BY <3>1 DEF IInv, Degrees, Owed, Given, ToDispatch, ToTell
    <3>6. Exists'
      BY <3>1 DEF IInv, Exists, ToTell
    <3>7. Fresh'
      BY <3>1 DEF IInv, Fresh, Unspliced
    <3>8. Tally' /\ Resting'
      BY <3>1 DEF IInv, Tally, Resting, Unstarted, AllFrames
    <3> QED
      BY <3>2, <3>3, <3>4, <3>5, <3>6, <3>7, <3>8 DEF IInv
  <2> QED
    BY <2>1, <2>2, <2>3, <2>4 DEF Next
<1> QED
  BY <1>1, InitInv, PTL DEF Spec

\* A set in which any two elements are equal.
LEMMA AtMostOne ==
    ASSUME NEW S, \A x, y \in S : x = y
    PROVE  Cardinality(S) \in 0..1 /\ (S = {} => Cardinality(S) = 0)
<1>1. CASE S = {}
  BY <1>1, FS_EmptySet
<1>2. CASE S # {}
  <2>1. PICK x : x \in S
    BY <1>2
  <2>2. S = {x}
    BY <2>1
  <2> QED
    BY <1>2, <2>2, FS_Singleton
<1> QED
  BY <1>1, <1>2

\* Every node is released once and runs once in a run: RunsOnce, for any
\* flows, any edges and any number of threads (splice, unblockSuccessors,
\* helpUntil).
THEOREM NodesRunOnce == Spec => []RunsOnce
<1>1. IInv => RunsOnce
  <2> SUFFICES ASSUME IInv, NEW n \in All
               PROVE  /\ Cardinality({f \in Frames(n) : Active(f[1], f[2])}) + queued[n]
                           + Cardinality({t \in Threads : inline[t] = n}) <= 1
                      /\ queued[n] > 0 \/ (\E t \in Threads : inline[t] = n) => state[n] = "Pending"
                      /\ Cardinality({f \in Frames(n) : Telling(f[1], f[2])}) <= 1
                      /\ running /\ state[n] # None => Cardinality(Owed(n)) <= inDegree[n]
                      /\ running /\ state[n] \in {"Executing", "Completed"} => inDegree[n] = 0
    BY DEF RunsOnce
  <2> PICK A : A = {f \in Frames(n) : Active(f[1], f[2])}
    OBVIOUS
  <2> PICK D : D = {f \in Frames(n) : Telling(f[1], f[2])}
    OBVIOUS
  <2> PICK I : I = {t \in Threads : inline[t] = n}
    OBVIOUS
  <2>1. TypeInv /\ Executed /\ Placed /\ Degrees
    BY DEF IInv
  <2>2. ASSUME NEW f \in Frames(n)
        PROVE  /\ f = <<f[1], f[2]>> /\ f[1] \in Threads /\ f[2] \in Depth(stack, f[1])
               /\ stack[f[1]][f[2]].node = n
    <3>1. f = <<f[1], f[2]>> /\ f[1] \in Threads /\ f[2] \in 1 .. Cardinality(Flows) + 1
      BY DEF Frames
    <3>2. f[2] <= Len(stack[f[1]]) /\ stack[f[1]][f[2]].node = n
      BY DEF Frames
    <3>3. Len(stack[f[1]]) \in Nat
      BY <2>1, <3>1 DEF TypeInv
    <3>4. Cardinality(Flows) \in Nat
      BY Constants
    <3>5. f[2] \in Depth(stack, f[1])
      BY <3>1, <3>2, <3>3, <3>4 DEF Depth
    <3> QED
      BY <3>1, <3>2, <3>5
  <2>3. ASSUME NEW f \in A, NEW g \in A PROVE f = g
    <3>1. f[1] = g[1] /\ f[2] = g[2]
      BY <2>1, <2>2 DEF Executed
    <3> QED
      BY <2>2, <3>1
  <2>4. Cardinality(A) \in 0..1 /\ (A = {} => Cardinality(A) = 0)
    BY <2>3, AtMostOne
  <2>5. n # None
    BY Constants
  <2>6. \A t, u \in I : t = u
    BY <2>1, <2>5 DEF Placed
  <2>7. Cardinality(I) \in 0..1 /\ (I = {} => Cardinality(I) = 0)
    BY <2>6, AtMostOne
  <2>8. queued[n] \in Nat /\ queued[n] <= 1 /\ (queued[n] = 1 => state[n] = "Pending")
    BY <2>1 DEF TypeInv, Placed
  <2>9. A # {} => state[n] = "Executing"
    BY <2>1, <2>2 DEF Executed
  <2>10. I # {} => state[n] = "Pending" /\ queued[n] = 0
    BY <2>1, <2>5 DEF Placed
  <2>11. Cardinality(A) + queued[n] + Cardinality(I) <= 1
    BY <2>4, <2>7, <2>8, <2>9, <2>10
  <2>12. \A f, g \in D : f = g
    <3> SUFFICES ASSUME NEW f \in D, NEW g \in D PROVE f = g
      OBVIOUS
    <3>1. f[1] = g[1] /\ f[2] = g[2]
      BY <2>1, <2>2 DEF Executed
    <3> QED
      BY <2>2, <3>1
  <2>13. Cardinality(D) <= 1
    BY <2>12, AtMostOne
  <2>14. running /\ state[n] # None => Cardinality(Owed(n)) <= inDegree[n]
    BY <2>1 DEF Degrees
  <2>15. running /\ state[n] \in {"Executing", "Completed"} => inDegree[n] = 0
    BY <2>1, Constants DEF Degrees, Given
  <2>16. queued[n] > 0 \/ I # {} => state[n] = "Pending"
    BY <2>8, <2>10
  <2> QED
    BY <2>11, <2>13, <2>14, <2>15, <2>16
<1> QED
  BY <1>1, Invariance, PTL

\* When m_pendingTasks reads 0 no task of a subflow, detached ones included,
\* is queued, kept inline or on a thread's stack: runAndWait may reset the
\* arenas their nodes live in (resetWorkerArenas).
THEOREM ArenasFree == Spec => []ArenasUnused
<1>1. IInv => ArenasUnused
  <2> SUFFICES ASSUME IInv, pending = 0
               PROVE  /\ \A n \in All : queued[n] = 0 /\ state[n] \in {"Completed", None} \cup
                                            (IF running THEN {} ELSE {"Pending"})
                      /\ \A t \in Threads : stack[t] = <<>> /\ inline[t] = None
    BY DEF ArenasUnused
  <2>1. /\ \A t \in Threads : inline[t] = None /\ stack[t] = <<>>
        /\ \A n \in All : queued[n] = 0 /\ state[n] # "Executing"
        /\ running => \A n \in All : state[n] # "Pending"
    BY NothingLeft
  <2>2. \A n \in All : state[n] \in {None, "Pending", "Executing", "Completed"}
    BY DEF IInv, TypeInv
  <2> QED
    BY <2>1, <2>2
<1> QED
  BY <1>1, Invariance, PTL

----------------------------------------------------------------------------
(* What follows what: the dependencies a child graph adds.                 *)

\* m waits for n: by an edge, or as the exit node of the flow n is a sink of.
Follows(n, m) ==
    \/ m \in UserSuccessors(n)
    \/ \E p \in Flows : m \in ExitsOf(p) /\ n \in Sinks(p)

\* The node that tells those that wait for n: the exit node of an asynchronous
\* flow, which takes its successors over.
Messenger(n) ==
    IF n \in Flows /\ Mode[n] = "async" /\ Children(n) # {} THEN Exit[n] ELSE n

\* A successor list holds only nodes that wait for the node, or for the flow
\* whose exit it is; a flow has handed its list over when it is spliced.
Lists == \A x, m \in All : m \in successors[x] =>
            \E n \in Nodes : Follows(n, m) /\ (x = Messenger(n) \/ (x = n /\ Unspliced(n)))

\* Only a messenger tells anybody.
Tells == \A t \in Threads : \A i \in Depth(stack, t), m \in All : ToTell(t, i, m) =>
            \E n \in Nodes : Follows(n, m) /\ stack[t][i].node = Messenger(n)

\* The nodes m waits for that are not over, or whose messenger has still to
\* tell m.
Waited(m) == {n \in Nodes : Follows(n, m) /\
                \/ ~Over(n)
                \/ \E t \in Threads : \E i \in Depth(stack, t) :
                      ToTell(t, i, m) /\ stack[t][i].node = Messenger(n)}

\* The count of a node covers them all.
Waits == running => \A m \in All : state[m] # None => Cardinality(Waited(m)) <= inDegree[m]

\* A joined flow returns after its exit node has run.
Joined ==
    /\ isDone \in [Flows -> BOOLEAN]
    /\ \A p \in Flows : Mode[p] = "join" /\ Children(p) # {} =>
          /\ running /\ state[p] = "Completed" => state[Exit[p]] = "Completed"
          /\ isDone[p] /\ (\E t \in Threads : \E i \in Depth(stack, t) :
                              stack[t][i].node = p /\ stack[t][i].pc \in {"dispatch", "join"})
                => state[Exit[p]] = "Completed"

Order == Lists /\ Tells /\ Waits /\ Joined

LEMMA MessengerFacts ==
    ASSUME NEW n \in Nodes
    PROVE  /\ Messenger(n) \in All /\ (Over(n) <=> state[Messenger(n)] = "Completed")
           /\ Messenger(n) = n \/ (n \in Flows /\ Messenger(n) = Exit[n] /\ Exit[n] \notin Nodes)
           /\ n \notin Flows \/ Children(n) = {} \/ Mode[n] # "async" => Messenger(n) = n
  BY Constants DEF Messenger, Over

LEMMA OverNext ==
    ASSUME NEW n \in Nodes
    PROVE  Over(n)' <=> state'[Messenger(n)] = "Completed"
  BY DEF Messenger, Over

\* Who waits for whom does not change.
LEMMA FollowsFacts ==
    /\ \A n, m \in Nodes : Follows(n, m) <=> <<n, m>> \in Edges
    /\ \A n \in Nodes, p \in Flows : Follows(n, Exit[p]) <=> Mode[p] # "detach" /\ n \in Sinks(p)
<1>1. ASSUME NEW n \in Nodes, NEW m \in Nodes PROVE Follows(n, m) <=> <<n, m>> \in Edges
  <2>1. \A p \in Flows : m \notin ExitsOf(p)
    BY Constants DEF ExitsOf
  <2> QED
    BY <2>1 DEF Follows, UserSuccessors
<1>2. ASSUME NEW n \in Nodes, NEW p \in Flows
      PROVE  Follows(n, Exit[p]) <=> Mode[p] # "detach" /\ n \in Sinks(p)
  <2>1. Exit[p] \notin UserSuccessors(n)
    BY Constants
  <2>2. \A q \in Flows : Exit[p] \in ExitsOf(q) <=> q = p /\ Mode[p] # "detach"
    BY Constants DEF ExitsOf
  <2> QED
    BY <2>1, <2>2 DEF Follows
<1> QED
  BY <1>1, <1>2

LEMMA WaitedFinite ==
    /\ \A m : Waited(m) \in SUBSET All /\ Cardinality(Waited(m)) \in Nat
    /\ \A m : Waited(m)' \in SUBSET All /\ Cardinality(Waited(m)') \in Nat
<1>1. \A m : Waited(m) \in SUBSET All /\ Waited(m)' \in SUBSET All
  BY Constants DEF Waited
<1> QED
  BY <1>1, Constants

----------------------------------------------------------------------------
(* What a step that changes frame k of thread t has to show of each part.  *)

LEMMA UnsplicedStep ==
    ASSUME NEW t \in Threads, NEW k \in Nat, Elsewhere(t, k), NEW n,
           state[n] \in {None, "Pending"} =>
               \/ state'[n] \in {None, "Pending"}
               \/ k \in Depth(stack', t) /\ stack'[t][k].node = n /\ stack'[t][k].pc = "execute",
           k \in Depth(stack, t) => stack[t][k].pc # "execute" \/ stack[t][k].node # n
    PROVE  Unspliced(n) => Unspliced(n)'
<1>1. \A u \in Threads : \A j \in Depth(stack, u) : u # t \/ j # k =>
          j \in Depth(stack', u) /\ stack'[u][j] = stack[u][j]
  BY FrameFacts
<1>2. CASE state[n] \in {None, "Pending"}
  BY <1>2 DEF Unspliced
<1>3. ASSUME NEW u \in Threads, NEW i \in Depth(stack, u),
             stack[u][i].node = n /\ stack[u][i].pc = "execute"
      PROVE  Unspliced(n)'
  <2>1. u # t \/ i # k
    BY <1>3
  <2>2. i \in Depth(stack', u) /\ stack'[u][i] = stack[u][i]
    BY <1>1, <2>1
  <2>3. stack'[u][i].node = n /\ stack'[u][i].pc = "execute"
    BY <1>3, <2>2
  <2> QED
    BY <2>2, <2>3 DEF Unspliced
<1> QED
  BY <1>2, <1>3 DEF Unspliced

LEMMA ListsStep ==
    ASSUME Lists, successors' = successors,
           \A n \in Nodes : Messenger(n) # n /\ Unspliced(n) => Unspliced(n)'
    PROVE  Lists'
<1> SUFFICES ASSUME NEW x \in All, NEW m \in All, m \in successors[x]
             PROVE  \E n \in Nodes : Follows(n, m) /\ (x = Messenger(n) \/ (x = n /\ Unspliced(n)'))
  BY DEF Lists, Follows, Messenger
<1>1. PICK n \in Nodes : Follows(n, m) /\ (x = Messenger(n) \/ (x = n /\ Unspliced(n)))
  BY DEF Lists
<1>2. x = Messenger(n) \/ (x = n /\ Unspliced(n)')
  BY <1>1
<1> QED
  BY <1>1, <1>2

LEMMA TellsStep ==
    ASSUME Tells, NEW t \in Threads, NEW k \in Nat, Elsewhere(t, k),
           \A m \in All : k \in Depth(stack', t) /\ stack'[t][k].pc = "unblock"
                          /\ m \in stack'[t][k].todo =>
               \E n \in Nodes : Follows(n, m) /\ stack'[t][k].node = Messenger(n)
    PROVE  Tells'
<1>1. \A u \in Threads : \A j \in Depth(stack', u) : u # t \/ j # k =>
          j \in Depth(stack, u) /\ stack'[u][j] = stack[u][j]
  BY FrameFacts
<1> SUFFICES ASSUME NEW u \in Threads, NEW j \in Depth(stack', u), NEW m \in All,
                    stack'[u][j].pc = "unblock" /\ m \in stack'[u][j].todo
             PROVE  \E n \in Nodes : Follows(n, m) /\ stack'[u][j].node = Messenger(n)
  BY DEF Tells, ToTell, Follows, Messenger
<1>2. CASE u = t /\ j = k
  BY <1>2
<1>3. CASE u # t \/ j # k
  <2>1. j \in Depth(stack, u) /\ stack'[u][j] = stack[u][j]
    BY <1>1, <1>3
  <2> QED
    BY <2>1 DEF Tells, ToTell
<1> QED
  BY <1>2, <1>3

LEMMA WaitedStep ==
    ASSUME NEW t \in Threads, NEW k \in Nat, Elsewhere(t, k), NEW m \in All,
           \A x \in All : state[x] = "Completed" => state'[x] = "Completed",
           \A n \in Nodes : Follows(n, m) /\ k \in Depth(stack', t) /\ stack'[t][k].pc = "unblock"
                            /\ m \in stack'[t][k].todo /\ stack'[t][k].node = Messenger(n) =>
               n \in Waited(m)
    PROVE  Waited(m)' \subseteq Waited(m)
<1>1. \A u \in Threads : \A j \in Depth(stack', u) : u # t \/ j # k =>
          j \in Depth(stack, u) /\ stack'[u][j] = stack[u][j]
  BY FrameFacts
<1> SUFFICES ASSUME NEW n \in Waited(m)' PROVE n \in Waited(m)
  OBVIOUS
<1>2. n \in Nodes /\ Follows(n, m)
  BY DEF Waited, Follows
<1>3. CASE ~Over(n)'
  <2>1. ~Over(n)
    BY <1>2, <1>3, MessengerFacts, OverNext
  <2> QED
    BY <1>2, <2>1 DEF Waited
<1>4. ASSUME NEW u \in Threads, NEW j \in Depth(stack', u),
             stack'[u][j].pc = "unblock" /\ m \in stack'[u][j].todo, stack'[u][j].node = Messenger(n)
      PROVE  n \in Waited(m)
  <2>1. CASE u = t /\ j = k
    BY <1>2, <1>4, <2>1
  <2>2. CASE u # t \/ j # k
    <3>1. j \in Depth(stack, u) /\ stack'[u][j] = stack[u][j]
      BY <1>1, <2>2
    <3>2. ToTell(u, j, m) /\ stack[u][j].node = Messenger(n)
      BY <1>4, <3>1 DEF ToTell
    <3> QED
      BY <1>2, <3>1, <3>2 DEF Waited
  <2> QED
    BY <2>1, <2>2
<1>5. ~Over(n)' \/ \E u \in Threads : \E j \in Depth(stack', u) :
          (stack'[u][j].pc = "unblock" /\ m \in stack'[u][j].todo) /\ stack'[u][j].node = Messenger(n)
  BY DEF Waited, ToTell, Messenger
<1> QED
  BY <1>3, <1>4, <1>5

LEMMA WaitsStep ==
    ASSUME TypeInv, Waits, running,
           \A m \in All : state'[m] # None =>
               state[m] # None /\ inDegree'[m] = inDegree[m] /\ Waited(m)' \subseteq Waited(m)
    PROVE  Waits'
<1> SUFFICES ASSUME NEW m \in All, state'[m] # None PROVE Cardinality(Waited(m)') <= inDegree'[m]
  BY DEF Waits
<1>1. Cardinality(Waited(m)) <= inDegree[m] /\ inDegree'[m] = inDegree[m] /\ inDegree[m] \in Int
  BY DEF Waits, TypeInv
<1>2. Cardinality(Waited(m)') <= Cardinality(Waited(m))
      /\ Cardinality(Waited(m)) \in Nat /\ Cardinality(Waited(m)') \in Nat
  BY WaitedFinite, Fewer
<1> QED
  BY <1>1, <1>2

LEMMA JoinedStep ==
    ASSUME Joined, running, NEW t \in Threads, NEW k \in Nat, Elsewhere(t, k),
           isDone' \in [Flows -> BOOLEAN],
           \A x \in All : state[x] = "Completed" => state'[x] = "Completed",
           \A p \in Flows : Mode[p] = "join" /\ Children(p) # {} =>
              /\ state'[p] = "Completed" => state[p] = "Completed" \/ state'[Exit[p]] = "Completed"
              /\ isDone'[p] => isDone[p] \/ state'[Exit[p]] = "Completed"
              /\ isDone'[p] /\ k \in Depth(stack', t) /\ stack'[t][k].node = p
                 /\ stack'[t][k].pc \in {"dispatch", "join"} =>
                    /\ k \in Depth(stack, t) /\ stack[t][k].node = p
                    /\ stack[t][k].pc \in {"dispatch", "join"}
    PROVE  Joined'
<1>1. \A u \in Threads : \A j \in Depth(stack', u) : u # t \/ j # k =>
          j \in Depth(stack, u) /\ stack'[u][j] = stack[u][j]
  BY FrameFacts
<1> SUFFICES ASSUME NEW p \in Flows, Mode[p] = "join" /\ Children(p) # {}
             PROVE  /\ state'[p] = "Completed" => state'[Exit[p]] = "Completed"
                    /\ isDone'[p] /\ (\E u \in Threads : \E j \in Depth(stack', u) :
                          stack'[u][j].node = p /\ stack'[u][j].pc \in {"dispatch", "join"})
                       => state'[Exit[p]] = "Completed"
  BY DEF Joined, Children
<1>2. Exit[p] \in All
  BY Constants
<1>3. state'[p] = "Completed" => state'[Exit[p]] = "Completed"
  BY <1>2 DEF Joined
<1>4. ASSUME isDone'[p], NEW u \in Threads, NEW j \in Depth(stack', u),
             stack'[u][j].node = p, stack'[u][j].pc \in {"dispatch", "join"}
      PROVE  state'[Exit[p]] = "Completed"
  <2>1. j \in Depth(stack, u) /\ stack[u][j].node = p /\ stack[u][j].pc \in {"dispatch", "join"}
    <3>1. CASE u = t /\ j = k
      BY <1>4, <3>1
    <3>2. CASE u # t \/ j # k
      BY <1>1, <1>4, <3>2
    <3> QED
      BY <3>1, <3>2
  <2>2. isDone[p] => state[Exit[p]] = "Completed"
    BY <2>1 DEF Joined
  <2> QED
    BY <1>2, <1>4, <2>2
<1> QED
  BY <1>3, <1>4

----------------------------------------------------------------------------
(* The steps of the threads keep the order.                                *)

\* The flow of a frame that dispatches or joins has been spliced.
LEMMA SplicedFacts ==
    ASSUME IInv, NEW t \in Threads, NEW k \in Depth(stack, t),
           stack[t][k].pc \in {"dispatch", "join"}
    PROVE  ~Unspliced(stack[t][k].node)
<1>1. Active(t, k) /\ Executed
  BY DEF Active, IInv
<1>2. state[stack[t][k].node] = "Executing"
  BY <1>1 DEF Executed
<1>3. ASSUME NEW u \in Threads, NEW j \in Depth(stack, u), stack[u][j].pc = "execute",
             stack[u][j].node = stack[t][k].node
      PROVE  FALSE
  <2>1. Active(u, j)
    BY <1>3 DEF Active
  <2>2. u = t /\ j = k
    BY <1>1, <1>3, <2>1 DEF Executed
  <2> QED
    BY <1>3, <2>2
<1> QED
  BY <1>2, <1>3, Constants DEF Unspliced

LEMMA TakeOrder ==
    ASSUME IInv, Order, NEW t \in Threads, NEW n \in All, StartExecute(t, n),
           UNCHANGED <<running, successors, inDegree, isDone>>, state[n] = "Pending", running
    PROVE  Order'
<1> PICK k : k = Len(stack[t]) + 1
  OBVIOUS
<1>1. TypeInv /\ Lists /\ Tells /\ Waits /\ Joined
  BY DEF IInv, Order
<1>2. /\ stack' \in [Threads -> Seq(FrameType)] /\ Elsewhere(t, k)
      /\ k \in Nat /\ k \notin Depth(stack, t) /\ k \in Depth(stack', t)
      /\ stack'[t][k].node = n /\ stack'[t][k].pc = "execute" /\ stack'[t][k].todo = {}
  <2>1. TypeInv /\ StartExecute(t, n) /\ k = Len(stack[t]) + 1
    BY <1>1
  <2> QED
    BY ONLY t \in Threads, n \in All, <2>1, PushFacts
<1>3. state'[n] = "Executing" /\ \A m \in All : m # n => state'[m] = state[m]
  BY <1>1 DEF TypeInv, StartExecute
<1>4. /\ \A m \in All : state[m] = "Completed" => state'[m] = "Completed"
      /\ \A m \in All : state'[m] # None => state[m] # None
      /\ \A m \in All : state'[m] = "Completed" => state[m] = "Completed"
  BY <1>3, Constants
<1>5. Lists'
  <2>1. \A q \in Nodes : Unspliced(q) => Unspliced(q)'
    <3> SUFFICES ASSUME NEW q \in Nodes PROVE Unspliced(q) => Unspliced(q)'
      OBVIOUS
    <3>1. state[q] \in {None, "Pending"} =>
               \/ state'[q] \in {None, "Pending"}
               \/ k \in Depth(stack', t) /\ stack'[t][k].node = q /\ stack'[t][k].pc = "execute"
      BY <1>2, <1>3, Constants
    <3> QED
      BY <1>2, <3>1, UnsplicedStep
  <2> QED
    BY <1>1, <2>1, ListsStep
<1>6. Tells'
  BY <1>1, <1>2, TellsStep
<1>7. Waits'
  <2>1. \A m \in All : Waited(m)' \subseteq Waited(m)
    BY <1>2, <1>4, WaitedStep
  <2> QED
    BY <1>1, <1>4, <2>1, WaitsStep
<1>8. Joined'
  <2>1. isDone' \in [Flows -> BOOLEAN] /\ isDone' = isDone
    BY <1>1 DEF Joined
  <2>2. \A p \in Flows : state'[p] = "Completed" => state[p] = "Completed"
    BY <1>4, Constants
  <2>3. k \in Nat /\ Elsewhere(t, k) /\ stack'[t][k].pc \notin {"dispatch", "join"} /\ Joined
    BY <1>1, <1>2
  <2> QED
    BY ONLY t \in Threads, running, <1>4, <2>1, <2>2, <2>3, JoinedStep
<1> QED
  BY <1>5, <1>6, <1>7, <1>8 DEF Order

\* The task p that t is inside of is over and is taken as Completed.
Returns(t, l, p) ==
    /\ Busy(t, l) /\ l # "unblock" /\ p = Innermost(t).node
    /\ state' = [state EXCEPT ![p] = "Completed"] /\ Replace(t, "unblock", successors[p])
    /\ UNCHANGED <<running, successors, inDegree>>
    /\ l \in {"dispatch", "join"} \/ p \notin Flows \/ Children(p) = {}
    /\ isDone' \in [Flows -> BOOLEAN]
    /\ \A q \in Flows : Mode[q] = "join" /\ Children(q) # {} =>
          /\ isDone'[q] => isDone[q] \/ state'[Exit[q]] = "Completed"
          /\ q = p => isDone[q] /\ l \in {"dispatch", "join"}

\* A callable returns: the messengers of those that wait for its node have
\* something to tell.
LEMMA ReturnOrder ==
    ASSUME IInv, Order, NEW t \in Threads, NEW l, NEW p, Returns(t, l, p)
    PROVE  Order'
<1> SUFFICES ASSUME Busy(t, l), l # "unblock",
                    p = Innermost(t).node, state' = [state EXCEPT ![p] = "Completed"],
                    Replace(t, "unblock", successors[p]),
                    UNCHANGED <<running, successors, inDegree>>,
                    l \in {"dispatch", "join"} \/ p \notin Flows \/ Children(p) = {},
                    isDone' \in [Flows -> BOOLEAN],
                    \A q \in Flows : Mode[q] = "join" /\ Children(q) # {} =>
                       /\ isDone'[q] => isDone[q] \/ state'[Exit[q]] = "Completed"
                       /\ q = p => isDone[q] /\ l \in {"dispatch", "join"}
             PROVE  Order'
  BY DEF Returns
<1> PICK k : k = Len(stack[t])
  OBVIOUS
<1>1. TypeInv /\ Executed /\ Lists /\ Tells /\ Waits /\ Joined
  BY DEF IInv, Order
<1>2. k \in Depth(stack, t) /\ stack[t][k].pc = l /\ stack[t][k].node = p /\ p \in All
  BY <1>1, BusyFacts
<1>3. /\ Elsewhere(t, k) /\ k \in Nat /\ k \in Depth(stack', t)
      /\ stack'[t][k].node = p /\ stack'[t][k].pc = "unblock" /\ stack'[t][k].todo = successors[p]
  <2>1. Replace(t, "unblock", successors[p])
    OBVIOUS
  <2>2. k = Len(stack[t]) /\ TypeInv /\ stack[t] # <<>>
    BY <1>1 DEF Busy
  <2>3. successors[p] \in SUBSET All
    BY <1>1, <1>2 DEF TypeInv
  <2>4. "unblock" \in {"execute", "dispatch", "join", "unblock"}
    OBVIOUS
  <2> QED
    BY ONLY t \in Threads, <1>2, <2>1, <2>2, <2>3, <2>4, ReplaceFacts
<1>4. state[p] = "Executing" /\ running
  BY <1>1, <1>2, RunningFacts DEF Executed, Active
<1>5. state'[p] = "Completed" /\ \A m \in All : m # p => state'[m] = state[m]
  BY <1>1, <1>2 DEF TypeInv
<1>6. /\ \A m \in All : state[m] = "Completed" => state'[m] = "Completed"
      /\ \A m \in All : state'[m] # None => state[m] # None
  BY <1>4, <1>5, Constants
<1>7. p \notin Flows \/ Children(p) = {} \/ ~Unspliced(p)
  BY <1>2, SplicedFacts
<1>8. \A q \in Nodes : Messenger(q) # q /\ Unspliced(q) => q # p
  BY <1>7, MessengerFacts
<1>9. Lists'
  <2>1. \A q \in Nodes : Messenger(q) # q /\ Unspliced(q) => Unspliced(q)'
    <3> SUFFICES ASSUME NEW q \in Nodes, Messenger(q) # q /\ Unspliced(q) PROVE Unspliced(q)'
      OBVIOUS
    <3>1. q # p /\ q \in All
      BY <1>8, Constants
    <3>2. state[q] \in {None, "Pending"} => state'[q] \in {None, "Pending"}
      BY <1>5, <3>1
    <3>3. k \in Depth(stack, t) => stack[t][k].pc # "execute" \/ stack[t][k].node # q
      BY <1>2, <3>1
    <3> QED
      BY <1>3, <3>2, <3>3, UnsplicedStep
  <2> QED
    BY <1>1, <2>1, ListsStep
<1>10. ASSUME NEW m \in successors[p]
       PROVE  \E n \in Nodes : Follows(n, m) /\ p = Messenger(n)
  <2>1. m \in All
    BY <1>1, <1>2 DEF TypeInv
  <2>2. PICK n \in Nodes : Follows(n, m) /\ (p = Messenger(n) \/ (p = n /\ Unspliced(n)))
    BY <1>1, <1>2, <2>1 DEF Lists
  <2> QED
    BY <1>8, <2>2
<1>11. Tells'
  BY <1>1, <1>3, <1>10, TellsStep
<1>12. Waits'
  <2>1. \A m \in All : Waited(m)' \subseteq Waited(m)
    <3> SUFFICES ASSUME NEW m \in All PROVE Waited(m)' \subseteq Waited(m)
      OBVIOUS
    <3>1. \A n \in Nodes : Follows(n, m) /\ p = Messenger(n) => n \in Waited(m)
      BY <1>4, MessengerFacts DEF Waited
    <3> QED
      BY <1>3, <1>6, <3>1, WaitedStep
  <2> QED
    BY <1>1, <1>4, <1>6, <2>1, WaitsStep
<1>13. Joined'
  <2>1. ASSUME NEW q \in Flows, Mode[q] = "join" /\ Children(q) # {}, state'[q] = "Completed"
        PROVE  state[q] = "Completed" \/ state'[Exit[q]] = "Completed"
    <3>1. CASE q # p
      BY <1>5, <2>1, <3>1, Constants
    <3>2. CASE q = p
      <4>1. isDone[q] /\ l \in {"dispatch", "join"}
        BY <2>1, <3>2
      <4>2. stack[t][k].node = q /\ stack[t][k].pc \in {"dispatch", "join"}
        BY <1>2, <3>2, <4>1
      <4>3. state[Exit[q]] = "Completed"
        BY <1>1, <1>2, <2>1, <4>1, <4>2 DEF Joined
      <4> QED
        BY <1>6, <4>3, Constants
    <3> QED
      BY <3>1, <3>2
  <2>2. stack'[t][k].pc \notin {"dispatch", "join"}
    BY <1>3
  <2> QED
    BY <1>1, <1>3, <1>4, <1>6, <2>1, <2>2, JoinedStep
<1> QED
  BY <1>9, <1>11, <1>12, <1>13 DEF Order

LEMMA ExecuteStaticOrder ==
    ASSUME IInv, Order, NEW t \in Threads, ExecuteStatic(t)
    PROVE  Order'
<1> PICK n : n = Innermost(t).node
  OBVIOUS
<1>1. /\ Busy(t, "execute") /\ n \notin Flows /\ state' = [state EXCEPT ![n] = "Completed"]
      /\ isDone' = [p \in Flows |-> isDone[p] \/ TellsJoin(n, p)]
      /\ Replace(t, "unblock", successors[n])
      /\ UNCHANGED <<running, pending, successors, inDegree, queued, inline>>
  BY DEF ExecuteStatic
<1>2. TypeInv /\ Joined
  BY DEF IInv, Order
<1>3. n \in All
  BY <1>1, <1>2, BusyFacts
<1>4. isDone' \in [Flows -> BOOLEAN]
  <2>1. \A p \in Flows : (isDone[p] \/ TellsJoin(n, p)) \in BOOLEAN
    BY <1>2 DEF TellsJoin, Joined
  <2> QED
    BY <1>1, <2>1
<1>5. ASSUME NEW q \in Flows, isDone'[q] PROVE isDone[q] \/ state'[Exit[q]] = "Completed"
  <2>1. isDone[q] \/ TellsJoin(n, q)
    BY <1>1, <1>5
  <2>2. CASE TellsJoin(n, q)
    BY <1>1, <1>2, <1>3, <2>2 DEF TellsJoin, TypeInv
  <2> QED
    BY <2>1, <2>2
<1>6. \A q \in Flows : Mode[q] = "join" /\ Children(q) # {} =>
          /\ isDone'[q] => isDone[q] \/ state'[Exit[q]] = "Completed"
          /\ q = n => isDone[q] /\ "execute" \in {"dispatch", "join"}
  BY <1>1, <1>5
<1>7. /\ "execute" # "unblock" /\ UNCHANGED <<running, successors, inDegree>>
      /\ "execute" \in {"dispatch", "join"} \/ n \notin Flows \/ Children(n) = {}
      /\ n = Innermost(t).node
  BY <1>1
<1>8. Returns(t, "execute", n)
  BY ONLY <1>1, <1>4, <1>6, <1>7 DEF Returns
<1> QED
  BY <1>8, ReturnOrder

LEMMA FlowReturnsOrder ==
    ASSUME IInv, Order, NEW t \in Threads, FlowReturns(t)
    PROVE  Order'
<1> PICK p : p = Innermost(t).node
  OBVIOUS
<1>1. /\ \/ Busy(t, "dispatch") /\ Mode[p] # "join"
         \/ Busy(t, "join") /\ isDone[p]
         \/ Busy(t, "execute") /\ Children(p) = {}
      /\ state' = [state EXCEPT ![p] = "Completed"] /\ isDone' = [isDone EXCEPT ![p] = FALSE]
      /\ Replace(t, "unblock", successors[p])
      /\ UNCHANGED <<running, pending, successors, inDegree, queued, inline>>
  BY DEF FlowReturns, Helping, isCompleted
<1>2. isDone \in [Flows -> BOOLEAN]
  BY DEF Order, Joined
<1>3. isDone' \in [Flows -> BOOLEAN] /\ \A q \in Flows : isDone'[q] => isDone[q]
  BY <1>1, <1>2
<1>4. PICK l \in {"dispatch", "join", "execute"} :
          /\ Busy(t, l) /\ (l \in {"dispatch", "join"} \/ Children(p) = {})
          /\ Mode[p] = "join" /\ Children(p) # {} => isDone[p] /\ l \in {"dispatch", "join"}
  BY <1>1
<1>5. \A q \in Flows : Mode[q] = "join" /\ Children(q) # {} =>
          /\ isDone'[q] => isDone[q] \/ state'[Exit[q]] = "Completed"
          /\ q = p => isDone[q] /\ l \in {"dispatch", "join"}
  BY <1>3, <1>4
<1>6. /\ l # "unblock" /\ (l \in {"dispatch", "join"} \/ p \notin Flows \/ Children(p) = {})
      /\ UNCHANGED <<running, successors, inDegree>> /\ p = Innermost(t).node /\ IInv /\ Order
  BY <1>1, <1>4
<1>7. Busy(t, l) /\ state' = [state EXCEPT ![p] = "Completed"] /\ Replace(t, "unblock", successors[p])
  BY <1>1, <1>4
<1>8. Returns(t, l, p)
  BY ONLY <1>3, <1>5, <1>6, <1>7 DEF Returns
<1> QED
  BY <1>8, ReturnOrder

\* A step that neither completes a node nor changes a list or a count: frame
\* k of t changes, or goes.
LEMMA OtherOrder ==
    ASSUME IInv, Order, NEW t \in Threads, NEW k \in Depth(stack, t), k \in Nat, Elsewhere(t, k),
           UNCHANGED <<running, successors, inDegree, isDone>>,
           \A m \in All : state'[m] = state[m]
                          \/ (state[m] = "Executing" /\ state'[m] = "Pending" /\ m \notin Flows),
           stack[t][k].pc = "execute" => stack[t][k].node \notin Flows,
           k \in Depth(stack', t) =>
              /\ stack'[t][k].node = stack[t][k].node /\ stack'[t][k].pc \in {"dispatch", "join", "unblock"}
              /\ stack'[t][k].pc = "unblock" => stack'[t][k].todo = {}
              /\ stack'[t][k].pc \in {"dispatch", "join"} => stack[t][k].pc \in {"dispatch", "join"}
    PROVE  Order'
<1>1. TypeInv /\ Lists /\ Tells /\ Waits /\ Joined
  BY DEF IInv, Order
<1>2. running
  BY RunningFacts
<1>3. /\ \A m \in All : state[m] = "Completed" => state'[m] = "Completed"
      /\ \A m \in All : state'[m] # None => state[m] # None
      /\ \A m \in All : state'[m] = "Completed" => state[m] = "Completed"
      /\ \A m \in All : state[m] \in {None, "Pending"} => state'[m] \in {None, "Pending"}
  BY Constants
<1>4. Lists'
  <2>1. ASSUME NEW q \in Nodes, Messenger(q) # q, Unspliced(q) PROVE Unspliced(q)'
    <3>1. q \in Flows /\ q \in All
      BY <2>1, MessengerFacts, Constants
    <3>2. stack[t][k].pc # "execute" \/ stack[t][k].node # q
      BY <3>1
    <3> QED
      BY <1>3, <2>1, <3>1, <3>2, UnsplicedStep
  <2> QED
    BY <1>1, <2>1, ListsStep
<1>5. Tells'
  BY <1>1, TellsStep
<1>6. Waits'
  <2>1. \A m \in All : Waited(m)' \subseteq Waited(m)
    BY <1>3, WaitedStep
  <2> QED
    BY <1>1, <1>2, <1>3, <2>1, WaitsStep
<1>7. Joined'
  <2>1. isDone' \in [Flows -> BOOLEAN] /\ isDone' = isDone
    BY <1>1 DEF Joined
  <2>2. \A p \in Flows : p \in All
    BY Constants
  <2> QED
    BY <1>1, <1>2, <1>3, <2>1, <2>2, JoinedStep
<1> QED
  BY <1>4, <1>5, <1>6, <1>7 DEF Order

LEMMA ExecuteRepeatOrder ==
    ASSUME IInv, Order, NEW t \in Threads, ExecuteRepeat(t)
    PROVE  Order'
<1> PICK k : k = Len(stack[t])
  OBVIOUS
<1> PICK n : n = stack[t][k].node
  OBVIOUS
<1>1. TypeInv /\ Executed
  BY DEF IInv
<1>2. /\ k \in Depth(stack, t) /\ k \in Nat /\ stack[t][k].pc = "execute" /\ n \in All
      /\ Innermost(t) = stack[t][k]
  <2>1. Busy(t, "execute")
    BY DEF ExecuteRepeat
  <2> QED
    BY <1>1, <2>1, BusyFacts
<1>3. /\ n \in Repeaters /\ state' = [state EXCEPT ![n] = "Pending"] /\ stack[t] # <<>>
      /\ Replace(t, "unblock", {}) /\ UNCHANGED <<running, successors, inDegree, isDone>>
  BY <1>2 DEF ExecuteRepeat, Busy
<1>4. /\ Elsewhere(t, k) /\ stack'[t][k].node = n /\ stack'[t][k].pc = "unblock"
      /\ stack'[t][k].todo = {}
  <2>1. "unblock" \in {"execute", "dispatch", "join", "unblock"} /\ {} \in SUBSET All
    OBVIOUS
  <2>2. Replace(t, "unblock", {}) /\ k = Len(stack[t]) /\ stack[t] # <<>>
    BY <1>3
  <2>3. n = stack[t][k].node
    OBVIOUS
  <2> QED
    BY ONLY t \in Threads, <1>1, <2>1, <2>2, <2>3, ReplaceFacts
<1>5. state[n] = "Executing"
  BY <1>1, <1>2 DEF Executed, Active
<1>6. n \notin Flows
  BY <1>3, SubflowAssumption
<1>7. \A m \in All : state'[m] = state[m]
                     \/ (state[m] = "Executing" /\ state'[m] = "Pending" /\ m \notin Flows)
  BY <1>1, <1>3, <1>5, <1>6 DEF TypeInv
<1> QED
  BY <1>2, <1>3, <1>4, <1>6, <1>7, OtherOrder

LEMMA DispatchOrder ==
    ASSUME IInv, Order, NEW t \in Threads, NEW n \in All, DispatchRoot(t, n)
    PROVE  Order'
<1> PICK k : k = Len(stack[t])
  OBVIOUS
<1> PICK S : S = stack[t][k].todo \ {n}
  OBVIOUS
<1>1. TypeInv
  BY DEF IInv
<1>2. /\ k \in Depth(stack, t) /\ k \in Nat /\ stack[t][k].pc = "dispatch"
      /\ Innermost(t) = stack[t][k] /\ stack[t][k].todo \in SUBSET All
  <2>1. Busy(t, "dispatch")
    BY DEF DispatchRoot
  <2> QED
    BY <1>1, <2>1, BusyFacts
<1>3. /\ stack[t] # <<>> /\ Replace(t, "dispatch", S)
      /\ UNCHANGED <<running, successors, inDegree, state, isDone>>
  BY <1>2 DEF DispatchRoot, Busy
<1>4. /\ Elsewhere(t, k) /\ stack'[t][k].node = stack[t][k].node /\ stack'[t][k].pc = "dispatch"
  <2>1. "dispatch" \in {"execute", "dispatch", "join", "unblock"} /\ S \in SUBSET All
    BY <1>2
  <2>2. Replace(t, "dispatch", S) /\ k = Len(stack[t]) /\ stack[t] # <<>>
    BY <1>3
  <2> QED
    BY ONLY t \in Threads, <1>1, <2>1, <2>2, ReplaceFacts
<1> QED
  BY <1>2, <1>3, <1>4, OtherOrder

LEMMA JoinOrder ==
    ASSUME IInv, Order, NEW t \in Threads, join(t)
    PROVE  Order'
<1> PICK k : k = Len(stack[t])
  OBVIOUS
<1>1. TypeInv
  BY DEF IInv
<1>2. k \in Depth(stack, t) /\ k \in Nat /\ stack[t][k].pc = "dispatch"
  <2>1. Busy(t, "dispatch")
    BY DEF join
  <2> QED
    BY <1>1, <2>1, BusyFacts
<1>3. /\ stack[t] # <<>> /\ Replace(t, "join", {})
      /\ UNCHANGED <<running, successors, inDegree, state, isDone>>
  BY DEF join, Busy
<1>4. /\ Elsewhere(t, k) /\ stack'[t][k].node = stack[t][k].node /\ stack'[t][k].pc = "join"
  <2>1. "join" \in {"execute", "dispatch", "join", "unblock"} /\ {} \in SUBSET All
    OBVIOUS
  <2>2. Replace(t, "join", {}) /\ k = Len(stack[t]) /\ stack[t] # <<>>
    BY <1>3
  <2> QED
    BY ONLY t \in Threads, <1>1, <2>1, <2>2, ReplaceFacts
<1> QED
  BY <1>2, <1>3, <1>4, OtherOrder

LEMMA CompletedOrder ==
    ASSUME IInv, Order, NEW t \in Threads, onTaskCompleted(t)
    PROVE  Order'
<1> PICK k : k = Len(stack[t])
  OBVIOUS
<1> PICK s : s = Front(stack[t])
  OBVIOUS
<1>1. TypeInv
  BY DEF IInv
<1>2. k \in Depth(stack, t) /\ k \in Nat /\ stack[t][k].pc = "unblock"
  <2>1. Busy(t, "unblock")
    BY DEF onTaskCompleted
  <2> QED
    BY <1>1, <2>1, BusyFacts
<1>3. /\ stack[t] # <<>> /\ stack' = [stack EXCEPT ![t] = s]
      /\ UNCHANGED <<running, successors, inDegree, state, isDone>>
  BY DEF onTaskCompleted, Busy
<1>4. Elsewhere(t, k) /\ k \notin Depth(stack', t)
  <2>1. stack' = [stack EXCEPT ![t] = s] /\ s = Front(stack[t]) /\ k = Len(stack[t]) /\ stack[t] # <<>>
    BY <1>3
  <2> QED
    BY ONLY t \in Threads, <1>1, <2>1, PopFacts
<1> QED
  BY <1>2, <1>3, <1>4, OtherOrder

\* A successor is told: one fewer dependency, one count less.
LEMMA UnblockOrder ==
    ASSUME IInv, Order, NEW t \in Threads, NEW n \in All, Unblock(t, n)
    PROVE  Order'
<1> PICK k : k = Len(stack[t])
  OBVIOUS
<1> PICK p : p = stack[t][k].node
  OBVIOUS
<1> PICK S : S = stack[t][k].todo
  OBVIOUS
<1>1. TypeInv /\ Executed /\ Lists /\ Tells /\ Waits /\ Joined
  BY DEF IInv, Order
<1>2. /\ k \in Depth(stack, t) /\ k \in Nat /\ Innermost(t) = stack[t][k]
      /\ stack[t][k].pc = "unblock" /\ p \in All /\ S \in SUBSET All
  <2>1. Busy(t, "unblock")
    BY DEF Unblock
  <2> QED
    BY <1>1, <2>1, BusyFacts
<1>3. /\ stack[t] # <<>> /\ n \in S /\ Replace(t, "unblock", S \ {n})
      /\ inDegree' = [inDegree EXCEPT ![n] = inDegree[n] - 1]
      /\ UNCHANGED <<running, successors, state, isDone>>
  BY <1>2 DEF Unblock, Busy
<1>4. /\ Elsewhere(t, k) /\ k \in Depth(stack', t) /\ stack'[t][k].node = p
      /\ stack'[t][k].pc = "unblock" /\ stack'[t][k].todo = S \ {n}
  <2>1. "unblock" \in {"execute", "dispatch", "join", "unblock"} /\ S \ {n} \in SUBSET All
    BY <1>2
  <2>2. Replace(t, "unblock", S \ {n}) /\ k = Len(stack[t]) /\ stack[t] # <<>>
    BY <1>3
  <2>3. p = stack[t][k].node
    OBVIOUS
  <2> QED
    BY ONLY t \in Threads, <1>1, <2>1, <2>2, <2>3, ReplaceFacts
<1>5. running /\ ToTell(t, k, n) /\ Telling(t, k)
  BY <1>2, <1>3, RunningFacts DEF ToTell, Telling
<1>6. /\ state[p] = "Completed"
      /\ \A u \in Threads : \A j \in Depth(stack, u) :
            (u # t \/ j # k) /\ stack[u][j].node = p => ~Telling(u, j)
  BY <1>1, <1>2, <1>5, Teller
<1>7. \A m \in S : ToTell(t, k, m)
  BY <1>2 DEF ToTell
<1>8. Lists'
  <2>1. \A q \in Nodes : Unspliced(q) => Unspliced(q)'
    BY <1>2, <1>3, <1>4, UnsplicedStep
  <2> QED
    BY <1>1, <1>3, <2>1, ListsStep
<1>9. \A m \in S : \E q \in Nodes : Follows(q, m) /\ p = Messenger(q)
  BY <1>1, <1>2, <1>7 DEF Tells
<1>10. Tells'
  BY <1>1, <1>2, <1>4, <1>9, TellsStep
<1>11. \A m \in All : Waited(m)' \subseteq Waited(m)
  <2> SUFFICES ASSUME NEW m \in All PROVE Waited(m)' \subseteq Waited(m)
    OBVIOUS
  <2>1. \A q \in Nodes : Follows(q, m) /\ m \in S /\ p = Messenger(q) => q \in Waited(m)
    BY <1>2, <1>7 DEF Waited
  <2> QED
    BY <1>2, <1>3, <1>4, <2>1, WaitedStep
\* The flow or node that was told of is no longer waited for.
<1>12. PICK q \in Nodes : Follows(q, n) /\ p = Messenger(q)
  BY <1>3, <1>9
<1>13. q \in Waited(n)
  BY <1>2, <1>3, <1>7, <1>12 DEF Waited
<1>14. q \notin Waited(n)'
  <2>0. \A u \in Threads : \A j \in Depth(stack', u) : u # t \/ j # k =>
            j \in Depth(stack, u) /\ stack'[u][j] = stack[u][j]
    BY <1>2, <1>4, FrameFacts
  <2>1. Over(q)'
    BY <1>3, <1>6, <1>12, OverNext
  <2>2. ASSUME NEW u \in Threads, NEW j \in Depth(stack', u),
               stack'[u][j].pc = "unblock", n \in stack'[u][j].todo, stack'[u][j].node = p
        PROVE  FALSE
    <3>1. CASE u = t /\ j = k
      BY <1>4, <2>2, <3>1
    <3>2. CASE u # t \/ j # k
      <4>1. j \in Depth(stack, u) /\ stack'[u][j] = stack[u][j]
        BY <2>0, <3>2
      <4>2. Telling(u, j) /\ stack[u][j].node = p
        BY <2>2, <4>1 DEF Telling
      <4> QED
        BY <1>6, <3>2, <4>1, <4>2
    <3> QED
      BY <3>1, <3>2
  <2>3. q \in Waited(n)' => ~Over(q)' \/ \E u \in Threads : \E j \in Depth(stack', u) :
            (stack'[u][j].pc = "unblock" /\ n \in stack'[u][j].todo) /\ stack'[u][j].node = Messenger(q)
    BY DEF Waited, ToTell, Messenger
  <2> QED
    BY <1>12, <2>1, <2>2, <2>3
<1>15. Waits'
  <2> SUFFICES ASSUME NEW m \in All, state'[m] # None PROVE Cardinality(Waited(m)') <= inDegree'[m]
    BY DEF Waits
  <2> PICK A : A = Waited(m)
    OBVIOUS
  <2> PICK B : B = Waited(m)'
    OBVIOUS
  <2>1. /\ A \in SUBSET All /\ B \in SUBSET All /\ B \subseteq A
        /\ Cardinality(A) \in Nat /\ Cardinality(B) \in Nat /\ Cardinality(A) <= inDegree[m]
        /\ inDegree[m] \in Int
    BY <1>1, <1>3, <1>5, <1>11, WaitedFinite DEF Waits, TypeInv
  <2>2. CASE m # n
    <3>1. inDegree'[m] = inDegree[m]
      BY <1>1, <1>3, <2>2 DEF TypeInv
    <3>2. Cardinality(B) <= Cardinality(A)
      BY <2>1, Fewer
    <3> QED
      BY <2>1, <3>1, <3>2
  <2>3. CASE m = n
    <3>1. inDegree'[m] = inDegree[m] - 1
      BY <1>1, <1>3, <2>3 DEF TypeInv
    <3>2. q \in A /\ B \subseteq A \ {q} /\ A \ {q} \in SUBSET All
      BY <1>13, <1>14, <2>1, <2>3
    <3>3. Cardinality(A \ {q}) = Cardinality(A) - 1
      BY <2>1, <3>2, Constants, FS_RemoveElement
    <3>4. Cardinality(B) <= Cardinality(A \ {q})
      BY <2>1, <3>2, Fewer
    <3> QED
      BY <2>1, <3>1, <3>3, <3>4
  <2> QED
    BY <2>2, <2>3
<1>16. Joined'
  <2>1. isDone' \in [Flows -> BOOLEAN] /\ isDone' = isDone /\ state' = state
    BY <1>1, <1>3 DEF Joined
  <2>2. stack'[t][k].pc \notin {"dispatch", "join"}
    BY <1>4
  <2> QED
    BY <1>1, <1>2, <1>4, <1>5, <2>1, <2>2, JoinedStep
<1> QED
  BY <1>8, <1>10, <1>15, <1>16 DEF Order

\* A flow is spliced: its children wait for each other as their edges say,
\* the exit node for the sinks, and the successors of an asynchronous flow,
\* from now on, for the exit node.
LEMMA SpliceOrder ==
    ASSUME IInv, Order, NEW t \in Threads, splice(t)
    PROVE  Order'
<1> PICK k : k = Len(stack[t])
  OBVIOUS
<1> PICK p : p = stack[t][k].node
  OBVIOUS
<1> PICK C : C = Children(p)
  OBVIOUS
<1> PICK X : X = ExitsOf(p)
  OBVIOUS
<1> PICK R : R = Roots(C)
  OBVIOUS
<1>1. TypeInv /\ Executed /\ Fresh /\ Lists /\ Tells /\ Waits /\ Joined
  BY DEF IInv, Order
<1>2. /\ k \in Depth(stack, t) /\ k \in Nat /\ Innermost(t) = stack[t][k]
      /\ stack[t][k].pc = "execute" /\ p \in All
  <2>1. Busy(t, "execute")
    BY DEF splice
  <2> QED
    BY <1>1, <2>1, BusyFacts
<1>3. /\ stack[t] # <<>> /\ p \in Flows /\ C # {}
      /\ state' = [n \in All |-> IF n \in C \cup X THEN "Pending" ELSE state[n]]
      /\ successors' = [n \in All |-> SplicedSuccessors(p, n)]
      /\ inDegree' = [n \in All |-> IF n \in C THEN initialInDegree(n)
                                    ELSE IF n \in C \cup X THEN Cardinality(Sinks(p))
                                    ELSE inDegree[n]]
      /\ isDone' = [isDone EXCEPT ![p] = Mode[p] = "detach"]
      /\ Replace(t, "dispatch", R) /\ running' = running
  BY <1>2 DEF splice, Busy
<1>4. /\ Elsewhere(t, k) /\ k \in Depth(stack', t)
      /\ stack'[t][k].node = p /\ stack'[t][k].pc = "dispatch"
  <2>1. "dispatch" \in {"execute", "dispatch", "join", "unblock"} /\ R \in SUBSET All
    BY <1>3, Constants DEF Roots
  <2>2. Replace(t, "dispatch", R) /\ k = Len(stack[t]) /\ stack[t] # <<>>
    BY <1>3
  <2>3. p = stack[t][k].node
    OBVIOUS
  <2> QED
    BY ONLY t \in Threads, <1>1, <2>1, <2>2, <2>3, ReplaceFacts
<1>5. state[p] = "Executing" /\ running /\ Unspliced(p)
  BY <1>1, <1>2, RunningFacts DEF Executed, Active, Unspliced
<1>6. /\ C \subseteq Nodes /\ Nodes \subseteq All /\ Exit[p] \in All /\ Exit[p] \notin Nodes
      /\ X = IF Mode[p] = "detach" THEN {} ELSE {Exit[p]}
      /\ Sinks(p) \subseteq C /\ X \subseteq All /\ \A n \in C : UserSuccessors(n) \subseteq C
  <2>1. p \in Flows /\ C = Children(p) /\ X = ExitsOf(p)
    BY <1>3
  <2>2. C \subseteq Nodes /\ \A n \in C : UserSuccessors(n) \subseteq C
    BY ONLY <2>1, Constants
  <2>3. Nodes \subseteq All /\ Exit[p] \in All /\ Exit[p] \notin Nodes
    BY ONLY <2>1, Constants
  <2>4. X = (IF Mode[p] = "detach" THEN {} ELSE {Exit[p]}) /\ X \subseteq All
    BY ONLY <2>1, <2>3 DEF ExitsOf
  <2>5. Sinks(p) \subseteq C
    BY ONLY <2>1 DEF Sinks
  <2> QED
    BY ONLY <2>2, <2>3, <2>4, <2>5
<1>7. \A n \in C \cup X : state[n] = None
  BY <1>1, <1>3, <1>5, <1>6 DEF Fresh
<1>8. p \notin C \cup X
  BY <1>5, <1>7, Constants
<1>9. /\ \A n \in C \cup X : state'[n] = "Pending"
      /\ \A n \in All : n \notin C \cup X => state'[n] = state[n]
  BY <1>3, <1>6
<1>10. /\ \A m \in C : successors'[m] \subseteq
             IF m \in Sinks(p) THEN X ELSE UserSuccessors(m)
       /\ \A m \in X : successors'[m] = IF Mode[p] = "async" THEN successors[p] ELSE {}
       /\ successors'[p] = IF Mode[p] = "async" THEN {} ELSE successors[p]
       /\ \A m \in All : m \notin C \cup X /\ m # p => successors'[m] = successors[m]
  <2>1. \A m \in All : successors'[m] = SplicedSuccessors(p, m)
    BY <1>3
  <2>2. ASSUME NEW m \in C PROVE successors'[m] = IF m \in Sinks(p) THEN X ELSE UserSuccessors(m)
    <3>1. successors'[m] = SplicedSuccessors(p, m)
      BY <1>6, <2>1
    <3>2. m \in Children(p) /\ m \notin ExitsOf(p) /\ m # p
      BY <1>6, <1>8
    <3> QED
      BY ONLY <3>1, <3>2, X = ExitsOf(p) DEF SplicedSuccessors
  <2>3. ASSUME NEW m \in X PROVE successors'[m] = IF Mode[p] = "async" THEN successors[p] ELSE {}
    <3>1. successors'[m] = SplicedSuccessors(p, m)
      BY <1>6, <2>1
    <3>2. m \notin Children(p) /\ m \in ExitsOf(p) /\ m # p
      BY <1>6, <1>8
    <3> QED
      BY ONLY <3>1, <3>2 DEF SplicedSuccessors
  <2>4. successors'[p] = IF Mode[p] = "async" THEN {} ELSE successors[p]
    BY <1>2, <1>8, <2>1 DEF SplicedSuccessors
  <2>5. \A m \in All : m \notin C \cup X /\ m # p => successors'[m] = successors[m]
    BY <2>1 DEF SplicedSuccessors
  <2> QED
    BY <2>2, <2>3, <2>4, <2>5
<1>11. Messenger(p) = IF Mode[p] = "async" THEN Exit[p] ELSE p
  BY <1>3 DEF Messenger
<1>12. p \in Nodes
  BY <1>3, Constants
\* Other flows stay as they are.
<1>13. \A n \in All : n # p /\ Unspliced(n) => Unspliced(n)'
  <2> SUFFICES ASSUME NEW n \in All, n # p PROVE Unspliced(n) => Unspliced(n)'
    OBVIOUS
  <2>1. state[n] \in {None, "Pending"} => state'[n] \in {None, "Pending"}
    BY <1>9
  <2> QED
    BY <1>2, <1>4, <2>1, UnsplicedStep
<1>14. Lists'
  <2> SUFFICES ASSUME NEW x \in All, NEW m \in All, m \in successors'[x]
               PROVE  \E n \in Nodes : Follows(n, m) /\ (x = Messenger(n) \/ (x = n /\ Unspliced(n)'))
    BY DEF Lists, Follows, Messenger
  <2>1. CASE x \in C
    <3>1. Unspliced(x)' /\ x \in Nodes
      BY <1>6, <1>9, <2>1 DEF Unspliced
    <3>2. Follows(x, m)
      <4>1. CASE x \in Sinks(p)
        <5>1. m \in ExitsOf(p)
          BY <1>10, <2>1, <4>1
        <5> QED
          BY <1>3, <4>1, <5>1 DEF Follows
      <4>2. CASE x \notin Sinks(p)
        <5>1. m \in UserSuccessors(x)
          BY <1>10, <2>1, <4>2
        <5> QED
          BY <5>1 DEF Follows
      <4> QED
        BY <4>1, <4>2
    <3> QED
      BY <3>1, <3>2
  <2>2. CASE m \in successors[p] /\ x = Messenger(p)
    <3>1. PICK n \in Nodes : Follows(n, m) /\ (p = Messenger(n) \/ p = n)
      BY <1>1, <1>2, <2>2 DEF Lists
    <3>2. n = p
      BY <1>12, <3>1, MessengerFacts
    <3> QED
      BY <2>2, <3>1, <3>2
  <2>3. CASE x \in X
    <3>1. Mode[p] = "async" /\ m \in successors[p]
      BY <1>10, <2>3
    <3>2. x = Messenger(p)
      BY <1>6, <1>11, <2>3, <3>1
    <3> QED
      BY <2>2, <3>1, <3>2
  <2>4. CASE x = p
    <3>1. Mode[p] # "async" /\ m \in successors[p]
      BY <1>10, <2>4
    <3> QED
      BY <1>11, <2>2, <2>4, <3>1
  <2>5. CASE x \notin C \cup X /\ x # p
    <3>1. m \in successors[x]
      BY <1>10, <2>5
    <3>2. PICK n \in Nodes : Follows(n, m) /\ (x = Messenger(n) \/ (x = n /\ Unspliced(n)))
      BY <1>1, <3>1 DEF Lists
    <3> QED
      BY <1>13, <2>5, <3>2
  <2> QED
    BY <2>1, <2>3, <2>4, <2>5
<1>15. Tells'
  BY <1>1, <1>2, <1>4, TellsStep
<1>16. \A m \in All : state[m] = "Completed" => state'[m] = "Completed"
  BY <1>7, <1>9, Constants
<1>17. Waits'
  <2> SUFFICES ASSUME NEW m \in All, state'[m] # None PROVE Cardinality(Waited(m)') <= inDegree'[m]
    BY DEF Waits
  <2> PICK B : B = Waited(m)'
    OBVIOUS
  <2>1. B \in SUBSET All /\ B \subseteq {n \in Nodes : Follows(n, m)}
    BY Constants DEF Waited, Follows
  <2>2. CASE m \in C
    <3> PICK S : S = {n \in Nodes : <<n, m>> \in Edges}
      OBVIOUS
    <3>1. B \subseteq S
      BY <1>6, <2>1, <2>2, FollowsFacts
    <3>2. inDegree'[m] = Cardinality(S)
      BY <1>3, <2>2 DEF initialInDegree
    <3>3. S \in SUBSET All
      BY Constants
    <3> QED
      BY <2>1, <3>1, <3>2, <3>3, Fewer
  <2>3. CASE m \in X
    <3>1. m = Exit[p] /\ m \notin C
      BY <1>6, <2>3
    <3>2. B \subseteq Sinks(p)
      BY <1>3, <2>1, <3>1, FollowsFacts
    <3>3. inDegree'[m] = Cardinality(Sinks(p))
      BY <1>3, <2>3, <3>1
    <3>4. Sinks(p) \in SUBSET All
      BY <1>6
    <3> QED
      BY <2>1, <3>2, <3>3, <3>4, Fewer
  <2>4. CASE m \notin C \cup X
    <3>1. state[m] # None /\ inDegree'[m] = inDegree[m] /\ inDegree[m] \in Int
      BY <1>1, <1>3, <1>9, <2>4 DEF TypeInv
    <3>2. B \subseteq Waited(m)
      BY <1>2, <1>4, <1>16, WaitedStep
    <3>3. Cardinality(Waited(m)) <= inDegree[m] /\ Waited(m) \in SUBSET All
      BY <1>1, <1>5, <3>1, WaitedFinite DEF Waits
    <3>4. Cardinality(B) <= Cardinality(Waited(m)) /\ Cardinality(B) \in Nat
          /\ Cardinality(Waited(m)) \in Nat
      BY <2>1, <3>2, <3>3, Fewer
    <3> QED
      BY <3>1, <3>3, <3>4
  <2> QED
    BY <2>2, <2>3, <2>4
<1>18. Joined'
  <2>1. isDone \in [Flows -> BOOLEAN]
    BY <1>1 DEF Joined
  <2>2. isDone' \in [Flows -> BOOLEAN]
    BY <1>3, <2>1
  <2>3. \A q \in Flows : Mode[q] = "join" /\ isDone'[q] => isDone[q] /\ q # p
    BY <1>3, <2>1
  <2>4. \A q \in Flows : state'[q] = "Completed" => state[q] = "Completed"
    BY <1>9, Constants
  <2> QED
    BY <1>1, <1>2, <1>4, <1>5, <1>16, <2>2, <2>3, <2>4, JoinedStep
<1> QED
  BY <1>14, <1>15, <1>17, <1>18 DEF Order

----------------------------------------------------------------------------
(* The steps of the caller, and the children-first order.                  *)

LEMMA PrepareOrder ==
    ASSUME IInv, Order, prepareRun
    PROVE  Order'
<1>1. TypeInv /\ Resting /\ Lists /\ Joined
  BY DEF IInv, Order
<1>2. /\ ~running
      /\ inDegree' = [n \in All |-> IF n \in Top THEN initialInDegree(n) ELSE inDegree[n]]
      /\ state' = [n \in All |-> IF n \in Top THEN "Pending" ELSE state[n]]
      /\ UNCHANGED <<successors, inline, stack, isDone>>
  BY DEF prepareRun
<1>3. \A t \in Threads : \A i \in Depth(stack, t) : FALSE
  BY <1>2, RunningFacts
<1>4. /\ \A n \in All : state'[n] = IF n \in Top THEN "Pending" ELSE None
      /\ \A n \in All : state'[n] \in {None, "Pending"}
  <2>1. \A n \in All : n \notin Top => state[n] = None
    BY <1>1, <1>2 DEF Resting
  <2> QED
    BY <1>2, <2>1
<1>5. Lists'
  <2>1. \A n \in Nodes : Unspliced(n)'
    BY <1>4, Constants DEF Unspliced
  <2> QED
    BY <1>1, <1>2, <2>1, ListsStep
<1>6. Tells'
  BY <1>2, <1>3 DEF Tells, ToTell
<1>7. Waits'
  <2> SUFFICES ASSUME NEW m \in All, state'[m] # None PROVE Cardinality(Waited(m)') <= inDegree'[m]
    BY DEF Waits
  <2>1. m \in Top /\ m \in Nodes
    BY <1>4, Constants
  <2> PICK S : S = {n \in Nodes : <<n, m>> \in Edges}
    OBVIOUS
  <2>2. inDegree'[m] = Cardinality(S)
    BY <1>2, <2>1 DEF initialInDegree
  <2>3. Waited(m)' \subseteq {n \in Nodes : Follows(n, m)}
    BY DEF Waited, Follows
  <2>4. Waited(m)' \subseteq S /\ S \in SUBSET All /\ Waited(m)' \in SUBSET All
    BY <2>1, <2>3, FollowsFacts, Constants
  <2> QED
    BY <2>2, <2>4, Fewer
<1>8. Joined'
  <2>1. \A n \in All : state'[n] # "Completed"
    BY <1>4, Constants
  <2> QED
    BY <1>1, <1>2, <1>3, <2>1, Constants DEF Joined, Children
<1> QED
  BY <1>5, <1>6, <1>7, <1>8 DEF Order

LEMMA ReturnsOrder ==
    ASSUME IInv, Order, runAndWaitReturns
    PROVE  Order'
<1>1. TypeInv /\ Lists /\ Tells /\ Joined
  BY DEF IInv, Order
<1>2. /\ running' = FALSE /\ pending = 0
      /\ state' = [n \in All |-> IF n \in Top THEN state[n] ELSE None]
      /\ successors' = [n \in All |-> IF n \in Top THEN successors[n] ELSE {}]
      /\ UNCHANGED <<stack, isDone>>
  BY DEF runAndWaitReturns
<1>3. \A t \in Threads : \A i \in Depth(stack, t) : FALSE
  <2>1. \A t \in Threads : stack[t] = <<>>
    BY <1>2, NothingLeft
  <2> QED
    BY <2>1 DEF Depth
<1>4. Lists'
  <2> SUFFICES ASSUME NEW x \in All, NEW m \in All, m \in successors'[x]
               PROVE  \E n \in Nodes : Follows(n, m) /\ (x = Messenger(n) \/ (x = n /\ Unspliced(n)'))
    BY DEF Lists, Follows, Messenger
  <2>1. x \in Top /\ m \in successors[x]
    BY <1>2
  <2>2. PICK n \in Nodes : Follows(n, m) /\ (x = Messenger(n) \/ (x = n /\ Unspliced(n)))
    BY <1>1, <2>1 DEF Lists
  <2>3. ASSUME x = n, Unspliced(n) PROVE Unspliced(n)'
    <3>1. state[n] \in {None, "Pending"}
      BY <1>3, <2>3 DEF Unspliced
    <3>2. state'[n] = state[n]
      BY <1>2, <2>1, <2>3
    <3> QED
      BY <3>1, <3>2 DEF Unspliced
  <2> QED
    BY <2>2, <2>3
<1>5. Tells'
  BY <1>2, <1>3 DEF Tells, ToTell
<1>6. Waits'
  BY <1>2 DEF Waits
<1>7. Joined'
  BY <1>1, <1>2, <1>3 DEF Joined, Children
<1> QED
  BY <1>4, <1>5, <1>6, <1>7 DEF Order

LEMMA InitOrder == Init => Order
<1> SUFFICES ASSUME Init PROVE Order
  OBVIOUS
<1>1. /\ running = FALSE /\ isDone = [p \in Flows |-> FALSE] /\ stack = [t \in Threads |-> <<>>]
      /\ successors = [n \in All |-> IF n \in Top THEN UserSuccessors(n) ELSE {}]
      /\ state = [n \in All |-> IF n \in Top THEN "Pending" ELSE None]
  BY DEF Init
<1>2. \A t \in Threads : \A i \in Depth(stack, t) : FALSE
  BY <1>1 DEF Depth
<1>3. Lists
  <2> SUFFICES ASSUME NEW x \in All, NEW m \in All, m \in successors[x]
               PROVE  \E n \in Nodes : Follows(n, m) /\ (x = Messenger(n) \/ (x = n /\ Unspliced(n)))
    BY DEF Lists
  <2>1. x \in Top /\ m \in UserSuccessors(x) /\ x \in Nodes
    BY <1>1, Constants
  <2>2. Follows(x, m) /\ Unspliced(x)
    BY <1>1, <2>1 DEF Follows, Unspliced
  <2> QED
    BY <2>1, <2>2
<1>4. Tells
  BY <1>2 DEF Tells
<1>5. Waits /\ Joined
  BY <1>1, <1>2 DEF Waits, Joined
<1> QED
  BY <1>3, <1>4, <1>5 DEF Order

LEMMA ThreadOrder ==
    ASSUME IInv, Order, NEW t \in Threads, ThreadStep(t)
    PROVE  Order'
<1>1. TypeInv /\ Placed /\ Resting
  BY DEF IInv
<1>2. ASSUME NEW n \in All, TakeQueued(t, n) PROVE Order'
  <2>1. StartExecute(t, n) /\ UNCHANGED <<running, successors, inDegree, isDone>>
    BY <1>2 DEF TakeQueued
  <2>2. queued[n] # 0 /\ state[n] = "Pending"
    BY <1>1, <1>2 DEF TakeQueued, TypeInv, Placed
  <2>3. running
    BY <1>1, <2>2 DEF Resting
  <2> QED
    BY <2>1, <2>2, <2>3, TakeOrder
<1>3. ASSUME TakeInline(t) PROVE Order'
  <2> PICK n : n = inline[t]
    OBVIOUS
  <2>1. /\ StartExecute(t, n) /\ UNCHANGED <<running, successors, inDegree, isDone>>
        /\ n # None
    BY <1>3 DEF TakeInline
  <2>2. n \in All /\ state[n] = "Pending"
    BY <1>1, <2>1 DEF TypeInv, Placed
  <2>3. running
    BY <1>1, <2>1 DEF Resting
  <2> QED
    BY <2>1, <2>2, <2>3, TakeOrder
<1> QED
  BY <1>2, <1>3, DispatchOrder, UnblockOrder, ExecuteStaticOrder, ExecuteRepeatOrder, SpliceOrder,
     JoinOrder, FlowReturnsOrder, CompletedOrder DEF ThreadStep

LEMMA OrderKept == Spec => []Order
<1>1. IInv /\ Order /\ [Next]_vars => Order'
  <2> SUFFICES ASSUME IInv, Order, [Next]_vars PROVE Order'
    OBVIOUS
  <2>1. CASE UNCHANGED vars
    <3>1. UNCHANGED <<running, successors, inDegree, state, stack, isDone>>
      BY <2>1 DEF vars
    <3>2. Lists'
      BY <3>1 DEF Order, Lists, Unspliced, Follows, Messenger
    <3>3. Tells'
      BY <3>1 DEF Order, Tells, ToTell, Follows, Messenger
    <3>4. Waits'
      <4>1. \A m : Waited(m)' = Waited(m)
        BY <3>1 DEF Waited, Over, ToTell, Follows, Messenger
      <4>2. Waits
        BY DEF Order
      <4> QED
        BY ONLY <3>1, <4>1, <4>2 DEF Waits
    <3>5. Joined'
      BY <3>1 DEF Order, Joined, Children
    <3> QED
      BY <3>2, <3>3, <3>4, <3>5 DEF Order
  <2> QED
    BY <2>1, PrepareOrder, ReturnsOrder, ThreadOrder DEF Next
<1> QED
  BY InitOrder, Invariance, <1>1, PTL DEF Spec

\* A node is released when everything it waits for is over.
LEMMA ReleasedFacts ==
    ASSUME IInv, Order, running, NEW m \in All, Given(m)
    PROVE  \A n \in Nodes : Follows(n, m) => Over(n)
<1>1. TypeInv /\ Placed /\ Degrees /\ Waits
  BY DEF IInv, Order
<1>2. state[m] # None
  <2>1. queued[m] > 0 => state[m] = "Pending"
    BY <1>1 DEF TypeInv, Placed
  <2>2. \A t \in Threads : inline[t] = m => state[m] = "Pending"
    BY <1>1, Constants DEF Placed
  <2>3. \A t \in Threads : \A i \in Depth(stack, t) : ToDispatch(t, i, m) => state[m] = "Pending"
    BY <1>1 DEF Placed
  <2> QED
    BY <2>1, <2>2, <2>3, Constants DEF Given
<1>3. Cardinality(Waited(m)) <= 0
  BY <1>1, <1>2 DEF Degrees, Waits
<1>4. Waited(m) = {}
  <2>1. Waited(m) \in SUBSET All /\ Cardinality(Waited(m)) \in Nat
    BY WaitedFinite
  <2>2. Cardinality(Waited(m)) = 0 /\ IsFiniteSet(Waited(m))
    BY <1>3, <2>1, Constants
  <2> QED
    BY <2>2, NoneLeft
<1> QED
  BY <1>4 DEF Waited

\* A node that is over has been released.
LEMMA OverGiven ==
    ASSUME IInv, NEW n \in Nodes, Over(n)
    PROVE  Given(n)
<1>1. CASE Messenger(n) = n
  BY <1>1, MessengerFacts DEF Given
<1>2. CASE n \in Flows /\ Messenger(n) = Exit[n]
  <2>1. state[Exit[n]] # None
    BY <1>2, MessengerFacts, Constants
  <2>2. state[n] \notin {None, "Pending"} /\ state[n] \in {None, "Pending", "Executing", "Completed"}
    BY <1>2, <2>1, Constants DEF IInv, TypeInv, Fresh, Unspliced
  <2> QED
    BY <2>2 DEF Given
<1> QED
  BY <1>1, <1>2, MessengerFacts

\* The exit node is released when every child, and not only every sink, is
\* over: the last children that are not over would be sinks.
LEMMA ExitLast ==
    ASSUME Acyclic, RepeatersGoOn, IInv, Order, running,
           NEW p \in Flows, Mode[p] # "detach", Given(Exit[p])
    PROVE  \A n \in Children(p) : Over(n)
<1> PICK Bad : Bad = {n \in Children(p) : ~Over(n)}
  OBVIOUS
<1> SUFFICES ASSUME Bad # {} PROVE FALSE
  OBVIOUS
<1>1. Bad \in SUBSET Nodes /\ Exit[p] \in All /\ p # None
  BY Constants
<1>2. PICK n \in Bad : UserSuccessors(n) \cap Bad = {}
  BY <1>1 DEF Acyclic
<1>3. n \in Nodes /\ n \in Children(p) /\ ~Over(n) /\ Parent[n] # None
  BY <1>1, <1>2 DEF Children
<1>4. n \notin Sinks(p)
  BY <1>1, <1>3, ReleasedFacts, FollowsFacts
<1>5. PICK m : m \in UserSuccessors(n)
  BY <1>3, <1>4 DEF Sinks, RepeatersGoOn
<1>6. m \in Children(p) /\ m \in Nodes /\ m \in All
  BY <1>3, <1>5, Constants
<1>7. Over(m)
  BY <1>2, <1>5, <1>6
<1>8. Follows(n, m)
  BY <1>5 DEF Follows
<1> QED
  BY <1>3, <1>6, <1>7, <1>8, OverGiven, ReleasedFacts

\* What follows a flow that is not detached starts only when every task in it
\* is over, for flows nested to any depth, of any shape without cycles, and
\* any number of threads that help (splice, join, unblockSuccessors).
THEOREM ChildrenRunFirst ==
    ASSUME Acyclic, RepeatersGoOn
    PROVE  Spec => []ChildrenFirst
<1>1. IInv /\ Order => ChildrenFirst
  <2> SUFFICES ASSUME IInv, Order, NEW p \in Flows, running, Mode[p] # "detach",
                      ~ \A n \in Children(p) : Over(n)
               PROVE  /\ \A n \in UserSuccessors(p) \cup {Exit[p]} : ~Released(n)
                      /\ Mode[p] = "join" => state[p] # "Completed"
    BY DEF ChildrenFirst
  <2>1. p \in Nodes /\ Exit[p] \in All /\ UserSuccessors(p) \subseteq Nodes /\ Nodes \subseteq All
    BY Constants
  <2>2. Children(p) # {} /\ Mode[p] \in {"async", "join"}
    BY SubflowAssumption
  <2>3. ~Given(Exit[p])
    BY ExitLast
  <2>4. state[Exit[p]] # "Completed"
    BY <2>3 DEF Given
  <2>5. Mode[p] = "join" => state[p] # "Completed"
    BY <2>2, <2>4 DEF Order, Joined
  <2>6. ~Over(p)
    BY <2>2, <2>4, <2>5 DEF Over
  <2>7. ASSUME NEW n \in UserSuccessors(p) PROVE ~Given(n)
    <3>1. Follows(p, n) /\ n \in All
      BY <2>1 DEF Follows
    <3> QED
      BY <2>1, <2>6, <3>1, ReleasedFacts
  <2>8. \A n : Released(n) => Given(n)
    BY DEF Released, Given
  <2> QED
    BY <2>3, <2>5, <2>7, <2>8
<1> QED
  BY Invariance, OrderKept, <1>1, PTL
=============================================================================
