-------------------------- MODULE TaskRoutingProof --------------------------
(***************************************************************************)
(* Proofs about TaskRouting, for any threads, tasks and calls: the count   *)
(* of main-thread tasks is exact up to the pushes under way; the lock-free *)
(* stack that drainMainThreadTasks takes and reverses behaves as a list    *)
(* that tasks leave in the order in which they entered; and every task is  *)
(* in one place, once, from its submission until it has been executed.     *)
(***************************************************************************)
EXTENDS TaskRouting, FiniteSetTheorems, SequenceTheorems, TLAPS

----------------------------------------------------------------------------
(* Sequences.                                                              *)

LEMMA ReverseType ==
    ASSUME NEW S, NEW s \in Seq(S)
    PROVE  /\ Reverse(s) \in Seq(S) /\ Len(Reverse(s)) = Len(s)
           /\ \A i \in 1 .. Len(s) : Reverse(s)[i] = s[(Len(s) - i) + 1]
  BY DEF Reverse

LEMMA ReverseEmpty == Reverse(<<>>) = <<>>
  BY DEF Reverse

\* A new first element comes last in the reverse, whatever comes before it.
LEMMA ReversePush ==
    ASSUME NEW S, NEW s \in Seq(S), NEW x \in S, NEW d \in Seq(S)
    PROVE  d \o Reverse(<<x>> \o s) = Append(d \o Reverse(s), x)
<1> PICK n : n = Len(s)
  OBVIOUS
<1> PICK a : a = <<x>> \o s
  OBVIOUS
<1> PICK r : r = Reverse(s)
  OBVIOUS
<1> PICK q : q = Reverse(a)
  OBVIOUS
<1>1. /\ n \in Nat /\ a \in Seq(S) /\ Len(a) = n + 1 /\ a[1] = x
      /\ \A i \in 2 .. n + 1 : a[i] = s[i - 1]
  <2>1. <<x>> \in Seq(S) /\ Len(<<x>>) = 1 /\ <<x>>[1] = x
    OBVIOUS
  <2>2. /\ a \in Seq(S) /\ Len(a) = 1 + n
        /\ \A i \in 1 .. 1 + n : a[i] = IF i <= 1 THEN <<x>>[i] ELSE s[i - 1]
    BY <2>1, ConcatProperties
  <2>3. n \in Nat
    BY LenProperties
  <2> QED
    BY <2>1, <2>2, <2>3
<1>2. /\ r \in Seq(S) /\ Len(r) = n /\ \A i \in 1 .. n : r[i] = s[(n - i) + 1]
  BY ReverseType
<1>3. /\ q \in Seq(S) /\ Len(q) = n + 1 /\ \A i \in 1 .. n + 1 : q[i] = a[(n + 1 - i) + 1]
  <2>1. a \in Seq(S) /\ Len(a) = n + 1
    BY <1>1
  <2>2. /\ q \in Seq(S) /\ Len(q) = Len(a)
        /\ \A i \in 1 .. Len(a) : q[i] = a[(Len(a) - i) + 1]
    BY <2>1, ReverseType
  <2> QED
    BY <2>1, <2>2
<1>4. q = Append(r, x)
  <2>1. Append(r, x) \in Seq(S) /\ Len(Append(r, x)) = n + 1
    BY <1>2, AppendProperties
  <2>2. ASSUME NEW i \in 1 .. n + 1 PROVE q[i] = Append(r, x)[i]
    <3>1. CASE i = n + 1
      BY <1>1, <1>2, <1>3, <3>1, AppendProperties
    <3>2. CASE i <= n
      <4>1. Append(r, x)[i] = r[i]
        BY <1>1, <1>2, <3>2, AppendProperties
      <4>2. n + 1 - i + 1 \in 2 .. n + 1 /\ i \in 1 .. n /\ n + 1 - i + 1 - 1 = n - i + 1
        BY <1>1, <3>2
      <4>3. a[n + 1 - i + 1] = s[n + 1 - i + 1 - 1]
        BY <1>1, <4>2
      <4> QED
        BY <1>2, <1>3, <4>1, <4>2, <4>3
    <3>3. i = n + 1 \/ i <= n
      BY <1>1
    <3> QED
      BY <3>1, <3>2, <3>3
  <2> QED
    BY <1>3, <2>1, <2>2, SeqEqual
<1>5. d \o Append(r, x) = Append(d \o r, x)
  <2>1. <<x>> \in Seq(S) /\ d \o r \in Seq(S)
    BY <1>2, ConcatProperties
  <2>2. Append(r, x) = r \o <<x>> /\ Append(d \o r, x) = (d \o r) \o <<x>>
    BY <1>2, <2>1, AppendIsConcat
  <2>3. r \in Seq(S)
    BY <1>2
  <2>4. d \o (r \o <<x>>) = (d \o r) \o <<x>>
    BY ONLY d \in Seq(S), <2>3, <2>1, ConcatAssociative
  <2> QED
    BY <2>2, <2>4
<1> QED
  BY <1>4, <1>5

\* The first element leaves the front part of a concatenation.
LEMMA TailOfConcat ==
    ASSUME NEW S, NEW s \in Seq(S), s # <<>>, NEW r \in Seq(S)
    PROVE  s \o r # <<>> /\ Tail(s \o r) = Tail(s) \o r
<1>1. Tail(s) \in Seq(S) /\ Head(s) \in S /\ s = <<Head(s)>> \o Tail(s)
  OBVIOUS
<1>2. s \o r = <<Head(s)>> \o (Tail(s) \o r)
  <2>1. <<Head(s)>> \in Seq(S)
    BY <1>1
  <2> QED
    BY <1>1, <2>1, ConcatAssociative
<1>3. Tail(s) \o r \in Seq(S)
  BY <1>1, ConcatProperties
<1> QED
  BY <1>1, <1>2, <1>3
----------------------------------------------------------------------------
(* Counters that wrap around.                                              *)

LEMMA Division ==
    ASSUME NEW U \in Nat \ {0}, NEW x \in Int
    PROVE  \E p \in Int, m \in 0 .. U - 1 : x = U * p + m /\ x % U = m
  OBVIOUS

\* A remainder is the only one of its range.
LEMMA RemainderUnique ==
    ASSUME NEW U \in Nat \ {0}, NEW x \in Int, NEW q \in Int, NEW r \in 0 .. U - 1, x = U * q + r
    PROVE  x % U = r
<1>1. PICK p \in Int, m \in 0 .. U - 1 : x = U * p + m /\ x % U = m
  BY ONLY U \in Nat \ {0}, x \in Int, Division
<1>2. CASE p = q
  BY <1>1, <1>2
<1>3. CASE p < q
  <2>1. U * q >= U * p + U
    <3>1. q - p - 1 \in Nat
      BY <1>1, <1>3
    <3>2. U * (q - p - 1) \in Nat
      BY <3>1
    <3> QED
      BY <3>2, <1>1
  <2> QED
    BY <2>1, <1>1
<1>4. CASE q < p
  <2>1. U * p >= U * q + U
    <3>1. p - q - 1 \in Nat
      BY <1>1, <1>4
    <3>2. U * (p - q - 1) \in Nat
      BY <3>1
    <3> QED
      BY <3>2, <1>1
  <2> QED
    BY <2>1, <1>1
<1> QED
  BY <1>1, <1>2, <1>3, <1>4

\* Counters that wrap around add up.
LEMMA WrappedSum ==
    ASSUME NEW U \in Nat \ {0}, NEW a \in Int, NEW b \in Int
    PROVE  ((a % U) + b) % U = (a + b) % U
<1>1. PICK p \in Int, m \in 0 .. U - 1 : a = U * p + m /\ a % U = m
  BY Division
<1>2. PICK q \in Int, r \in 0 .. U - 1 : m + b = U * q + r /\ (m + b) % U = r
  <2>1. m + b \in Int
    BY <1>1
  <2> QED
    BY <2>1
<1>3. a + b = U * (p + q) + r
  BY <1>1, <1>2
<1>4. (a + b) % U = r
  <2>1. p + q \in Int /\ a + b \in Int
    BY <1>1, <1>2
  <2> QED
    BY <1>2, <1>3, <2>1, RemainderUnique
<1> QED
  BY <1>1, <1>2, <1>4

----------------------------------------------------------------------------
(* The inductive invariant.                                                *)

Labels == {"idle", "run", "place", "cas", "count", "high", "normal", "steal",
           "move", "popStolen"}

TypeInv ==
    /\ deque \in [Workers -> [Priorities -> Seq(Tasks)]]
    /\ global \in [Priorities -> Seq(Tasks)]
    /\ io \in Seq(Tasks) /\ head \in Seq(Tasks) /\ drained \in Seq(Tasks)
    /\ count \in Int /\ drains \in Nat
    /\ pc \in [Threads -> Labels]
    /\ calls \in [Threads -> Seq(Seq(Tasks))] /\ todo \in [Threads -> Seq(Tasks)]
    /\ moving \in [Workers -> Seq(Tasks)]

\* A push has a task in hand, and only a worker moves the tasks of a batch.
LabelInv == \A t \in Threads :
    /\ pc[t] \in {"cas", "count"} => todo[t] # <<>>
    /\ pc[t] \in {"move", "popStolen"} => t \in Workers

\* Only a drain under way has tasks to execute.
DrainInv == drains = 0 => drained = <<>>

IInv == TypeInv /\ LabelInv /\ DrainInv /\ MainCountExact

\* A step of t that leaves the main-thread queue and its count alone.
Quiet(t) ==
    /\ UNCHANGED <<head, count, drained, drains>>
    /\ pc[t] # "count" /\ pc'[t] # "count"
    /\ \A u \in Threads \ {t} : pc'[u] = pc[u]

----------------------------------------------------------------------------
(* Parts of steps.                                                         *)

LEMMA Constants ==
    /\ Workers \subseteq Threads /\ Main \in Threads
    /\ IsFiniteSet(Threads) /\ USIZE \in Nat \ {0} /\ BATCH \in Nat \ {0}
    /\ Priority \in [Tasks -> Priorities]
    /\ \A x \in Tasks : Calls[x] \in Seq(Seq(Tasks))
<1>1. IsFiniteSet(Workers \cup IOWorkers)
  BY RoutingAssumption, FS_Union
<1>2. IsFiniteSet(Threads)
  BY <1>1, RoutingAssumption, FS_Union DEF Threads
<1> QED
  BY <1>2, RoutingAssumption DEF Threads

LEMMA GotoEffect ==
    ASSUME TypeInv, NEW t \in Threads, NEW l \in Labels, Goto(t, l)
    PROVE  /\ pc' \in [Threads -> Labels] /\ pc'[t] = l
           /\ \A u \in Threads \ {t} : pc'[u] = pc[u]
  BY DEF TypeInv, Goto

LEMMA StartEffect ==
    ASSUME TypeInv, LabelInv, NEW t \in Threads, NEW x \in Tasks, Start(t, x)
    PROVE  /\ pc' \in [Threads -> Labels] /\ pc'[t] = "run"
           /\ \A u \in Threads \ {t} : pc'[u] = pc[u]
           /\ calls' \in [Threads -> Seq(Seq(Tasks))]
           /\ UNCHANGED <<todo, moving>> /\ LabelInv'
<1>1. Goto(t, "run") /\ "run" \in Labels
  BY DEF Start, Labels
<1>2. pc' \in [Threads -> Labels] /\ pc'[t] = "run" /\ \A u \in Threads \ {t} : pc'[u] = pc[u]
  BY <1>1, GotoEffect
<1>3. calls' = [calls EXCEPT ![t] = Calls[x]] /\ Calls[x] \in Seq(Seq(Tasks))
  BY Constants DEF Start
<1>4. calls' \in [Threads -> Seq(Seq(Tasks))]
  BY <1>3 DEF TypeInv
<1>5. UNCHANGED <<todo, moving>>
  BY DEF Start
<1>6. LabelInv'
  BY <1>2, <1>5 DEF LabelInv
<1> QED
  BY <1>2, <1>4, <1>5, <1>6

\* The task at hand of a call leaves its list.
LEMMA Next1Type ==
    ASSUME TypeInv, NEW t \in Threads, todo[t] # <<>>, Next1(t)
    PROVE  /\ todo' \in [Threads -> Seq(Tasks)] /\ Head(todo[t]) \in Tasks
           /\ \A u \in Threads \ {t} : todo'[u] = todo[u]
<1>1. todo[t] \in Seq(Tasks)
  BY DEF TypeInv
<1>2. Tail(todo[t]) \in Seq(Tasks) /\ Head(todo[t]) \in Tasks
  BY <1>1
<1> QED
  BY <1>2 DEF TypeInv, Next1

LEMMA FirstType == \A d : First(d) \in Priorities
  BY DEF First, Priorities

LEMMA DequeUpdate ==
    ASSUME TypeInv, NEW w \in Workers, NEW p \in Priorities, NEW s \in Seq(Tasks)
    PROVE  /\ deque[w][p] \in Seq(Tasks)
           /\ [deque EXCEPT ![w][p] = s] \in [Workers -> [Priorities -> Seq(Tasks)]]
<1>1. deque[w] \in [Priorities -> Seq(Tasks)]
  BY DEF TypeInv
<1>2. [deque[w] EXCEPT ![p] = s] \in [Priorities -> Seq(Tasks)]
  BY <1>1
<1> QED
  BY <1>1, <1>2 DEF TypeInv

LEMMA GlobalUpdate ==
    ASSUME TypeInv, NEW p \in Priorities, NEW s \in Seq(Tasks)
    PROVE  /\ global[p] \in Seq(Tasks)
           /\ [global EXCEPT ![p] = s] \in [Priorities -> Seq(Tasks)]
  BY DEF TypeInv

\* The label of t alone, changed to one without a condition.
LEMMA LabelFrame ==
    ASSUME LabelInv, NEW t \in Threads, UNCHANGED todo,
           pc'[t] \notin {"cas", "count", "move", "popStolen"},
           \A u \in Threads \ {t} : pc'[u] = pc[u]
    PROVE  LabelInv'
  BY DEF LabelInv

----------------------------------------------------------------------------
(* The steps that leave the main-thread queue alone.                       *)

LEMMA BeginCallQuiet ==
    ASSUME TypeInv, LabelInv, NEW t \in Threads, BeginCall(t)
    PROVE  TypeInv' /\ LabelInv' /\ Quiet(t)
<1>1. /\ pc[t] \in {"idle", "run"} /\ calls[t] # <<>> /\ Goto(t, "place")
      /\ todo' = [todo EXCEPT ![t] = Head(calls[t])]
      /\ calls' = [calls EXCEPT ![t] = Tail(calls[t])]
      /\ UNCHANGED <<deque, global, io, head, count, drained, drains, moving>>
  BY DEF BeginCall, queues, main, search
<1>2. /\ pc' \in [Threads -> Labels] /\ pc'[t] = "place"
      /\ \A u \in Threads \ {t} : pc'[u] = pc[u]
  BY <1>1, GotoEffect DEF Labels
<1>3. Head(calls[t]) \in Seq(Tasks) /\ Tail(calls[t]) \in Seq(Seq(Tasks))
  <2>1. calls[t] \in Seq(Seq(Tasks))
    BY DEF TypeInv
  <2> QED
    BY <1>1, <2>1
<1>4. calls' \in [Threads -> Seq(Seq(Tasks))] /\ todo' \in [Threads -> Seq(Tasks)]
  BY <1>1, <1>3 DEF TypeInv
<1>5. TypeInv'
  BY <1>1, <1>2, <1>4 DEF TypeInv
<1>6. \A u \in Threads \ {t} : todo'[u] = todo[u]
  BY <1>1 DEF TypeInv
<1>7. LabelInv'
  BY <1>2, <1>6 DEF LabelInv
<1> QED
  BY <1>1, <1>2, <1>5, <1>7 DEF Quiet

\* A thread in the middle of a call, with a task to place.
LEMMA PlacingFacts ==
    ASSUME TypeInv, LabelInv, NEW t \in Threads, NEW d, Placing(t, d), Next1(t), UNCHANGED pc
    PROVE  /\ Head(todo[t]) \in Tasks /\ todo' \in [Threads -> Seq(Tasks)] /\ LabelInv'
           /\ pc[t] # "count" /\ Priority[Head(todo[t])] \in Priorities
<1>1. pc[t] = "place" /\ todo[t] # <<>>
  BY DEF Placing
<1>2. /\ Head(todo[t]) \in Tasks /\ todo' \in [Threads -> Seq(Tasks)]
      /\ \A u \in Threads \ {t} : todo'[u] = todo[u]
  BY <1>1, Next1Type
<1>3. LabelInv'
  BY <1>1, <1>2 DEF LabelInv
<1> QED
  BY <1>1, <1>2, <1>3, Constants

LEMMA PlaceIOQuiet ==
    ASSUME TypeInv, LabelInv, NEW t \in Threads, PlaceIO(t)
    PROVE  TypeInv' /\ LabelInv' /\ Quiet(t)
<1>1. /\ Placing(t, "IO") /\ Next1(t) /\ io' = Append(io, Head(todo[t]))
      /\ UNCHANGED <<deque, global, head, count, drained, drains, moving, calls, pc>>
  BY DEF PlaceIO, main, search
<1>2. Head(todo[t]) \in Tasks /\ todo' \in [Threads -> Seq(Tasks)] /\ LabelInv' /\ pc[t] # "count"
  BY <1>1, PlacingFacts
<1>3. io' \in Seq(Tasks)
  BY <1>1, <1>2 DEF TypeInv
<1>4. TypeInv'
  BY <1>1, <1>2, <1>3 DEF TypeInv
<1> QED
  BY <1>1, <1>2, <1>4 DEF Quiet

LEMMA PlaceLocalQuiet ==
    ASSUME TypeInv, LabelInv, NEW t \in Threads, PlaceLocal(t)
    PROVE  TypeInv' /\ LabelInv' /\ Quiet(t)
<1> PICK x : x = Head(todo[t])
  OBVIOUS
<1>1. /\ Placing(t, "Worker") /\ Next1(t) /\ t \in Workers
      /\ deque' = [deque EXCEPT ![t][Priority[x]] = Append(deque[t][Priority[x]], x)]
      /\ UNCHANGED <<global, io, head, count, drained, drains, moving, calls, pc>>
  BY DEF PlaceLocal, main, search
<1>2. /\ x \in Tasks /\ todo' \in [Threads -> Seq(Tasks)] /\ LabelInv' /\ pc[t] # "count"
      /\ Priority[x] \in Priorities
  BY <1>1, PlacingFacts
<1>3. deque[t][Priority[x]] \in Seq(Tasks)
  BY <1>1, <1>2 DEF TypeInv
<1>4. Append(deque[t][Priority[x]], x) \in Seq(Tasks)
  BY <1>2, <1>3
<1>5. deque' \in [Workers -> [Priorities -> Seq(Tasks)]]
  BY <1>1, <1>2, <1>4, DequeUpdate
<1>6. TypeInv'
  BY <1>1, <1>2, <1>5 DEF TypeInv
<1> QED
  BY <1>1, <1>2, <1>6 DEF Quiet

LEMMA PlaceGlobalQuiet ==
    ASSUME TypeInv, LabelInv, NEW t \in Threads, PlaceGlobal(t)
    PROVE  TypeInv' /\ LabelInv' /\ Quiet(t)
<1> PICK x : x = Head(todo[t])
  OBVIOUS
<1>1. /\ Placing(t, "Worker") /\ Next1(t)
      /\ global' = [global EXCEPT ![Priority[x]] = Append(global[Priority[x]], x)]
      /\ UNCHANGED <<deque, io, head, count, drained, drains, moving, calls, pc>>
  BY DEF PlaceGlobal, main, search
<1>2. /\ x \in Tasks /\ todo' \in [Threads -> Seq(Tasks)] /\ LabelInv' /\ pc[t] # "count"
      /\ Priority[x] \in Priorities
  BY <1>1, PlacingFacts
<1>3. global[Priority[x]] \in Seq(Tasks)
  BY <1>2 DEF TypeInv
<1>4. Append(global[Priority[x]], x) \in Seq(Tasks)
  BY <1>2, <1>3
<1>5. global' \in [Priorities -> Seq(Tasks)]
  BY <1>1, <1>2, <1>4, GlobalUpdate
<1>6. TypeInv'
  BY <1>1, <1>2, <1>5 DEF TypeInv
<1> QED
  BY <1>1, <1>2, <1>6 DEF Quiet

LEMMA WakeForRoomQuiet ==
    ASSUME TypeInv, LabelInv, NEW t \in Threads, WakeForRoom(t)
    PROVE  TypeInv' /\ LabelInv' /\ Quiet(t)
<1>1. /\ pc[t] = "place"
      /\ UNCHANGED <<deque, global, io, head, count, drained, drains, moving, calls, todo, pc>>
  BY DEF WakeForRoom, Placing, queues, main, search, call
<1>2. TypeInv' /\ LabelInv'
  BY <1>1 DEF TypeInv, LabelInv
<1> QED
  BY <1>1, <1>2 DEF Quiet

LEMMA PushLoadQuiet ==
    ASSUME TypeInv, LabelInv, NEW t \in Threads, PushLoad(t)
    PROVE  TypeInv' /\ LabelInv' /\ Quiet(t)
<1>1. /\ pc[t] = "place" /\ todo[t] # <<>> /\ Goto(t, "cas")
      /\ UNCHANGED <<deque, global, io, head, count, drained, drains, moving, calls, todo>>
  BY DEF PushLoad, Placing, queues, search, call
<1>2. /\ pc' \in [Threads -> Labels] /\ pc'[t] = "cas"
      /\ \A u \in Threads \ {t} : pc'[u] = pc[u]
  BY <1>1, GotoEffect DEF Labels
<1>3. TypeInv'
  BY <1>1, <1>2 DEF TypeInv
<1>4. LabelInv'
  BY <1>1, <1>2 DEF LabelInv
<1> QED
  BY <1>1, <1>2, <1>3, <1>4 DEF Quiet

\* A step of t that changes no list and ends at a label without a condition.
LEMMA MoveOnQuiet ==
    ASSUME TypeInv, LabelInv, NEW t \in Threads, NEW l \in Labels, Goto(t, l), pc[t] # "count",
           l \notin {"cas", "count", "move", "popStolen"},
           UNCHANGED <<deque, global, io, head, count, drained, drains, moving, calls, todo>>
    PROVE  TypeInv' /\ LabelInv' /\ Quiet(t)
<1>1. /\ pc' \in [Threads -> Labels] /\ pc'[t] = l
      /\ \A u \in Threads \ {t} : pc'[u] = pc[u]
  BY GotoEffect
<1>2. TypeInv'
  BY <1>1 DEF TypeInv
<1>3. LabelInv'
  BY <1>1, LabelFrame
<1> QED
  BY <1>1, <1>2, <1>3 DEF Quiet

LEMMA EndCallQuiet ==
    ASSUME TypeInv, LabelInv, NEW t \in Threads, EndCall(t)
    PROVE  TypeInv' /\ LabelInv' /\ Quiet(t)
<1> PICK l : l = IF cur[t] = None THEN "idle" ELSE "run"
  OBVIOUS
<1>1. /\ pc[t] = "place" /\ Goto(t, l)
      /\ UNCHANGED <<deque, global, io, head, count, drained, drains, moving, calls, todo>>
  BY DEF EndCall, queues, main, search
<1>2. l \in Labels /\ l \notin {"cas", "count", "move", "popStolen"}
  BY DEF Labels
<1> QED
  BY <1>1, <1>2, MoveOnQuiet

LEMMA FinishQuiet ==
    ASSUME TypeInv, LabelInv, NEW t \in Threads, Finish(t)
    PROVE  TypeInv' /\ LabelInv' /\ Quiet(t)
<1>1. /\ pc[t] = "run" /\ Goto(t, "idle")
      /\ UNCHANGED <<deque, global, io, head, count, drained, drains, moving, calls, todo>>
  BY DEF Finish, queues, main, search, call
<1>2. "idle" \in Labels /\ "idle" \notin {"cas", "count", "move", "popStolen"}
  BY DEF Labels
<1> QED
  BY <1>1, <1>2, MoveOnQuiet

LEMMA PopStolenMissQuiet ==
    ASSUME TypeInv, LabelInv, NEW t \in Threads, PopStolenMiss(t)
    PROVE  TypeInv' /\ LabelInv' /\ Quiet(t)
<1>1. /\ pc[t] = "popStolen" /\ Goto(t, "idle")
      /\ UNCHANGED <<deque, global, io, head, count, drained, drains, moving, calls, todo>>
  BY DEF PopStolenMiss, queues, main, search, call
<1>2. "idle" \in Labels /\ "idle" \notin {"cas", "count", "move", "popStolen"}
  BY DEF Labels
<1> QED
  BY <1>1, <1>2, MoveOnQuiet

LEMMA SearchQuiet ==
    ASSUME TypeInv, LabelInv, NEW t \in Threads, Search(t)
    PROVE  TypeInv' /\ LabelInv' /\ Quiet(t)
<1>1. /\ pc[t] = "idle" /\ Goto(t, "high")
      /\ UNCHANGED <<deque, global, io, head, count, drained, drains, moving, calls, todo>>
  BY DEF Search, MaySearch, queues, main, search, call
<1>2. "high" \in Labels /\ "high" \notin {"cas", "count", "move", "popStolen"}
  BY DEF Labels
<1> QED
  BY <1>1, <1>2, MoveOnQuiet

LEMMA SearchEndsQuiet ==
    ASSUME TypeInv, LabelInv, NEW t \in Threads, SearchEnds(t)
    PROVE  TypeInv' /\ LabelInv' /\ Quiet(t)
<1>1. /\ pc[t] = "steal" /\ Goto(t, "idle")
      /\ UNCHANGED <<deque, global, io, head, count, drained, drains, moving, calls, todo>>
  BY DEF SearchEnds, queues, main, search, call
<1>2. "idle" \in Labels /\ "idle" \notin {"cas", "count", "move", "popStolen"}
  BY DEF Labels
<1> QED
  BY <1>1, <1>2, MoveOnQuiet

LEMMA StealMissQuiet ==
    ASSUME TypeInv, LabelInv, NEW t \in Threads, NEW v \in Workers, StealMiss(t, v)
    PROVE  TypeInv' /\ LabelInv' /\ Quiet(t)
<1>1. /\ pc[t] = "steal"
      /\ UNCHANGED <<deque, global, io, head, count, drained, drains, moving, calls, todo, pc>>
  BY DEF StealMiss, queues, main, call
<1>2. TypeInv' /\ LabelInv'
  BY <1>1 DEF TypeInv, LabelInv
<1> QED
  BY <1>1, <1>2 DEF Quiet

\* A thread starts a task it has taken from a deque or an injection queue.
LEMMA TakenQuiet ==
    ASSUME TypeInv, LabelInv, NEW t \in Threads, NEW x \in Tasks, Start(t, x), pc[t] # "count",
           deque' \in [Workers -> [Priorities -> Seq(Tasks)]],
           global' \in [Priorities -> Seq(Tasks)], io' \in Seq(Tasks), UNCHANGED main
    PROVE  TypeInv' /\ LabelInv' /\ Quiet(t)
<1>1. /\ pc' \in [Threads -> Labels] /\ pc'[t] = "run"
      /\ \A u \in Threads \ {t} : pc'[u] = pc[u]
      /\ calls' \in [Threads -> Seq(Seq(Tasks))]
      /\ UNCHANGED <<todo, moving>> /\ LabelInv'
  BY StartEffect
<1>2. UNCHANGED <<head, count, drained, drains>>
  BY DEF main
<1>3. TypeInv'
  BY <1>1, <1>2 DEF TypeInv
<1> QED
  BY <1>1, <1>2, <1>3 DEF Quiet

LEMMA IOTakeQuiet ==
    ASSUME TypeInv, LabelInv, NEW t \in Threads, IOTake(t)
    PROVE  TypeInv' /\ LabelInv' /\ Quiet(t)
<1>1. /\ pc[t] = "idle" /\ io # <<>> /\ io' = Tail(io) /\ Start(t, Head(io))
      /\ UNCHANGED <<deque, global>> /\ UNCHANGED main
  BY DEF IOTake
<1>2. io \in Seq(Tasks)
  BY DEF TypeInv
<1>3. Head(io) \in Tasks /\ io' \in Seq(Tasks)
  BY <1>1, <1>2
<1>4. deque' \in [Workers -> [Priorities -> Seq(Tasks)]] /\ global' \in [Priorities -> Seq(Tasks)]
  BY <1>1 DEF TypeInv
<1>5. pc[t] # "count"
  BY <1>1
<1> QED
  BY <1>1, <1>3, <1>4, <1>5, TakenQuiet

LEMMA PopOwnQuiet ==
    ASSUME TypeInv, LabelInv, NEW t \in Threads, PopOwn(t)
    PROVE  TypeInv' /\ LabelInv' /\ Quiet(t)
<1> PICK p : p = First(deque[t])
  OBVIOUS
<1> PICK q : q = deque[t][p]
  OBVIOUS
<1>1. /\ t \in Workers /\ q # <<>>
      /\ deque' = [deque EXCEPT ![t][p] = Front(q)]
      /\ Start(t, Last(q)) /\ UNCHANGED <<global, io>> /\ UNCHANGED main
  BY DEF PopOwn
<1>2. pc[t] # "count"
  BY DEF PopOwn, MaySearch
<1>3. p \in Priorities
  BY FirstType
<1>4. q \in Seq(Tasks)
  BY <1>1, <1>3 DEF TypeInv
<1>5. Len(q) \in Nat /\ Len(q) >= 1
  BY <1>1, <1>4
<1>6. Last(q) \in Tasks
  BY <1>4, <1>5 DEF Last
<1>7. Front(q) \in Seq(Tasks)
  BY <1>4, <1>5 DEF Front
<1>8. deque' \in [Workers -> [Priorities -> Seq(Tasks)]]
  BY <1>1, <1>3, <1>7, DequeUpdate
<1>9. global' \in [Priorities -> Seq(Tasks)] /\ io' \in Seq(Tasks)
  BY <1>1 DEF TypeInv
<1> QED
  BY <1>1, <1>2, <1>6, <1>8, <1>9, TakenQuiet

LEMMA TakeGlobalQuiet ==
    ASSUME TypeInv, LabelInv, NEW t \in Threads, NEW p \in Priorities, TakeGlobal(t, p)
    PROVE  TypeInv' /\ LabelInv' /\ Quiet(t)
<1>1. pc[t] # "count" /\ UNCHANGED <<deque, io>> /\ UNCHANGED main
  BY DEF TakeGlobal, Priorities
<1>2. CASE global[p] # <<>>
  <2>1. global' = [global EXCEPT ![p] = Tail(global[p])] /\ Start(t, Head(global[p]))
    BY <1>2 DEF TakeGlobal
  <2>2. global[p] \in Seq(Tasks)
    BY DEF TypeInv
  <2>3. Head(global[p]) \in Tasks /\ Tail(global[p]) \in Seq(Tasks)
    BY <1>2, <2>2
  <2>4. global' \in [Priorities -> Seq(Tasks)]
    BY <2>1, <2>3, GlobalUpdate
  <2>5. deque' \in [Workers -> [Priorities -> Seq(Tasks)]] /\ io' \in Seq(Tasks)
    BY <1>1 DEF TypeInv
  <2> QED
    BY <1>1, <2>1, <2>3, <2>4, <2>5, TakenQuiet
<1>3. CASE global[p] = <<>>
  <2> PICK l : l = IF p = "high" THEN "normal" ELSE "steal"
    OBVIOUS
  <2>1. Goto(t, l) /\ UNCHANGED <<global, moving, calls, todo>>
    BY <1>3 DEF TakeGlobal, call
  <2>2. l \in Labels /\ l \notin {"cas", "count", "move", "popStolen"}
    BY DEF Labels
  <2>3. UNCHANGED <<deque, global, io, head, count, drained, drains, moving, calls, todo>>
    BY <1>1, <2>1 DEF main
  <2> QED
    BY <1>1, <2>1, <2>2, <2>3, MoveOnQuiet
<1> QED
  BY <1>2, <1>3

\* A batch steal takes at least one task of the victim and no more than it has.
LEMMA BatchSizeRange ==
    ASSUME NEW q \in Seq(Tasks), q # <<>>
    PROVE  BatchSize(q) \in 1 .. Len(q)
<1>1. Len(q) \in Nat /\ Len(q) >= 1
  OBVIOUS
<1>2. (Len(q) + 1) \div 2 \in 1 .. Len(q)
  <2>1. \A n \in Nat : n >= 1 => (n + 1) \div 2 \in 1 .. n
    OBVIOUS
  <2> QED
    BY <1>1, <2>1
<1>3. BATCH \in Nat /\ BATCH >= 1
  BY Constants
<1> QED
  BY <1>1, <1>2, <1>3 DEF BatchSize

LEMMA StealBatchQuiet ==
    ASSUME TypeInv, LabelInv, NEW t \in Threads, NEW v \in Workers, StealBatch(t, v)
    PROVE  TypeInv' /\ LabelInv' /\ Quiet(t)
<1> PICK p : p = First(deque[v])
  OBVIOUS
<1> PICK q : q = deque[v][p]
  OBVIOUS
<1> PICK n : n = BatchSize(q)
  OBVIOUS
<1> PICK rest : rest = SubSeq(q, n + 1, Len(q))
  OBVIOUS
<1>1. /\ pc[t] = "steal" /\ t \in Workers /\ q # <<>> /\ Goto(t, "move")
      /\ moving' = [moving EXCEPT ![t] = SubSeq(q, 1, n)]
      /\ deque' = [deque EXCEPT ![v][p] = rest]
      /\ UNCHANGED <<global, io, head, count, drained, drains, calls, todo>>
  BY DEF StealBatch, main, call
<1>2. p \in Priorities
  BY FirstType
<1>3. q \in Seq(Tasks)
  BY <1>2 DEF TypeInv
<1>4. n \in 1 .. Len(q) /\ Len(q) \in Nat
  BY <1>1, <1>3, BatchSizeRange
<1>5. SubSeq(q, 1, n) \in Seq(Tasks) /\ rest \in Seq(Tasks)
  BY <1>3, <1>4, SubSeqProperties
<1>6. deque' \in [Workers -> [Priorities -> Seq(Tasks)]]
  <2>1. rest \in Seq(Tasks)
    BY <1>5
  <2>2. [deque EXCEPT ![v][p] = rest] \in [Workers -> [Priorities -> Seq(Tasks)]]
    BY ONLY <1>2, <2>1, v \in Workers, TypeInv, DequeUpdate
  <2> QED
    BY <1>1, <2>2
<1>7. moving' \in [Workers -> Seq(Tasks)]
  BY <1>1, <1>5 DEF TypeInv
<1>8. /\ pc' \in [Threads -> Labels] /\ pc'[t] = "move"
      /\ \A u \in Threads \ {t} : pc'[u] = pc[u]
  BY <1>1, GotoEffect DEF Labels
<1>9. TypeInv'
  BY <1>1, <1>6, <1>7, <1>8 DEF TypeInv
<1>10. LabelInv'
  BY <1>1, <1>8 DEF LabelInv
<1> QED
  BY <1>1, <1>8, <1>9, <1>10 DEF Quiet

LEMMA MoveQuiet ==
    ASSUME TypeInv, LabelInv, NEW t \in Threads, Move(t)
    PROVE  TypeInv' /\ LabelInv' /\ Quiet(t)
<1> PICK x : x = Head(moving[t])
  OBVIOUS
<1> PICK l : l = IF Len(moving[t]) = 1 THEN "popStolen" ELSE "move"
  OBVIOUS
<1>1. /\ pc[t] = "move" /\ moving[t] # <<>> /\ Goto(t, l)
      /\ deque' = [deque EXCEPT ![t][Priority[x]] = Append(deque[t][Priority[x]], x)]
      /\ moving' = [moving EXCEPT ![t] = Tail(moving[t])]
      /\ UNCHANGED <<global, io, head, count, drained, drains, calls, todo>>
  BY DEF Move, main, call
<1>2. t \in Workers
  BY <1>1 DEF LabelInv
<1>3. moving[t] \in Seq(Tasks)
  BY <1>2 DEF TypeInv
<1>4. x \in Tasks /\ Tail(moving[t]) \in Seq(Tasks)
  BY <1>1, <1>3
<1>5. Priority[x] \in Priorities
  BY <1>4, Constants
<1>6. deque[t][Priority[x]] \in Seq(Tasks)
  BY <1>2, <1>5 DEF TypeInv
<1>7. Append(deque[t][Priority[x]], x) \in Seq(Tasks)
  BY <1>4, <1>6
<1>8. deque' \in [Workers -> [Priorities -> Seq(Tasks)]]
  BY <1>1, <1>2, <1>5, <1>7, DequeUpdate
<1>9. moving' \in [Workers -> Seq(Tasks)]
  BY <1>1, <1>4 DEF TypeInv
<1>10. l \in Labels /\ l \notin {"cas", "count"}
  BY DEF Labels
<1>11. /\ pc' \in [Threads -> Labels] /\ pc'[t] = l
       /\ \A u \in Threads \ {t} : pc'[u] = pc[u]
  BY <1>1, <1>10, GotoEffect
<1>12. TypeInv'
  BY <1>1, <1>8, <1>9, <1>11 DEF TypeInv
<1>13. LabelInv'
  BY <1>1, <1>2, <1>10, <1>11 DEF LabelInv
<1> QED
  BY <1>1, <1>10, <1>11, <1>12, <1>13 DEF Quiet

LEMMA StealOneQuiet ==
    ASSUME TypeInv, LabelInv, NEW t \in Threads, NEW v \in Workers, StealOne(t, v)
    PROVE  TypeInv' /\ LabelInv' /\ Quiet(t)
<1> PICK p : p = First(deque[v])
  OBVIOUS
<1> PICK q : q = deque[v][p]
  OBVIOUS
<1>1. /\ pc[t] = "steal" /\ q # <<>> /\ deque' = [deque EXCEPT ![v][p] = Tail(q)]
      /\ Start(t, Head(q)) /\ UNCHANGED <<global, io>> /\ UNCHANGED main
  BY DEF StealOne
<1>2. p \in Priorities
  BY FirstType
<1>3. q \in Seq(Tasks)
  BY <1>2 DEF TypeInv
<1>4. Head(q) \in Tasks /\ Tail(q) \in Seq(Tasks)
  BY <1>1, <1>3
<1>5. deque' \in [Workers -> [Priorities -> Seq(Tasks)]]
  BY <1>1, <1>2, <1>4, DequeUpdate
<1>6. global' \in [Priorities -> Seq(Tasks)] /\ io' \in Seq(Tasks)
  BY <1>1 DEF TypeInv
<1>7. pc[t] # "count"
  BY <1>1
<1> QED
  BY <1>1, <1>4, <1>5, <1>6, <1>7, TakenQuiet

LEMMA ThreadStepCases ==
    ASSUME TypeInv, LabelInv, NEW t \in Threads, ThreadStep(t)
    PROVE  (TypeInv' /\ LabelInv' /\ Quiet(t)) \/ PushCas(t) \/ PushCount(t)
<1>1. CASE \E p \in Priorities : TakeGlobal(t, p)
  BY <1>1, TakeGlobalQuiet
<1>2. CASE \E v \in Workers : StealBatch(t, v) \/ StealOne(t, v) \/ StealMiss(t, v)
  BY <1>2, StealBatchQuiet, StealOneQuiet, StealMissQuiet
<1> QED
  BY <1>1, <1>2, BeginCallQuiet, PlaceIOQuiet, PlaceLocalQuiet, PlaceGlobalQuiet,
     WakeForRoomQuiet, PushLoadQuiet, EndCallQuiet, FinishQuiet, IOTakeQuiet, SearchQuiet,
     PopOwnQuiet, PopStolenMissQuiet, MoveQuiet, SearchEndsQuiet DEF ThreadStep

----------------------------------------------------------------------------
(* The main-thread queue and its count.                                    *)

\* The threads between a push and its count.
Uncounted(p) == {t \in Threads : p[t] = "count"}

LEMMA UncountedFinite ==
    ASSUME NEW p
    PROVE  IsFiniteSet(Uncounted(p)) /\ Cardinality(Uncounted(p)) \in Nat
<1>1. Uncounted(p) \subseteq Threads
  BY DEF Uncounted
<1>2. IsFiniteSet(Uncounted(p))
  BY <1>1, Constants, FS_Subset
<1> QED
  BY <1>2, FS_CardinalityType

LEMMA CountExact ==
    MainCountExact <=>
        (count + Cardinality(Uncounted(pc))) % USIZE = (Len(head) + drains) % USIZE
  BY DEF MainCountExact, Uncounted

LEMMA CountExactNext ==
    MainCountExact' <=>
        (count' + Cardinality(Uncounted(pc'))) % USIZE = (Len(head') + drains') % USIZE
  BY DEF MainCountExact, Uncounted

\* Equal counters stay equal when the same amount is added to both.
LEMMA WrappedShift ==
    ASSUME NEW U \in Nat \ {0}, NEW a \in Int, NEW b \in Int, NEW d \in Int, a % U = b % U
    PROVE  (a + d) % U = (b + d) % U
<1>1. ((a % U) + d) % U = (a + d) % U
  BY WrappedSum
<1>2. ((b % U) + d) % U = (b + d) % U
  BY WrappedSum
<1> QED
  BY <1>1, <1>2

LEMMA QuietCount ==
    ASSUME TypeInv, MainCountExact, NEW t \in Threads, Quiet(t)
    PROVE  MainCountExact'
<1>1. Uncounted(pc') = Uncounted(pc)
  BY DEF Quiet, Uncounted
<1> QED
  BY <1>1, CountExact, CountExactNext DEF Quiet

\* The push: the task is the latest of the list, and still to be counted.
LEMMA PushCasSwings ==
    ASSUME IInv, NEW t \in Threads, PushCas(t), HeadOf(head) = oldHead[t]
    PROVE  /\ IInv' /\ UNCHANGED drained
           /\ \E x \in Tasks : head' = <<x>> \o head
<1> PICK x : x = Head(todo[t])
  OBVIOUS
<1>1. /\ pc[t] = "cas" /\ head' = <<x>> \o head /\ Goto(t, "count")
      /\ UNCHANGED <<deque, global, io, count, drained, drains, moving, calls, todo>>
  BY DEF PushCas, queues, search, call
<1>2. TypeInv /\ LabelInv /\ DrainInv /\ MainCountExact
  BY DEF IInv
<1>3. x \in Tasks
  <2>1. todo[t] # <<>> /\ todo[t] \in Seq(Tasks)
    BY <1>1, <1>2 DEF LabelInv, TypeInv
  <2> QED
    BY <2>1
<1>4. head \in Seq(Tasks) /\ Len(head) \in Nat
  BY <1>2 DEF TypeInv
<1>5. head' \in Seq(Tasks) /\ Len(head') = Len(head) + 1
  <2>1. <<x>> \in Seq(Tasks) /\ Len(<<x>>) = 1
    BY <1>3
  <2> QED
    BY <1>1, <1>4, <2>1, ConcatProperties
<1>6. /\ pc' \in [Threads -> Labels] /\ pc'[t] = "count"
      /\ \A u \in Threads \ {t} : pc'[u] = pc[u]
  BY <1>1, <1>2, GotoEffect DEF Labels
<1>7. TypeInv'
  BY <1>1, <1>2, <1>5, <1>6 DEF TypeInv
<1>8. LabelInv'
  BY <1>1, <1>2, <1>6 DEF LabelInv
<1>9. DrainInv'
  BY <1>1, <1>2 DEF DrainInv
<1>10. MainCountExact'
  <2>1. Uncounted(pc') = Uncounted(pc) \cup {t} /\ t \notin Uncounted(pc)
    BY <1>1, <1>6 DEF Uncounted
  <2>2. IsFiniteSet(Uncounted(pc)) /\ Cardinality(Uncounted(pc)) \in Nat
    BY UncountedFinite
  <2>3. Cardinality(Uncounted(pc')) = Cardinality(Uncounted(pc)) + 1
    BY <2>1, <2>2, FS_AddElement
  <2> PICK c : c = Cardinality(Uncounted(pc))
    OBVIOUS
  <2>4. c \in Int /\ count \in Int /\ drains \in Int /\ Len(head) \in Int
    BY <1>2, <1>4, <2>2 DEF TypeInv
  <2>5. (count + c) % USIZE = (Len(head) + drains) % USIZE
    BY <1>2, CountExact
  <2>6. ((count + c) + 1) % USIZE = ((Len(head) + drains) + 1) % USIZE
    <3>1. USIZE \in Nat \ {0} /\ count + c \in Int /\ Len(head) + drains \in Int /\ 1 \in Int
      BY <2>4, Constants
    <3> QED
      BY <2>5, <3>1, WrappedShift
  <2>7. /\ count' + Cardinality(Uncounted(pc')) = (count + c) + 1
        /\ Len(head') + drains' = (Len(head) + drains) + 1
    BY <1>1, <1>5, <2>3, <2>4
  <2> QED
    BY <2>6, <2>7, CountExactNext
<1> QED
  BY <1>1, <1>3, <1>7, <1>8, <1>9, <1>10 DEF IInv

\* The push starts over when the head of the list has changed.
LEMMA PushCasFails ==
    ASSUME IInv, NEW t \in Threads, PushCas(t), HeadOf(head) # oldHead[t]
    PROVE  IInv' /\ UNCHANGED <<head, drained>>
<1>1. /\ pc[t] = "cas"
      /\ UNCHANGED <<deque, global, io, head, count, drained, drains, moving, calls, todo, pc>>
  BY DEF PushCas, queues, search, call
<1>2. TypeInv' /\ LabelInv' /\ DrainInv'
  BY <1>1 DEF IInv, TypeInv, LabelInv, DrainInv
<1>3. MainCountExact'
  BY <1>1, CountExact, CountExactNext DEF IInv
<1> QED
  BY <1>1, <1>2, <1>3 DEF IInv

LEMMA PushCountStep ==
    ASSUME IInv, NEW t \in Threads, PushCount(t)
    PROVE  IInv' /\ UNCHANGED <<head, drained>>
<1>1. /\ pc[t] = "count" /\ count' = (count + 1) % USIZE /\ Next1(t) /\ Goto(t, "place")
      /\ UNCHANGED <<deque, global, io, head, drained, drains, moving, calls>>
  BY DEF PushCount, queues, search
<1>2. TypeInv /\ LabelInv /\ DrainInv /\ MainCountExact
  BY DEF IInv
<1>3. todo' \in [Threads -> Seq(Tasks)] /\ \A u \in Threads \ {t} : todo'[u] = todo[u]
  <2>1. todo[t] # <<>>
    BY <1>1, <1>2 DEF LabelInv
  <2> QED
    BY <1>1, <1>2, <2>1, Next1Type
<1>4. /\ pc' \in [Threads -> Labels] /\ pc'[t] = "place"
      /\ \A u \in Threads \ {t} : pc'[u] = pc[u]
  BY <1>1, <1>2, GotoEffect DEF Labels
<1>5. count \in Int /\ USIZE \in Nat \ {0} /\ count + 1 \in Int
  BY <1>2, Constants DEF TypeInv
<1>6. count' \in Int
  BY <1>1, <1>5
<1>7. TypeInv'
  BY <1>1, <1>2, <1>3, <1>4, <1>6 DEF TypeInv
<1>8. LabelInv'
  BY <1>2, <1>3, <1>4 DEF LabelInv
<1>9. DrainInv'
  BY <1>1, <1>2 DEF DrainInv
<1>10. MainCountExact'
  <2>1. Uncounted(pc') = Uncounted(pc) \ {t} /\ t \in Uncounted(pc)
    BY <1>1, <1>4 DEF Uncounted
  <2>2. IsFiniteSet(Uncounted(pc)) /\ Cardinality(Uncounted(pc)) \in Nat
    BY UncountedFinite
  <2>3. Cardinality(Uncounted(pc')) = Cardinality(Uncounted(pc)) - 1
    BY <2>1, <2>2, FS_RemoveElement
  <2> PICK c : c = Cardinality(Uncounted(pc))
    OBVIOUS
  <2>4. c \in Int /\ c - 1 \in Int
    BY <2>2
  <2>5. (((count + 1) % USIZE) + (c - 1)) % USIZE = ((count + 1) + (c - 1)) % USIZE
    BY <1>5, <2>4, WrappedSum
  <2>6. (count + 1) + (c - 1) = count + c
    BY <1>5, <2>4
  <2>7. (count' + Cardinality(Uncounted(pc'))) % USIZE = (count + c) % USIZE
    BY <1>1, <2>3, <2>5, <2>6
  <2>8. (count + c) % USIZE = (Len(head) + drains) % USIZE
    BY <1>2, CountExact
  <2> QED
    BY <1>1, <2>7, <2>8, CountExactNext
<1> QED
  BY <1>1, <1>7, <1>8, <1>9, <1>10 DEF IInv

LEMMA DrainTakeStep ==
    ASSUME IInv, DrainTake
    PROVE  /\ IInv' /\ drained = <<>>
           /\ drained' = Reverse(head) /\ head' = <<>>
<1>1. /\ drains = 0 /\ head # <<>> /\ drained' = Reverse(head)
      /\ drains' = Len(head) /\ head' = <<>>
      /\ UNCHANGED <<deque, global, io, count, moving, calls, todo, pc>>
  BY DEF DrainTake, SubmissionOrder, queues, search, call
<1>2. TypeInv /\ LabelInv /\ DrainInv /\ MainCountExact
  BY DEF IInv
<1>3. head \in Seq(Tasks) /\ Len(head) \in Nat
  BY <1>2 DEF TypeInv
<1>4. drained' \in Seq(Tasks) /\ head' \in Seq(Tasks) /\ drains' \in Nat
  BY <1>1, <1>3, ReverseType
<1>5. TypeInv'
  BY <1>1, <1>2, <1>4 DEF TypeInv
<1>6. LabelInv'
  BY <1>1, <1>2 DEF LabelInv
<1>7. drained = <<>>
  BY <1>1, <1>2 DEF DrainInv
<1>8. DrainInv'
  <2>1. drains' # 0
    BY <1>1, <1>3
  <2> QED
    BY <2>1 DEF DrainInv
<1>9. MainCountExact'
  <2>1. Len(head') + drains' = Len(head) + drains
    BY <1>1, <1>3
  <2> QED
    BY <1>1, <1>2, <2>1, CountExact, CountExactNext
<1> QED
  BY <1>1, <1>5, <1>6, <1>7, <1>8, <1>9 DEF IInv

LEMMA DrainExecuteStep ==
    ASSUME IInv, DrainExecute
    PROVE  IInv' /\ drained # <<>> /\ drained' = Tail(drained) /\ UNCHANGED head
<1>1. /\ pc[Main] = "idle" /\ drained # <<>> /\ drained' = Tail(drained)
      /\ Start(Main, Head(drained))
      /\ UNCHANGED <<deque, global, io, head, count, drains>>
  BY DEF DrainExecute, queues
<1>2. TypeInv /\ LabelInv /\ DrainInv /\ MainCountExact
  BY DEF IInv
<1>3. drained \in Seq(Tasks)
  BY <1>2 DEF TypeInv
<1>4. Head(drained) \in Tasks /\ drained' \in Seq(Tasks)
  BY <1>1, <1>3
<1>5. /\ pc' \in [Threads -> Labels] /\ pc'[Main] = "run"
      /\ \A u \in Threads \ {Main} : pc'[u] = pc[u]
      /\ calls' \in [Threads -> Seq(Seq(Tasks))]
      /\ UNCHANGED <<todo, moving>> /\ LabelInv'
  BY <1>1, <1>2, <1>4, Constants, StartEffect
<1>6. TypeInv'
  BY <1>1, <1>2, <1>4, <1>5 DEF TypeInv
<1>7. DrainInv'
  BY <1>1, <1>2 DEF DrainInv
<1>8. MainCountExact'
  <2>1. Uncounted(pc') = Uncounted(pc)
    BY <1>1, <1>5 DEF Uncounted
  <2> QED
    BY <1>1, <1>2, <2>1, CountExact, CountExactNext
<1> QED
  BY <1>1, <1>5, <1>6, <1>7, <1>8 DEF IInv

LEMMA DrainEndStep ==
    ASSUME IInv, DrainEnd
    PROVE  IInv' /\ UNCHANGED <<head, drained>>
<1>1. /\ drained = <<>> /\ count' = (count - drains) % USIZE /\ drains' = 0
      /\ UNCHANGED <<deque, global, io, head, drained, moving, calls, todo, pc>>
  BY DEF DrainEnd, queues, search, call
<1>2. TypeInv /\ LabelInv /\ DrainInv /\ MainCountExact
  BY DEF IInv
<1>3. /\ count \in Int /\ USIZE \in Nat \ {0} /\ drains \in Nat /\ Len(head) \in Nat
      /\ count - drains \in Int
  BY <1>2, Constants DEF TypeInv
<1>4. count' \in Int
  BY <1>1, <1>3
<1>5. TypeInv'
  BY <1>1, <1>2, <1>4 DEF TypeInv
<1>6. LabelInv'
  BY <1>1, <1>2 DEF LabelInv
<1>7. DrainInv'
  BY <1>1 DEF DrainInv
<1>8. MainCountExact'
  <2> PICK c : c = Cardinality(Uncounted(pc))
    OBVIOUS
  <2>1. c \in Int
    BY UncountedFinite
  <2>2. (((count - drains) % USIZE) + c) % USIZE = ((count - drains) + c) % USIZE
    BY <1>3, <2>1, WrappedSum
  <2>3. (count + c) % USIZE = (Len(head) + drains) % USIZE
    BY <1>2, CountExact
  <2>4. ((count + c) + (0 - drains)) % USIZE = ((Len(head) + drains) + (0 - drains)) % USIZE
    <3>1. count + c \in Int /\ Len(head) + drains \in Int /\ 0 - drains \in Int
      BY <1>3, <2>1
    <3>2. USIZE \in Nat \ {0}
      BY <1>3
    <3> QED
      BY ONLY <2>3, <3>1, <3>2, WrappedShift
  <2>5. /\ (count - drains) + c = (count + c) + (0 - drains)
        /\ (Len(head) + drains) + (0 - drains) = Len(head) + 0
    BY <1>3, <2>1
  <2>6. (count' + Cardinality(Uncounted(pc'))) % USIZE = (Len(head') + drains') % USIZE
    BY <1>1, <2>2, <2>4, <2>5
  <2> QED
    BY <2>6, CountExactNext
<1> QED
  BY <1>1, <1>5, <1>6, <1>7, <1>8 DEF IInv

LEMMA QuietStep ==
    ASSUME IInv, NEW t \in Threads, TypeInv', LabelInv', Quiet(t)
    PROVE  IInv' /\ UNCHANGED <<head, drained>>
<1>1. MainCountExact'
  BY QuietCount DEF IInv
<1>2. UNCHANGED <<head, drained, drains>>
  BY DEF Quiet
<1>3. DrainInv'
  BY <1>2 DEF IInv, DrainInv
<1> QED
  BY <1>1, <1>2, <1>3 DEF IInv

\* Every step, by what it does to the list of the main thread.
LEMMA StepCases ==
    ASSUME IInv, [Next]_vars
    PROVE  /\ IInv'
           /\ \/ UNCHANGED <<head, drained>>
              \/ \E x \in Tasks : head' = <<x>> \o head /\ drained' = drained
              \/ drained = <<>> /\ drained' = Reverse(head) /\ head' = <<>>
              \/ drained # <<>> /\ drained' = Tail(drained) /\ head' = head
<1>1. CASE DrainTake
  BY <1>1, DrainTakeStep
<1>2. CASE DrainExecute
  BY <1>2, DrainExecuteStep
<1>3. CASE DrainEnd
  BY <1>3, DrainEndStep
<1>4. ASSUME NEW t \in Threads, ThreadStep(t)
      PROVE  IInv' /\ (UNCHANGED <<head, drained>>
                       \/ \E x \in Tasks : head' = <<x>> \o head /\ drained' = drained)
  <2>1. TypeInv /\ LabelInv
    BY DEF IInv
  <2>2. (TypeInv' /\ LabelInv' /\ Quiet(t)) \/ PushCas(t) \/ PushCount(t)
    BY <1>4, <2>1, ThreadStepCases
  <2>3. CASE TypeInv' /\ LabelInv' /\ Quiet(t)
    BY <2>3, QuietStep
  <2>4. CASE PushCas(t)
    BY <2>4, PushCasSwings, PushCasFails
  <2>5. CASE PushCount(t)
    BY <2>5, PushCountStep
  <2> QED
    BY <2>2, <2>3, <2>4, <2>5
<1>5. CASE UNCHANGED vars
  <2>1. UNCHANGED <<deque, global, io, head, count, drained, drains, moving, calls, todo, pc>>
    BY <1>5 DEF vars, queues, main, search, call
  <2>2. TypeInv' /\ LabelInv' /\ DrainInv'
    BY <2>1 DEF IInv, TypeInv, LabelInv, DrainInv
  <2>3. MainCountExact'
    BY <2>1, CountExact, CountExactNext DEF IInv
  <2> QED
    BY <2>1, <2>2, <2>3 DEF IInv
<1> QED
  BY <1>1, <1>2, <1>3, <1>4, <1>5 DEF Next, Drain

LEMMA InitIInv == Init => IInv
<1> SUFFICES ASSUME Init PROVE IInv
  OBVIOUS
<1>1. TypeInv
  <2>1. /\ deque = [w \in Workers |-> [p \in Priorities |-> <<>>]]
        /\ global = [p \in Priorities |-> <<>>] /\ io = <<>> /\ head = <<>> /\ count = 0
        /\ drained = <<>> /\ drains = 0 /\ pc = [t \in Threads |-> "idle"]
        /\ todo = [t \in Threads |-> <<>>] /\ moving = [w \in Workers |-> <<>>]
        /\ calls = [t \in Threads |-> IF t \in Externals THEN Calls[t] ELSE <<>>]
    BY DEF Init
  <2>2. <<>> \in Seq(Tasks) /\ <<>> \in Seq(Seq(Tasks))
    OBVIOUS
  <2>3. [p \in Priorities |-> <<>>] \in [Priorities -> Seq(Tasks)]
    BY <2>2
  <2>4. deque \in [Workers -> [Priorities -> Seq(Tasks)]]
    BY <2>1, <2>3
  <2>5. calls \in [Threads -> Seq(Seq(Tasks))]
    <3>1. \A t \in Externals : Calls[t] \in Seq(Seq(Tasks))
      BY RoutingAssumption
    <3> QED
      BY <2>1, <2>2, <3>1
  <2>6. pc \in [Threads -> Labels]
    BY <2>1 DEF Labels
  <2>7. todo \in [Threads -> Seq(Tasks)] /\ moving \in [Workers -> Seq(Tasks)]
    BY <2>1, <2>2
  <2> QED
    BY <2>1, <2>2, <2>3, <2>4, <2>5, <2>6, <2>7 DEF TypeInv
<1>2. LabelInv /\ DrainInv
  BY DEF Init, LabelInv, DrainInv
<1>3. MainCountExact
  <2>1. Uncounted(pc) = {}
    BY DEF Init, Uncounted
  <2>2. Cardinality(Uncounted(pc)) = 0
    BY <2>1, FS_EmptySet
  <2>3. count = 0 /\ Len(head) = 0 /\ drains = 0
    BY DEF Init
  <2> QED
    BY <2>2, <2>3, CountExact
<1> QED
  BY <1>1, <1>2, <1>3 DEF IInv

----------------------------------------------------------------------------
(* Lists without repetitions.                                              *)

LEMMA RangeIs ==
    ASSUME NEW S, NEW s \in Seq(S)
    PROVE  /\ DOMAIN s = 1 .. Len(s) /\ Len(s) \in Nat /\ Range(s) \subseteq S
           /\ \A x : x \in Range(s) <=> \E i \in 1 .. Len(s) : s[i] = x
           /\ IsInjective(s) <=> \A i, j \in 1 .. Len(s) : s[i] = s[j] => i = j
  BY DEF Range, IsInjective

LEMMA ListIs ==
    ASSUME NEW S, NEW s, NEW n, s \in Seq(S) /\ Len(s) = n
    PROVE  /\ \A x : x \in Range(s) <=> \E i \in 1 .. n : s[i] = x
           /\ IsInjective(s) <=> \A i, j \in 1 .. n : s[i] = s[j] => i = j
  BY RangeIs

LEMMA EmptyList == Range(<<>>) = {} /\ IsInjective(<<>>)
  BY DEF Range, IsInjective

LEMMA TailList ==
    ASSUME NEW S, NEW s \in Seq(S), s # <<>>, IsInjective(s)
    PROVE  /\ Tail(s) \in Seq(S) /\ IsInjective(Tail(s)) /\ Head(s) \in Range(s)
           /\ Range(Tail(s)) = Range(s) \ {Head(s)}
<1> PICK n : n = Len(s)
  OBVIOUS
<1> PICK r : r = Tail(s)
  OBVIOUS
<1>1. /\ n \in Nat /\ n >= 1 /\ Head(s) = s[1] /\ r \in Seq(S) /\ Len(r) = n - 1
      /\ \A i \in 1 .. n - 1 : r[i] = s[i + 1]
  OBVIOUS
<1>2. \A i, j \in 1 .. n : s[i] = s[j] => i = j
  BY RangeIs
<1>3. IsInjective(r)
  <2>1. ASSUME NEW i \in 1 .. n - 1, NEW j \in 1 .. n - 1, r[i] = r[j] PROVE i = j
    <3>1. i + 1 \in 1 .. n /\ j + 1 \in 1 .. n /\ s[i + 1] = s[j + 1]
      BY <1>1, <2>1
    <3>2. i + 1 = j + 1
      BY <1>2, <3>1
    <3> QED
      BY <1>1, <3>2
  <2>2. r \in Seq(S) /\ Len(r) = n - 1
    BY <1>1
  <2> QED
    BY ONLY <2>1, <2>2, ListIs
<1>4. ASSUME NEW x PROVE x \in Range(r) <=> x \in Range(s) /\ x # s[1]
  <2>1. x \in Range(r) <=> \E i \in 1 .. n - 1 : r[i] = x
    <3>1. r \in Seq(S) /\ Len(r) = n - 1
      BY <1>1
    <3> QED
      BY ONLY <3>1, ListIs
  <2>2. x \in Range(s) <=> \E i \in 1 .. n : s[i] = x
    BY RangeIs
  <2>3. ASSUME NEW i \in 1 .. n - 1, r[i] = x PROVE x \in Range(s) /\ x # s[1]
    <3>1. i + 1 \in 1 .. n /\ 1 \in 1 .. n /\ s[i + 1] = x /\ i + 1 # 1
      BY <1>1, <2>3
    <3> QED
      BY <1>2, <2>2, <3>1
  <2>4. ASSUME NEW i \in 1 .. n, s[i] = x, x # s[1] PROVE x \in Range(r)
    <3>1. i - 1 \in 1 .. n - 1 /\ (i - 1) + 1 = i
      BY <1>1, <2>4
    <3>2. r[i - 1] = x
      BY <1>1, <2>4, <3>1
    <3> QED
      BY <2>1, <3>1, <3>2
  <2> QED
    BY <2>1, <2>2, <2>3, <2>4
<1>5. Head(s) \in Range(s)
  BY <1>1, RangeIs
<1> QED
  BY <1>1, <1>3, <1>4, <1>5

LEMMA FrontList ==
    ASSUME NEW S, NEW s \in Seq(S), s # <<>>, IsInjective(s)
    PROVE  /\ Front(s) \in Seq(S) /\ IsInjective(Front(s)) /\ Last(s) \in Range(s)
           /\ Range(Front(s)) = Range(s) \ {Last(s)}
<1> PICK n : n = Len(s)
  OBVIOUS
<1> PICK r : r = Front(s)
  OBVIOUS
<1>1. /\ n \in Nat /\ n >= 1 /\ Last(s) = s[n]
  BY DEF Last
<1>2. r \in Seq(S) /\ Len(r) = n - 1 /\ \A i \in 1 .. n - 1 : r[i] = s[i]
  BY <1>1 DEF Front
<1>3. \A i, j \in 1 .. n : s[i] = s[j] => i = j
  BY RangeIs
<1>4. IsInjective(r)
  <2>1. \A i, j \in 1 .. n - 1 : r[i] = r[j] => i = j
    BY <1>1, <1>2, <1>3
  <2> QED
    BY <1>2, <2>1, RangeIs
<1>5. ASSUME NEW x PROVE x \in Range(r) <=> x \in Range(s) /\ x # s[n]
  <2>1. x \in Range(r) <=> \E i \in 1 .. n - 1 : r[i] = x
    BY <1>2, RangeIs
  <2>2. x \in Range(s) <=> \E i \in 1 .. n : s[i] = x
    BY RangeIs
  <2>3. ASSUME NEW i \in 1 .. n - 1, r[i] = x PROVE x \in Range(s) /\ x # s[n]
    <3>1. i \in 1 .. n /\ n \in 1 .. n /\ s[i] = x /\ i # n
      BY <1>1, <1>2, <2>3
    <3> QED
      BY <1>3, <2>2, <3>1
  <2>4. ASSUME NEW i \in 1 .. n, s[i] = x, x # s[n] PROVE x \in Range(r)
    <3>1. i \in 1 .. n - 1
      BY <1>1, <2>4
    <3> QED
      BY <1>2, <2>1, <2>4, <3>1
  <2> QED
    BY <2>1, <2>2, <2>3, <2>4
<1>6. Last(s) \in Range(s)
  BY <1>1, RangeIs
<1> QED
  BY <1>1, <1>2, <1>4, <1>5, <1>6

LEMMA AppendList ==
    ASSUME NEW S, NEW s \in Seq(S), IsInjective(s), NEW x \in S, x \notin Range(s)
    PROVE  IsInjective(Append(s, x)) /\ Range(Append(s, x)) = Range(s) \cup {x}
<1> PICK n : n = Len(s)
  OBVIOUS
<1> PICK r : r = Append(s, x)
  OBVIOUS
<1>1. /\ n \in Nat /\ r \in Seq(S) /\ Len(r) = n + 1 /\ r[n + 1] = x
      /\ \A i \in 1 .. n : r[i] = s[i]
  OBVIOUS
<1>2. /\ \A i, j \in 1 .. n : s[i] = s[j] => i = j
      /\ \A i \in 1 .. n : s[i] # x
      /\ \A y : y \in Range(s) <=> \E i \in 1 .. n : s[i] = y
  BY RangeIs
<1>3. \A i \in 1 .. n + 1 : i \in 1 .. n \/ i = n + 1
  BY <1>1
<1>4. \A i, j \in 1 .. n + 1 : r[i] = r[j] => i = j
  BY <1>1, <1>2, <1>3
<1>5. \A y : (\E i \in 1 .. n + 1 : r[i] = y) <=> y \in Range(s) \cup {x}
  <2>1. n + 1 \in 1 .. n + 1 /\ 1 .. n \subseteq 1 .. n + 1
    BY <1>1
  <2> QED
    BY <1>1, <1>2, <1>3, <2>1
<1>6. r \in Seq(S) /\ Len(r) = n + 1
  BY <1>1
<1>7. IsInjective(r)
  BY ONLY <1>4, <1>6, ListIs
<1>8. \A y : y \in Range(r) <=> \E i \in 1 .. n + 1 : r[i] = y
  BY ONLY <1>6, ListIs
<1> QED
  BY <1>5, <1>7, <1>8

LEMMA PushList ==
    ASSUME NEW S, NEW s \in Seq(S), IsInjective(s), NEW x \in S, x \notin Range(s)
    PROVE  IsInjective(<<x>> \o s) /\ Range(<<x>> \o s) = Range(s) \cup {x}
<1> PICK n : n = Len(s)
  OBVIOUS
<1> PICK r : r = <<x>> \o s
  OBVIOUS
<1>1. /\ n \in Nat /\ r \in Seq(S) /\ Len(r) = n + 1 /\ r[1] = x
      /\ \A i \in 1 .. n : r[i + 1] = s[i]
  <2>1. <<x>> \in Seq(S) /\ Len(<<x>>) = 1 /\ <<x>>[1] = x
    OBVIOUS
  <2>2. /\ r \in Seq(S) /\ Len(r) = 1 + n
        /\ \A i \in 1 .. 1 + n : r[i] = IF i <= 1 THEN <<x>>[i] ELSE s[i - 1]
    BY <2>1, ConcatProperties
  <2>3. n \in Nat
    BY LenProperties
  <2> QED
    BY <2>1, <2>2, <2>3
<1>2. /\ \A i, j \in 1 .. n : s[i] = s[j] => i = j
      /\ \A i \in 1 .. n : s[i] # x
      /\ \A y : y \in Range(s) <=> \E i \in 1 .. n : s[i] = y
  BY RangeIs
<1>3. \A i \in 1 .. n + 1 : i = 1 \/ \E k \in 1 .. n : i = k + 1
  <2>1. \A i \in 1 .. n + 1 : i = 1 \/ (i - 1 \in 1 .. n /\ i = (i - 1) + 1)
    BY <1>1
  <2> QED
    BY <2>1
<1>4. ASSUME NEW i \in 1 .. n + 1, NEW j \in 1 .. n + 1, r[i] = r[j] PROVE i = j
  BY <1>1, <1>2, <1>3, <1>4
<1>5. \A y : (\E i \in 1 .. n + 1 : r[i] = y) <=> y \in Range(s) \cup {x}
  <2>1. 1 \in 1 .. n + 1 /\ \A i \in 1 .. n : i + 1 \in 1 .. n + 1
    BY <1>1
  <2> QED
    BY <1>1, <1>2, <1>3, <2>1
<1>6. r \in Seq(S) /\ Len(r) = n + 1
  BY <1>1
<1>7. IsInjective(r)
  BY ONLY <1>4, <1>6, ListIs
<1>8. \A y : y \in Range(r) <=> \E i \in 1 .. n + 1 : r[i] = y
  BY ONLY <1>6, ListIs
<1> QED
  BY <1>5, <1>7, <1>8

LEMMA ReverseList ==
    ASSUME NEW S, NEW s \in Seq(S), IsInjective(s)
    PROVE  IsInjective(Reverse(s)) /\ Range(Reverse(s)) = Range(s)
<1> PICK n : n = Len(s)
  OBVIOUS
<1> PICK r : r = Reverse(s)
  OBVIOUS
<1>1. n \in Nat /\ r \in Seq(S) /\ Len(r) = n /\ \A i \in 1 .. n : r[i] = s[(n - i) + 1]
  BY ReverseType, LenProperties
<1>2. /\ \A i, j \in 1 .. n : s[i] = s[j] => i = j
      /\ \A y : y \in Range(s) <=> \E i \in 1 .. n : s[i] = y
  BY RangeIs
<1>3. \A i \in 1 .. n : (n - i) + 1 \in 1 .. n /\ (n - ((n - i) + 1)) + 1 = i
  BY <1>1
<1>4. ASSUME NEW i \in 1 .. n, NEW j \in 1 .. n, r[i] = r[j] PROVE i = j
  <2>1. (n - i) + 1 = (n - j) + 1
    <3>1. s[(n - i) + 1] = s[(n - j) + 1]
      BY <1>1, <1>4
    <3>2. (n - i) + 1 \in 1 .. n /\ (n - j) + 1 \in 1 .. n
      BY <1>3
    <3> QED
      BY ONLY <1>2, <3>1, <3>2
  <2> QED
    BY <1>1, <2>1
<1>5. \A y : (\E i \in 1 .. n : r[i] = y) <=> y \in Range(s)
  BY <1>1, <1>2, <1>3
<1>6. r \in Seq(S) /\ Len(r) = n
  BY <1>1
<1>7. IsInjective(r) /\ \A y : y \in Range(r) <=> y \in Range(s)
  BY ONLY <1>4, <1>5, <1>6, ListIs
<1> QED
  BY <1>7

\* A list is cut in two.
LEMMA SplitList ==
    ASSUME NEW S, NEW s \in Seq(S), IsInjective(s), NEW n \in 0 .. Len(s)
    PROVE  LET a == SubSeq(s, 1, n)
               b == SubSeq(s, n + 1, Len(s))
           IN  /\ a \in Seq(S) /\ b \in Seq(S) /\ IsInjective(a) /\ IsInjective(b)
               /\ Range(a) \subseteq Range(s) /\ Range(b) = Range(s) \ Range(a)
<1> PICK l : l = Len(s)
  OBVIOUS
<1> PICK a : a = SubSeq(s, 1, n)
  OBVIOUS
<1> PICK b : b = SubSeq(s, n + 1, Len(s))
  OBVIOUS
<1>1. l \in Nat /\ n \in Nat /\ n <= l
  BY LenProperties
<1>2. a \in Seq(S) /\ Len(a) = n /\ \A i \in 1 .. n : a[i] = s[i]
  BY <1>1, SubSeqProperties
<1>3. b \in Seq(S) /\ Len(b) = l - n /\ \A i \in 1 .. l - n : b[i] = s[n + i]
  BY <1>1, SubSeqProperties
<1>4. \A i, j \in 1 .. l : s[i] = s[j] => i = j
  BY RangeIs
<1>5. /\ \A y : y \in Range(s) <=> \E i \in 1 .. l : s[i] = y
      /\ \A y : y \in Range(a) <=> \E i \in 1 .. n : a[i] = y
      /\ \A y : y \in Range(b) <=> \E i \in 1 .. l - n : b[i] = y
  <2>1. a \in Seq(S) /\ Len(a) = n /\ b \in Seq(S) /\ Len(b) = l - n /\ s \in Seq(S) /\ Len(s) = l
    BY <1>2, <1>3
  <2>2. \A y : y \in Range(s) <=> \E i \in 1 .. l : s[i] = y
    BY ONLY <2>1, ListIs
  <2>3. \A y : y \in Range(a) <=> \E i \in 1 .. n : a[i] = y
    <3>1. a \in Seq(S) /\ Len(a) = n
      BY <2>1
    <3> QED
      BY <3>1, RangeIs
  <2>4. \A y : y \in Range(b) <=> \E i \in 1 .. l - n : b[i] = y
    BY ONLY <2>1, ListIs
  <2> QED
    BY ONLY <2>2, <2>3, <2>4
<1>6. IsInjective(a)
  <2>1. \A i, j \in 1 .. n : a[i] = a[j] => i = j
    BY <1>1, <1>2, <1>4
  <2> QED
    BY <1>2, <2>1, RangeIs
<1>7. IsInjective(b)
  <2>1. ASSUME NEW i \in 1 .. l - n, NEW j \in 1 .. l - n, b[i] = b[j] PROVE i = j
    <3>1. n + i \in 1 .. l /\ n + j \in 1 .. l /\ s[n + i] = s[n + j]
      <4>1. n + i \in 1 .. l /\ n + j \in 1 .. l
        BY <1>1
      <4>2. b[i] = s[n + i] /\ b[j] = s[n + j]
        BY <1>3
      <4> QED
        BY <2>1, <4>1, <4>2
    <3>2. n + i = n + j
      BY <1>4, <3>1
    <3> QED
      BY <1>1, <3>2
  <2>2. b \in Seq(S) /\ Len(b) = l - n
    BY <1>3
  <2> QED
    BY ONLY <2>1, <2>2, ListIs
<1>8. Range(a) \subseteq Range(s)
  <2>1. 1 .. n \subseteq 1 .. l
    BY <1>1
  <2> QED
    BY <1>2, <1>5, <2>1
<1>9. ASSUME NEW y PROVE y \in Range(b) <=> y \in Range(s) /\ y \notin Range(a)
  <2>1. ASSUME NEW i \in 1 .. l - n, b[i] = y PROVE y \in Range(s) /\ y \notin Range(a)
    <3>1. n + i \in 1 .. l /\ s[n + i] = y /\ \A j \in 1 .. n : j \in 1 .. l /\ j # n + i
      <4>1. n + i \in 1 .. l /\ \A j \in 1 .. n : j \in 1 .. l /\ j # n + i
        BY <1>1
      <4>2. b[i] = s[n + i]
        BY <1>3
      <4> QED
        BY <2>1, <4>1, <4>2
    <3> QED
      BY <1>2, <1>4, <1>5, <3>1
  <2>2. ASSUME NEW i \in 1 .. l, s[i] = y, y \notin Range(a) PROVE y \in Range(b)
    <3>1. i \notin 1 .. n
      BY <1>2, <1>5, <2>2
    <3>2. i - n \in 1 .. l - n /\ n + (i - n) = i
      BY <1>1, <3>1
    <3>3. b[i - n] = y
      BY <1>3, <2>2, <3>2
    <3> QED
      BY <1>5, <3>2, <3>3
  <2> QED
    BY <1>5, <2>1, <2>2
<1> QED
  BY <1>2, <1>3, <1>6, <1>7, <1>8, <1>9

----------------------------------------------------------------------------
(* The places of the tasks.                                                *)

\* The tasks of a list of lists, and that it has each of them once.
TasksOf(c) == UNION {Range(c[i]) : i \in DOMAIN c}
OnceIn(c) == \A i, j \in DOMAIN c : \A k \in DOMAIN c[i], l \in DOMAIN c[j] :
                c[i][k] = c[j][l] => i = j /\ k = l

Called(t) == TasksOf(calls[t])

Kinds == {"todo", "calls", "cur", "deque", "moving", "global", "io", "head", "drained",
          "done", "unborn"}

\* x is in the list, or the set, of this kind and key.
Has(kind, key, x) ==
    \/ kind = "todo" /\ key \in Threads /\ x \in Range(Unplaced(key))
    \/ kind = "calls" /\ key \in Threads /\ x \in Called(key)
    \/ kind = "cur" /\ key \in Threads /\ cur[key] = x
    \/ kind = "deque" /\ \E w \in Workers, p \in Priorities :
                            key = <<w, p>> /\ x \in Range(deque[w][p])
    \/ kind = "moving" /\ key \in Workers /\ x \in Range(moving[key])
    \/ kind = "global" /\ key \in Priorities /\ x \in Range(global[key])
    \/ kind = "io" /\ key = None /\ x \in Range(io)
    \/ kind = "head" /\ key = None /\ x \in Range(head)
    \/ kind = "drained" /\ key = None /\ x \in Range(drained)
    \/ kind = "done" /\ key = None /\ x \in done
    \/ kind = "unborn" /\ key = None /\ Unborn(x)

OnePlace == \A x \in Tasks :
    /\ \E k \in Kinds : \E a : Has(k, a, x)
    /\ \A k, l \in Kinds : \A a, b : Has(k, a, x) /\ Has(l, b, x) => k = l /\ a = b

\* No list repeats a task, nor do the lists of the calls of a thread.
CallsOnce(t) == OnceIn(calls[t])

NoRepeats ==
    /\ \A t \in Threads : IsInjective(Unplaced(t)) /\ CallsOnce(t)
    /\ \A w \in Workers, p \in Priorities : IsInjective(deque[w][p])
    /\ \A w \in Workers : IsInjective(moving[w])
    /\ \A p \in Priorities : IsInjective(global[p])
    /\ IsInjective(io) /\ IsInjective(head) /\ IsInjective(drained)

\* What a thread has in hand, by where it is.
Searching == {"high", "normal", "steal", "move", "popStolen"}

Phase(t) ==
    /\ pc[t] \notin {"place", "cas", "count"} => todo[t] = <<>>
    /\ pc[t] \in {"idle"} \cup Searching => cur[t] = None
    /\ pc[t] = "run" => cur[t] # None
    /\ pc[t] \in Searching => calls[t] = <<>>
    /\ calls[t] # <<>> => cur[t] # None \/ t \in Externals

PhaseInv ==
    /\ cur \in [Threads -> Tasks \cup {None}] /\ done \subseteq Tasks
    /\ \A t \in Threads : Phase(t)
    /\ \A w \in Workers : pc[w] # "move" => moving[w] = <<>>
    /\ drains > 0 /\ cur[Main] = None => calls[Main] = <<>>

PlacesInv == OnePlace /\ NoRepeats /\ PhaseInv

\* What a step does to the lists of a kind: nothing; it takes the tasks of S
\* from one of them; it adds them to one.
Same(k) == \A a, x : Has(k, a, x)' <=> Has(k, a, x)
Takes(k, a, S) == \A b : \A x \in Tasks : Has(k, b, x)' <=> Has(k, b, x) /\ ~(b = a /\ x \in S)
Gets(k, a, S) == \A b : \A x \in Tasks : Has(k, b, x)' <=> Has(k, b, x) \/ (b = a /\ x \in S)

LEMMA Transfer ==
    ASSUME OnePlace, NEW k \in Kinds, NEW l \in Kinds, k # l, NEW a, NEW b, NEW S,
           \A x \in S : x \in Tasks /\ Has(k, a, x), Takes(k, a, S), Gets(l, b, S),
           \A m \in Kinds \ {k, l} : Same(m)
    PROVE  OnePlace'
<1> SUFFICES ASSUME NEW x \in Tasks
             PROVE  /\ \E m \in Kinds : \E c : Has(m, c, x)'
                    /\ \A m, n \in Kinds : \A c, d : Has(m, c, x)' /\ Has(n, d, x)' => m = n /\ c = d
  BY DEF OnePlace, Kinds
<1>1. /\ \E m \in Kinds : \E c : Has(m, c, x)
      /\ \A m, n \in Kinds : \A c, d : Has(m, c, x) /\ Has(n, d, x) => m = n /\ c = d
  BY DEF OnePlace
<1>2. CASE x \in S
  <2>1. \A m \in Kinds : \A c : Has(m, c, x) <=> m = k /\ c = a
    BY <1>1, <1>2
  <2>2. \A m \in Kinds : \A c : Has(m, c, x)' <=> m = l /\ c = b
    BY <1>2, <2>1 DEF Same, Takes, Gets
  <2> QED
    BY <2>2
<1>3. CASE x \notin S
  <2>1. \A m \in Kinds : \A c : Has(m, c, x)' <=> Has(m, c, x)
    BY <1>3 DEF Same, Takes, Gets
  <2> QED
    BY <1>1, <2>1
<1> QED
  BY <1>2, <1>3

LEMMA Unmoved ==
    ASSUME OnePlace, \A m \in Kinds : Same(m)
    PROVE  OnePlace'
<1> SUFFICES ASSUME NEW x \in Tasks
             PROVE  /\ \E m \in Kinds : \E c : Has(m, c, x)'
                    /\ \A m, n \in Kinds : \A c, d : Has(m, c, x)' /\ Has(n, d, x)' => m = n /\ c = d
  BY DEF OnePlace, Kinds
<1>1. /\ \E m \in Kinds : \E c : Has(m, c, x)
      /\ \A m, n \in Kinds : \A c, d : Has(m, c, x) /\ Has(n, d, x) => m = n /\ c = d
  BY DEF OnePlace
<1>2. \A m \in Kinds : \A c : Has(m, c, x)' <=> Has(m, c, x)
  BY DEF Same
<1> QED
  BY <1>1, <1>2

\* A task is started: it leaves its list, and the tasks it schedules are born.
LEMMA TransferTwo ==
    ASSUME OnePlace, NEW k \in Kinds \ {"cur", "calls", "unborn"}, NEW a, NEW t,
           NEW x \in Tasks, NEW C, Has(k, a, x), Takes(k, a, {x}), Gets("cur", t, {x}),
           \A z \in C : z \in Tasks /\ Has("unborn", None, z),
           Takes("unborn", None, C), Gets("calls", t, C),
           \A m \in Kinds \ {k, "cur", "calls", "unborn"} : Same(m)
    PROVE  OnePlace'
<1> SUFFICES ASSUME NEW y \in Tasks
             PROVE  /\ \E m \in Kinds : \E c : Has(m, c, y)'
                    /\ \A m, n \in Kinds : \A c, d : Has(m, c, y)' /\ Has(n, d, y)' => m = n /\ c = d
  BY DEF OnePlace, Kinds
<1>1. /\ \E m \in Kinds : \E c : Has(m, c, y)
      /\ \A m, n \in Kinds : \A c, d : Has(m, c, y) /\ Has(n, d, y) => m = n /\ c = d
  BY DEF OnePlace
<1>2. {"cur", "calls", "unborn"} \subseteq Kinds
  BY DEF Kinds
<1>3. CASE y = x
  <2>1. \A m \in Kinds : \A c : Has(m, c, x) <=> m = k /\ c = a
    BY <1>1, <1>3
  <2>2. x \notin C
    BY <1>2, <2>1
  <2>3. \A m \in Kinds : \A c : Has(m, c, x)' <=> m = "cur" /\ c = t
    <3>1. ASSUME NEW m \in Kinds, NEW c PROVE Has(m, c, x)' <=> m = "cur" /\ c = t
      <4>1. CASE m = "cur"
        BY <2>1, <4>1 DEF Gets
      <4>2. CASE m = "calls"
        BY <2>1, <2>2, <4>2 DEF Gets
      <4>3. CASE m = "unborn"
        BY <2>1, <4>3 DEF Takes
      <4>4. CASE m = k
        BY <2>1, <4>4 DEF Takes
      <4>5. CASE m \notin {k, "cur", "calls", "unborn"}
        BY <2>1, <4>5 DEF Same
      <4> QED
        BY <4>1, <4>2, <4>3, <4>4, <4>5
    <3> QED
      BY <3>1
  <2> QED
    BY <1>2, <1>3, <2>3
<1>4. CASE y \in C
  <2>1. \A m \in Kinds : \A c : Has(m, c, y) <=> m = "unborn" /\ c = None
    BY <1>1, <1>2, <1>4
  <2>2. y # x
    BY <1>2, <2>1
  <2>3. \A m \in Kinds : \A c : Has(m, c, y)' <=> m = "calls" /\ c = t
    <3>1. ASSUME NEW m \in Kinds, NEW c PROVE Has(m, c, y)' <=> m = "calls" /\ c = t
      <4>1. CASE m = "cur"
        BY <2>1, <2>2, <4>1 DEF Gets
      <4>2. CASE m = "calls"
        BY <1>4, <2>1, <4>2 DEF Gets
      <4>3. CASE m = "unborn"
        BY <1>4, <2>1, <4>3 DEF Takes
      <4>4. CASE m = k
        BY <2>1, <4>4 DEF Takes
      <4>5. CASE m \notin {k, "cur", "calls", "unborn"}
        BY <2>1, <4>5 DEF Same
      <4> QED
        BY <4>1, <4>2, <4>3, <4>4, <4>5
    <3> QED
      BY <3>1
  <2> QED
    BY <1>2, <2>3
<1>5. CASE y # x /\ y \notin C
  <2>1. \A m \in Kinds : \A c : Has(m, c, y)' <=> Has(m, c, y)
    <3>1. ASSUME NEW m \in Kinds, NEW c PROVE Has(m, c, y)' <=> Has(m, c, y)
      <4>1. CASE m \in {"cur", "calls"}
        BY <1>5, <4>1 DEF Gets
      <4>2. CASE m \in {"unborn", k}
        BY <1>5, <4>2 DEF Takes
      <4>3. CASE m \notin {k, "cur", "calls", "unborn"}
        BY <4>3 DEF Same
      <4> QED
        BY <4>1, <4>2, <4>3
    <3> QED
      BY <3>1
  <2> QED
    BY <1>1, <2>1
<1> QED
  BY <1>3, <1>4, <1>5

----------------------------------------------------------------------------
(* The lists of a kind, one by one.                                        *)

LEMMA HasIs ==
    /\ \A a, x : Has("todo", a, x) <=> a \in Threads /\ x \in Range(Unplaced(a))
    /\ \A a, x : Has("calls", a, x) <=> a \in Threads /\ x \in Called(a)
    /\ \A a, x : Has("cur", a, x) <=> a \in Threads /\ cur[a] = x
    /\ \A a, x : Has("deque", a, x) <=>
          \E w \in Workers, p \in Priorities : a = <<w, p>> /\ x \in Range(deque[w][p])
    /\ \A a, x : Has("moving", a, x) <=> a \in Workers /\ x \in Range(moving[a])
    /\ \A a, x : Has("global", a, x) <=> a \in Priorities /\ x \in Range(global[a])
    /\ \A a, x : Has("io", a, x) <=> a = None /\ x \in Range(io)
    /\ \A a, x : Has("head", a, x) <=> a = None /\ x \in Range(head)
    /\ \A a, x : Has("drained", a, x) <=> a = None /\ x \in Range(drained)
    /\ \A a, x : Has("done", a, x) <=> a = None /\ x \in done
    /\ \A a, x : Has("unborn", a, x) <=> a = None /\ Unborn(x)
  BY DEF Has

LEMMA HasIsNext ==
    /\ \A a, x : Has("todo", a, x)' <=> a \in Threads /\ x \in Range(Unplaced(a)')
    /\ \A a, x : Has("calls", a, x)' <=> a \in Threads /\ x \in Called(a)'
    /\ \A a, x : Has("cur", a, x)' <=> a \in Threads /\ cur'[a] = x
    /\ \A a, x : Has("deque", a, x)' <=>
          \E w \in Workers, p \in Priorities : a = <<w, p>> /\ x \in Range(deque'[w][p])
    /\ \A a, x : Has("moving", a, x)' <=> a \in Workers /\ x \in Range(moving'[a])
    /\ \A a, x : Has("global", a, x)' <=> a \in Priorities /\ x \in Range(global'[a])
    /\ \A a, x : Has("io", a, x)' <=> a = None /\ x \in Range(io')
    /\ \A a, x : Has("head", a, x)' <=> a = None /\ x \in Range(head')
    /\ \A a, x : Has("drained", a, x)' <=> a = None /\ x \in Range(drained')
    /\ \A a, x : Has("done", a, x)' <=> a = None /\ x \in done'
    /\ \A a, x : Has("unborn", a, x)' <=> a = None /\ Unborn(x)'
  BY DEF Has, Range

LEMMA SameFacts ==
    /\ (\A t \in Threads : Unplaced(t)' = Unplaced(t)) => Same("todo")
    /\ calls' = calls => Same("calls")
    /\ cur' = cur => Same("cur")
    /\ deque' = deque => Same("deque")
    /\ moving' = moving => Same("moving")
    /\ global' = global => Same("global")
    /\ io' = io => Same("io")
    /\ head' = head => Same("head")
    /\ drained' = drained => Same("drained")
    /\ done' = done => Same("done")
    /\ cur' = cur /\ done' = done => Same("unborn")
  BY HasIs, HasIsNext DEF Same, Called, TasksOf, Unborn

LEMMA TodoChange ==
    ASSUME NEW t \in Threads, NEW S, \A u \in Threads \ {t} : Unplaced(u)' = Unplaced(u)
    PROVE  /\ Range(Unplaced(t)') = Range(Unplaced(t)) \ S => Takes("todo", t, S)
           /\ Range(Unplaced(t)') = Range(Unplaced(t)) \cup S => Gets("todo", t, S)
  BY HasIs, HasIsNext DEF Takes, Gets

LEMMA TasksOfIs ==
    ASSUME NEW c
    PROVE  \A x : x \in TasksOf(c) <=> \E i \in DOMAIN c : \E k \in DOMAIN c[i] : c[i][k] = x
  BY DEF TasksOf, Range

LEMMA FirstCall ==
    ASSUME NEW S, NEW c \in Seq(Seq(S)), c # <<>>, OnceIn(c)
    PROVE  /\ Head(c) \in Seq(S) /\ IsInjective(Head(c)) /\ Range(Head(c)) \subseteq TasksOf(c)
           /\ TasksOf(Tail(c)) = TasksOf(c) \ Range(Head(c)) /\ OnceIn(Tail(c))
<1> PICK n : n = Len(c)
  OBVIOUS
<1> PICK r : r = Tail(c)
  OBVIOUS
<1>1. /\ n \in Nat /\ n >= 1 /\ Head(c) = c[1] /\ DOMAIN c = 1 .. n
      /\ r \in Seq(Seq(S)) /\ Len(r) = n - 1 /\ DOMAIN r = 1 .. n - 1
      /\ \A i \in 1 .. n - 1 : r[i] = c[i + 1]
  OBVIOUS
<1>2. Head(c) \in Seq(S)
  OBVIOUS
<1>3. /\ \A i, j \in 1 .. n : \A k \in DOMAIN c[i], l \in DOMAIN c[j] :
             c[i][k] = c[j][l] => i = j /\ k = l
      /\ \A x : x \in TasksOf(c) <=> \E i \in 1 .. n : \E k \in DOMAIN c[i] : c[i][k] = x
      /\ \A x : x \in TasksOf(r) <=> \E i \in 1 .. n - 1 : \E k \in DOMAIN r[i] : r[i][k] = x
      /\ \A x : x \in Range(c[1]) <=> \E k \in DOMAIN c[1] : c[1][k] = x
  <2>1. \A i, j \in 1 .. n : \A k \in DOMAIN c[i], l \in DOMAIN c[j] :
             c[i][k] = c[j][l] => i = j /\ k = l
    BY <1>1 DEF OnceIn
  <2>3. \A x : x \in Range(c[1]) <=> \E k \in DOMAIN c[1] : c[1][k] = x
    BY DEF Range
  <2>4. DOMAIN c = 1 .. n /\ DOMAIN r = 1 .. n - 1
    BY <1>1
  <2>5. \A x : x \in TasksOf(c) <=> \E i \in 1 .. n : \E k \in DOMAIN c[i] : c[i][k] = x
    <3>1. \A x : x \in TasksOf(c) <=> \E i \in DOMAIN c : \E k \in DOMAIN c[i] : c[i][k] = x
      BY ONLY TasksOfIs
    <3> QED
      BY ONLY <2>4, <3>1
  <2>6. \A x : x \in TasksOf(r) <=> \E i \in 1 .. n - 1 : \E k \in DOMAIN r[i] : r[i][k] = x
    <3>1. \A x : x \in TasksOf(r) <=> \E i \in DOMAIN r : \E k \in DOMAIN r[i] : r[i][k] = x
      BY ONLY TasksOfIs
    <3> QED
      BY ONLY <2>4, <3>1
  <2> QED
    BY ONLY <2>1, <2>3, <2>5, <2>6
<1>4. 1 \in 1 .. n /\ \A i \in 1 .. n - 1 : i + 1 \in 1 .. n /\ i + 1 # 1
  BY <1>1
<1>5. IsInjective(c[1])
  BY <1>3, <1>4 DEF IsInjective
<1>6. Range(c[1]) \subseteq TasksOf(c)
  BY <1>3, <1>4
<1>7. OnceIn(r)
  <2>1. ASSUME NEW i \in 1 .. n - 1, NEW j \in 1 .. n - 1,
               NEW k \in DOMAIN r[i], NEW l \in DOMAIN r[j], r[i][k] = r[j][l]
        PROVE  i = j /\ k = l
    <3>1. i + 1 = j + 1 /\ k = l
      <4>1. r[i] = c[i + 1] /\ r[j] = c[j + 1] /\ i + 1 \in 1 .. n /\ j + 1 \in 1 .. n
        BY <1>1, <1>4
      <4> QED
        BY <1>3, <2>1, <4>1
    <3> QED
      BY <1>1, <3>1
  <2>2. DOMAIN r = 1 .. n - 1
    BY <1>1
  <2> QED
    BY ONLY <2>1, <2>2 DEF OnceIn
<1>8. ASSUME NEW x PROVE x \in TasksOf(r) <=> x \in TasksOf(c) /\ x \notin Range(c[1])
  <2>1. ASSUME NEW i \in 1 .. n - 1, NEW k \in DOMAIN r[i], r[i][k] = x
        PROVE  x \in TasksOf(c) /\ x \notin Range(c[1])
    <3>1. r[i] = c[i + 1] /\ i + 1 \in 1 .. n /\ i + 1 # 1 /\ 1 \in 1 .. n
      BY <1>1, <1>4
    <3> QED
      BY <1>3, <2>1, <3>1
  <2>2. ASSUME NEW i \in 1 .. n, NEW k \in DOMAIN c[i], c[i][k] = x, x \notin Range(c[1])
        PROVE  x \in TasksOf(r)
    <3>1. i # 1
      BY <1>3, <2>2
    <3>2. i - 1 \in 1 .. n - 1 /\ (i - 1) + 1 = i
      BY <1>1, <3>1
    <3>3. r[i - 1] = c[i]
      BY <1>1, <3>2
    <3> QED
      BY <1>3, <2>2, <3>2, <3>3
  <2> QED
    BY <1>3, <2>1, <2>2
<1> QED
  BY <1>1, <1>2, <1>5, <1>6, <1>7, <1>8

LEMMA CallsChange ==
    ASSUME NEW t \in Threads, NEW S, \A u \in Threads \ {t} : calls'[u] = calls[u]
    PROVE  /\ Called(t)' = Called(t) \ S => Takes("calls", t, S)
           /\ Called(t)' = Called(t) \cup S => Gets("calls", t, S)
<1>1. \A u \in Threads \ {t} : Called(u)' = Called(u)
  BY DEF Called, TasksOf
<1> QED
  BY <1>1, HasIs, HasIsNext DEF Takes, Gets

LEMMA CurChange ==
    ASSUME cur \in [Threads -> Tasks \cup {None}], NEW t \in Threads, NEW x \in Tasks
    PROVE  /\ cur[t] = None /\ cur' = [cur EXCEPT ![t] = x] => Gets("cur", t, {x})
           /\ cur[t] = x /\ cur' = [cur EXCEPT ![t] = None] => Takes("cur", t, {x})
<1>1. None \notin Tasks
  BY RoutingAssumption
<1>2. ASSUME cur[t] = None, cur' = [cur EXCEPT ![t] = x] PROVE Gets("cur", t, {x})
  <2>1. cur'[t] = x /\ \A u \in Threads : u # t => cur'[u] = cur[u]
    BY <1>2
  <2> QED
    BY <1>1, <1>2, <2>1, HasIs, HasIsNext DEF Gets
<1>3. ASSUME cur[t] = x, cur' = [cur EXCEPT ![t] = None] PROVE Takes("cur", t, {x})
  <2>1. cur'[t] = None /\ \A u \in Threads : u # t => cur'[u] = cur[u]
    BY <1>3
  <2> QED
    BY <1>1, <1>3, <2>1, HasIs, HasIsNext DEF Takes
<1> QED
  BY <1>2, <1>3

LEMMA DequeChange ==
    ASSUME deque \in [Workers -> [Priorities -> Seq(Tasks)]], NEW w \in Workers,
           NEW p \in Priorities, NEW s, NEW S, deque' = [deque EXCEPT ![w][p] = s]
    PROVE  /\ deque'[w][p] = s
           /\ \A v \in Workers, q \in Priorities : v # w \/ q # p => deque'[v][q] = deque[v][q]
           /\ Range(s) = Range(deque[w][p]) \ S => Takes("deque", <<w, p>>, S)
           /\ Range(s) = Range(deque[w][p]) \cup S => Gets("deque", <<w, p>>, S)
<1>1. /\ deque'[w][p] = s
      /\ \A v \in Workers, q \in Priorities : v # w \/ q # p => deque'[v][q] = deque[v][q]
  OBVIOUS
<1>2. \A v, q : <<v, q>> = <<w, p>> <=> v = w /\ q = p
  OBVIOUS
<1>3. ASSUME Range(s) = Range(deque[w][p]) \ S PROVE Takes("deque", <<w, p>>, S)
  <2>1. ASSUME NEW a, NEW x \in Tasks
        PROVE  Has("deque", a, x)' <=> Has("deque", a, x) /\ ~(a = <<w, p>> /\ x \in S)
    BY <1>1, <1>2, <1>3, HasIs, HasIsNext
  <2> QED
    BY <2>1 DEF Takes
<1>4. ASSUME Range(s) = Range(deque[w][p]) \cup S PROVE Gets("deque", <<w, p>>, S)
  <2>1. ASSUME NEW a, NEW x \in Tasks
        PROVE  Has("deque", a, x)' <=> Has("deque", a, x) \/ (a = <<w, p>> /\ x \in S)
    BY <1>1, <1>2, <1>4, HasIs, HasIsNext
  <2> QED
    BY <2>1 DEF Gets
<1> QED
  BY <1>1, <1>3, <1>4

LEMMA MovingChange ==
    ASSUME moving \in [Workers -> Seq(Tasks)], NEW w \in Workers, NEW s, NEW S,
           moving' = [moving EXCEPT ![w] = s]
    PROVE  /\ moving'[w] = s /\ \A v \in Workers \ {w} : moving'[v] = moving[v]
           /\ Range(s) = Range(moving[w]) \ S => Takes("moving", w, S)
           /\ Range(s) = Range(moving[w]) \cup S => Gets("moving", w, S)
<1>1. moving'[w] = s /\ \A v \in Workers \ {w} : moving'[v] = moving[v]
  OBVIOUS
<1> QED
  BY <1>1, HasIs, HasIsNext DEF Takes, Gets

LEMMA GlobalChange ==
    ASSUME global \in [Priorities -> Seq(Tasks)], NEW p \in Priorities, NEW s, NEW S,
           global' = [global EXCEPT ![p] = s]
    PROVE  /\ global'[p] = s /\ \A q \in Priorities \ {p} : global'[q] = global[q]
           /\ Range(s) = Range(global[p]) \ S => Takes("global", p, S)
           /\ Range(s) = Range(global[p]) \cup S => Gets("global", p, S)
<1>1. global'[p] = s /\ \A q \in Priorities \ {p} : global'[q] = global[q]
  OBVIOUS
<1> QED
  BY <1>1, HasIs, HasIsNext DEF Takes, Gets

LEMMA ListChange ==
    ASSUME NEW S
    PROVE  /\ Range(io') = Range(io) \ S => Takes("io", None, S)
           /\ Range(io') = Range(io) \cup S => Gets("io", None, S)
           /\ Range(head') = Range(head) \ S => Takes("head", None, S)
           /\ Range(head') = Range(head) \cup S => Gets("head", None, S)
           /\ Range(drained') = Range(drained) \ S => Takes("drained", None, S)
           /\ Range(drained') = Range(drained) \cup S => Gets("drained", None, S)
           /\ done' = done \cup S => Gets("done", None, S)
  BY HasIs, HasIsNext DEF Takes, Gets

----------------------------------------------------------------------------
(* Frames.                                                                 *)

LEMMA NoRepeatsStep ==
    ASSUME NoRepeats,
           \A t \in Threads : /\ Unplaced(t)' = Unplaced(t) \/ IsInjective(Unplaced(t)')
                              /\ calls'[t] = calls[t] \/ CallsOnce(t)',
           \A w \in Workers, p \in Priorities :
               deque'[w][p] = deque[w][p] \/ IsInjective(deque'[w][p]),
           \A w \in Workers : moving'[w] = moving[w] \/ IsInjective(moving'[w]),
           \A p \in Priorities : global'[p] = global[p] \/ IsInjective(global'[p]),
           io' = io \/ IsInjective(io'), head' = head \/ IsInjective(head'),
           drained' = drained \/ IsInjective(drained')
    PROVE  NoRepeats'
<1>1. \A t \in Threads : IsInjective(Unplaced(t)')
  BY DEF NoRepeats
<1>2. \A t \in Threads : CallsOnce(t)'
  BY DEF NoRepeats, CallsOnce, OnceIn
<1>3. \A w \in Workers, p \in Priorities : IsInjective(deque'[w][p])
  BY DEF NoRepeats
<1>4. /\ \A w \in Workers : IsInjective(moving'[w])
      /\ \A p \in Priorities : IsInjective(global'[p])
      /\ IsInjective(io') /\ IsInjective(head') /\ IsInjective(drained')
  BY DEF NoRepeats
<1> QED
  BY <1>1, <1>2, <1>3, <1>4 DEF NoRepeats, IsInjective

LEMMA PhaseStep ==
    ASSUME PhaseInv, NEW t \in Threads, cur' \in [Threads -> Tasks \cup {None}],
           done' \subseteq Tasks, Phase(t)',
           \A u \in Threads \ {t} : /\ pc'[u] = pc[u] /\ cur'[u] = cur[u]
                                    /\ todo'[u] = todo[u] /\ calls'[u] = calls[u],
           \A w \in Workers : pc'[w] # "move" => moving'[w] = <<>>,
           drains' > 0 /\ cur'[Main] = None => calls'[Main] = <<>>
    PROVE  PhaseInv'
<1>1. \A u \in Threads : Phase(u)'
  BY DEF PhaseInv, Phase
<1> QED
  BY <1>1 DEF PhaseInv

\* pushMainThreadTask apart, the tasks to place change with todo only.
LEMMA UnplacedFacts ==
    ASSUME NEW t \in Threads, pc[t] # "count", pc'[t] # "count",
           \A u \in Threads \ {t} : pc'[u] = pc[u] /\ todo'[u] = todo[u]
    PROVE  /\ Unplaced(t) = todo[t] /\ Unplaced(t)' = todo'[t]
           /\ \A u \in Threads \ {t} : Unplaced(u)' = Unplaced(u)
           /\ todo'[t] = todo[t] => \A u \in Threads : Unplaced(u)' = Unplaced(u)
  BY DEF Unplaced

----------------------------------------------------------------------------
(* Steps that move no task.                                                *)

LEMMA IdlePlaces ==
    ASSUME PlacesInv, NEW t \in Threads, pc[t] \notin {"count", "move"}, pc'[t] # "count",
           \A u \in Threads \ {t} : pc'[u] = pc[u], Phase(t)', drains' = drains \/ drains' = 0,
           UNCHANGED <<deque, global, io, head, drained, moving, calls, todo, cur, done>>
    PROVE  PlacesInv'
<1>1. OnePlace /\ NoRepeats /\ PhaseInv
  BY DEF PlacesInv
<1>2. \A u \in Threads : Unplaced(u)' = Unplaced(u)
  BY UnplacedFacts
<1>3. OnePlace'
  <2>1. \A m \in Kinds : Same(m)
    BY <1>2, SameFacts DEF Kinds
  <2> QED
    BY <1>1, <2>1, Unmoved
<1>4. NoRepeats'
  BY <1>1, <1>2, NoRepeatsStep
<1>5. PhaseInv'
  <2>1. \A w \in Workers : pc'[w] # "move" => moving'[w] = <<>>
    BY <1>1, Constants DEF PhaseInv
  <2>2. drains' > 0 /\ cur'[Main] = None => calls'[Main] = <<>>
    BY <1>1 DEF PhaseInv
  <2>3. cur' \in [Threads -> Tasks \cup {None}] /\ done' \subseteq Tasks
    BY <1>1 DEF PhaseInv
  <2> QED
    BY <1>1, <2>1, <2>2, <2>3, PhaseStep
<1> QED
  BY <1>3, <1>4, <1>5 DEF PlacesInv

\* The label alone changes.
LEMMA LabelPlaces ==
    ASSUME TypeInv, PlacesInv, NEW t \in Threads, NEW l \in Labels, Goto(t, l),
           pc[t] \notin {"count", "move"}, l # "count",
           l \notin {"place", "cas", "count"} => todo[t] = <<>>,
           l \in {"idle"} \cup Searching => cur[t] = None, l = "run" => cur[t] # None,
           l \in Searching => calls[t] = <<>>,
           UNCHANGED <<deque, global, io, head, drained, drains, moving, calls, todo, cur, done>>
    PROVE  PlacesInv'
<1>1. pc'[t] = l /\ \A u \in Threads \ {t} : pc'[u] = pc[u]
  BY GotoEffect
<1>2. Phase(t)'
  BY <1>1 DEF Phase, PlacesInv, PhaseInv
<1> QED
  BY <1>1, <1>2, IdlePlaces

LEMMA PhaseOf ==
    ASSUME PlacesInv, NEW t \in Threads
    PROVE  /\ Phase(t) /\ cur[t] \in Tasks \cup {None} /\ None \notin Tasks
           /\ pc[t] \in {"idle", "high", "normal", "steal", "move", "popStolen"} =>
                 cur[t] = None /\ todo[t] = <<>>
           /\ pc[t] \in {"high", "normal", "steal", "move", "popStolen"} => calls[t] = <<>>
           /\ pc[t] = "run" => cur[t] \in Tasks /\ todo[t] = <<>>
  BY RoutingAssumption DEF PlacesInv, PhaseInv, Phase, Searching

LEMMA WakeForRoomPlaces ==
    ASSUME TypeInv, PlacesInv, NEW t \in Threads, WakeForRoom(t)
    PROVE  PlacesInv'
<1>1. /\ pc[t] = "place"
      /\ UNCHANGED <<deque, global, io, head, drained, drains, moving, calls, todo, cur, done, pc>>
  BY DEF WakeForRoom, Placing, queues, main, search, call
<1>2. Phase(t)'
  BY <1>1, PhaseOf DEF Phase
<1> QED
  BY <1>1, <1>2, IdlePlaces

LEMMA PushLoadPlaces ==
    ASSUME TypeInv, PlacesInv, NEW t \in Threads, PushLoad(t)
    PROVE  PlacesInv'
<1>1. /\ pc[t] = "place" /\ Goto(t, "cas")
      /\ UNCHANGED <<deque, global, io, head, drained, drains, moving, calls, todo, cur, done>>
  BY DEF PushLoad, Placing, queues, search, call
<1> QED
  BY <1>1, LabelPlaces DEF Labels, Searching

LEMMA PushCasFailsPlaces ==
    ASSUME TypeInv, PlacesInv, NEW t \in Threads, PushCas(t), HeadOf(head) # oldHead[t]
    PROVE  PlacesInv'
<1>1. /\ pc[t] = "cas"
      /\ UNCHANGED <<deque, global, io, head, drained, drains, moving, calls, todo, cur, done, pc>>
  BY DEF PushCas, queues, search, call
<1>2. Phase(t)'
  BY <1>1, PhaseOf DEF Phase
<1> QED
  BY <1>1, <1>2, IdlePlaces

LEMMA EndCallPlaces ==
    ASSUME TypeInv, PlacesInv, NEW t \in Threads, EndCall(t)
    PROVE  PlacesInv'
<1> PICK l : l = IF cur[t] = None THEN "idle" ELSE "run"
  OBVIOUS
<1>1. /\ pc[t] = "place" /\ todo[t] = <<>> /\ Goto(t, l)
      /\ UNCHANGED <<deque, global, io, head, drained, drains, moving, calls, todo, cur, done>>
  BY DEF EndCall, queues, main, search
<1>2. l \in Labels /\ l \notin Searching /\ l # "count"
  BY DEF Labels, Searching
<1> QED
  BY <1>1, <1>2, LabelPlaces

LEMMA PopStolenMissPlaces ==
    ASSUME TypeInv, PlacesInv, NEW t \in Threads, PopStolenMiss(t)
    PROVE  PlacesInv'
<1>1. /\ pc[t] = "popStolen" /\ Goto(t, "idle")
      /\ UNCHANGED <<deque, global, io, head, drained, drains, moving, calls, todo, cur, done>>
  BY DEF PopStolenMiss, queues, main, search, call
<1> QED
  BY <1>1, PhaseOf, LabelPlaces DEF Labels, Searching

LEMMA SearchPlaces ==
    ASSUME TypeInv, PlacesInv, NEW t \in Threads, Search(t)
    PROVE  PlacesInv'
<1>1. /\ pc[t] = "idle" /\ calls[t] = <<>> /\ Goto(t, "high")
      /\ UNCHANGED <<deque, global, io, head, drained, drains, moving, calls, todo, cur, done>>
  BY DEF Search, MaySearch, queues, main, search, call
<1> QED
  BY <1>1, PhaseOf, LabelPlaces DEF Labels, Searching

LEMMA SearchEndsPlaces ==
    ASSUME TypeInv, PlacesInv, NEW t \in Threads, SearchEnds(t)
    PROVE  PlacesInv'
<1>1. /\ pc[t] = "steal" /\ Goto(t, "idle")
      /\ UNCHANGED <<deque, global, io, head, drained, drains, moving, calls, todo, cur, done>>
  BY DEF SearchEnds, queues, main, search, call
<1> QED
  BY <1>1, PhaseOf, LabelPlaces DEF Labels, Searching

LEMMA StealMissPlaces ==
    ASSUME TypeInv, PlacesInv, NEW t \in Threads, NEW v \in Workers, StealMiss(t, v)
    PROVE  PlacesInv'
<1>1. /\ pc[t] = "steal"
      /\ UNCHANGED <<deque, global, io, head, drained, drains, moving, calls, todo, cur, done, pc>>
  BY DEF StealMiss, queues, main, call
<1>2. Phase(t)'
  BY <1>1, PhaseOf DEF Phase
<1> QED
  BY <1>1, <1>2, IdlePlaces

LEMMA DrainEndPlaces ==
    ASSUME TypeInv, PlacesInv, DrainEnd
    PROVE  PlacesInv'
<1>1. /\ pc[Main] = "idle" /\ drains' = 0 /\ Main \in Threads
      /\ UNCHANGED <<deque, global, io, head, drained, moving, calls, todo, cur, done, pc>>
  BY Constants DEF DrainEnd, queues, search, call
<1>2. Phase(Main)'
  BY <1>1, PhaseOf DEF Phase
<1> QED
  BY <1>1, <1>2, IdlePlaces

----------------------------------------------------------------------------
(* Steps that move one task.                                               *)

LEMMA Alone ==
    ASSUME OnePlace, NEW x \in Tasks, NEW k \in Kinds, NEW a, Has(k, a, x)
    PROVE  \A l \in Kinds : \A b : Has(l, b, x) => l = k /\ b = a
  BY DEF OnePlace

\* The first task that a call has to place leaves its list.
LEMMA NextTask ==
    ASSUME TypeInv, PlacesInv, NEW t \in Threads, pc[t] = "place", todo[t] # <<>>, Next1(t),
           UNCHANGED <<pc, cur, calls>>, NEW x, x = Head(todo[t])
    PROVE  /\ x \in Tasks /\ Has("todo", t, x) /\ Takes("todo", t, {x}) /\ Phase(t)'
           /\ \A l \in Kinds \ {"todo"} : \A b : ~Has(l, b, x)
           /\ \A u \in Threads : Unplaced(u)' = Unplaced(u) \/ IsInjective(Unplaced(u)')
           /\ \A u \in Threads \ {t} : todo'[u] = todo[u]
<1>1. todo' = [todo EXCEPT ![t] = Tail(todo[t])] /\ todo \in [Threads -> Seq(Tasks)]
  BY DEF Next1, TypeInv
<1>2. todo'[t] = Tail(todo[t]) /\ \A u \in Threads \ {t} : todo'[u] = todo[u]
  BY <1>1
<1>3. /\ Unplaced(t) = todo[t] /\ Unplaced(t)' = todo'[t]
      /\ \A u \in Threads \ {t} : Unplaced(u)' = Unplaced(u)
  BY <1>2, UnplacedFacts
<1>4. /\ IsInjective(Tail(todo[t])) /\ x \in Range(todo[t])
      /\ Range(Tail(todo[t])) = Range(todo[t]) \ {x}
  <2>1. todo[t] \in Seq(Tasks) /\ todo[t] # <<>> /\ IsInjective(todo[t])
    BY <1>1, <1>3 DEF PlacesInv, NoRepeats
  <2> QED
    BY <2>1, TailList
<1>5. x \in Tasks /\ Has("todo", t, x)
  <2>1. todo[t] \in Seq(Tasks)
    BY <1>1
  <2>2. x \in Tasks
    BY <2>1
  <2> QED
    BY <1>3, <1>4, <2>2, HasIs
<1>6. Takes("todo", t, {x})
  BY <1>2, <1>3, <1>4, TodoChange
<1>7. \A l \in Kinds \ {"todo"} : \A b : ~Has(l, b, x)
  BY <1>5, Alone DEF PlacesInv, Kinds
<1>8. Phase(t)'
  BY PhaseOf DEF Phase
<1> QED
  BY <1>2, <1>3, <1>4, <1>5, <1>6, <1>7, <1>8

\* It has reached a queue.
LEMMA PlacedPlaces ==
    ASSUME TypeInv, PlacesInv, NEW t \in Threads, pc[t] = "place", todo[t] # <<>>, Next1(t),
           NEW x, x = Head(todo[t]), NEW l \in {"deque", "global", "io"}, NEW b,
           Gets(l, b, {x}), \A m \in {"deque", "global", "io"} \ {l} : Same(m),
           \A w \in Workers, p \in Priorities :
               deque'[w][p] = deque[w][p] \/ IsInjective(deque'[w][p]),
           \A p \in Priorities : global'[p] = global[p] \/ IsInjective(global'[p]),
           io' = io \/ IsInjective(io'),
           UNCHANGED <<pc, cur, calls, moving, head, drained, drains, done>>
    PROVE  PlacesInv'
<1>1. OnePlace /\ NoRepeats /\ PhaseInv
  BY DEF PlacesInv
<1>2. /\ x \in Tasks /\ Has("todo", t, x) /\ Takes("todo", t, {x}) /\ Phase(t)'
      /\ \A u \in Threads : Unplaced(u)' = Unplaced(u) \/ IsInjective(Unplaced(u)')
      /\ \A u \in Threads \ {t} : todo'[u] = todo[u]
  BY NextTask
<1>3. OnePlace'
  <2>1. \A m \in Kinds \ {"todo", l} : Same(m)
    BY SameFacts DEF Kinds
  <2>2. "todo" \in Kinds /\ l \in Kinds /\ l # "todo"
    BY DEF Kinds
  <2>3. \A y \in {x} : y \in Tasks /\ Has("todo", t, y)
    BY <1>2
  <2> QED
    BY <1>1, <1>2, <2>1, <2>2, <2>3, Transfer
<1>4. NoRepeats'
  BY <1>1, <1>2, NoRepeatsStep
<1>5. PhaseInv'
  <2>1. \A w \in Workers : pc'[w] # "move" => moving'[w] = <<>>
    BY <1>1 DEF PhaseInv
  <2>2. drains' > 0 /\ cur'[Main] = None => calls'[Main] = <<>>
    BY <1>1 DEF PhaseInv
  <2>3. cur' \in [Threads -> Tasks \cup {None}] /\ done' \subseteq Tasks
    BY <1>1 DEF PhaseInv
  <2> QED
    BY <1>1, <1>2, <2>1, <2>2, <2>3, PhaseStep
<1> QED
  BY <1>3, <1>4, <1>5 DEF PlacesInv

LEMMA PlaceIOPlaces ==
    ASSUME TypeInv, PlacesInv, NEW t \in Threads, PlaceIO(t)
    PROVE  PlacesInv'
<1> PICK x : x = Head(todo[t])
  OBVIOUS
<1>1. /\ pc[t] = "place" /\ todo[t] # <<>> /\ Next1(t) /\ io' = Append(io, x)
      /\ UNCHANGED <<deque, global, pc, cur, calls, moving, head, drained, drains, done>>
  BY DEF PlaceIO, Placing, main, search
<1>2. x \in Tasks /\ \A l \in Kinds \ {"todo"} : \A b : ~Has(l, b, x)
  BY <1>1, NextTask
<1>3. x \notin Range(io)
  BY <1>2, HasIs DEF Kinds
<1>4. IsInjective(io') /\ Range(io') = Range(io) \cup {x}
  <2>1. io \in Seq(Tasks) /\ IsInjective(io)
    BY DEF TypeInv, PlacesInv, NoRepeats
  <2> QED
    BY <1>1, <1>2, <1>3, <2>1, AppendList
<1>5. Gets("io", None, {x})
  BY <1>4, ListChange
<1>6. \A m \in {"deque", "global", "io"} \ {"io"} : Same(m)
  BY <1>1, SameFacts
<1> QED
  BY <1>1, <1>4, <1>5, <1>6, PlacedPlaces

LEMMA PlaceLocalPlaces ==
    ASSUME TypeInv, PlacesInv, NEW t \in Threads, PlaceLocal(t)
    PROVE  PlacesInv'
<1> PICK x : x = Head(todo[t])
  OBVIOUS
<1> PICK q : q = Priority[x]
  OBVIOUS
<1>1. /\ pc[t] = "place" /\ todo[t] # <<>> /\ Next1(t) /\ t \in Workers
      /\ deque' = [deque EXCEPT ![t][q] = Append(deque[t][q], x)]
      /\ UNCHANGED <<global, io, pc, cur, calls, moving, head, drained, drains, done>>
  BY DEF PlaceLocal, Placing, main, search
<1>2. x \in Tasks /\ \A l \in Kinds \ {"todo"} : \A b : ~Has(l, b, x)
  BY <1>1, NextTask
<1>3. q \in Priorities /\ deque \in [Workers -> [Priorities -> Seq(Tasks)]]
  BY <1>2, Constants DEF TypeInv
<1>4. x \notin Range(deque[t][q])
  <2>1. ~Has("deque", <<t, q>>, x)
    BY <1>2 DEF Kinds
  <2> QED
    BY <1>1, <1>3, <2>1, HasIs
<1> PICK s : s = Append(deque[t][q], x)
  OBVIOUS
<1>5. IsInjective(s) /\ Range(s) = Range(deque[t][q]) \cup {x}
  <2> PICK r : r = deque[t][q]
    OBVIOUS
  <2>1. r \in Seq(Tasks) /\ IsInjective(r) /\ x \in Tasks /\ x \notin Range(r)
    BY <1>1, <1>2, <1>3, <1>4 DEF PlacesInv, NoRepeats
  <2>2. IsInjective(Append(r, x)) /\ Range(Append(r, x)) = Range(r) \cup {x}
    BY ONLY <2>1, AppendList
  <2> QED
    BY <2>2
<1>6. /\ deque'[t][q] = s /\ Gets("deque", <<t, q>>, {x})
      /\ \A v \in Workers, p \in Priorities : v # t \/ p # q => deque'[v][p] = deque[v][p]
  <2>1. /\ deque' = [deque EXCEPT ![t][q] = s] /\ t \in Workers /\ q \in Priorities
        /\ deque \in [Workers -> [Priorities -> Seq(Tasks)]]
        /\ Range(s) = Range(deque[t][q]) \cup {x}
    BY <1>1, <1>3, <1>5
  <2>2. Range(s) = Range(deque[t][q]) \cup {x} => Gets("deque", <<t, q>>, {x})
    BY ONLY <2>1, DequeChange
  <2>3. \A v \in Workers, p \in Priorities : v # t \/ p # q => deque'[v][p] = deque[v][p]
    BY ONLY <2>1
  <2> QED
    BY ONLY <2>1, <2>2, <2>3
<1>7. \A m \in {"deque", "global", "io"} \ {"deque"} : Same(m)
  BY <1>1, SameFacts
<1>8. \A w \in Workers, p \in Priorities :
          deque'[w][p] = deque[w][p] \/ IsInjective(deque'[w][p])
  BY <1>5, <1>6
<1> QED
  BY <1>1, <1>6, <1>7, <1>8, PlacedPlaces

LEMMA PlaceGlobalPlaces ==
    ASSUME TypeInv, PlacesInv, NEW t \in Threads, PlaceGlobal(t)
    PROVE  PlacesInv'
<1> PICK x : x = Head(todo[t])
  OBVIOUS
<1> PICK q : q = Priority[x]
  OBVIOUS
<1> PICK s : s = Append(global[q], x)
  OBVIOUS
<1>1. /\ pc[t] = "place" /\ todo[t] # <<>> /\ Next1(t)
      /\ global' = [global EXCEPT ![q] = s]
      /\ UNCHANGED <<deque, io, pc, cur, calls, moving, head, drained, drains, done>>
  BY DEF PlaceGlobal, Placing, main, search
<1>2. x \in Tasks /\ \A l \in Kinds \ {"todo"} : \A b : ~Has(l, b, x)
  BY <1>1, NextTask
<1>3. q \in Priorities /\ global \in [Priorities -> Seq(Tasks)]
  BY <1>2, Constants DEF TypeInv
<1>4. x \notin Range(global[q])
  <2>1. ~Has("global", q, x)
    BY <1>2 DEF Kinds
  <2> QED
    BY <1>3, <2>1, HasIs
<1>5. IsInjective(s) /\ Range(s) = Range(global[q]) \cup {x}
  <2> PICK r : r = global[q]
    OBVIOUS
  <2>1. r \in Seq(Tasks) /\ IsInjective(r) /\ x \in Tasks /\ x \notin Range(r)
    BY <1>2, <1>3, <1>4 DEF PlacesInv, NoRepeats
  <2>2. IsInjective(Append(r, x)) /\ Range(Append(r, x)) = Range(r) \cup {x}
    BY ONLY <2>1, AppendList
  <2> QED
    BY <2>2
<1>6. /\ global'[q] = s /\ Gets("global", q, {x})
      /\ \A p \in Priorities \ {q} : global'[p] = global[p]
  BY <1>1, <1>3, <1>5, GlobalChange
<1>7. \A m \in {"deque", "global", "io"} \ {"global"} : Same(m)
  BY <1>1, SameFacts
<1>8. \A p \in Priorities : global'[p] = global[p] \/ IsInjective(global'[p])
  BY <1>5, <1>6
<1> QED
  BY <1>1, <1>6, <1>7, <1>8, PlacedPlaces

\* pushMainThreadTask counts a task that is in the list already.
LEMMA PushCountPlaces ==
    ASSUME TypeInv, LabelInv, PlacesInv, NEW t \in Threads, PushCount(t)
    PROVE  PlacesInv'
<1>1. /\ pc[t] = "count" /\ Next1(t) /\ Goto(t, "place")
      /\ UNCHANGED <<deque, global, io, head, drained, drains, moving, calls, cur, done>>
  BY DEF PushCount, queues, search
<1>2. OnePlace /\ NoRepeats /\ PhaseInv
  BY DEF PlacesInv
<1>3. pc'[t] = "place" /\ \A u \in Threads \ {t} : pc'[u] = pc[u]
  BY <1>1, GotoEffect DEF Labels
<1>4. todo'[t] = Tail(todo[t]) /\ \A u \in Threads \ {t} : todo'[u] = todo[u]
  BY <1>1 DEF Next1, TypeInv
<1>5. \A u \in Threads : Unplaced(u)' = Unplaced(u)
  BY <1>1, <1>3, <1>4 DEF Unplaced
<1>6. OnePlace'
  <2>1. \A m \in Kinds : Same(m)
    BY <1>1, <1>5, SameFacts DEF Kinds
  <2> QED
    BY <1>2, <2>1, Unmoved
<1>7. NoRepeats'
  BY <1>1, <1>2, <1>5, NoRepeatsStep
<1>8. PhaseInv'
  <2>1. Phase(t)'
    BY <1>1, <1>3, PhaseOf DEF Phase, Searching
  <2>2. \A w \in Workers : pc'[w] # "move" => moving'[w] = <<>>
    BY <1>1, <1>2, <1>3, Constants DEF PhaseInv
  <2>3. /\ drains' > 0 /\ cur'[Main] = None => calls'[Main] = <<>>
        /\ cur' \in [Threads -> Tasks \cup {None}] /\ done' \subseteq Tasks
    BY <1>1, <1>2 DEF PhaseInv
  <2>4. \A u \in Threads \ {t} : /\ pc'[u] = pc[u] /\ cur'[u] = cur[u]
                                 /\ todo'[u] = todo[u] /\ calls'[u] = calls[u]
    BY <1>1, <1>3, <1>4
  <2> QED
    BY <1>2, <2>1, <2>2, <2>3, <2>4, PhaseStep
<1> QED
  BY <1>6, <1>7, <1>8 DEF PlacesInv

LEMMA PushCasPlaces ==
    ASSUME TypeInv, LabelInv, PlacesInv, NEW t \in Threads, PushCas(t),
           HeadOf(head) = oldHead[t]
    PROVE  PlacesInv'
<1> PICK x : x = Head(todo[t])
  OBVIOUS
<1>1. /\ pc[t] = "cas" /\ head' = <<x>> \o head /\ Goto(t, "count")
      /\ UNCHANGED <<deque, global, io, drained, drains, moving, calls, todo, cur, done>>
  BY DEF PushCas, queues, search, call
<1>2. OnePlace /\ NoRepeats /\ PhaseInv
  BY DEF PlacesInv
<1>3. pc'[t] = "count" /\ \A u \in Threads \ {t} : pc'[u] = pc[u]
  BY <1>1, GotoEffect DEF Labels
<1>4. todo[t] # <<>> /\ todo[t] \in Seq(Tasks)
  BY <1>1 DEF LabelInv, TypeInv
<1>5. /\ Unplaced(t) = todo[t] /\ Unplaced(t)' = Tail(todo[t])
      /\ \A u \in Threads \ {t} : Unplaced(u)' = Unplaced(u)
  BY <1>1, <1>3 DEF Unplaced
<1>6. /\ IsInjective(Tail(todo[t])) /\ x \in Range(todo[t])
      /\ Range(Tail(todo[t])) = Range(todo[t]) \ {x}
  <2>1. IsInjective(todo[t])
    BY <1>2, <1>5 DEF NoRepeats
  <2> QED
    BY <1>4, <2>1, TailList
<1>7. x \in Tasks /\ Has("todo", t, x)
  BY <1>4, <1>5, <1>6, HasIs
<1>8. x \notin Range(head)
  <2>1. "todo" \in Kinds /\ "head" \in Kinds
    BY DEF Kinds
  <2>2. ~Has("head", None, x)
    BY <1>2, <1>7, <2>1, Alone
  <2> QED
    BY <2>2, HasIs
<1>9. IsInjective(head') /\ Range(head') = Range(head) \cup {x}
  <2>1. head \in Seq(Tasks) /\ IsInjective(head)
    BY <1>2 DEF TypeInv, NoRepeats
  <2> QED
    BY <1>1, <1>7, <1>8, <2>1, PushList
<1>10. OnePlace'
  <2>1. Takes("todo", t, {x})
    BY <1>5, <1>6, TodoChange
  <2>2. Gets("head", None, {x})
    BY <1>9, ListChange
  <2>3. \A m \in Kinds \ {"todo", "head"} : Same(m)
    BY <1>1, SameFacts DEF Kinds
  <2>4. "todo" \in Kinds /\ "head" \in Kinds /\ "todo" # "head"
    BY DEF Kinds
  <2>5. \A y \in {x} : y \in Tasks /\ Has("todo", t, y)
    BY <1>7
  <2> QED
    BY <1>2, <2>1, <2>2, <2>3, <2>4, <2>5, Transfer
<1>11. NoRepeats'
  <2>1. \A u \in Threads : Unplaced(u)' = Unplaced(u) \/ IsInjective(Unplaced(u)')
    BY <1>5, <1>6
  <2> QED
    BY <1>1, <1>2, <1>9, <2>1, NoRepeatsStep
<1>12. PhaseInv'
  <2>1. Phase(t)'
    BY <1>1, <1>3, PhaseOf DEF Phase, Searching
  <2>2. \A w \in Workers : pc'[w] # "move" => moving'[w] = <<>>
    BY <1>1, <1>2, <1>3, Constants DEF PhaseInv
  <2>3. /\ drains' > 0 /\ cur'[Main] = None => calls'[Main] = <<>>
        /\ cur' \in [Threads -> Tasks \cup {None}] /\ done' \subseteq Tasks
    BY <1>1, <1>2 DEF PhaseInv
  <2>4. \A u \in Threads \ {t} : /\ pc'[u] = pc[u] /\ cur'[u] = cur[u]
                                 /\ todo'[u] = todo[u] /\ calls'[u] = calls[u]
    BY <1>1, <1>3
  <2> QED
    BY <1>2, <2>1, <2>2, <2>3, <2>4, PhaseStep
<1> QED
  BY <1>10, <1>11, <1>12 DEF PlacesInv

LEMMA FinishPlaces ==
    ASSUME TypeInv, PlacesInv, NEW t \in Threads, Finish(t)
    PROVE  PlacesInv'
<1> PICK x : x = cur[t]
  OBVIOUS
<1>1. /\ pc[t] = "run" /\ calls[t] = <<>> /\ Goto(t, "idle") /\ done' = done \cup {x}
      /\ cur' = [cur EXCEPT ![t] = None]
      /\ UNCHANGED <<deque, global, io, head, drained, drains, moving, calls, todo>>
  BY DEF Finish, queues, main, search, call
<1>2. OnePlace /\ NoRepeats /\ PhaseInv
  BY DEF PlacesInv
<1>3. pc'[t] = "idle" /\ \A u \in Threads \ {t} : pc'[u] = pc[u]
  BY <1>1, GotoEffect DEF Labels
<1>4. x \in Tasks /\ None \notin Tasks /\ todo[t] = <<>>
  BY <1>1, PhaseOf
<1>5. /\ cur \in [Threads -> Tasks \cup {None}] /\ cur'[t] = None
      /\ \A u \in Threads \ {t} : cur'[u] = cur[u]
  BY <1>1, <1>2 DEF PhaseInv
<1>6. \A u \in Threads : Unplaced(u)' = Unplaced(u)
  BY <1>1, <1>3, UnplacedFacts
<1>7. OnePlace'
  <2>1. Takes("cur", t, {x})
    BY <1>1, <1>4, <1>5, CurChange
  <2>2. Gets("done", None, {x})
    BY <1>1, ListChange
  <2>3. Same("unborn")
    <3>1. \A y \in Tasks : (y \notin done' /\ \A u \in Threads : cur'[u] # y)
                           <=> (y \notin done /\ \A u \in Threads : cur[u] # y)
      BY <1>1, <1>4, <1>5
    <3>2. \A z : Unborn(z)' <=> Unborn(z)
      BY <3>1 DEF Unborn
    <3> QED
      BY <3>2, HasIs, HasIsNext DEF Same
  <2>4. \A m \in Kinds \ {"cur", "done"} : Same(m)
    BY <1>1, <1>6, <2>3, SameFacts DEF Kinds
  <2>5. "cur" \in Kinds /\ "done" \in Kinds /\ "cur" # "done"
    BY DEF Kinds
  <2>6. \A y \in {x} : y \in Tasks /\ Has("cur", t, y)
    BY <1>4, HasIs
  <2> QED
    BY <1>2, <2>1, <2>2, <2>4, <2>5, <2>6, Transfer
<1>8. NoRepeats'
  BY <1>1, <1>2, <1>6, NoRepeatsStep
<1>9. PhaseInv'
  <2>1. Phase(t)'
    BY <1>1, <1>3, <1>4, <1>5 DEF Phase, Searching
  <2>2. \A w \in Workers : pc'[w] # "move" => moving'[w] = <<>>
    BY <1>1, <1>2, <1>3, Constants DEF PhaseInv
  <2>3. drains' > 0 /\ cur'[Main] = None => calls'[Main] = <<>>
    BY <1>1, <1>2, <1>5, Constants DEF PhaseInv
  <2>4. cur' \in [Threads -> Tasks \cup {None}] /\ done' \subseteq Tasks
    BY <1>1, <1>2, <1>4, <1>5 DEF PhaseInv
  <2>5. \A u \in Threads \ {t} : /\ pc'[u] = pc[u] /\ cur'[u] = cur[u]
                                 /\ todo'[u] = todo[u] /\ calls'[u] = calls[u]
    BY <1>1, <1>3, <1>5
  <2> QED
    BY <1>2, <2>1, <2>2, <2>3, <2>4, <2>5, PhaseStep
<1> QED
  BY <1>7, <1>8, <1>9 DEF PlacesInv

\* A call begins: its tasks are now to be placed.
LEMMA BeginCallPlaces ==
    ASSUME TypeInv, PlacesInv, NEW t \in Threads, BeginCall(t)
    PROVE  PlacesInv'
<1> PICK c : c = calls[t]
  OBVIOUS
<1> PICK S : S = Range(Head(c))
  OBVIOUS
<1>1. /\ pc[t] \in {"idle", "run"} /\ c # <<>> /\ Goto(t, "place")
      /\ pc[t] = "idle" => (t = Main => drains = 0)
      /\ todo' = [todo EXCEPT ![t] = Head(c)] /\ calls' = [calls EXCEPT ![t] = Tail(c)]
      /\ UNCHANGED <<deque, global, io, head, drained, drains, moving, cur, done>>
  BY DEF BeginCall, queues, main, search
<1>2. OnePlace /\ NoRepeats /\ PhaseInv
  BY DEF PlacesInv
<1>3. pc'[t] = "place" /\ \A u \in Threads \ {t} : pc'[u] = pc[u]
  BY <1>1, GotoEffect DEF Labels
<1>4. /\ todo'[t] = Head(c) /\ calls'[t] = Tail(c) /\ todo[t] = <<>>
      /\ \A u \in Threads \ {t} : todo'[u] = todo[u] /\ calls'[u] = calls[u]
  BY <1>1, PhaseOf DEF TypeInv
<1>5. /\ Unplaced(t) = <<>> /\ Unplaced(t)' = Head(c)
      /\ \A u \in Threads \ {t} : Unplaced(u)' = Unplaced(u)
  BY <1>1, <1>3, <1>4, UnplacedFacts
<1>6. /\ Head(c) \in Seq(Tasks) /\ IsInjective(Head(c)) /\ S \subseteq TasksOf(c)
      /\ TasksOf(Tail(c)) = TasksOf(c) \ S /\ OnceIn(Tail(c))
  <2>1. c \in Seq(Seq(Tasks)) /\ c # <<>> /\ OnceIn(c)
    BY <1>1, <1>2 DEF TypeInv, NoRepeats, CallsOnce
  <2> QED
    BY ONLY <2>1, FirstCall, S = Range(Head(c))
<1>7. Called(t) = TasksOf(c) /\ Called(t)' = TasksOf(Tail(c))
  BY <1>4 DEF Called, TasksOf
<1>8. OnePlace'
  <2>1. Takes("calls", t, S)
    BY <1>4, <1>6, <1>7, CallsChange
  <2>2. Gets("todo", t, S)
    BY <1>5, EmptyList, TodoChange
  <2>3. \A m \in Kinds \ {"calls", "todo"} : Same(m)
    BY <1>1, SameFacts DEF Kinds
  <2>4. "todo" \in Kinds /\ "calls" \in Kinds /\ "calls" # "todo"
    BY DEF Kinds
  <2>5. \A y \in S : y \in Tasks /\ Has("calls", t, y)
    <3>1. S \subseteq Tasks
      BY <1>6, RangeIs
    <3> QED
      BY <1>6, <1>7, <3>1, HasIs
  <2> QED
    BY <1>2, <2>1, <2>2, <2>3, <2>4, <2>5, Transfer
<1>9. NoRepeats'
  <2>1. \A u \in Threads : /\ Unplaced(u)' = Unplaced(u) \/ IsInjective(Unplaced(u)')
                           /\ calls'[u] = calls[u] \/ CallsOnce(u)'
    <3>1. CallsOnce(t)'
      BY <1>4, <1>6 DEF CallsOnce, OnceIn
    <3> QED
      BY <1>4, <1>5, <1>6, <3>1
  <2> QED
    BY <1>1, <1>2, <2>1, NoRepeatsStep
<1>10. PhaseInv'
  <2>1. Phase(t)'
    <3>1. cur[t] # None \/ t \in Externals
      BY <1>1, <1>2 DEF PhaseInv, Phase
    <3> QED
      BY <1>1, <1>3, <3>1 DEF Phase, Searching
  <2>2. \A w \in Workers : pc'[w] # "move" => moving'[w] = <<>>
    BY <1>1, <1>2, <1>3, Constants DEF PhaseInv
  <2>3. drains' > 0 /\ cur'[Main] = None => calls'[Main] = <<>>
    <3>1. t = Main /\ cur[Main] = None => drains = 0
      BY <1>1, PhaseOf
    <3> QED
      BY <1>1, <1>2, <1>4, <3>1, Constants DEF PhaseInv
  <2>4. cur' \in [Threads -> Tasks \cup {None}] /\ done' \subseteq Tasks
    BY <1>1, <1>2 DEF PhaseInv
  <2>5. \A u \in Threads \ {t} : /\ pc'[u] = pc[u] /\ cur'[u] = cur[u]
                                 /\ todo'[u] = todo[u] /\ calls'[u] = calls[u]
    BY <1>1, <1>3, <1>4
  <2> QED
    BY <1>2, <2>1, <2>2, <2>3, <2>4, <2>5, PhaseStep
<1> QED
  BY <1>8, <1>9, <1>10 DEF PlacesInv

\* A batch steal pushes the first of the tasks it has claimed.
LEMMA MovePlaces ==
    ASSUME TypeInv, LabelInv, PlacesInv, NEW t \in Threads, Move(t)
    PROVE  PlacesInv'
<1> PICK m : m = moving[t]
  OBVIOUS
<1> PICK x : x = Head(m)
  OBVIOUS
<1> PICK q : q = Priority[x]
  OBVIOUS
<1> PICK s : s = Append(deque[t][q], x)
  OBVIOUS
<1> PICK l : l = IF Len(m) = 1 THEN "popStolen" ELSE "move"
  OBVIOUS
<1>1. /\ pc[t] = "move" /\ m # <<>> /\ Goto(t, l)
      /\ deque' = [deque EXCEPT ![t][q] = s] /\ moving' = [moving EXCEPT ![t] = Tail(m)]
      /\ UNCHANGED <<global, io, head, drained, drains, calls, todo, cur, done>>
  BY DEF Move, main, call
<1>2. OnePlace /\ NoRepeats /\ PhaseInv
  BY DEF PlacesInv
<1>3. t \in Workers /\ m \in Seq(Tasks)
  BY <1>1 DEF LabelInv, TypeInv
<1>4. /\ IsInjective(Tail(m)) /\ x \in Range(m) /\ Range(Tail(m)) = Range(m) \ {x}
  BY <1>1, <1>2, <1>3, TailList DEF NoRepeats
<1>5. x \in Tasks /\ Has("moving", t, x)
  BY <1>3, <1>4, RangeIs, HasIs
<1>6. /\ q \in Priorities /\ deque \in [Workers -> [Priorities -> Seq(Tasks)]]
      /\ moving \in [Workers -> Seq(Tasks)]
  BY <1>5, Constants DEF TypeInv
<1>7. x \notin Range(deque[t][q])
  <2>1. "moving" \in Kinds /\ "deque" \in Kinds /\ "deque" # "moving"
    BY DEF Kinds
  <2>2. ~Has("deque", <<t, q>>, x)
    BY <1>2, <1>5, <2>1, Alone
  <2> QED
    BY <1>3, <1>6, <2>2, HasIs
<1>8. IsInjective(s) /\ Range(s) = Range(deque[t][q]) \cup {x}
  <2> PICK r : r = deque[t][q]
    OBVIOUS
  <2>1. r \in Seq(Tasks) /\ IsInjective(r) /\ x \in Tasks /\ x \notin Range(r)
    BY <1>2, <1>3, <1>5, <1>6, <1>7 DEF NoRepeats
  <2>2. IsInjective(Append(r, x)) /\ Range(Append(r, x)) = Range(r) \cup {x}
    BY ONLY <2>1, AppendList
  <2> QED
    BY <2>2
<1>9. l \in Labels /\ l \in Searching /\ l # "count"
  BY DEF Labels, Searching
<1>10. pc'[t] = l /\ \A u \in Threads \ {t} : pc'[u] = pc[u]
  BY <1>1, <1>9, GotoEffect
<1>11. \A u \in Threads : Unplaced(u)' = Unplaced(u)
  BY <1>1, <1>9, <1>10, UnplacedFacts
<1>12. /\ deque'[t][q] = s /\ Gets("deque", <<t, q>>, {x})
       /\ \A v \in Workers, p \in Priorities : v # t \/ p # q => deque'[v][p] = deque[v][p]
  <2>1. /\ deque' = [deque EXCEPT ![t][q] = s] /\ t \in Workers /\ q \in Priorities
        /\ deque \in [Workers -> [Priorities -> Seq(Tasks)]]
        /\ Range(s) = Range(deque[t][q]) \cup {x}
    BY <1>1, <1>3, <1>6, <1>8
  <2>2. Range(s) = Range(deque[t][q]) \cup {x} => Gets("deque", <<t, q>>, {x})
    BY ONLY <2>1, DequeChange
  <2>3. \A v \in Workers, p \in Priorities : v # t \/ p # q => deque'[v][p] = deque[v][p]
    BY ONLY <2>1
  <2> QED
    BY ONLY <2>1, <2>2, <2>3
<1>13. /\ moving'[t] = Tail(m) /\ \A v \in Workers \ {t} : moving'[v] = moving[v]
       /\ Takes("moving", t, {x})
  BY <1>1, <1>3, <1>4, <1>6, MovingChange
<1>14. OnePlace'
  <2>1. \A k \in Kinds \ {"moving", "deque"} : Same(k)
    BY <1>1, <1>11, SameFacts DEF Kinds
  <2>2. "moving" \in Kinds /\ "deque" \in Kinds /\ "moving" # "deque"
    BY DEF Kinds
  <2>3. \A y \in {x} : y \in Tasks /\ Has("moving", t, y)
    BY <1>5
  <2> PICK key : key = <<t, q>>
    OBVIOUS
  <2> PICK S : S = {x}
    OBVIOUS
  <2>4. /\ OnePlace /\ "moving" \in Kinds /\ "deque" \in Kinds /\ "moving" # "deque"
        /\ \A y \in S : y \in Tasks /\ Has("moving", t, y)
        /\ Takes("moving", t, S) /\ Gets("deque", key, S)
        /\ \A k \in Kinds \ {"moving", "deque"} : Same(k)
    BY <1>2, <1>12, <1>13, <2>1, <2>2, <2>3
  <2> QED
    BY ONLY <2>4, Transfer
<1>15. NoRepeats'
  <2>1. \A w \in Workers, p \in Priorities :
            deque'[w][p] = deque[w][p] \/ IsInjective(deque'[w][p])
    BY <1>8, <1>12
  <2>2. \A w \in Workers : moving'[w] = moving[w] \/ IsInjective(moving'[w])
    BY <1>4, <1>13
  <2> QED
    BY <1>1, <1>2, <1>11, <2>1, <2>2, NoRepeatsStep
<1>16. PhaseInv'
  <2>1. Phase(t)'
    BY <1>1, <1>9, <1>10, PhaseOf DEF Phase, Searching
  <2>2. \A w \in Workers : pc'[w] # "move" => moving'[w] = <<>>
    <3>1. l # "move" => Tail(m) = <<>>
      <4>1. l # "move" => Len(m) = 1
        OBVIOUS
      <4>2. m \in Seq(Tasks) /\ m # <<>>
        BY <1>1, <1>3
      <4>3. ASSUME Len(m) = 1 PROVE Tail(m) = <<>>
        <5>1. Tail(m) \in Seq(Tasks) /\ Len(Tail(m)) = 0
          BY ONLY <4>2, <4>3
        <5>2. \A r \in Seq(Tasks) : Len(r) = 0 => r = <<>>
          BY ONLY EmptySeq
        <5> QED
          BY <5>1, <5>2
      <4> QED
        BY <4>1, <4>3
    <3> QED
      BY <1>2, <1>10, <1>13, <3>1, Constants DEF PhaseInv
  <2>3. /\ drains' > 0 /\ cur'[Main] = None => calls'[Main] = <<>>
        /\ cur' \in [Threads -> Tasks \cup {None}] /\ done' \subseteq Tasks
    BY <1>1, <1>2 DEF PhaseInv
  <2>4. \A u \in Threads \ {t} : /\ pc'[u] = pc[u] /\ cur'[u] = cur[u]
                                 /\ todo'[u] = todo[u] /\ calls'[u] = calls[u]
    BY <1>1, <1>10
  <2> QED
    BY <1>2, <2>1, <2>2, <2>3, <2>4, PhaseStep
<1> QED
  BY <1>14, <1>15, <1>16 DEF PlacesInv

\* A batch steal claims the first tasks of a deque.
LEMMA StealBatchPlaces ==
    ASSUME TypeInv, PlacesInv, NEW t \in Threads, NEW v \in Workers, StealBatch(t, v)
    PROVE  PlacesInv'
<1> PICK p : p = First(deque[v])
  OBVIOUS
<1> PICK q : q = deque[v][p]
  OBVIOUS
<1> PICK n : n = BatchSize(q)
  OBVIOUS
<1> PICK a : a = SubSeq(q, 1, n)
  OBVIOUS
<1> PICK b : b = SubSeq(q, n + 1, Len(q))
  OBVIOUS
<1>1. /\ pc[t] = "steal" /\ t \in Workers /\ q # <<>> /\ Goto(t, "move")
      /\ moving' = [moving EXCEPT ![t] = a] /\ deque' = [deque EXCEPT ![v][p] = b]
      /\ UNCHANGED <<global, io, head, drained, drains, calls, todo, cur, done>>
  BY DEF StealBatch, main, call
<1>2. OnePlace /\ NoRepeats /\ PhaseInv
  BY DEF PlacesInv
<1>3. /\ p \in Priorities /\ q \in Seq(Tasks)
      /\ deque \in [Workers -> [Priorities -> Seq(Tasks)]] /\ moving \in [Workers -> Seq(Tasks)]
  BY FirstType DEF TypeInv
<1>4. /\ a \in Seq(Tasks) /\ b \in Seq(Tasks) /\ IsInjective(a) /\ IsInjective(b)
      /\ Range(a) \subseteq Range(q) /\ Range(b) = Range(q) \ Range(a)
  <2>1. n \in 0 .. Len(q)
    <3>1. n \in 1 .. Len(q) /\ Len(q) \in Nat
      BY <1>1, <1>3, BatchSizeRange
    <3> QED
      BY <3>1
  <2>2. IsInjective(q)
    BY <1>2, <1>3 DEF NoRepeats
  <2> QED
    BY <1>3, <2>1, <2>2, SplitList
<1>5. pc'[t] = "move" /\ \A u \in Threads \ {t} : pc'[u] = pc[u]
  BY <1>1, GotoEffect DEF Labels
<1>6. \A u \in Threads : Unplaced(u)' = Unplaced(u)
  BY <1>1, <1>5, UnplacedFacts
<1>7. /\ deque'[v][p] = b /\ Takes("deque", <<v, p>>, Range(a))
      /\ \A w \in Workers, r \in Priorities : w # v \/ r # p => deque'[w][r] = deque[w][r]
  <2>1. /\ deque' = [deque EXCEPT ![v][p] = b] /\ v \in Workers /\ p \in Priorities
        /\ deque \in [Workers -> [Priorities -> Seq(Tasks)]]
        /\ Range(b) = Range(deque[v][p]) \ Range(a)
    BY <1>1, <1>3, <1>4
  <2>2. Range(b) = Range(deque[v][p]) \ Range(a) => Takes("deque", <<v, p>>, Range(a))
    BY ONLY <2>1, DequeChange
  <2>3. \A w \in Workers, r \in Priorities : w # v \/ r # p => deque'[w][r] = deque[w][r]
    BY ONLY <2>1
  <2> QED
    BY ONLY <2>1, <2>2, <2>3
<1>8. /\ moving'[t] = a /\ \A w \in Workers \ {t} : moving'[w] = moving[w]
      /\ Gets("moving", t, Range(a))
  <2>1. moving[t] = <<>>
    BY <1>1, <1>2 DEF PhaseInv
  <2>2. Range(a) = Range(moving[t]) \cup Range(a)
    BY <2>1, EmptyList
  <2> QED
    BY <1>1, <1>3, <2>2, MovingChange
<1>9. OnePlace'
  <2>1. \A k \in Kinds \ {"deque", "moving"} : Same(k)
    BY <1>1, <1>6, SameFacts DEF Kinds
  <2>2. "moving" \in Kinds /\ "deque" \in Kinds /\ "deque" # "moving"
    BY DEF Kinds
  <2>3. \A y \in Range(a) : y \in Tasks /\ Has("deque", <<v, p>>, y)
    BY <1>3, <1>4, RangeIs, HasIs
  <2> QED
    BY <1>2, <1>7, <1>8, <2>1, <2>2, <2>3, Transfer
<1>10. NoRepeats'
  <2>1. \A w \in Workers, r \in Priorities :
            deque'[w][r] = deque[w][r] \/ IsInjective(deque'[w][r])
    BY <1>4, <1>7
  <2>2. \A w \in Workers : moving'[w] = moving[w] \/ IsInjective(moving'[w])
    BY <1>4, <1>8
  <2> QED
    BY <1>1, <1>2, <1>6, <2>1, <2>2, NoRepeatsStep
<1>11. PhaseInv'
  <2>1. Phase(t)'
    BY <1>1, <1>5, PhaseOf DEF Phase, Searching
  <2>2. \A w \in Workers : pc'[w] # "move" => moving'[w] = <<>>
    BY <1>2, <1>5, <1>8, Constants DEF PhaseInv
  <2>3. /\ drains' > 0 /\ cur'[Main] = None => calls'[Main] = <<>>
        /\ cur' \in [Threads -> Tasks \cup {None}] /\ done' \subseteq Tasks
    BY <1>1, <1>2 DEF PhaseInv
  <2>4. \A u \in Threads \ {t} : /\ pc'[u] = pc[u] /\ cur'[u] = cur[u]
                                 /\ todo'[u] = todo[u] /\ calls'[u] = calls[u]
    BY <1>1, <1>5
  <2> QED
    BY <1>2, <2>1, <2>2, <2>3, <2>4, PhaseStep
<1> QED
  BY <1>9, <1>10, <1>11 DEF PlacesInv

\* A drain takes the whole list.
LEMMA DrainTakePlaces ==
    ASSUME TypeInv, DrainInv, PlacesInv, DrainTake
    PROVE  PlacesInv'
<1>1. /\ pc[Main] = "idle" /\ calls[Main] = <<>> /\ drains = 0
      /\ drained' = Reverse(head) /\ head' = <<>>
      /\ UNCHANGED <<deque, global, io, moving, calls, todo, cur, done, pc>>
  BY DEF DrainTake, SubmissionOrder, queues, search, call
<1>2. OnePlace /\ NoRepeats /\ PhaseInv
  BY DEF PlacesInv
<1>3. head \in Seq(Tasks) /\ drained = <<>> /\ Main \in Threads
  BY <1>1, Constants DEF TypeInv, DrainInv
<1>4. IsInjective(Reverse(head)) /\ Range(Reverse(head)) = Range(head)
  BY <1>2, <1>3, ReverseList DEF NoRepeats
<1>5. \A u \in Threads : Unplaced(u)' = Unplaced(u)
  BY <1>1 DEF Unplaced
<1>6. OnePlace'
  <2>1. Takes("head", None, Range(head))
    <3>1. Range(head') = Range(head) \ Range(head)
      BY <1>1, EmptyList
    <3> QED
      BY <3>1, ListChange
  <2>2. Gets("drained", None, Range(head))
    <3>1. Range(drained') = Range(drained) \cup Range(head)
      BY <1>1, <1>3, <1>4, EmptyList
    <3> QED
      BY <3>1, ListChange
  <2>3. \A m \in Kinds \ {"head", "drained"} : Same(m)
    BY <1>1, <1>5, SameFacts DEF Kinds
  <2>4. "head" \in Kinds /\ "drained" \in Kinds /\ "head" # "drained"
    BY DEF Kinds
  <2>5. \A y \in Range(head) : y \in Tasks /\ Has("head", None, y)
    BY <1>3, RangeIs, HasIs
  <2> QED
    BY <1>2, <2>1, <2>2, <2>3, <2>4, <2>5, Transfer
<1>7. NoRepeats'
  BY <1>1, <1>2, <1>4, <1>5, EmptyList, NoRepeatsStep
<1>8. PhaseInv'
  <2>1. Phase(Main)'
    BY <1>1, <1>3, PhaseOf DEF Phase
  <2>2. \A w \in Workers : pc'[w] # "move" => moving'[w] = <<>>
    BY <1>1, <1>2 DEF PhaseInv
  <2>3. /\ drains' > 0 /\ cur'[Main] = None => calls'[Main] = <<>>
        /\ cur' \in [Threads -> Tasks \cup {None}] /\ done' \subseteq Tasks
    BY <1>1, <1>2 DEF PhaseInv
  <2> QED
    BY <1>1, <1>2, <1>3, <2>1, <2>2, <2>3, PhaseStep
<1> QED
  BY <1>6, <1>7, <1>8 DEF PlacesInv

----------------------------------------------------------------------------
(* Steps that start a task.                                                *)

LEMMA CalleesIs ==
    ASSUME NEW o \in Externals \cup Tasks
    PROVE  /\ Callees(o) = TasksOf(Calls[o]) /\ OnceIn(Calls[o]) /\ Callees(o) \subseteq Tasks
           /\ \A q \in Externals \cup Tasks : \A z : z \in Callees(o) /\ z \in Callees(q) => o = q
<1>1. \A q : Callees(q) = TasksOf(Calls[q])
  BY DEF Callees, TasksOf
<1>2. OnceIn(Calls[o])
  BY CallsAssumption DEF OnceIn
<1>3. Callees(o) \subseteq Tasks
  <2>1. Calls[o] \in Seq(Seq(Tasks))
    BY RoutingAssumption
  <2>2. \A i \in DOMAIN Calls[o] : Range(Calls[o][i]) \subseteq Tasks
    <3>1. \A i \in DOMAIN Calls[o] : Calls[o][i] \in Seq(Tasks)
      BY <2>1
    <3> QED
      BY <3>1, RangeIs
  <2> QED
    BY <2>2 DEF Callees
<1>4. ASSUME NEW q \in Externals \cup Tasks, NEW z, z \in Callees(o), z \in Callees(q)
      PROVE  o = q
  <2>1. PICK i \in DOMAIN Calls[o] : \E k \in DOMAIN Calls[o][i] : Calls[o][i][k] = z
    BY <1>1, <1>4, TasksOfIs
  <2>2. PICK j \in DOMAIN Calls[q] : \E l \in DOMAIN Calls[q][j] : Calls[q][j][l] = z
    BY <1>1, <1>4, TasksOfIs
  <2> QED
    BY <2>1, <2>2, CallsAssumption
<1> QED
  BY <1>1, <1>2, <1>3, <1>4

\* The tasks that x schedules are born with the start of x, and no others.
LEMMA BornWith ==
    ASSUME OnePlace, cur \in [Threads -> Tasks \cup {None}], NEW t \in Threads, cur[t] = None,
           NEW x \in Tasks, NEW k \in Kinds \ {"cur", "done"}, NEW a, Has(k, a, x),
           cur' = [cur EXCEPT ![t] = x], done' = done
    PROVE  /\ \A z \in Callees(x) : z \in Tasks /\ Has("unborn", None, z)
           /\ Takes("unborn", None, Callees(x))
<1>1. x \notin done /\ \A u \in Threads : cur[u] # x
  <2>1. "done" \in Kinds /\ "cur" \in Kinds /\ k # "done" /\ k # "cur"
    BY DEF Kinds
  <2>2. \A b : ~Has("done", b, x) /\ ~Has("cur", b, x)
    BY <2>1, Alone
  <2> QED
    BY <2>2, HasIs
<1>2. /\ Callees(x) \subseteq Tasks
      /\ \A y \in Tasks, z \in Callees(x) : z \in Callees(y) => x = y
  BY CalleesIs
<1>3. \A z \in Callees(x) : z \in Tasks /\ Has("unborn", None, z)
  <2>1. \A z \in Callees(x) : Unborn(z)
    BY <1>1 DEF Unborn
  <2> QED
    BY <1>2, <2>1, HasIs
<1>4. \A y \in Tasks : (\A u \in Threads : cur'[u] # y) <=> y # x /\ \A u \in Threads : cur[u] # y
  <2>1. None \notin Tasks
    BY RoutingAssumption
  <2>2. cur'[t] = x /\ \A u \in Threads \ {t} : cur'[u] = cur[u]
    OBVIOUS
  <2> QED
    BY <2>1, <2>2
<1>5. \A z \in Tasks : Unborn(z)' <=> Unborn(z) /\ z \notin Callees(x)
  <2>1. ASSUME NEW z \in Tasks, Unborn(z)' PROVE Unborn(z) /\ z \notin Callees(x)
    <3>1. PICK y \in Tasks : z \in Callees(y) /\ y \notin done' /\ \A u \in Threads : cur'[u] # y
      BY <2>1 DEF Unborn, Callees
    <3>2. y # x /\ y \notin done /\ \A u \in Threads : cur[u] # y
      BY <1>4, <3>1
    <3> QED
      BY <1>2, <3>1, <3>2 DEF Unborn
  <2>2. ASSUME NEW z \in Tasks, Unborn(z), z \notin Callees(x) PROVE Unborn(z)'
    <3>1. PICK y \in Tasks : z \in Callees(y) /\ y \notin done /\ \A u \in Threads : cur[u] # y
      BY <2>2 DEF Unborn
    <3>2. y \notin done' /\ \A u \in Threads : cur'[u] # y
      BY <1>4, <2>2, <3>1
    <3> QED
      BY <3>1, <3>2 DEF Unborn, Callees
  <2> QED
    BY <2>1, <2>2
<1>6. Takes("unborn", None, Callees(x))
  BY <1>5, HasIs, HasIsNext DEF Takes
<1> QED
  BY <1>3, <1>6

LEMMA StartPlaces ==
    ASSUME TypeInv, LabelInv, PlacesInv, NEW t \in Threads, NEW x \in Tasks, Start(t, x),
           pc[t] \in {"idle", "high", "normal", "steal", "popStolen"}, calls[t] = <<>>,
           NEW k \in {"deque", "global", "io", "drained"}, NEW a, Has(k, a, x),
           Takes(k, a, {x}), \A m \in {"deque", "global", "io", "drained"} \ {k} : Same(m),
           \A w \in Workers, p \in Priorities :
               deque'[w][p] = deque[w][p] \/ IsInjective(deque'[w][p]),
           \A p \in Priorities : global'[p] = global[p] \/ IsInjective(global'[p]),
           io' = io \/ IsInjective(io'), drained' = drained \/ IsInjective(drained'),
           UNCHANGED <<head, drains>>
    PROVE  PlacesInv'
<1> PICK C : C = Callees(x)
  OBVIOUS
<1>1. OnePlace /\ NoRepeats /\ PhaseInv
  BY DEF PlacesInv
<1>2. /\ cur' = [cur EXCEPT ![t] = x] /\ calls' = [calls EXCEPT ![t] = Calls[x]]
      /\ UNCHANGED <<moving, todo, done>>
  BY DEF Start
<1>3. pc'[t] = "run" /\ \A u \in Threads \ {t} : pc'[u] = pc[u]
  BY StartEffect
<1>4. /\ calls'[t] = Calls[x] /\ \A u \in Threads \ {t} : calls'[u] = calls[u]
  BY <1>2 DEF TypeInv
<1>5. /\ cur \in [Threads -> Tasks \cup {None}] /\ cur[t] = None /\ todo[t] = <<>>
      /\ None \notin Tasks
  BY <1>1, PhaseOf DEF PhaseInv
<1>6. cur'[t] = x /\ \A u \in Threads \ {t} : cur'[u] = cur[u]
  BY <1>2, <1>5
<1>7. \A u \in Threads : Unplaced(u)' = Unplaced(u)
  BY <1>2, <1>3, UnplacedFacts
<1>8. Called(t) = {} /\ Called(t)' = C /\ OnceIn(Calls[x])
  <2>1. C = TasksOf(Calls[x]) /\ OnceIn(Calls[x])
    BY CalleesIs
  <2> QED
    BY <1>4, <2>1 DEF Called, TasksOf
<1>9. OnePlace'
  <2>1. k \in Kinds \ {"cur", "calls", "unborn"} /\ k \in Kinds \ {"cur", "done"}
    BY DEF Kinds
  <2>2. Gets("cur", t, {x})
    BY <1>2, <1>5, CurChange
  <2>3. Gets("calls", t, C)
    BY <1>4, <1>8, CallsChange
  <2>4. (\A z \in C : z \in Tasks /\ Has("unborn", None, z)) /\ Takes("unborn", None, C)
    BY <1>1, <1>2, <1>5, <2>1, BornWith
  <2>5. \A m \in Kinds \ {k, "cur", "calls", "unborn"} : Same(m)
    BY <1>2, <1>7, SameFacts DEF Kinds
  <2> QED
    BY <1>1, <2>1, <2>2, <2>3, <2>4, <2>5, TransferTwo
<1>10. NoRepeats'
  <2>1. CallsOnce(t)'
    BY <1>4, <1>8 DEF CallsOnce, OnceIn
  <2>2. \A u \in Threads : /\ Unplaced(u)' = Unplaced(u) \/ IsInjective(Unplaced(u)')
                           /\ calls'[u] = calls[u] \/ CallsOnce(u)'
    BY <1>4, <1>7, <2>1
  <2> QED
    BY <1>1, <1>2, <2>2, NoRepeatsStep
<1>11. PhaseInv'
  <2>1. Phase(t)'
    BY <1>2, <1>3, <1>5, <1>6 DEF Phase, Searching
  <2>2. \A w \in Workers : pc'[w] # "move" => moving'[w] = <<>>
    BY <1>1, <1>2, <1>3, Constants DEF PhaseInv
  <2>3. drains' > 0 /\ cur'[Main] = None => calls'[Main] = <<>>
    BY <1>1, <1>4, <1>5, <1>6, Constants DEF PhaseInv
  <2>4. cur' \in [Threads -> Tasks \cup {None}] /\ done' \subseteq Tasks
    BY <1>1, <1>2, <1>5 DEF PhaseInv
  <2>5. \A u \in Threads \ {t} : /\ pc'[u] = pc[u] /\ cur'[u] = cur[u]
                                 /\ todo'[u] = todo[u] /\ calls'[u] = calls[u]
    BY <1>2, <1>3, <1>4, <1>6
  <2> QED
    BY <1>1, <2>1, <2>2, <2>3, <2>4, <2>5, PhaseStep
<1> QED
  BY <1>9, <1>10, <1>11 DEF PlacesInv

LEMMA DrainExecutePlaces ==
    ASSUME TypeInv, LabelInv, DrainInv, PlacesInv, DrainExecute
    PROVE  PlacesInv'
<1> PICK x : x = Head(drained)
  OBVIOUS
<1>1. /\ pc[Main] = "idle" /\ drained # <<>> /\ drained' = Tail(drained) /\ Start(Main, x)
      /\ UNCHANGED <<deque, global, io, head, drains>> /\ Main \in Threads
  BY Constants DEF DrainExecute, queues
<1>2. drained \in Seq(Tasks) /\ IsInjective(drained)
  BY DEF TypeInv, PlacesInv, NoRepeats
<1>3. /\ x \in Range(drained) /\ IsInjective(drained')
      /\ Range(drained') = Range(drained) \ {x}
  BY <1>1, <1>2, TailList
<1>4. x \in Tasks /\ Has("drained", None, x) /\ Takes("drained", None, {x})
  BY <1>2, <1>3, RangeIs, HasIs, ListChange
<1>5. calls[Main] = <<>>
  <2>1. drains > 0
    BY <1>1 DEF DrainInv, TypeInv
  <2>2. cur[Main] = None
    BY <1>1, PhaseOf
  <2> QED
    BY <2>1, <2>2 DEF PlacesInv, PhaseInv
<1>6. \A m \in {"deque", "global", "io", "drained"} \ {"drained"} : Same(m)
  BY <1>1, SameFacts
<1> QED
  BY <1>1, <1>3, <1>4, <1>5, <1>6, StartPlaces

LEMMA IOTakePlaces ==
    ASSUME TypeInv, LabelInv, PlacesInv, NEW t \in Threads, IOTake(t)
    PROVE  PlacesInv'
<1> PICK x : x = Head(io)
  OBVIOUS
<1>1. /\ t \in IOWorkers /\ pc[t] = "idle" /\ io # <<>> /\ io' = Tail(io) /\ Start(t, x)
      /\ UNCHANGED <<deque, global, head, drained, drains>>
  BY DEF IOTake, main
<1>2. io \in Seq(Tasks) /\ IsInjective(io)
  BY DEF TypeInv, PlacesInv, NoRepeats
<1>3. x \in Range(io) /\ IsInjective(io') /\ Range(io') = Range(io) \ {x}
  BY <1>1, <1>2, TailList
<1>4. x \in Tasks /\ Has("io", None, x) /\ Takes("io", None, {x})
  BY <1>2, <1>3, RangeIs, HasIs, ListChange
<1>5. calls[t] = <<>>
  <2>1. cur[t] = None
    BY <1>1, PhaseOf
  <2>2. t \notin Externals
    BY <1>1, RoutingAssumption
  <2> QED
    BY <2>1, <2>2, PhaseOf DEF Phase
<1>6. \A m \in {"deque", "global", "io", "drained"} \ {"io"} : Same(m)
  BY <1>1, SameFacts
<1> QED
  BY <1>1, <1>3, <1>4, <1>5, <1>6, StartPlaces

\* A thread takes an end of a deque.
LEMMA FromDeque ==
    ASSUME TypeInv, LabelInv, PlacesInv, NEW t \in Threads, NEW v \in Workers,
           NEW p \in Priorities, NEW s, NEW x, Start(t, x),
           pc[t] \in {"idle", "high", "normal", "steal", "popStolen"}, calls[t] = <<>>,
           x \in Range(deque[v][p]), IsInjective(s), Range(s) = Range(deque[v][p]) \ {x},
           deque' = [deque EXCEPT ![v][p] = s], UNCHANGED <<global, io, head, drained, drains>>
    PROVE  PlacesInv'
<1>1. deque \in [Workers -> [Priorities -> Seq(Tasks)]]
  BY DEF TypeInv
<1>2. x \in Tasks
  <2>1. deque[v][p] \in Seq(Tasks)
    BY <1>1
  <2> QED
    BY <2>1, RangeIs
<1> PICK key : key = <<v, p>>
  OBVIOUS
<1>3. Has("deque", key, x)
  BY HasIs
<1>4. Takes("deque", key, {x})
  <2>1. Range(s) = Range(deque[v][p]) \ {x} => Takes("deque", <<v, p>>, {x})
    BY ONLY <1>1, deque' = [deque EXCEPT ![v][p] = s], v \in Workers, p \in Priorities,
            DequeChange
  <2> QED
    BY <2>1
<1>5. \A w \in Workers, q \in Priorities :
          deque'[w][q] = deque[w][q] \/ IsInjective(deque'[w][q])
  <2>1. deque'[v][p] = s /\ \A w \in Workers, q \in Priorities :
                               w # v \/ q # p => deque'[w][q] = deque[w][q]
    BY <1>1
  <2> QED
    BY <2>1
<1>6. \A m \in {"deque", "global", "io", "drained"} \ {"deque"} : Same(m)
  BY SameFacts
<1> QED
  BY <1>2, <1>3, <1>4, <1>5, <1>6, StartPlaces

LEMMA PopOwnPlaces ==
    ASSUME TypeInv, LabelInv, PlacesInv, NEW t \in Threads, PopOwn(t)
    PROVE  PlacesInv'
<1> PICK p : p = First(deque[t])
  OBVIOUS
<1> PICK q : q = deque[t][p]
  OBVIOUS
<1>1. /\ t \in Workers /\ q # <<>> /\ deque' = [deque EXCEPT ![t][p] = Front(q)]
      /\ Start(t, Last(q)) /\ UNCHANGED <<global, io, head, drained, drains>>
      /\ MaySearch(t) \/ pc[t] = "popStolen"
  BY DEF PopOwn, main
<1>2. p \in Priorities
  BY FirstType
<1>3. q \in Seq(Tasks) /\ IsInjective(q)
  BY <1>1, <1>2 DEF TypeInv, PlacesInv, NoRepeats
<1>4. /\ Last(q) \in Range(q) /\ IsInjective(Front(q))
      /\ Range(Front(q)) = Range(q) \ {Last(q)}
  BY <1>1, <1>3, FrontList
<1>5. pc[t] \in {"idle", "high", "normal", "steal", "popStolen"} /\ calls[t] = <<>>
  BY <1>1, PhaseOf DEF MaySearch
<1> QED
  BY <1>1, <1>2, <1>4, <1>5, FromDeque

LEMMA StealOnePlaces ==
    ASSUME TypeInv, LabelInv, PlacesInv, NEW t \in Threads, NEW v \in Workers, StealOne(t, v)
    PROVE  PlacesInv'
<1> PICK p : p = First(deque[v])
  OBVIOUS
<1> PICK q : q = deque[v][p]
  OBVIOUS
<1>1. /\ pc[t] = "steal" /\ q # <<>> /\ deque' = [deque EXCEPT ![v][p] = Tail(q)]
      /\ Start(t, Head(q)) /\ UNCHANGED <<global, io, head, drained, drains>>
  BY DEF StealOne, main
<1>2. p \in Priorities
  BY FirstType
<1>3. q \in Seq(Tasks) /\ IsInjective(q)
  BY <1>2 DEF TypeInv, PlacesInv, NoRepeats
<1>4. Head(q) \in Range(q) /\ IsInjective(Tail(q)) /\ Range(Tail(q)) = Range(q) \ {Head(q)}
  BY <1>1, <1>3, TailList
<1>5. pc[t] \in {"idle", "high", "normal", "steal", "popStolen"} /\ calls[t] = <<>>
  BY <1>1, PhaseOf
<1> QED
  BY <1>1, <1>2, <1>4, <1>5, FromDeque

LEMMA TakeGlobalPlaces ==
    ASSUME TypeInv, LabelInv, PlacesInv, NEW t \in Threads, NEW p \in Priorities,
           TakeGlobal(t, p)
    PROVE  PlacesInv'
<1> PICK q : q = global[p]
  OBVIOUS
<1>1. /\ pc[t] = p /\ pc[t] \in {"high", "normal"}
      /\ UNCHANGED <<deque, io, head, drained, drains>>
  BY DEF TakeGlobal, Priorities, main
<1>2. calls[t] = <<>> /\ cur[t] = None /\ todo[t] = <<>>
  BY <1>1, PhaseOf
<1>3. CASE q # <<>>
  <2>1. global' = [global EXCEPT ![p] = Tail(q)] /\ Start(t, Head(q))
    BY <1>3 DEF TakeGlobal
  <2>2. global \in [Priorities -> Seq(Tasks)] /\ q \in Seq(Tasks) /\ IsInjective(q)
    BY DEF TypeInv, PlacesInv, NoRepeats
  <2>3. Head(q) \in Range(q) /\ IsInjective(Tail(q)) /\ Range(Tail(q)) = Range(q) \ {Head(q)}
    BY <1>3, <2>2, TailList
  <2>4. Head(q) \in Tasks /\ Has("global", p, Head(q))
    BY <2>2, <2>3, RangeIs, HasIs
  <2>5. /\ Takes("global", p, {Head(q)})
        /\ \A r \in Priorities : global'[r] = global[r] \/ IsInjective(global'[r])
    <3>1. /\ global'[p] = Tail(q) /\ \A r \in Priorities \ {p} : global'[r] = global[r]
          /\ Range(Tail(q)) = Range(global[p]) \ {Head(q)} => Takes("global", p, {Head(q)})
      BY <2>1, <2>2, GlobalChange
    <3> QED
      BY <2>3, <3>1
  <2>6. \A m \in {"deque", "global", "io", "drained"} \ {"global"} : Same(m)
    BY <1>1, SameFacts
  <2> QED
    BY <1>1, <1>2, <2>1, <2>4, <2>5, <2>6, StartPlaces
<1>4. CASE q = <<>>
  <2> PICK l : l = IF p = "high" THEN "normal" ELSE "steal"
    OBVIOUS
  <2>1. /\ Goto(t, l)
        /\ UNCHANGED <<deque, global, io, head, drained, drains, moving, calls, todo, cur, done>>
    BY <1>1, <1>4 DEF TakeGlobal, call
  <2>2. l \in Labels /\ l \notin {"place", "cas", "count", "run"}
    BY DEF Labels
  <2> QED
    BY <1>1, <1>2, <2>1, <2>2, LabelPlaces
<1> QED
  BY <1>3, <1>4

----------------------------------------------------------------------------
(* Every step, and the initial state.                                      *)

LEMMA ThreadStepPlaces ==
    ASSUME TypeInv, LabelInv, PlacesInv, NEW t \in Threads, ThreadStep(t)
    PROVE  PlacesInv'
<1>1. CASE BeginCall(t)
  BY <1>1, BeginCallPlaces
<1>2. CASE PlaceIO(t) \/ PlaceLocal(t) \/ PlaceGlobal(t)
  BY <1>2, PlaceIOPlaces, PlaceLocalPlaces, PlaceGlobalPlaces
<1>3. CASE WakeForRoom(t) \/ PushLoad(t) \/ PushCount(t) \/ EndCall(t)
  BY <1>3, WakeForRoomPlaces, PushLoadPlaces, PushCountPlaces, EndCallPlaces
<1>4. CASE PushCas(t)
  BY <1>4, PushCasPlaces, PushCasFailsPlaces
<1>5. CASE Finish(t) \/ IOTake(t) \/ Search(t)
  BY <1>5, FinishPlaces, IOTakePlaces, SearchPlaces
<1>6. CASE PopOwn(t) \/ PopStolenMiss(t) \/ Move(t)
  BY <1>6, PopOwnPlaces, PopStolenMissPlaces, MovePlaces
<1>7. CASE \E p \in Priorities : TakeGlobal(t, p)
  BY <1>7, TakeGlobalPlaces
<1>8. CASE \E v \in Workers : StealBatch(t, v) \/ StealOne(t, v) \/ StealMiss(t, v)
  BY <1>8, StealBatchPlaces, StealOnePlaces, StealMissPlaces
<1>9. CASE SearchEnds(t)
  BY <1>9, SearchEndsPlaces
<1> QED
  BY <1>1, <1>2, <1>3, <1>4, <1>5, <1>6, <1>7, <1>8, <1>9 DEF ThreadStep

LEMMA StutterPlaces ==
    ASSUME PlacesInv, UNCHANGED vars
    PROVE  PlacesInv'
<1>1. UNCHANGED <<deque, global, io, head, drained, drains, moving, calls, todo, cur, done, pc>>
  BY DEF vars, queues, main, search, call
<1>2. OnePlace /\ NoRepeats /\ PhaseInv
  BY DEF PlacesInv
<1>3. \A t \in Threads : Unplaced(t)' = Unplaced(t)
  BY <1>1 DEF Unplaced
<1>4. OnePlace'
  <2>1. \A m \in Kinds : Same(m)
    BY <1>1, <1>3, SameFacts DEF Kinds
  <2> QED
    BY <1>2, <2>1, Unmoved
<1>5. NoRepeats'
  BY <1>1, <1>2, <1>3, NoRepeatsStep
<1>6. PhaseInv'
  BY <1>1, <1>2 DEF PhaseInv, Phase
<1> QED
  BY <1>4, <1>5, <1>6 DEF PlacesInv

LEMMA PlacesStep ==
    ASSUME IInv, PlacesInv, [Next]_vars
    PROVE  PlacesInv'
<1>1. TypeInv /\ LabelInv /\ DrainInv
  BY DEF IInv
<1> QED
  BY <1>1, DrainTakePlaces, DrainExecutePlaces, DrainEndPlaces, ThreadStepPlaces, StutterPlaces
     DEF Next, Drain

\* At the start a task waits for the thread that will schedule it, or for the
\* task that will.
LEMMA InitPlaces == Init => PlacesInv
<1> SUFFICES ASSUME Init PROVE PlacesInv
  OBVIOUS
<1>1. /\ \A w \in Workers, p \in Priorities : deque[w][p] = <<>>
      /\ \A p \in Priorities : global[p] = <<>>
      /\ \A w \in Workers : moving[w] = <<>>
      /\ io = <<>> /\ head = <<>> /\ drained = <<>> /\ drains = 0 /\ done = {}
  BY DEF Init
<1>2. \A t \in Threads : /\ pc[t] = "idle" /\ cur[t] = None /\ todo[t] = <<>>
                         /\ calls[t] = IF t \in Externals THEN Calls[t] ELSE <<>>
  BY DEF Init
<1>3. cur \in [Threads -> Tasks \cup {None}]
  BY DEF Init
<1>4. \A t \in Threads : Unplaced(t) = <<>>
  BY <1>2 DEF Unplaced
<1>5. Externals \subseteq Threads /\ None \notin Tasks /\ Externals \cap Tasks = {}
  BY RoutingAssumption DEF Threads
<1>6. \A t \in Threads : Called(t) = IF t \in Externals THEN Callees(t) ELSE {}
  <2>1. \A t \in Externals : Called(t) = Callees(t)
    BY <1>2, <1>5, CalleesIs DEF Called
  <2>2. TasksOf(<<>>) = {}
    BY TasksOfIs
  <2> QED
    BY <1>2, <2>1, <2>2 DEF Called
<1>7. \A x : Unborn(x) <=> \E y \in Tasks : x \in Callees(y)
  BY <1>1, <1>2, <1>5 DEF Unborn
<1>8. OnePlace
  <2> SUFFICES ASSUME NEW x \in Tasks
               PROVE  /\ \E k \in Kinds : \E a : Has(k, a, x)
                      /\ \A k, l \in Kinds : \A a, b : Has(k, a, x) /\ Has(l, b, x)
                                                       => k = l /\ a = b
    BY DEF OnePlace
  <2>1. \A k \in Kinds : \A a :
            Has(k, a, x) <=> \/ k = "calls" /\ a \in Externals /\ x \in Callees(a)
                             \/ k = "unborn" /\ a = None /\ \E y \in Tasks : x \in Callees(y)
    <3> SUFFICES ASSUME NEW k \in Kinds, NEW a
                 PROVE  Has(k, a, x) <=>
                           \/ k = "calls" /\ a \in Externals /\ x \in Callees(a)
                           \/ k = "unborn" /\ a = None /\ \E y \in Tasks : x \in Callees(y)
      OBVIOUS
    <3>1. CASE k = "calls"
      BY <1>5, <1>6, <3>1, HasIs
    <3>2. CASE k = "unborn"
      BY <1>7, <3>2, HasIs
    <3>3. CASE k = "cur"
      BY <1>2, <1>5, <3>3, HasIs
    <3>4. CASE k \in {"todo", "deque", "moving", "global", "io", "head", "drained", "done"}
      BY <1>1, <1>4, <3>4, EmptyList, HasIs
    <3> QED
      BY <3>1, <3>2, <3>3, <3>4 DEF Kinds
  <2>2. PICK o \in Externals \cup Tasks : x \in Callees(o)
    BY CallsAssumption
  <2>3. \A q \in Externals \cup Tasks : x \in Callees(q) => q = o
    BY <2>2, CalleesIs
  <2>4. "calls" \in Kinds /\ "unborn" \in Kinds
    BY DEF Kinds
  <2>5. CASE o \in Externals
    <3>1. o \notin Tasks /\ \A y \in Tasks : x \notin Callees(y)
      BY <1>5, <2>3, <2>5
    <3>2. \A k \in Kinds : \A a : Has(k, a, x) <=> k = "calls" /\ a = o
      BY <2>1, <2>2, <2>3, <2>5, <3>1
    <3> QED
      BY <2>4, <3>2
  <2>6. CASE o \in Tasks
    <3>1. o \notin Externals /\ \A a \in Externals : x \notin Callees(a)
      BY <1>5, <2>3, <2>6
    <3>2. \A k \in Kinds : \A a : Has(k, a, x) <=> k = "unborn" /\ a = None
      BY <2>1, <2>2, <2>6, <3>1
    <3> QED
      BY <2>4, <3>2
  <2> QED
    BY <2>5, <2>6
<1>9. NoRepeats
  <2>1. \A t \in Threads : OnceIn(calls[t])
    <3>1. \A t \in Externals : OnceIn(Calls[t])
      BY CalleesIs
    <3>2. OnceIn(<<>>)
      BY DEF OnceIn
    <3> QED
      BY <1>2, <3>1, <3>2
  <2> QED
    BY <1>1, <1>4, <2>1, EmptyList DEF NoRepeats, CallsOnce
<1>10. PhaseInv
  BY <1>1, <1>2, <1>3 DEF PhaseInv, Phase, Searching
<1> QED
  BY <1>8, <1>9, <1>10 DEF PlacesInv

----------------------------------------------------------------------------
(* The spots of a task, counted.                                           *)

LEMMA SpotFacts ==
    ASSUME NEW kind, NEW key, NEW x, NEW s
    PROVE  /\ x \in Range(s) <=> \E z : z \in Spot(kind, key, x, s)
           /\ IsInjective(s) => \A y, z \in Spot(kind, key, x, s) : y = z
<1>1. \A z : z \in Spot(kind, key, x, s) <=> \E i \in DOMAIN s : s[i] = x /\ z = <<kind, key, i>>
  BY DEF Spot
<1>2. x \in Range(s) <=> \E z : z \in Spot(kind, key, x, s)
  BY <1>1 DEF Range
<1>3. ASSUME IsInjective(s), NEW y \in Spot(kind, key, x, s), NEW z \in Spot(kind, key, x, s)
      PROVE  y = z
  BY <1>1, <1>3 DEF IsInjective
<1> QED
  BY <1>2, <1>3

\* s is a spot of x in the list, or the lists, of this kind and key.
SpotAt(kind, key, x, s) ==
    \/ kind = "todo" /\ key \in Threads /\ s \in Spot("todo", key, x, Unplaced(key))
    \/ kind = "calls" /\ key \in Threads
         /\ \E i \in DOMAIN calls[key] : s \in Spot("calls", <<key, i>>, x, calls[key][i])
    \/ kind = "cur" /\ key \in Threads /\ s \in Spot("cur", key, x, <<cur[key]>>)
    \/ kind = "deque" /\ \E w \in Workers, p \in Priorities :
                            key = <<w, p>> /\ s \in Spot("deque", <<w, p>>, x, deque[w][p])
    \/ kind = "moving" /\ key \in Workers /\ s \in Spot("moving", key, x, moving[key])
    \/ kind = "global" /\ key \in Priorities /\ s \in Spot("global", key, x, global[key])
    \/ kind = "io" /\ key = None /\ s \in Spot("io", None, x, io)
    \/ kind = "head" /\ key = None /\ s \in Spot("head", None, x, head)
    \/ kind = "drained" /\ key = None /\ s \in Spot("drained", None, x, drained)

LEMMA SpotAtIs ==
    /\ \A a, x, s : SpotAt("todo", a, x, s) <=> a \in Threads /\ s \in Spot("todo", a, x, Unplaced(a))
    /\ \A a, x, s : SpotAt("calls", a, x, s) <=> a \in Threads /\
          \E i \in DOMAIN calls[a] : s \in Spot("calls", <<a, i>>, x, calls[a][i])
    /\ \A a, x, s : SpotAt("cur", a, x, s) <=> a \in Threads /\ s \in Spot("cur", a, x, <<cur[a]>>)
    /\ \A a, x, s : SpotAt("deque", a, x, s) <=> \E w \in Workers, p \in Priorities :
          a = <<w, p>> /\ s \in Spot("deque", <<w, p>>, x, deque[w][p])
    /\ \A a, x, s : SpotAt("moving", a, x, s) <=> a \in Workers /\ s \in Spot("moving", a, x, moving[a])
    /\ \A a, x, s : SpotAt("global", a, x, s) <=> a \in Priorities /\ s \in Spot("global", a, x, global[a])
    /\ \A a, x, s : SpotAt("io", a, x, s) <=> a = None /\ s \in Spot("io", None, x, io)
    /\ \A a, x, s : SpotAt("head", a, x, s) <=> a = None /\ s \in Spot("head", None, x, head)
    /\ \A a, x, s : SpotAt("drained", a, x, s) <=> a = None /\ s \in Spot("drained", None, x, drained)
  BY DEF SpotAt

Carried == Kinds \ {"done", "unborn"}

LEMMA SpotsAre ==
    ASSUME NEW x, NEW s
    PROVE  s \in Spots(x) <=> \E k \in Carried : \E a : SpotAt(k, a, x, s)
<1> DEFINE A == {Spot("todo", t, x, Unplaced(t)) : t \in Threads}
           B == {UNION {Spot("calls", <<t, i>>, x, calls[t][i]) : i \in DOMAIN calls[t]}
                 : t \in Threads}
           C == {Spot("cur", t, x, <<cur[t]>>) : t \in Threads}
           D == {Spot("deque", <<w, p>>, x, deque[w][p]) : w \in Workers, p \in Priorities}
           E == {Spot("moving", w, x, moving[w]) : w \in Workers}
           F == {Spot("global", p, x, global[p]) : p \in Priorities}
           G == {Spot("io", None, x, io), Spot("head", None, x, head),
                 Spot("drained", None, x, drained)}
<1>1. Spots(x) = UNION (A \cup B \cup C \cup D \cup E \cup F \cup G)
  BY DEF Spots
<1>2. (\E P \in A : s \in P) <=> \E a : SpotAt("todo", a, x, s)
  BY SpotAtIs
<1>3. (\E P \in B : s \in P) <=> \E a : SpotAt("calls", a, x, s)
  <2>1. (\E P \in B : s \in P) <=>
           \E a \in Threads : \E i \in DOMAIN calls[a] : s \in Spot("calls", <<a, i>>, x, calls[a][i])
    <3>1. (\E P \in B : s \in P) <=>
             \E a \in Threads :
                s \in UNION {Spot("calls", <<a, i>>, x, calls[a][i]) : i \in DOMAIN calls[a]}
      BY Zenon
    <3>2. \A a : s \in UNION {Spot("calls", <<a, i>>, x, calls[a][i]) : i \in DOMAIN calls[a]} <=>
             \E i \in DOMAIN calls[a] : s \in Spot("calls", <<a, i>>, x, calls[a][i])
      OBVIOUS
    <3> QED
      BY ONLY <3>1, <3>2
  <2>2. \A a : SpotAt("calls", a, x, s) <=> a \in Threads /\
           \E i \in DOMAIN calls[a] : s \in Spot("calls", <<a, i>>, x, calls[a][i])
    BY SpotAtIs
  <2> QED
    BY ONLY <2>1, <2>2
<1>4. (\E P \in C : s \in P) <=> \E a : SpotAt("cur", a, x, s)
  <2>1. (\E P \in C : s \in P) <=> \E a \in Threads : s \in Spot("cur", a, x, <<cur[a]>>)
    OBVIOUS
  <2>2. \A a : SpotAt("cur", a, x, s) <=> a \in Threads /\ s \in Spot("cur", a, x, <<cur[a]>>)
    BY SpotAtIs
  <2> QED
    BY ONLY <2>1, <2>2
<1>5. (\E P \in D : s \in P) <=> \E a : SpotAt("deque", a, x, s)
  <2>1. (\E P \in D : s \in P) <=>
           \E w \in Workers, p \in Priorities : s \in Spot("deque", <<w, p>>, x, deque[w][p])
    <3>1. ASSUME NEW P \in D, s \in P
          PROVE  \E w \in Workers, p \in Priorities : s \in Spot("deque", <<w, p>>, x, deque[w][p])
      <4>1. \E w \in Workers, p \in Priorities : P = Spot("deque", <<w, p>>, x, deque[w][p])
        OBVIOUS
      <4> QED
        BY <3>1, <4>1
    <3>2. ASSUME NEW w \in Workers, NEW p \in Priorities, s \in Spot("deque", <<w, p>>, x, deque[w][p])
          PROVE  \E P \in D : s \in P
      <4>1. Spot("deque", <<w, p>>, x, deque[w][p]) \in D
        OBVIOUS
      <4> QED
        BY <3>2, <4>1
    <3> HIDE DEF D
    <3> QED
      BY ONLY <3>1, <3>2
  <2>2. \A a : SpotAt("deque", a, x, s) <=> \E w \in Workers, p \in Priorities :
           a = <<w, p>> /\ s \in Spot("deque", <<w, p>>, x, deque[w][p])
    <3>1. ASSUME NEW a
          PROVE  SpotAt("deque", a, x, s) <=> \E w \in Workers, p \in Priorities :
                    a = <<w, p>> /\ s \in Spot("deque", <<w, p>>, x, deque[w][p])
      BY ONLY DEF SpotAt
    <3> QED
      BY ONLY <3>1
  <2>3. (\E a : SpotAt("deque", a, x, s)) <=>
           \E w \in Workers, p \in Priorities : s \in Spot("deque", <<w, p>>, x, deque[w][p])
    BY ONLY <2>2, Zenon
  <2> HIDE DEF D
  <2> QED
    BY ONLY <2>1, <2>3
<1>6. (\E P \in E : s \in P) <=> \E a : SpotAt("moving", a, x, s)
  BY SpotAtIs
<1>7. (\E P \in F : s \in P) <=> \E a : SpotAt("global", a, x, s)
  BY SpotAtIs
<1>8. (\E P \in G : s \in P) <=> \/ \E a : SpotAt("io", a, x, s)
                                 \/ \E a : SpotAt("head", a, x, s)
                                 \/ \E a : SpotAt("drained", a, x, s)
  <2>1. (\E P \in G : s \in P) <=> \/ s \in Spot("io", None, x, io) \/ s \in Spot("head", None, x, head)
                                   \/ s \in Spot("drained", None, x, drained)
    OBVIOUS
  <2>2. /\ (\E a : SpotAt("io", a, x, s)) <=> s \in Spot("io", None, x, io)
        /\ (\E a : SpotAt("head", a, x, s)) <=> s \in Spot("head", None, x, head)
        /\ (\E a : SpotAt("drained", a, x, s)) <=> s \in Spot("drained", None, x, drained)
    BY SpotAtIs
  <2> QED
    BY ONLY <2>1, <2>2
<1> HIDE DEF A, B, C, D, E, F, G
<1>9. s \in Spots(x) <=> \/ (\E P \in A : s \in P) \/ (\E P \in B : s \in P)
                         \/ (\E P \in C : s \in P) \/ (\E P \in D : s \in P)
                         \/ (\E P \in E : s \in P) \/ (\E P \in F : s \in P)
                         \/ (\E P \in G : s \in P)
  <2>1. s \in Spots(x) <=> \E P \in A \cup B \cup C \cup D \cup E \cup F \cup G : s \in P
    BY <1>1
  <2> QED
    BY ONLY <2>1
<1>10. (\E k \in Carried : \E a : SpotAt(k, a, x, s)) <=>
          \/ (\E a : SpotAt("todo", a, x, s)) \/ (\E a : SpotAt("calls", a, x, s))
          \/ (\E a : SpotAt("cur", a, x, s)) \/ (\E a : SpotAt("deque", a, x, s))
          \/ (\E a : SpotAt("moving", a, x, s)) \/ (\E a : SpotAt("global", a, x, s))
          \/ (\E a : SpotAt("io", a, x, s)) \/ (\E a : SpotAt("head", a, x, s))
          \/ (\E a : SpotAt("drained", a, x, s))
  <2>1. Carried = {"todo", "calls", "cur", "deque", "moving", "global", "io", "head", "drained"}
    BY DEF Carried, Kinds
  <2> QED
    BY ONLY <2>1
<1> QED
  BY ONLY <1>2, <1>3, <1>4, <1>5, <1>6, <1>7, <1>8, <1>9, <1>10

LEMMA SpotHas ==
    ASSUME NEW x \in Tasks, NEW k \in Carried, NEW a
    PROVE  Has(k, a, x) <=> \E s : SpotAt(k, a, x, s)
<1>1. CASE k = "calls"
  <2>1. a \in Threads => (x \in Called(a) <=> \E i \in DOMAIN calls[a] : x \in Range(calls[a][i]))
    BY DEF Called, TasksOf
  <2>2. \A i : x \in Range(calls[a][i]) <=> \E z : z \in Spot("calls", <<a, i>>, x, calls[a][i])
    BY SpotFacts
  <2>3. Has("calls", a, x) <=> a \in Threads /\ x \in Called(a)
    BY HasIs
  <2>4. \A s : SpotAt("calls", a, x, s) <=> a \in Threads /\
           \E i \in DOMAIN calls[a] : s \in Spot("calls", <<a, i>>, x, calls[a][i])
    BY SpotAtIs
  <2> QED
    BY ONLY <1>1, <2>1, <2>2, <2>3, <2>4
<1>2. CASE k = "cur"
  <2>1. cur[a] = x <=> x \in Range(<<cur[a]>>)
    BY DEF Range
  <2>2. x \in Range(<<cur[a]>>) <=> \E z : z \in Spot("cur", a, x, <<cur[a]>>)
    BY SpotFacts
  <2> QED
    BY <1>2, <2>1, <2>2, HasIs, SpotAtIs
<1>3. CASE k = "todo"
  <2>1. x \in Range(Unplaced(a)) <=> \E z : z \in Spot("todo", a, x, Unplaced(a))
    BY SpotFacts
  <2> QED
    BY <1>3, <2>1, HasIs, SpotAtIs
<1>4. CASE k = "deque"
  <2>1. \A w, p : x \in Range(deque[w][p]) <=> \E z : z \in Spot("deque", <<w, p>>, x, deque[w][p])
    BY SpotFacts
  <2>2. Has("deque", a, x) <=> \E w \in Workers, p \in Priorities :
           a = <<w, p>> /\ x \in Range(deque[w][p])
    BY HasIs
  <2>3. \A s : SpotAt("deque", a, x, s) <=> \E w \in Workers, p \in Priorities :
           a = <<w, p>> /\ s \in Spot("deque", <<w, p>>, x, deque[w][p])
    BY SpotAtIs
  <2> QED
    BY ONLY <1>4, <2>1, <2>2, <2>3
<1>5. CASE k = "moving"
  <2>1. x \in Range(moving[a]) <=> \E z : z \in Spot("moving", a, x, moving[a])
    BY SpotFacts
  <2> QED
    BY <1>5, <2>1, HasIs, SpotAtIs
<1>6. CASE k = "global"
  <2>1. x \in Range(global[a]) <=> \E z : z \in Spot("global", a, x, global[a])
    BY SpotFacts
  <2> QED
    BY <1>6, <2>1, HasIs, SpotAtIs
<1>7. CASE k \in {"io", "head", "drained"}
  <2>1. /\ x \in Range(io) <=> \E z : z \in Spot("io", None, x, io)
        /\ x \in Range(head) <=> \E z : z \in Spot("head", None, x, head)
        /\ x \in Range(drained) <=> \E z : z \in Spot("drained", None, x, drained)
    BY SpotFacts
  <2> QED
    BY <1>7, <2>1, HasIs, SpotAtIs
<1> QED
  BY <1>1, <1>2, <1>3, <1>4, <1>5, <1>6, <1>7 DEF Carried, Kinds

LEMMA OneSpot ==
    ASSUME NoRepeats, NEW x \in Tasks, NEW k \in Carried, NEW a, NEW y, NEW z,
           SpotAt(k, a, x, y), SpotAt(k, a, x, z)
    PROVE  y = z
<1>1. CASE k = "calls"
  <2>1. /\ a \in Threads
        /\ \E i \in DOMAIN calls[a] : y \in Spot("calls", <<a, i>>, x, calls[a][i])
        /\ \E j \in DOMAIN calls[a] : z \in Spot("calls", <<a, j>>, x, calls[a][j])
    BY <1>1 DEF SpotAt
  <2>2. PICK i \in DOMAIN calls[a] : \E m \in DOMAIN calls[a][i] :
            calls[a][i][m] = x /\ y = <<"calls", <<a, i>>, m>>
    BY <2>1 DEF Spot
  <2>3. PICK j \in DOMAIN calls[a] : \E n \in DOMAIN calls[a][j] :
            calls[a][j][n] = x /\ z = <<"calls", <<a, j>>, n>>
    BY <2>1 DEF Spot
  <2>4. PICK m \in DOMAIN calls[a][i] : calls[a][i][m] = x /\ y = <<"calls", <<a, i>>, m>>
    BY <2>2
  <2>5. PICK n \in DOMAIN calls[a][j] : calls[a][j][n] = x /\ z = <<"calls", <<a, j>>, n>>
    BY <2>3
  <2>6. i = j /\ m = n
    BY <2>1, <2>4, <2>5 DEF NoRepeats, CallsOnce, OnceIn
  <2> QED
    BY <2>4, <2>5, <2>6
<1>2. CASE k = "cur"
  <2>1. \A t : IsInjective(<<cur[t]>>)
    BY DEF IsInjective
  <2> QED
    BY <1>2, <2>1, SpotFacts DEF SpotAt
<1>3. CASE k = "todo"
  <2>1. a \in Threads /\ y \in Spot("todo", a, x, Unplaced(a)) /\ z \in Spot("todo", a, x, Unplaced(a))
    BY <1>3, SpotAtIs
  <2>2. IsInjective(Unplaced(a))
    BY <2>1 DEF NoRepeats
  <2> QED
    BY <2>1, <2>2, SpotFacts
<1>4. CASE k = "deque"
  <2>1. \A s : SpotAt("deque", a, x, s) <=> \E w \in Workers, p \in Priorities :
           a = <<w, p>> /\ s \in Spot("deque", <<w, p>>, x, deque[w][p])
    BY SpotAtIs
  <2>2. PICK w \in Workers, p \in Priorities :
            a = <<w, p>> /\ y \in Spot("deque", a, x, deque[w][p])
    BY <1>4, <2>1
  <2>3. PICK u \in Workers, q \in Priorities :
            a = <<u, q>> /\ z \in Spot("deque", a, x, deque[u][q])
    BY <1>4, <2>1
  <2>4. u = w /\ q = p
    BY <2>2, <2>3
  <2>5. IsInjective(deque[w][p])
    BY DEF NoRepeats
  <2> QED
    BY <2>2, <2>3, <2>4, <2>5, SpotFacts
<1>5. CASE k = "moving"
  <2>1. a \in Workers /\ y \in Spot("moving", a, x, moving[a]) /\ z \in Spot("moving", a, x, moving[a])
    BY <1>5, SpotAtIs
  <2>2. IsInjective(moving[a])
    BY <2>1 DEF NoRepeats
  <2> QED
    BY <2>1, <2>2, SpotFacts
<1>6. CASE k \in {"global", "io", "head", "drained"}
  BY <1>6, SpotFacts DEF SpotAt, NoRepeats
<1> QED
  BY <1>1, <1>2, <1>3, <1>4, <1>5, <1>6 DEF Carried, Kinds

----------------------------------------------------------------------------
(* The theorems.                                                           *)

\* Every behaviour keeps the types, the labels, the drain and the count.
THEOREM RoutingInvariant == Spec => []IInv
<1>1. IInv /\ [Next]_vars => IInv'
  BY StepCases
<1> QED
  BY InitIInv, <1>1, PTL DEF Spec

\* m_mainThreadCount is, up to wrapping, what the list holds and what a drain
\* has taken, less the pushes that have not counted their task yet, for any
\* number of threads that push while one drains (pushMainThreadTask,
\* drainMainThreadTasks).
THEOREM MainCountHolds == Spec => []MainCountExact
<1>1. IInv => MainCountExact
  BY DEF IInv
<1> QED
  BY RoutingInvariant, <1>1, PTL

\* Main-thread tasks leave in the order in which they were pushed, each once:
\* a push that swings the head enters its task, a drain that takes the list
\* and reverses it changes nothing, a task leaves when the drain executes it.
THEOREM MainQueueIsFifo == Spec => ImplementsMainQueue
<1>1. Init => MainQueue!Init
  <2> SUFFICES ASSUME Init PROVE drained \o Reverse(head) = <<>>
    BY DEF MainQueue!Init
  <2>1. drained = <<>> /\ head = <<>>
    BY DEF Init
  <2>2. Reverse(head) = <<>>
    BY <2>1, ReverseEmpty
  <2> QED
    BY <2>1, <2>2
<1>2. IInv /\ [Next]_vars => [MainQueue!Enter \/ MainQueue!Leave]_(drained \o Reverse(head))
  <2> SUFFICES ASSUME IInv, [Next]_vars
               PROVE  \/ MainQueue!Enter \/ MainQueue!Leave
                      \/ UNCHANGED (drained \o Reverse(head))
    OBVIOUS
  <2>1. head \in Seq(Tasks) /\ drained \in Seq(Tasks) /\ Reverse(head) \in Seq(Tasks)
    BY ReverseType DEF IInv, TypeInv
  <2>2. CASE UNCHANGED <<head, drained>>
    BY <2>2
  <2>3. CASE \E x \in Tasks : head' = <<x>> \o head /\ drained' = drained
    <3>1. PICK x \in Tasks : head' = <<x>> \o head /\ drained' = drained
      BY <2>3
    <3>2. drained \o Reverse(<<x>> \o head) = Append(drained \o Reverse(head), x)
      BY <2>1, ReversePush
    <3>3. drained' \o Reverse(head') = Append(drained \o Reverse(head), x)
      BY <3>1, <3>2
    <3> QED
      BY <3>3 DEF MainQueue!Enter
  <2>4. CASE drained = <<>> /\ drained' = Reverse(head) /\ head' = <<>>
    <3>1. drained' \o Reverse(head') = Reverse(head)
      <4>1. Reverse(head') = <<>>
        BY <2>4, ReverseEmpty
      <4> QED
        BY <2>1, <2>4, <4>1
    <3>2. drained \o Reverse(head) = Reverse(head)
      BY <2>1, <2>4
    <3> QED
      BY <3>1, <3>2
  <2>5. CASE drained # <<>> /\ drained' = Tail(drained) /\ head' = head
    <3>1. /\ drained \o Reverse(head) # <<>>
          /\ Tail(drained \o Reverse(head)) = Tail(drained) \o Reverse(head)
      BY <2>1, <2>5, TailOfConcat
    <3>2. drained' \o Reverse(head') = Tail(drained) \o Reverse(head)
      BY <2>5
    <3> QED
      BY <3>1, <3>2 DEF MainQueue!Leave
  <2> QED
    BY <2>2, <2>3, <2>4, <2>5, StepCases
<1> QED
  BY RoutingInvariant, <1>1, <1>2, PTL DEF Spec, ImplementsMainQueue, MainQueue!Spec

\* No task is lost or doubled, from its submission to its execution: every
\* step takes a list of tasks from one place and puts it, whole, into one
\* other (schedule, scheduleBatch, findWork, drainMainThreadTasks).  It rests
\* on StealBatch, an exact claim in one step: it says that the routing keeps
\* the tasks, not that the deque's stealBatch does, which ChaseLevBatch refutes.
THEOREM TasksAreKept == Spec => []NothingLost
<1>1. IInv /\ PlacesInv /\ [Next]_vars => (IInv /\ PlacesInv)'
  BY StepCases, PlacesStep
<1>2. IInv /\ PlacesInv => NothingLost
  <2> SUFFICES ASSUME PlacesInv, NEW x \in Tasks
               PROVE  Cardinality(Spots(x)) + (IF x \in done THEN 1 ELSE 0)
                          + (IF Unborn(x) THEN 1 ELSE 0) = 1
    BY DEF NothingLost
  <2>1. OnePlace /\ NoRepeats
    BY DEF PlacesInv
  <2>2. PICK k \in Kinds : \E a : Has(k, a, x)
    BY <2>1 DEF OnePlace
  <2>3. PICK a : Has(k, a, x)
    BY <2>2
  <2>4. \A l \in Kinds : \A b : Has(l, b, x) => l = k /\ b = a
    BY <2>1, <2>3, Alone
  <2>5. /\ x \in done <=> Has("done", None, x)
        /\ Unborn(x) <=> Has("unborn", None, x)
    BY HasIs
  <2>6. "done" \in Kinds /\ "unborn" \in Kinds /\ Carried \subseteq Kinds
    BY DEF Kinds, Carried
  <2>7. CASE k \in Carried
    <3>1. x \notin done /\ ~Unborn(x)
      BY <2>4, <2>5, <2>6, <2>7 DEF Carried
    <3>2. PICK s : SpotAt(k, a, x, s)
      BY <2>3, <2>7, SpotHas
    <3>3. \A z : z \in Spots(x) <=> z = s
      <4>1. s \in Spots(x)
        BY <2>7, <3>2, SpotsAre
      <4>2. ASSUME NEW z \in Spots(x) PROVE z = s
        <5>1. PICK l \in Carried : \E b : SpotAt(l, b, x, z)
          BY SpotsAre
        <5>2. PICK b : SpotAt(l, b, x, z)
          BY <5>1
        <5>3. Has(l, b, x)
          BY <5>2, SpotHas
        <5>4. l = k /\ b = a
          BY <2>4, <2>6, <5>3
        <5> QED
          BY <2>1, <2>7, <3>2, <5>2, <5>4, OneSpot
      <4> QED
        BY <4>1, <4>2
    <3>4. Spots(x) = {s}
      BY <3>3
    <3>5. Cardinality(Spots(x)) = 1
      BY <3>4, FS_Singleton
    <3> QED
      BY <3>1, <3>5
  <2>8. CASE k \notin Carried
    <3>1. Spots(x) = {}
      <4>1. ASSUME NEW z \in Spots(x) PROVE FALSE
        <5>1. PICK l \in Carried : \E b : SpotAt(l, b, x, z)
          BY SpotsAre
        <5>2. \E b : Has(l, b, x)
          BY <5>1, SpotHas
        <5> QED
          BY <2>4, <2>6, <2>8, <5>2
      <4> QED
        BY <4>1
    <3>2. Cardinality(Spots(x)) = 0
      BY <3>1, FS_EmptySet
    <3>3. k = "done" \/ k = "unborn"
      BY <2>8 DEF Carried
    <3>4. x \in done <=> ~Unborn(x)
      BY <2>3, <2>4, <2>5, <2>6, <3>3, HasIs
    <3> QED
      BY <3>2, <3>4
  <2> QED
    BY <2>7, <2>8
<1> QED
  BY InitIInv, InitPlaces, <1>1, <1>2, PTL DEF Spec
=============================================================================
