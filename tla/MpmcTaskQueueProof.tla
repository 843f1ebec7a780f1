------------------------- MODULE MpmcTaskQueueProof -------------------------
(***************************************************************************)
(* Proofs about MpmcTaskQueue, for every number of threads, every capacity *)
(* above 1 and every number of tasks: threads with a ticket are alone at   *)
(* their cell, a consumer receives the task of its ticket, refusals are    *)
(* justified, and the queue implements FifoQueue.                          *)
(***************************************************************************)
EXTENDS MpmcTaskQueue, SequenceTheorems, TLAPS

USE QueueAssumption

----------------------------------------------------------------------------
(* Arithmetic of the ring: two positions less than a lap apart have cells  *)
(* of their own, and a lap leads back to the same cell.                    *)

\* Every position has a cell (pos & m_mask).
LEMMA CellType ==
    ASSUME NEW p \in Nat
    PROVE  Cell(p) \in Cells
  BY DEF Cell, Cells

\* Positions less than a lap apart have different cells.
LEMMA CellsDiffer ==
    ASSUME NEW p \in Nat, NEW q \in Nat, p < q, q < p + CAPACITY
    PROVE  Cell(p) # Cell(q)
<1> SUFFICES ASSUME Cell(p) = Cell(q) PROVE FALSE
  OBVIOUS
<1> DEFINE a == p \div CAPACITY
           b == q \div CAPACITY
<1>1. a \in Nat /\ b \in Nat /\ p = CAPACITY * a + Cell(p) /\ q = CAPACITY * b + Cell(q)
  BY DEF Cell
<1>2. Cell(p) \in 0..CAPACITY-1
  BY CellType DEF Cells
<1> HIDE DEF a, b
<1>3. q - p = CAPACITY * (b - a)
  BY <1>1, <1>2
<1>4. b - a >= 1
  BY <1>1, <1>3
<1>5. CAPACITY * (b - a) >= CAPACITY
  BY <1>1, <1>4
<1> QED
  BY <1>3, <1>5

\* Whole laps lead back to the same cell.
LEMMA Laps ==
    ASSUME NEW p \in Nat, NEW k \in Nat
    PROVE  p + CAPACITY * k \in Nat /\ Cell(p + CAPACITY * k) = Cell(p)
<1> DEFINE q == p + CAPACITY * k
           a == p \div CAPACITY
           b == q \div CAPACITY
           d == a + k - b
<1>0. q \in Nat
  OBVIOUS
<1>1. a \in Nat /\ b \in Nat /\ p = CAPACITY * a + Cell(p) /\ q = CAPACITY * b + Cell(q)
  <2> HIDE DEF q
  <2> QED
    BY <1>0 DEF Cell
<1>2. Cell(p) \in 0..CAPACITY-1 /\ Cell(q) \in 0..CAPACITY-1
  BY <1>0, CellType DEF Cells
<1>3. d \in Int
  BY <1>1
<1>4. CAPACITY * d = Cell(q) - Cell(p)
  <2> HIDE DEF a, b
  <2>1. CAPACITY * d = CAPACITY * a + CAPACITY * k - CAPACITY * b
    BY <1>1
  <2> QED
    BY <1>1, <1>2, <2>1
<1> HIDE DEF a, b, d, q
<1>5. ~ d >= 1
  <2>1. d >= 1 => CAPACITY * d >= CAPACITY
    BY <1>3
  <2> QED
    BY <1>2, <1>4, <2>1
<1>6. ~ d <= -1
  <2>1. d <= -1 => CAPACITY * d <= -CAPACITY
    BY <1>3
  <2> QED
    BY <1>2, <1>4, <2>1
<1>7. CAPACITY * d = 0
  BY <1>3, <1>5, <1>6
<1> QED
  BY <1>0, <1>2, <1>4, <1>7 DEF q

\* A lap leads back to the same cell.
LEMMA NextLap ==
    ASSUME NEW p \in Nat
    PROVE  Cell(p + CAPACITY) = Cell(p)
<1>1. CAPACITY * 1 = CAPACITY
  OBVIOUS
<1> QED
  BY <1>1, Laps

\* Every window of a lap contains a position of the cell of an earlier one.
LEMMA LaterLap ==
    ASSUME NEW p \in Nat, NEW w \in Nat, p < w
    PROVE  \E q \in Nat : w <= q /\ q < w + CAPACITY /\ Cell(q) = Cell(p)
<1> DEFINE m == w - p + CAPACITY - 1
           k == m \div CAPACITY
<1>1. m \in Nat /\ k \in Nat /\ m = CAPACITY * k + (m % CAPACITY) /\ m % CAPACITY \in 0..CAPACITY-1
  <2>1. m \in Nat
    OBVIOUS
  <2> HIDE DEF m
  <2> QED
    BY <2>1
<1> HIDE DEF k
<1>2. p + CAPACITY * k \in Nat /\ Cell(p + CAPACITY * k) = Cell(p)
  BY <1>1, Laps
<1>3. CAPACITY * k \in Nat /\ w - p <= CAPACITY * k /\ CAPACITY * k <= w - p + CAPACITY - 1
  BY <1>1
<1> QED
  BY <1>2, <1>3

----------------------------------------------------------------------------
(* The inductive invariant.                                                *)

Labels == {"idle", "enqSeq", "enqReload", "enqCas", "enqWrite", "enqPublish",
           "deqSeq", "deqReload", "deqCas", "deqRead", "deqRelease"}

TypeInv ==
    /\ enqueuePos \in Nat /\ dequeuePos \in Nat
    /\ sequence \in [Cells -> Int]
    /\ task \in [Cells -> Nat]
    /\ pc \in [Threads -> Labels]
    /\ pos \in [Threads -> Nat]
    /\ arg \in [Threads -> Nat]
    /\ offered \in 0..MaxTasks
    /\ tickets \in Seq(Tasks)

\* The queue never holds more than a lap, and every ticket has its task.
Positions ==
    /\ dequeuePos <= enqueuePos /\ enqueuePos <= dequeuePos + CAPACITY
    /\ Len(tickets) = enqueuePos

\* A position that has been won by a producer and not yet by a consumer: its
\* producer is at work, or its task is there.
Filled ==
    \A p \in Nat :
        dequeuePos <= p /\ p < enqueuePos =>
            \/ /\ sequence[Cell(p)] = p
               /\ \E u \in Threads : Writing(u) /\ pos[u] = p
            \/ sequence[Cell(p)] = p + 1 /\ task[Cell(p)] = tickets[p + 1]

\* A position that is next for a producer, this lap or the next: its cell is
\* free, or the consumer of the lap before is still at work there.
Free ==
    \A p \in Nat :
        enqueuePos <= p /\ p < dequeuePos + CAPACITY =>
            \/ sequence[Cell(p)] = p
            \/ /\ sequence[Cell(p)] = p - CAPACITY + 1
               /\ \E u \in Threads : Reading(u) /\ pos[u] = p - CAPACITY

\* A producer with a ticket.
Writers ==
    \A t \in Threads :
        Writing(t) =>
            /\ dequeuePos <= pos[t] /\ pos[t] < enqueuePos
            /\ sequence[Cell(pos[t])] = pos[t]
            /\ arg[t] = tickets[pos[t] + 1]
            /\ pc[t] = "enqPublish" => task[Cell(pos[t])] = arg[t]
            /\ \A u \in Threads : Writing(u) /\ pos[u] = pos[t] => u = t

\* A consumer with a ticket.
Readers ==
    \A t \in Threads :
        Reading(t) =>
            /\ pos[t] < dequeuePos /\ enqueuePos <= pos[t] + CAPACITY
            /\ sequence[Cell(pos[t])] = pos[t] + 1
            /\ pc[t] = "deqRead" => task[Cell(pos[t])] = tickets[pos[t] + 1]
            /\ pc[t] = "deqRelease" => arg[t] = tickets[pos[t] + 1]
            /\ \A u \in Threads : Reading(u) /\ pos[u] = pos[t] => u = t

\* A thread without a ticket: its position is not ahead of the queue's, and
\* at a compare-and-swap that will succeed the sequence it saw still stands.
Seekers ==
    \A t \in Threads :
        /\ pc[t] \in {"enqSeq", "enqReload", "enqCas"} =>
              pos[t] <= enqueuePos /\ arg[t] \in Tasks
        /\ pc[t] \in {"deqSeq", "deqReload", "deqCas"} => pos[t] <= dequeuePos
        /\ pc[t] = "enqCas" /\ pos[t] = enqueuePos => sequence[Cell(pos[t])] = pos[t]
        /\ pc[t] = "deqCas" /\ pos[t] = dequeuePos => sequence[Cell(pos[t])] = pos[t] + 1

IInv == TypeInv /\ Positions /\ Filled /\ Free /\ Writers /\ Readers /\ Seekers

----------------------------------------------------------------------------
(* Consequences of the invariant.                                          *)

\* Positions of one window of a lap that share a cell are equal.
LEMMA OneLap ==
    ASSUME NEW p \in Nat, NEW q \in Nat, Cell(p) = Cell(q),
           p < q + CAPACITY, q < p + CAPACITY
    PROVE  p = q
  BY CellsDiffer

\* Threads with a ticket are alone at their cell.
LEMMA Alone ==
    ASSUME IInv, NEW t \in Threads, NEW u \in Threads, t # u,
           Writing(t) \/ Reading(t), Writing(u) \/ Reading(u)
    PROVE  Cell(pos[t]) # Cell(pos[u])
<1> SUFFICES ASSUME Cell(pos[t]) = Cell(pos[u]) PROVE FALSE
  OBVIOUS
<1>1. pos[t] \in Nat /\ pos[u] \in Nat /\ enqueuePos \in Nat /\ dequeuePos \in Nat
  BY DEF IInv, TypeInv
<1>2. pos[t] < pos[u] + CAPACITY /\ pos[u] < pos[t] + CAPACITY
  BY <1>1 DEF IInv, Positions, Writers, Readers
<1>3. pos[t] = pos[u]
  BY <1>1, <1>2, OneLap
<1> QED
  BY <1>1, <1>3 DEF IInv, Writers, Readers

\* A producer whose compare-and-swap will succeed finds room in the queue.
LEMMA RoomAtCas ==
    ASSUME IInv, NEW t \in Threads, pc[t] = "enqCas", pos[t] = enqueuePos
    PROVE  /\ enqueuePos < dequeuePos + CAPACITY
           /\ \A u \in Threads : Writing(u) \/ Reading(u) => Cell(pos[u]) # Cell(enqueuePos)
<1>1. enqueuePos \in Nat /\ dequeuePos \in Nat /\ pos \in [Threads -> Nat]
  BY DEF IInv, TypeInv
<1>2. sequence[Cell(enqueuePos)] = enqueuePos
  BY DEF IInv, Seekers
<1>3. enqueuePos < dequeuePos + CAPACITY
  <2> SUFFICES ASSUME enqueuePos = dequeuePos + CAPACITY PROVE FALSE
    BY <1>1 DEF IInv, Positions
  <2>1. Cell(dequeuePos) = Cell(enqueuePos)
    BY <1>1, NextLap
  <2>2. sequence[Cell(dequeuePos)] \in {dequeuePos, dequeuePos + 1}
    BY <1>1 DEF IInv, Filled
  <2> QED
    BY <1>1, <1>2, <2>1, <2>2
<1>4. ASSUME NEW u \in Threads, Writing(u), Cell(pos[u]) = Cell(enqueuePos) PROVE FALSE
  BY <1>1, <1>2, <1>4 DEF IInv, Writers
<1>5. ASSUME NEW u \in Threads, Reading(u), Cell(pos[u]) = Cell(enqueuePos) PROVE FALSE
  <2>1. pos[u] + 1 = enqueuePos /\ pos[u] \in Nat
    BY <1>1, <1>2, <1>5 DEF IInv, Readers
  <2> QED
    BY <1>1, <1>5, <2>1, CellsDiffer
<1> QED
  BY <1>3, <1>4, <1>5

\* A consumer whose compare-and-swap will succeed finds its task, and no
\* other thread is at the cell.
LEMMA TaskAtCas ==
    ASSUME IInv, NEW t \in Threads, pc[t] = "deqCas", pos[t] = dequeuePos
    PROVE  /\ dequeuePos < enqueuePos
           /\ task[Cell(dequeuePos)] = tickets[dequeuePos + 1]
           /\ \A u \in Threads : Writing(u) \/ Reading(u) => Cell(pos[u]) # Cell(dequeuePos)
<1>1. enqueuePos \in Nat /\ dequeuePos \in Nat /\ pos \in [Threads -> Nat]
  BY DEF IInv, TypeInv
<1>2. sequence[Cell(dequeuePos)] = dequeuePos + 1
  BY DEF IInv, Seekers
<1>3. dequeuePos < enqueuePos
  <2> SUFFICES ASSUME dequeuePos = enqueuePos PROVE FALSE
    BY <1>1 DEF IInv, Positions
  <2>1. sequence[Cell(dequeuePos)] \in {dequeuePos, dequeuePos - CAPACITY + 1}
    BY <1>1 DEF IInv, Free
  <2> QED
    BY <1>1, <1>2, <2>1
<1>4. task[Cell(dequeuePos)] = tickets[dequeuePos + 1]
  BY <1>1, <1>2, <1>3 DEF IInv, Filled
<1>5. ASSUME NEW u \in Threads, Writing(u), Cell(pos[u]) = Cell(dequeuePos) PROVE FALSE
  <2>1. pos[u] = dequeuePos
    BY <1>1, <1>5, OneLap DEF IInv, Positions, Writers
  <2> QED
    BY <1>1, <1>2, <1>5, <2>1 DEF IInv, Writers
<1>6. ASSUME NEW u \in Threads, Reading(u), Cell(pos[u]) = Cell(dequeuePos) PROVE FALSE
  BY <1>1, <1>2, <1>6 DEF IInv, Readers
<1> QED
  BY <1>3, <1>4, <1>5, <1>6

----------------------------------------------------------------------------
(* Preservation, one lemma per step that gives or takes a ticket.          *)

\* What the history gains with a ticket.
LEMMA AppendTicket ==
    ASSUME NEW s \in Seq(Tasks), NEW x \in Tasks
    PROVE  /\ Append(s, x) \in Seq(Tasks) /\ Len(Append(s, x)) = Len(s) + 1
           /\ \A k \in 1..Len(s) : Append(s, x)[k] = s[k]
           /\ Append(s, x)[Len(s) + 1] = x
  OBVIOUS

\* The initial queue.
LEMMA InvInit == Init => IInv
<1> SUFFICES ASSUME Init PROVE IInv
  OBVIOUS
<1> USE DEF Init
<1>1. TypeInv
  BY DEF TypeInv, Labels, Null, Cells, Tasks
<1>2. \A p \in Nat : p < CAPACITY => p \in Cells /\ Cell(p) = p
  BY SMTT(30) DEF Cell, Cells
<1>3. Free
  BY <1>2 DEF Free
<1>4. Positions /\ Filled /\ Writers /\ Readers /\ Seekers
  BY DEF Positions, Filled, Writers, Readers, Seekers, Writing, Reading
<1> QED
  BY <1>1, <1>3, <1>4 DEF IInv

\* A step of a thread that has no ticket, before and after, and touches
\* nothing shared, keeps everything but its own position.
LEMMA LocalStep ==
    ASSUME IInv, NEW t \in Threads,
           UNCHANGED <<enqueuePos, dequeuePos, sequence, task, tickets>>,
           ~Writing(t), ~Reading(t), ~Writing(t)', ~Reading(t)',
           \A u \in Threads \ {t} : pc'[u] = pc[u] /\ pos'[u] = pos[u] /\ arg'[u] = arg[u]
    PROVE  Positions' /\ Filled' /\ Free' /\ Writers' /\ Readers'
<1>1. \A u \in Threads : /\ Writing(u)' <=> Writing(u)
                         /\ Reading(u)' <=> Reading(u)
                         /\ Writing(u) \/ Reading(u) =>
                               pos'[u] = pos[u] /\ arg'[u] = arg[u] /\ pc'[u] = pc[u]
  BY DEF Writing, Reading
<1>2. Positions'
  BY DEF IInv, Positions
<1>3. Filled'
  BY <1>1 DEF IInv, Filled
<1>4. Free'
  BY <1>1 DEF IInv, Free
<1>5. Writers'
  BY <1>1 DEF IInv, Writers
<1>6. Readers'
  BY <1>1 DEF IInv, Readers
<1> QED
  BY <1>2, <1>3, <1>4, <1>5, <1>6

\* The steps of tryEnqueue before its ticket.
LEMMA InvEnqSeek ==
    ASSUME IInv, NEW t \in Threads,
           EnqStart(t) \/ EnqLoadSequence(t) \/ EnqReload(t)
    PROVE  IInv'
<1> USE DEF IInv
<1>1. TypeInv'
  <2>1. CASE EnqStart(t)
    BY <2>1 DEF TypeInv, EnqStart, Goto, Labels
  <2>2. CASE EnqLoadSequence(t)
    <3>1. UNCHANGED <<enqueuePos, dequeuePos, sequence, task, offered, tickets>>
      BY <2>2 DEF EnqLoadSequence
    <3>2. \/ pc' = [pc EXCEPT ![t] = "idle"] /\ arg' = [arg EXCEPT ![t] = 0]
              /\ pos' = [pos EXCEPT ![t] = 0]
          \/ pc' = [pc EXCEPT ![t] = "enqCas"] /\ UNCHANGED <<pos, arg>>
          \/ pc' = [pc EXCEPT ![t] = "enqReload"] /\ UNCHANGED <<pos, arg>>
      BY <2>2 DEF EnqLoadSequence, Goto, Done, Null
    <3>3. pc' \in [Threads -> Labels]
      BY <3>2 DEF TypeInv, Labels
    <3>4. pos' \in [Threads -> Nat] /\ arg' \in [Threads -> Nat]
      BY <3>2 DEF TypeInv
    <3> QED
      BY <3>1, <3>3, <3>4 DEF TypeInv
  <2>3. CASE EnqReload(t)
    BY <2>3 DEF TypeInv, EnqReload, Goto, Labels
  <2> QED
    BY <2>1, <2>2, <2>3
<1>2. Positions' /\ Filled' /\ Free' /\ Writers' /\ Readers'
  <2>1. /\ UNCHANGED <<enqueuePos, dequeuePos, sequence, task, tickets>>
        /\ ~Writing(t) /\ ~Reading(t) /\ ~Writing(t)' /\ ~Reading(t)'
        /\ \A u \in Threads \ {t} : pc'[u] = pc[u] /\ pos'[u] = pos[u] /\ arg'[u] = arg[u]
    BY DEF TypeInv, EnqStart, EnqLoadSequence, EnqReload, Goto, Done, Writing, Reading
  <2> QED
    BY <2>1, LocalStep
<1>3. Seekers'
  <2>1. CASE EnqStart(t)
    BY <2>1 DEF TypeInv, Seekers, EnqStart, Goto, Tasks
  <2>2. CASE EnqLoadSequence(t)
    BY <2>2 DEF TypeInv, Seekers, EnqLoadSequence, Goto, Done
  <2>3. CASE EnqReload(t)
    BY <2>3 DEF TypeInv, Seekers, EnqReload, Goto
  <2> QED
    BY <2>1, <2>2, <2>3
<1> QED
  BY <1>1, <1>2, <1>3

\* The steps of tryDequeue before its ticket.
LEMMA InvDeqSeek ==
    ASSUME IInv, NEW t \in Threads,
           DeqStart(t) \/ DeqLoadSequence(t) \/ DeqReload(t)
    PROVE  IInv'
<1> USE DEF IInv
<1>1. TypeInv'
  <2>1. CASE DeqStart(t)
    BY <2>1 DEF TypeInv, DeqStart, Goto, Labels
  <2>2. CASE DeqLoadSequence(t)
    <3>1. UNCHANGED <<enqueuePos, dequeuePos, sequence, task, offered, tickets>>
      BY <2>2 DEF DeqLoadSequence
    <3>2. \/ pc' = [pc EXCEPT ![t] = "idle"] /\ arg' = [arg EXCEPT ![t] = 0]
              /\ pos' = [pos EXCEPT ![t] = 0]
          \/ pc' = [pc EXCEPT ![t] = "deqCas"] /\ UNCHANGED <<pos, arg>>
          \/ pc' = [pc EXCEPT ![t] = "deqReload"] /\ UNCHANGED <<pos, arg>>
      BY <2>2 DEF DeqLoadSequence, Goto, Done, Null
    <3>3. pc' \in [Threads -> Labels]
      BY <3>2 DEF TypeInv, Labels
    <3>4. pos' \in [Threads -> Nat] /\ arg' \in [Threads -> Nat]
      BY <3>2 DEF TypeInv
    <3> QED
      BY <3>1, <3>3, <3>4 DEF TypeInv
  <2>3. CASE DeqReload(t)
    BY <2>3 DEF TypeInv, DeqReload, Goto, Labels
  <2> QED
    BY <2>1, <2>2, <2>3
<1>2. Positions' /\ Filled' /\ Free' /\ Writers' /\ Readers'
  <2>1. /\ UNCHANGED <<enqueuePos, dequeuePos, sequence, task, tickets>>
        /\ ~Writing(t) /\ ~Reading(t) /\ ~Writing(t)' /\ ~Reading(t)'
        /\ \A u \in Threads \ {t} : pc'[u] = pc[u] /\ pos'[u] = pos[u] /\ arg'[u] = arg[u]
    BY DEF TypeInv, DeqStart, DeqLoadSequence, DeqReload, Goto, Done, Writing, Reading
  <2> QED
    BY <2>1, LocalStep
<1>3. Seekers'
  <2>1. CASE DeqStart(t)
    BY <2>1 DEF TypeInv, Seekers, DeqStart, Goto
  <2>2. CASE DeqLoadSequence(t)
    BY <2>2 DEF TypeInv, Seekers, DeqLoadSequence, Goto, Done
  <2>3. CASE DeqReload(t)
    BY <2>3 DEF TypeInv, Seekers, DeqReload, Goto
  <2> QED
    BY <2>1, <2>2, <2>3
<1> QED
  BY <1>1, <1>2, <1>3

\* A producer wins its ticket, or tries again.
LEMMA InvEnqCas ==
    ASSUME IInv, NEW t \in Threads, EnqCas(t)
    PROVE  IInv'
<1> USE DEF IInv
<1>0. /\ enqueuePos \in Nat /\ dequeuePos \in Nat /\ pos[t] \in Nat /\ arg[t] \in Tasks
      /\ pc[t] = "enqCas" /\ pc \in [Threads -> Labels] /\ pos \in [Threads -> Nat]
      /\ UNCHANGED <<dequeuePos, sequence, task, arg, offered>>
  BY DEF TypeInv, Seekers, EnqCas
<1>1. CASE enqueuePos = pos[t] /\ enqueuePos' = enqueuePos + 1
  <2>1. /\ tickets' = Append(tickets, arg[t])
        /\ pc' = [pc EXCEPT ![t] = "enqWrite"] /\ pos' = pos
    BY <1>0, <1>1 DEF EnqCas, Goto
  <2>2. /\ \A k \in 1..enqueuePos : tickets'[k] = tickets[k]
        /\ tickets'[enqueuePos + 1] = arg[t]
        /\ tickets' \in Seq(Tasks) /\ Len(tickets') = enqueuePos + 1
    <3>1. tickets \in Seq(Tasks) /\ Len(tickets) = enqueuePos
      BY DEF TypeInv, Positions
    <3> QED
      BY <1>0, <2>1, <3>1, AppendTicket
  <2>3. /\ enqueuePos < dequeuePos + CAPACITY
        /\ \A u \in Threads : Writing(u) \/ Reading(u) => Cell(pos[u]) # Cell(enqueuePos)
    BY <1>0, <1>1, RoomAtCas
  <2>4. sequence[Cell(enqueuePos)] = enqueuePos
    BY <1>0, <1>1 DEF Seekers
  <2>5. /\ Writing(t)' /\ ~Writing(t) /\ ~Reading(t)' /\ ~Reading(t)
        /\ \A u \in Threads \ {t} : (Writing(u)' <=> Writing(u)) /\ (Reading(u)' <=> Reading(u))
                                    /\ pc'[u] = pc[u]
        /\ pc'[t] = "enqWrite"
    BY <1>0, <2>1 DEF Writing, Reading
  <2>6. TypeInv'
    BY <1>0, <1>1, <2>1, <2>2 DEF TypeInv, Labels
  <2>7. Positions'
    BY <1>0, <1>1, <2>2, <2>3 DEF Positions
  <2>8. Filled'
    <3> SUFFICES ASSUME NEW p \in Nat, dequeuePos <= p, p < enqueuePos + 1
                 PROVE  \/ /\ sequence[Cell(p)] = p
                           /\ \E u \in Threads : Writing(u)' /\ pos[u] = p
                        \/ sequence[Cell(p)] = p + 1 /\ task[Cell(p)] = tickets'[p + 1]
      BY <1>0, <1>1, <2>1 DEF Filled
    <3>1. CASE p = enqueuePos
      BY <3>1, <1>1, <2>4, <2>5
    <3>2. CASE p < enqueuePos
      BY <3>2, <1>0, <2>2, <2>5 DEF Filled
    <3> QED
      BY <1>0, <3>1, <3>2
  <2>9. Free'
    BY <1>0, <1>1, <2>1, <2>5 DEF Free
  <2>10. Writers'
    <3>1. ASSUME NEW u \in Threads, Writing(u)', u # t
          PROVE  pos[u] < enqueuePos /\ pos[u] \in Nat /\ tickets'[pos[u] + 1] = tickets[pos[u] + 1]
      BY <1>0, <2>2, <2>5, <3>1 DEF Writers
    <3> QED
      BY <1>0, <1>1, <2>1, <2>2, <2>4, <2>5, <3>1 DEF Writers, Positions
  <2>11. Readers'
    <3> SUFFICES ASSUME NEW u \in Threads, Reading(u)'
                 PROVE  /\ pos[u] < dequeuePos /\ enqueuePos' <= pos[u] + CAPACITY
                        /\ sequence[Cell(pos[u])] = pos[u] + 1
                        /\ pc'[u] = "deqRead" => task[Cell(pos[u])] = tickets'[pos[u] + 1]
                        /\ pc'[u] = "deqRelease" => arg[u] = tickets'[pos[u] + 1]
                        /\ \A v \in Threads : Reading(v)' /\ pos[v] = pos[u] => v = u
      BY <1>0, <2>1 DEF Readers
    <3>1. u # t /\ Reading(u) /\ pc'[u] = pc[u] /\ pos[u] \in Nat
      BY <1>0, <2>5
    <3>2. pos[u] < dequeuePos /\ enqueuePos <= pos[u] + CAPACITY
      BY <3>1 DEF Readers
    <3>3. enqueuePos # pos[u] + CAPACITY
      BY <3>1, <2>3, NextLap
    <3>4. tickets'[pos[u] + 1] = tickets[pos[u] + 1]
      BY <1>0, <3>1, <3>2, <2>2 DEF Positions
    <3>5. enqueuePos' <= pos[u] + CAPACITY
      BY <1>0, <1>1, <3>1, <3>2, <3>3
    <3>6. \A v \in Threads : Reading(v)' => Reading(v)
      BY <2>5
    <3> QED
      BY <3>1, <3>2, <3>4, <3>5, <3>6 DEF Readers
  <2>12. Seekers'
    BY <1>0, <1>1, <2>1, <2>5 DEF Seekers
  <2> QED
    BY <2>6, <2>7, <2>8, <2>9, <2>10, <2>11, <2>12
<1>2. CASE pos' = [pos EXCEPT ![t] = enqueuePos] /\ pc' = [pc EXCEPT ![t] = "enqSeq"]
           /\ UNCHANGED <<enqueuePos, tickets>>
  <2>1. TypeInv'
    BY <1>0, <1>2 DEF TypeInv, Labels
  <2>2. /\ ~Writing(t) /\ ~Reading(t) /\ ~Writing(t)' /\ ~Reading(t)'
        /\ \A u \in Threads \ {t} : pc'[u] = pc[u] /\ pos'[u] = pos[u] /\ arg'[u] = arg[u]
    BY <1>0, <1>2 DEF Writing, Reading
  <2>3. Positions' /\ Filled' /\ Free' /\ Writers' /\ Readers'
    BY <1>0, <1>2, <2>2, LocalStep
  <2>4. Seekers'
    BY <1>0, <1>2 DEF Seekers
  <2> QED
    BY <2>1, <2>3, <2>4
<1> QED
  BY <1>1, <1>2 DEF EnqCas, Goto

\* A producer with a ticket stores its task.
LEMMA InvEnqWrite ==
    ASSUME IInv, NEW t \in Threads, EnqWrite(t)
    PROVE  IInv'
<1> USE DEF IInv
<1>0. /\ enqueuePos \in Nat /\ dequeuePos \in Nat /\ pos \in [Threads -> Nat]
      /\ Writing(t) /\ pc \in [Threads -> Labels] /\ task \in [Cells -> Nat]
      /\ arg[t] \in Nat /\ Cell(pos[t]) \in Cells
  BY CellType DEF TypeInv, EnqWrite, Writing
<1>1. /\ UNCHANGED <<enqueuePos, dequeuePos, sequence, pos, arg, offered, tickets>>
      /\ task' = [task EXCEPT ![Cell(pos[t])] = arg[t]]
      /\ pc' = [pc EXCEPT ![t] = "enqPublish"]
  BY DEF EnqWrite, Goto
<1>2. /\ \A u \in Threads : (Writing(u)' <=> Writing(u)) /\ (Reading(u)' <=> Reading(u))
      /\ \A u \in Threads \ {t} : pc'[u] = pc[u]
      /\ pc'[t] = "enqPublish"
  BY <1>0, <1>1 DEF Writing, Reading
<1>3. /\ \A u \in Threads \ {t} : Writing(u) \/ Reading(u) => task'[Cell(pos[u])] = task[Cell(pos[u])]
      /\ task'[Cell(pos[t])] = arg[t]
  BY <1>0, <1>1, Alone, CellType
<1>4. TypeInv'
  BY <1>0, <1>1 DEF TypeInv, Labels
<1>5. Positions'
  BY <1>1 DEF Positions
<1>6. Filled'
  <2> SUFFICES ASSUME NEW p \in Nat, dequeuePos <= p, p < enqueuePos, sequence[Cell(p)] = p + 1
               PROVE  task'[Cell(p)] = task[Cell(p)]
    BY <1>1, <1>2 DEF Filled
  <2>1. Cell(p) # Cell(pos[t])
    <3> SUFFICES ASSUME Cell(p) = Cell(pos[t]) PROVE FALSE
      OBVIOUS
    <3>1. p = pos[t]
      BY <1>0, OneLap DEF Positions, Writers
    <3> QED
      BY <1>0, <3>1 DEF Writers
  <2> QED
    BY <1>0, <1>1, <2>1, CellType
<1>7. Free'
  BY <1>1, <1>2 DEF Free
<1>8. Writers'
  BY <1>1, <1>2, <1>3 DEF Writers
<1>9. Readers'
  <2>1. ~Reading(t)
    BY <1>0 DEF Writing, Reading
  <2> QED
    BY <1>1, <1>2, <1>3, <2>1 DEF Readers
<1>10. Seekers'
  BY <1>1, <1>2 DEF Seekers
<1> QED
  BY <1>4, <1>5, <1>6, <1>7, <1>8, <1>9, <1>10

\* A producer with a ticket hands its cell to the consumer.
LEMMA InvEnqPublish ==
    ASSUME IInv, NEW t \in Threads, EnqPublish(t)
    PROVE  IInv'
<1> USE DEF IInv
<1>0. /\ enqueuePos \in Nat /\ dequeuePos \in Nat /\ pos \in [Threads -> Nat]
      /\ Writing(t) /\ pc \in [Threads -> Labels] /\ sequence \in [Cells -> Int]
      /\ arg \in [Threads -> Nat] /\ Cell(pos[t]) \in Cells
      /\ task[Cell(pos[t])] = tickets[pos[t] + 1]
      /\ sequence[Cell(pos[t])] = pos[t] /\ dequeuePos <= pos[t] /\ pos[t] < enqueuePos
  BY CellType DEF TypeInv, EnqPublish, Writing, Writers
<1>1. /\ UNCHANGED <<enqueuePos, dequeuePos, task, offered, tickets>>
      /\ sequence' = [sequence EXCEPT ![Cell(pos[t])] = pos[t] + 1]
      /\ pc' = [pc EXCEPT ![t] = "idle"] /\ arg' = [arg EXCEPT ![t] = 0]
      /\ pos' = [pos EXCEPT ![t] = 0]
  BY DEF EnqPublish, Done, Goto, Null
<1>2. /\ \A u \in Threads \ {t} : /\ (Writing(u)' <=> Writing(u)) /\ (Reading(u)' <=> Reading(u))
                                  /\ pc'[u] = pc[u] /\ pos'[u] = pos[u] /\ arg'[u] = arg[u]
      /\ ~Writing(t)' /\ ~Reading(t)' /\ ~Reading(t) /\ pc'[t] = "idle"
  BY <1>0, <1>1 DEF Writing, Reading
<1>3. /\ sequence'[Cell(pos[t])] = pos[t] + 1
      /\ \A c \in Cells \ {Cell(pos[t])} : sequence'[c] = sequence[c]
  BY <1>0, <1>1
<1>4. \A u \in Threads \ {t} : Writing(u) \/ Reading(u) =>
          sequence'[Cell(pos[u])] = sequence[Cell(pos[u])]
  BY <1>0, <1>3, Alone, CellType
<1>5. TypeInv'
  BY <1>0, <1>1 DEF TypeInv, Labels
<1>6. Positions'
  BY <1>1 DEF Positions
<1>7. Filled'
  <2> SUFFICES ASSUME NEW p \in Nat, dequeuePos <= p, p < enqueuePos
               PROVE  \/ /\ sequence'[Cell(p)] = p
                         /\ \E u \in Threads : Writing(u)' /\ pos'[u] = p
                      \/ sequence'[Cell(p)] = p + 1 /\ task[Cell(p)] = tickets[p + 1]
    BY <1>1 DEF Filled
  <2>1. CASE p = pos[t]
    BY <1>0, <1>3, <2>1
  <2>2. CASE p # pos[t]
    <3>1. Cell(p) # Cell(pos[t])
      BY <1>0, <2>2, OneLap DEF Positions
    <3>2. sequence'[Cell(p)] = sequence[Cell(p)]
      BY <1>3, <3>1, CellType
    <3>3. \A u \in Threads : Writing(u) /\ pos[u] = p => Writing(u)' /\ pos'[u] = p
      BY <1>2, <2>2
    <3> QED
      BY <3>2, <3>3 DEF Filled
  <2> QED
    BY <2>1, <2>2
<1>8. Free'
  <2> SUFFICES ASSUME NEW p \in Nat, enqueuePos <= p, p < dequeuePos + CAPACITY
               PROVE  \/ sequence'[Cell(p)] = p
                      \/ /\ sequence'[Cell(p)] = p - CAPACITY + 1
                         /\ \E u \in Threads : Reading(u)' /\ pos'[u] = p - CAPACITY
    BY <1>1 DEF Free
  <2>1. Cell(p) # Cell(pos[t])
    BY <1>0, OneLap DEF Positions
  <2>2. sequence'[Cell(p)] = sequence[Cell(p)]
    BY <1>3, <2>1, CellType
  <2> QED
    BY <1>2, <2>2 DEF Free
<1>9. Writers'
  BY <1>1, <1>2, <1>4 DEF Writers
<1>10. Readers'
  BY <1>1, <1>2, <1>4 DEF Readers
<1>11. Seekers'
  <2> SUFFICES ASSUME NEW u \in Threads, u # t, pc[u] \in {"enqCas", "deqCas"}
               PROVE  /\ pc[u] = "enqCas" /\ pos[u] = enqueuePos => sequence'[Cell(pos[u])] = pos[u]
                      /\ pc[u] = "deqCas" /\ pos[u] = dequeuePos =>
                            sequence'[Cell(pos[u])] = pos[u] + 1
    BY <1>1, <1>2 DEF Seekers
  <2>1. CASE pc[u] = "enqCas" /\ pos[u] = enqueuePos
    BY <1>0, <1>3, <2>1, CellType, RoomAtCas DEF Seekers
  <2>2. CASE pc[u] = "deqCas" /\ pos[u] = dequeuePos
    BY <1>0, <1>3, <2>2, CellType, TaskAtCas DEF Seekers
  <2> QED
    BY <2>1, <2>2
<1> QED
  BY <1>5, <1>6, <1>7, <1>8, <1>9, <1>10, <1>11

\* A consumer wins its ticket, or tries again.
LEMMA InvDeqCas ==
    ASSUME IInv, NEW t \in Threads, DeqCas(t)
    PROVE  IInv'
<1> USE DEF IInv
<1>0. /\ enqueuePos \in Nat /\ dequeuePos \in Nat /\ pos \in [Threads -> Nat]
      /\ pc[t] = "deqCas" /\ pc \in [Threads -> Labels]
      /\ UNCHANGED <<enqueuePos, sequence, task, arg, offered, tickets>>
  BY DEF TypeInv, DeqCas
<1>1. CASE dequeuePos = pos[t] /\ dequeuePos' = dequeuePos + 1
  <2>1. pc' = [pc EXCEPT ![t] = "deqRead"] /\ pos' = pos
    BY <1>0, <1>1 DEF DeqCas, Goto
  <2>2. /\ dequeuePos < enqueuePos
        /\ task[Cell(dequeuePos)] = tickets[dequeuePos + 1]
        /\ \A u \in Threads : Writing(u) \/ Reading(u) => Cell(pos[u]) # Cell(dequeuePos)
    BY <1>0, <1>1, TaskAtCas
  <2>3. sequence[Cell(dequeuePos)] = dequeuePos + 1
    BY <1>0, <1>1 DEF Seekers
  <2>4. /\ Reading(t)' /\ ~Writing(t) /\ ~Writing(t)' /\ ~Reading(t)
        /\ \A u \in Threads \ {t} : (Writing(u)' <=> Writing(u)) /\ (Reading(u)' <=> Reading(u))
                                    /\ pc'[u] = pc[u]
        /\ pc'[t] = "deqRead"
    BY <1>0, <2>1 DEF Writing, Reading
  <2>5. TypeInv'
    BY <1>0, <1>1, <2>1 DEF TypeInv, Labels
  <2>6. Positions'
    BY <1>0, <1>1, <2>2 DEF Positions
  <2>7. Filled'
    BY <1>0, <1>1, <2>1, <2>4 DEF Filled
  <2>8. Free'
    <3> SUFFICES ASSUME NEW p \in Nat, enqueuePos <= p, p < dequeuePos + 1 + CAPACITY
                 PROVE  \/ sequence[Cell(p)] = p
                        \/ /\ sequence[Cell(p)] = p - CAPACITY + 1
                           /\ \E u \in Threads : Reading(u)' /\ pos[u] = p - CAPACITY
      BY <1>0, <1>1, <2>1 DEF Free
    <3>1. CASE p = dequeuePos + CAPACITY
      <4>1. Cell(p) = Cell(dequeuePos)
        BY <1>0, <3>1, NextLap
      <4> QED
        BY <1>0, <1>1, <2>3, <2>4, <3>1, <4>1
    <3>2. CASE p < dequeuePos + CAPACITY
      BY <3>2, <2>4 DEF Free
    <3> QED
      BY <1>0, <3>1, <3>2
  <2>9. Writers'
    <3>1. \A u \in Threads : Writing(u) => pos[u] # dequeuePos
      BY <2>2
    <3>2. \A u \in Threads : Writing(u)' => Writing(u) /\ dequeuePos + 1 <= pos[u] /\ pc'[u] = pc[u]
      BY <1>0, <2>4, <3>1 DEF Writers
    <3> QED
      BY <1>0, <1>1, <2>1, <3>2 DEF Writers
  <2>10. Readers'
    <3>1. \A u \in Threads \ {t} : Reading(u)' => Reading(u) /\ pos[u] < dequeuePos /\ pc'[u] = pc[u]
      BY <2>4 DEF Readers
    <3>2. enqueuePos <= dequeuePos + CAPACITY
      BY DEF Positions
    <3> QED
      BY <1>0, <1>1, <2>1, <2>2, <2>3, <2>4, <3>1, <3>2 DEF Readers
  <2>11. Seekers'
    BY <1>0, <1>1, <2>1, <2>4 DEF Seekers
  <2> QED
    BY <2>5, <2>6, <2>7, <2>8, <2>9, <2>10, <2>11
<1>2. CASE pos' = [pos EXCEPT ![t] = dequeuePos] /\ pc' = [pc EXCEPT ![t] = "deqSeq"]
           /\ UNCHANGED dequeuePos
  <2>1. TypeInv'
    BY <1>0, <1>2 DEF TypeInv, Labels
  <2>2. /\ ~Writing(t) /\ ~Reading(t) /\ ~Writing(t)' /\ ~Reading(t)'
        /\ \A u \in Threads \ {t} : pc'[u] = pc[u] /\ pos'[u] = pos[u] /\ arg'[u] = arg[u]
    BY <1>0, <1>2 DEF Writing, Reading
  <2>3. Positions' /\ Filled' /\ Free' /\ Writers' /\ Readers'
    BY <1>0, <1>2, <2>2, LocalStep
  <2>4. Seekers'
    BY <1>0, <1>2 DEF Seekers
  <2> QED
    BY <2>1, <2>3, <2>4
<1> QED
  BY <1>1, <1>2 DEF DeqCas, Goto

\* A consumer with a ticket takes its task and clears the cell.
LEMMA InvDeqRead ==
    ASSUME IInv, NEW t \in Threads, DeqRead(t)
    PROVE  IInv'
<1> USE DEF IInv
<1>0. /\ enqueuePos \in Nat /\ dequeuePos \in Nat /\ pos \in [Threads -> Nat]
      /\ Reading(t) /\ pc \in [Threads -> Labels] /\ task \in [Cells -> Nat]
      /\ arg \in [Threads -> Nat] /\ Cell(pos[t]) \in Cells
      /\ task[Cell(pos[t])] = tickets[pos[t] + 1]
      /\ pos[t] < dequeuePos /\ enqueuePos <= pos[t] + CAPACITY
  BY CellType DEF TypeInv, DeqRead, Reading, Readers
<1>1. /\ UNCHANGED <<enqueuePos, dequeuePos, sequence, pos, offered, tickets>>
      /\ task' = [task EXCEPT ![Cell(pos[t])] = 0]
      /\ arg' = [arg EXCEPT ![t] = task[Cell(pos[t])]]
      /\ pc' = [pc EXCEPT ![t] = "deqRelease"]
  BY DEF DeqRead, Goto, Null
<1>2. /\ \A u \in Threads : (Writing(u)' <=> Writing(u)) /\ (Reading(u)' <=> Reading(u))
      /\ \A u \in Threads \ {t} : pc'[u] = pc[u] /\ arg'[u] = arg[u]
      /\ pc'[t] = "deqRelease" /\ arg'[t] = tickets[pos[t] + 1] /\ ~Writing(t)
  BY <1>0, <1>1 DEF Writing, Reading
<1>3. \A u \in Threads \ {t} : Writing(u) \/ Reading(u) =>
          task'[Cell(pos[u])] = task[Cell(pos[u])]
  BY <1>0, <1>1, Alone, CellType
<1>4. TypeInv'
  BY <1>0, <1>1 DEF TypeInv, Labels
<1>5. Positions'
  BY <1>1 DEF Positions
<1>6. Filled'
  <2>1. \A p \in Nat : dequeuePos <= p /\ p < enqueuePos => Cell(p) # Cell(pos[t])
    BY <1>0, OneLap
  <2>2. \A p \in Nat : dequeuePos <= p /\ p < enqueuePos => task'[Cell(p)] = task[Cell(p)]
    BY <1>0, <1>1, <2>1, CellType
  <2> QED
    BY <1>1, <1>2, <2>2 DEF Filled
<1>7. Free'
  BY <1>1, <1>2 DEF Free
<1>8. Writers'
  BY <1>1, <1>2, <1>3 DEF Writers
<1>9. Readers'
  BY <1>1, <1>2, <1>3 DEF Readers
<1>10. Seekers'
  BY <1>1, <1>2 DEF Seekers
<1> QED
  BY <1>4, <1>5, <1>6, <1>7, <1>8, <1>9, <1>10

\* A consumer with a ticket hands its cell to the producer of the next lap.
LEMMA InvDeqRelease ==
    ASSUME IInv, NEW t \in Threads, DeqRelease(t)
    PROVE  IInv'
<1> USE DEF IInv
<1>0. /\ enqueuePos \in Nat /\ dequeuePos \in Nat /\ pos \in [Threads -> Nat]
      /\ Reading(t) /\ pc \in [Threads -> Labels] /\ sequence \in [Cells -> Int]
      /\ arg \in [Threads -> Nat] /\ Cell(pos[t]) \in Cells
      /\ sequence[Cell(pos[t])] = pos[t] + 1
      /\ pos[t] < dequeuePos /\ enqueuePos <= pos[t] + CAPACITY
  BY CellType DEF TypeInv, DeqRelease, Reading, Readers
<1>1. /\ UNCHANGED <<enqueuePos, dequeuePos, task, offered, tickets>>
      /\ sequence' = [sequence EXCEPT ![Cell(pos[t])] = pos[t] + CAPACITY]
      /\ pc' = [pc EXCEPT ![t] = "idle"] /\ arg' = [arg EXCEPT ![t] = 0]
      /\ pos' = [pos EXCEPT ![t] = 0]
  BY DEF DeqRelease, Done, Goto, Null
<1>2. /\ \A u \in Threads \ {t} : /\ (Writing(u)' <=> Writing(u)) /\ (Reading(u)' <=> Reading(u))
                                  /\ pc'[u] = pc[u] /\ pos'[u] = pos[u] /\ arg'[u] = arg[u]
      /\ ~Writing(t)' /\ ~Reading(t)' /\ ~Writing(t) /\ pc'[t] = "idle"
  BY <1>0, <1>1 DEF Writing, Reading
<1>3. /\ sequence'[Cell(pos[t])] = pos[t] + CAPACITY
      /\ \A c \in Cells \ {Cell(pos[t])} : sequence'[c] = sequence[c]
  BY <1>0, <1>1
<1>4. \A u \in Threads \ {t} : Writing(u) \/ Reading(u) =>
          sequence'[Cell(pos[u])] = sequence[Cell(pos[u])]
  BY <1>0, <1>3, Alone, CellType
<1>5. TypeInv'
  BY <1>0, <1>1 DEF TypeInv, Labels
<1>6. Positions'
  BY <1>1 DEF Positions
<1>7. Filled'
  <2>1. \A p \in Nat : dequeuePos <= p /\ p < enqueuePos => Cell(p) # Cell(pos[t])
    BY <1>0, OneLap
  <2>2. \A p \in Nat : dequeuePos <= p /\ p < enqueuePos => sequence'[Cell(p)] = sequence[Cell(p)]
    BY <1>3, <2>1, CellType
  <2> QED
    BY <1>1, <1>2, <2>2 DEF Filled
<1>8. Free'
  <2> SUFFICES ASSUME NEW p \in Nat, enqueuePos <= p, p < dequeuePos + CAPACITY
               PROVE  \/ sequence'[Cell(p)] = p
                      \/ /\ sequence'[Cell(p)] = p - CAPACITY + 1
                         /\ \E u \in Threads : Reading(u)' /\ pos'[u] = p - CAPACITY
    BY <1>1 DEF Free
  <2>1. CASE p = pos[t] + CAPACITY
    BY <1>0, <1>3, <2>1, NextLap
  <2>2. CASE p # pos[t] + CAPACITY
    <3>1. pos[t] + CAPACITY \in Nat /\ Cell(pos[t] + CAPACITY) = Cell(pos[t])
      BY <1>0, NextLap
    <3>2. Cell(p) # Cell(pos[t])
      BY <1>0, <2>2, <3>1, OneLap DEF Positions
    <3>3. sequence'[Cell(p)] = sequence[Cell(p)]
      BY <1>3, <3>2, CellType
    <3>4. \A u \in Threads : Reading(u) /\ pos[u] = p - CAPACITY =>
              Reading(u)' /\ pos'[u] = p - CAPACITY
      BY <1>0, <1>2, <2>2
    <3> QED
      BY <3>3, <3>4 DEF Free
  <2> QED
    BY <2>1, <2>2
<1>9. Writers'
  BY <1>1, <1>2, <1>4 DEF Writers
<1>10. Readers'
  BY <1>1, <1>2, <1>4 DEF Readers
<1>11. Seekers'
  <2> SUFFICES ASSUME NEW u \in Threads, u # t, pc[u] \in {"enqCas", "deqCas"}
               PROVE  /\ pc[u] = "enqCas" /\ pos[u] = enqueuePos => sequence'[Cell(pos[u])] = pos[u]
                      /\ pc[u] = "deqCas" /\ pos[u] = dequeuePos =>
                            sequence'[Cell(pos[u])] = pos[u] + 1
    BY <1>1, <1>2 DEF Seekers
  <2>1. CASE pc[u] = "enqCas" /\ pos[u] = enqueuePos
    BY <1>0, <1>3, <2>1, CellType, RoomAtCas DEF Seekers
  <2>2. CASE pc[u] = "deqCas" /\ pos[u] = dequeuePos
    BY <1>0, <1>3, <2>2, CellType, TaskAtCas DEF Seekers
  <2> QED
    BY <2>1, <2>2
<1> QED
  BY <1>5, <1>6, <1>7, <1>8, <1>9, <1>10, <1>11

\* Every step keeps the invariant.
LEMMA InvStep == IInv /\ [Next]_vars => IInv'
<1> SUFFICES ASSUME IInv, [Next]_vars PROVE IInv'
  OBVIOUS
<1>1. ASSUME NEW t \in Threads, EnqStep(t) PROVE IInv'
  BY <1>1, InvEnqSeek, InvEnqCas, InvEnqWrite, InvEnqPublish DEF EnqStep
<1>2. ASSUME NEW t \in Threads, DeqStep(t) PROVE IInv'
  BY <1>2, InvDeqSeek, InvDeqCas, InvDeqRead, InvDeqRelease DEF DeqStep
<1>3. CASE UNCHANGED vars
  <2>1. /\ TypeInv' <=> TypeInv
        /\ Positions' <=> Positions
        /\ Filled' <=> Filled
        /\ Free' <=> Free
        /\ Writers' <=> Writers
        /\ Readers' <=> Readers
        /\ Seekers' <=> Seekers
    BY <1>3 DEF vars, TypeInv, Positions, Filled, Free, Writers, Readers, Seekers, Writing, Reading
  <2> QED
    BY <2>1 DEF IInv
<1> QED
  BY <1>1, <1>2, <1>3 DEF Next

\* The invariant holds in every state of every behaviour.
LEMMA Invariant == Spec => []IInv
  BY InvInit, InvStep, PTL DEF Spec

----------------------------------------------------------------------------
(* The theorems.                                                           *)

\* tryEnqueue and tryDequeue: a thread with a ticket is alone at its cell and
\* a consumer finds the task of its own ticket there, whatever the number of
\* threads, the capacity and the laps.
THEOREM TicketsCorrect == Spec => []TicketsMatch
<1>1. IInv => TicketsMatch
  <2> SUFFICES ASSUME IInv, NEW t \in Threads
               PROVE  /\ pc[t] = "deqRead" => task[Cell(pos[t])] = tickets[pos[t] + 1]
                      /\ pc[t] = "deqRelease" => arg[t] = tickets[pos[t] + 1]
                      /\ \A u \in Threads \ {t} :
                            (Writing(t) \/ Reading(t)) /\ (Writing(u) \/ Reading(u)) =>
                                Cell(pos[t]) # Cell(pos[u])
    BY DEF TicketsMatch
  <2>1. /\ pc[t] = "deqRead" => task[Cell(pos[t])] = tickets[pos[t] + 1]
        /\ pc[t] = "deqRelease" => arg[t] = tickets[pos[t] + 1]
    BY DEF IInv, Readers, Reading
  <2> QED
    BY <2>1, Alone
<1> QED
  BY <1>1, Invariant, PTL

\* A stale position has been overtaken: its cell has a larger sequence.
LEMMA StalePosition ==
    ASSUME IInv, NEW p \in Nat, p < dequeuePos
    PROVE  sequence[Cell(p)] > p
<1>0. enqueuePos \in Nat /\ dequeuePos \in Nat /\ sequence \in [Cells -> Int]
  BY DEF IInv, TypeInv
<1>1. PICK q \in Nat : dequeuePos <= q /\ q < dequeuePos + CAPACITY /\ Cell(q) = Cell(p)
  BY <1>0, LaterLap
<1>2. p + CAPACITY <= q
  BY <1>0, <1>1, CellsDiffer
<1>3. sequence[Cell(q)] >= q - CAPACITY + 1
  BY <1>0, <1>1 DEF IInv, Filled, Free
<1> QED
  BY <1>0, <1>1, <1>2, <1>3, CellType

\* tryEnqueue returns false only when the queue is full or the consumer of
\* the lap before is at the very cell; tryDequeue returns nullptr only when
\* nothing was enqueued at its position or the producer is not done.
THEOREM RefusalsCorrect == Spec => []RefusalsJustified
<1>1. IInv => RefusalsJustified
  <2> SUFFICES ASSUME IInv, NEW t \in Threads
               PROVE  /\ pc[t] = "enqSeq" /\ sequence[Cell(pos[t])] < pos[t] =>
                            \/ enqueuePos - dequeuePos = CAPACITY
                            \/ \E u \in Threads : Reading(u) /\ pos[u] = pos[t] - CAPACITY
                      /\ pc[t] = "deqSeq" /\ sequence[Cell(pos[t])] < pos[t] + 1 =>
                            \/ enqueuePos <= pos[t]
                            \/ \E u \in Threads : Writing(u) /\ pos[u] = pos[t]
    BY DEF RefusalsJustified
  <2>0. /\ enqueuePos \in Nat /\ dequeuePos \in Nat /\ sequence \in [Cells -> Int]
        /\ pos[t] \in Nat /\ Cell(pos[t]) \in Cells
        /\ dequeuePos <= enqueuePos /\ enqueuePos <= dequeuePos + CAPACITY
    BY CellType DEF IInv, TypeInv, Positions
  <2>1. ASSUME pc[t] = "enqSeq", sequence[Cell(pos[t])] < pos[t]
        PROVE  \/ enqueuePos - dequeuePos = CAPACITY
               \/ \E u \in Threads : Reading(u) /\ pos[u] = pos[t] - CAPACITY
    <3>1. ~ pos[t] < dequeuePos
      BY <2>0, <2>1, StalePosition
    <3>2. ~ pos[t] < enqueuePos
      BY <2>0, <2>1, <3>1 DEF IInv, Filled
    <3>3. pos[t] = enqueuePos
      BY <2>0, <2>1, <3>2 DEF IInv, Seekers
    <3> QED
      BY <2>0, <2>1, <3>3 DEF IInv, Free
  <2>2. ASSUME pc[t] = "deqSeq", sequence[Cell(pos[t])] < pos[t] + 1
        PROVE  \/ enqueuePos <= pos[t]
               \/ \E u \in Threads : Writing(u) /\ pos[u] = pos[t]
    <3>1. ~ pos[t] < dequeuePos
      BY <2>0, <2>2, StalePosition
    <3> QED
      BY <2>0, <2>2, <3>1 DEF IInv, Filled
  <2> QED
    BY <2>1, <2>2
<1> QED
  BY <1>1, Invariant, PTL

----------------------------------------------------------------------------
(* Refinement.                                                             *)

\* The queue of the refinement mapping.
Inside == SubSeq(tickets, dequeuePos + 1, enqueuePos)

\* The elements of a window of a history.
LEMMA Window ==
    ASSUME NEW s \in Seq(Tasks), NEW a \in Nat, a <= Len(s)
    PROVE  /\ SubSeq(s, a + 1, Len(s)) \in Seq(Tasks)
           /\ Len(SubSeq(s, a + 1, Len(s))) = Len(s) - a
           /\ \A k \in 1..Len(s) - a : SubSeq(s, a + 1, Len(s))[k] = s[a + k]
  OBVIOUS

\* A ticket for a producer appends its task to the window.
LEMMA WindowAppend ==
    ASSUME NEW s \in Seq(Tasks), NEW a \in Nat, a <= Len(s), NEW x \in Tasks
    PROVE  SubSeq(Append(s, x), a + 1, Len(s) + 1) = Append(SubSeq(s, a + 1, Len(s)), x)
<1> DEFINE r == Append(s, x)
           w == SubSeq(s, a + 1, Len(s))
           v == SubSeq(r, a + 1, Len(r))
<1>1. /\ r \in Seq(Tasks) /\ Len(r) = Len(s) + 1
      /\ \A k \in 1..Len(s) : r[k] = s[k]
      /\ r[Len(s) + 1] = x
  BY AppendTicket
<1>2. /\ w \in Seq(Tasks) /\ Len(w) = Len(s) - a
      /\ \A k \in 1..Len(s) - a : w[k] = s[a + k]
  BY Window
<1>3. /\ v \in Seq(Tasks) /\ Len(v) = Len(s) + 1 - a
      /\ \A k \in 1..Len(s) + 1 - a : v[k] = r[a + k]
  <2> HIDE DEF r
  <2>1. a <= Len(r) /\ Len(s) \in Nat
    BY <1>1
  <2> QED
    BY <1>1, <2>1, Window
<1> HIDE DEF r, w, v
<1>4. /\ Append(w, x) \in Seq(Tasks) /\ Len(Append(w, x)) = Len(w) + 1
      /\ \A k \in 1..Len(w) : Append(w, x)[k] = w[k]
      /\ Append(w, x)[Len(w) + 1] = x
  BY <1>2, AppendTicket
<1>5. Len(s) \in Nat /\ Len(v) = Len(Append(w, x))
  BY <1>2, <1>3, <1>4
<1>6. \A k \in 1..Len(v) : v[k] = Append(w, x)[k]
  <2> SUFFICES ASSUME NEW k \in 1..Len(v) PROVE v[k] = Append(w, x)[k]
    OBVIOUS
  <2>1. CASE k = Len(w) + 1
    BY <2>1, <1>1, <1>2, <1>3, <1>4, <1>5
  <2>2. CASE k \in 1..Len(w)
    BY <2>2, <1>1, <1>2, <1>3, <1>4, <1>5
  <2>3. Len(w) \in Nat /\ Len(v) = Len(w) + 1
    BY <1>2, <1>4, <1>5
  <2> HIDE DEF v, w
  <2>4. k = Len(w) + 1 \/ k \in 1..Len(w)
    BY <2>3
  <2> QED
    BY <2>1, <2>2, <2>4
<1>7. v = Append(w, x)
  BY <1>3, <1>4, <1>5, <1>6, SeqEqual
<1> QED
  BY <1>1, <1>7 DEF r, w, v

\* The empty queue implements the empty queue.
LEMMA RefinesInit == Init => Abstract!Init
<1> SUFFICES ASSUME Init PROVE Inside = <<>>
  BY DEF Abstract!Init, Inside
<1> QED
  BY SubSeqEmpty DEF Init, Inside

\* Winning a ticket is the enqueue or the dequeue; every other step stutters.
LEMMA RefinesStep ==
    IInv /\ [Next]_vars => [Abstract!Enqueue \/ Abstract!Dequeue]_Inside
<1> SUFFICES ASSUME IInv, [Next]_vars
             PROVE  \/ Abstract!Enqueue
                    \/ Abstract!Dequeue
                    \/ Inside' = Inside
  OBVIOUS
<1>0. /\ enqueuePos \in Nat /\ dequeuePos \in Nat /\ tickets \in Seq(Tasks)
      /\ dequeuePos <= enqueuePos /\ Len(tickets) = enqueuePos
  BY DEF IInv, TypeInv, Positions
<1>1. Inside \in Seq(Tasks) /\ Len(Inside) = enqueuePos - dequeuePos
  BY <1>0, Window DEF Inside
<1>2. ASSUME NEW t \in Threads, EnqCas(t), enqueuePos = pos[t], enqueuePos' = enqueuePos + 1
      PROVE  Abstract!Enqueue
  <2>1. arg[t] \in Tasks /\ pc[t] = "enqCas"
    BY <1>2 DEF EnqCas, IInv, Seekers
  <2>2. tickets' = Append(tickets, arg[t]) /\ dequeuePos' = dequeuePos
    BY <1>0, <1>2 DEF EnqCas
  <2>3. Inside' = Append(Inside, arg[t])
    BY <1>0, <1>2, <2>1, <2>2, WindowAppend DEF Inside
  <2>4. enqueuePos < dequeuePos + CAPACITY
    BY <1>2, <2>1, RoomAtCas
  <2>5. Len(Inside) < CAPACITY
    BY <1>0, <1>1, <2>4
  <2> QED
    BY <2>1, <2>3, <2>5 DEF Abstract!Enqueue, Inside
<1>3. ASSUME NEW t \in Threads, DeqCas(t), dequeuePos = pos[t], dequeuePos' = dequeuePos + 1
      PROVE  Abstract!Dequeue
  <2>1. dequeuePos < enqueuePos
    BY <1>3, TaskAtCas DEF DeqCas
  <2>2. tickets' = tickets /\ enqueuePos' = enqueuePos
    BY <1>3 DEF DeqCas
  <2>3. Inside # <<>>
    BY <1>0, <1>1, <2>1
  <2>4. Inside' = Tail(Inside)
    <3>1. dequeuePos + 1 \in 1..Len(tickets) /\ enqueuePos \in dequeuePos + 1..Len(tickets)
      BY <1>0, <2>1
    <3>2. Tail(SubSeq(tickets, dequeuePos + 1, enqueuePos))
            = SubSeq(tickets, dequeuePos + 1 + 1, enqueuePos)
      BY <1>0, <3>1, HeadTailOfSubSeq
    <3> QED
      BY <1>3, <2>2, <3>2 DEF Inside
  <2> QED
    BY <2>3, <2>4 DEF Abstract!Dequeue, Inside
<1>4. ASSUME UNCHANGED <<enqueuePos, dequeuePos, tickets>>
      PROVE  Inside' = Inside
  BY <1>4 DEF Inside
<1>5. ASSUME NEW t \in Threads, EnqStep(t)
      PROVE  Abstract!Enqueue \/ Inside' = Inside
  <2>1. CASE EnqCas(t)
    BY <2>1, <1>2, <1>4 DEF EnqCas
  <2>2. CASE EnqStart(t) \/ EnqLoadSequence(t) \/ EnqReload(t) \/ EnqWrite(t) \/ EnqPublish(t)
    BY <2>2, <1>4 DEF EnqStart, EnqLoadSequence, EnqReload, EnqWrite, EnqPublish
  <2> QED
    BY <1>5, <2>1, <2>2 DEF EnqStep
<1>6. ASSUME NEW t \in Threads, DeqStep(t)
      PROVE  Abstract!Dequeue \/ Inside' = Inside
  <2>1. CASE DeqCas(t)
    BY <2>1, <1>3, <1>4 DEF DeqCas
  <2>2. CASE DeqStart(t) \/ DeqLoadSequence(t) \/ DeqReload(t) \/ DeqRead(t) \/ DeqRelease(t)
    BY <2>2, <1>4 DEF DeqStart, DeqLoadSequence, DeqReload, DeqRead, DeqRelease
  <2> QED
    BY <1>6, <2>1, <2>2 DEF DeqStep
<1>7. CASE UNCHANGED vars
  BY <1>7, <1>4 DEF vars
<1> QED
  BY <1>5, <1>6, <1>7 DEF Next

\* The lock-free queue implements a bounded FIFO queue: whatever the
\* interleaving of tryEnqueue and tryDequeue, tasks leave in ticket order,
\* each once, and never more than the capacity are inside.
THEOREM QueueRefinesFifo == Spec => ImplementsFifoQueue
<1>1. Spec => Abstract!Init
  BY RefinesInit DEF Spec
<1>2. IInv /\ [Next]_vars => [Abstract!Enqueue \/ Abstract!Dequeue]_(SubSeq(tickets, dequeuePos + 1, enqueuePos))
  BY RefinesStep DEF Inside
<1> QED
  BY <1>1, <1>2, Invariant, PTL DEF Spec, ImplementsFifoQueue, Abstract!Spec
=============================================================================
