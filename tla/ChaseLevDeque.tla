--------------------------- MODULE ChaseLevDeque ---------------------------
(***************************************************************************)
(* The work-stealing deque (src/src/chase_lev_deque.cpp): one owner that   *)
(* pushes and pops at the bottom, thieves that take single tasks at the    *)
(* top (stealBatch is in ChaseLevBatch).  Every load, store and            *)
(* compare-and-swap of an atomic that another thread writes is a step; the *)
(* steps interleave in one total order (sequential consistency).           *)
(*                                                                         *)
(* Indices are unsigned numbers modulo WIDTH (2^32 in the code) that the   *)
(* code compares as plain numbers.  Tasks are numbered in push order.      *)
(***************************************************************************)
EXTENDS Integers, Sequences, FiniteSets

LOCAL INSTANCE FiniteSetsExt

CONSTANTS
    Thieves,    \* threads that steal
    CAPACITY,   \* capacity of the first ring buffer, a power of two
    WIDTH,      \* the number of values of an index
    MaxTasks,   \* bound: how many tasks the owner pushes
    MaxLive,    \* bound: how many tasks nobody has received yet
    Pops        \* whether the owner pops

ASSUME DequeAssumption ==
    /\ CAPACITY \in Nat \ {0}
    /\ MaxTasks \in Nat /\ MaxLive \in 1..MaxTasks
    /\ WIDTH \in Nat /\ WIDTH > CAPACITY
    /\ Pops \in BOOLEAN

VARIABLES
    top,        \* m_top
    bottom,     \* m_bottom
    bufs,       \* the ring buffers; the last one is m_buffer, the others garbage
    pushed,     \* how many tasks have been published by pushBottom
    taken,      \* how often each task was returned to a caller
    own,        \* the owner: where it is and its locals
    thief       \* the thieves: where they are and their locals

vars == <<top, bottom, bufs, pushed, taken, own, thief>>

Null == 0
Tasks == 1..MaxTasks
Index == 0..WIDTH-1

Inc(i, k) == (i + k) % WIDTH
Dec(i) == (i + WIDTH - 1) % WIDTH
Distance(b, t) == (b + WIDTH - t) % WIDTH

\* RingBuffer
RingBuffer(cap) == [i \in 0..cap-1 |-> Null]
capacity(buf) == Cardinality(DOMAIN buf)
load(buf, i) == buf[i % capacity(buf)]
store(buf, i, x) == [buf EXCEPT ![i % capacity(buf)] = x]

\* Mutant: the latest task is not copied.
GrownShort(buf, t, b) ==
    LET cap == 2 * capacity(buf)
        Copied(s) == {k \in 0..Distance(b, t)-2 : Inc(t, k) % cap = s}
    IN  [s \in 0..cap-1 |->
            IF Copied(s) = {} THEN Null ELSE load(buf, Inc(t, Max(Copied(s))))]

\* RingBuffer::grow copies the tasks from t to b - 1 into twice the space.
Grown(buf, t, b) ==
    LET cap == 2 * capacity(buf)
        Copied(s) == {k \in 0..Distance(b, t)-1 : Inc(t, k) % cap = s}
    IN  [s \in 0..cap-1 |->
            IF Copied(s) = {} THEN Null ELSE load(buf, Inc(t, Max(Copied(s))))]

Buffer == bufs[Len(bufs)]

IdleOwner == [pc |-> "idle", b |-> 0, t |-> 0]
IdleThief == [pc |-> "idle", t |-> 0, n |-> 0, i |-> 0, buf |-> 1, task |-> Null]

Init ==
    /\ top = 0 /\ bottom = 0
    /\ bufs = <<RingBuffer(CAPACITY)>>
    /\ pushed = 0
    /\ taken = [k \in Tasks |-> 0]
    /\ own = IdleOwner
    /\ thief = [p \in Thieves |-> IdleThief]

\* The tasks nobody has received.
Remaining == {k \in 1..pushed : taken[k] = 0}

\* The caller receives the tasks of S.
Return(S) == taken' = [k \in Tasks |-> IF k \in S THEN taken[k] + 1 ELSE taken[k]]

----------------------------------------------------------------------------
(* pushBottom, by the owner.                                               *)

\* A bottom that top has passed is put right first, by PushFix of
\* ChaseLevBatch: only a batch claims tasks that the owner has popped.
PushLoad ==
    /\ own.pc = "idle" /\ pushed < MaxTasks /\ Cardinality(Remaining) < MaxLive
    /\ own' = [pc |-> IF bottom < top THEN "pushFix" ELSE "pushStore",
               b |-> IF bottom < top THEN top ELSE bottom, t |-> top]
    /\ UNCHANGED <<top, bottom, bufs, pushed, taken, thief>>

\* grow publishes a larger buffer and keeps the old one for the thieves that
\* have loaded it.
PushGrow ==
    /\ own.pc = "pushStore" /\ Distance(own.b, own.t) >= capacity(Buffer)
    /\ bufs' = Append(bufs, Grown(Buffer, own.t, own.b))
    /\ own' = [own EXCEPT !.pc = "pushGrown"]
    /\ UNCHANGED <<top, bottom, pushed, taken, thief>>

\* The buffer holds one task more, or grow has just been called.
HasRoom ==
    \/ own.pc = "pushStore" /\ Distance(own.b, own.t) < capacity(Buffer)
    \/ own.pc = "pushGrown"

PushStore ==
    /\ HasRoom
    /\ bufs' = [bufs EXCEPT ![Len(bufs)] = store(@, own.b, pushed + 1)]
    /\ own' = [own EXCEPT !.pc = "pushPublish"]
    /\ UNCHANGED <<top, bottom, pushed, taken, thief>>

\* Mutant: bottom stays where it was.
PushPublishNot ==
    /\ own.pc = "pushPublish"
    /\ bottom' = own.b
    /\ pushed' = pushed + 1
    /\ own' = IdleOwner
    /\ UNCHANGED <<top, bufs, taken, thief>>

PushPublish ==
    /\ own.pc = "pushPublish"
    /\ bottom' = Inc(own.b, 1)
    /\ pushed' = pushed + 1
    /\ own' = IdleOwner
    /\ UNCHANGED <<top, bufs, taken, thief>>

----------------------------------------------------------------------------
(* popBottom, by the owner.                                                *)

\* bottom <= top returns nullptr at once and leaves no trace.
PopLoad ==
    /\ own.pc = "idle" /\ Pops
    /\ bottom > top
    /\ own' = [pc |-> "popStore", b |-> Dec(bottom), t |-> top]
    /\ UNCHANGED <<top, bottom, bufs, pushed, taken, thief>>

PopStore ==
    /\ own.pc = "popStore"
    /\ bottom' = own.b
    /\ own' = [own EXCEPT !.pc = "popReload"]
    /\ UNCHANGED <<top, bufs, pushed, taken, thief>>

\* More than one task was left: the owner takes the last one unopposed.
PopTake ==
    /\ own.pc = "popReload" /\ top < own.b
    /\ Return({load(Buffer, own.b)})
    /\ own' = IdleOwner
    /\ UNCHANGED <<top, bottom, bufs, pushed, thief>>

\* One task was left: the owner competes with the thieves for it.
PopContend ==
    /\ own.pc = "popReload" /\ top = own.b
    /\ own' = [own EXCEPT !.pc = "popCas", !.t = top]
    /\ UNCHANGED <<top, bottom, bufs, pushed, taken, thief>>

\* Thieves took everything meanwhile.
PopEmpty ==
    /\ own.pc = "popReload" /\ top > own.b
    /\ own' = [own EXCEPT !.pc = "popRestore"]
    /\ UNCHANGED <<top, bottom, bufs, pushed, taken, thief>>

PopCas ==
    /\ own.pc = "popCas"
    /\ \/ /\ top = own.t
          /\ top' = Inc(own.t, 1)
          /\ Return({load(Buffer, own.b)})
       \/ top # own.t /\ UNCHANGED <<top, taken>>
    /\ own' = [own EXCEPT !.pc = "popRestore"]
    /\ UNCHANGED <<bottom, bufs, pushed, thief>>

PopRestore ==
    /\ own.pc = "popRestore"
    /\ bottom' = Inc(own.b, 1)
    /\ own' = IdleOwner
    /\ UNCHANGED <<top, bufs, pushed, taken, thief>>

----------------------------------------------------------------------------
(* stealTop, by thief p.                                                   *)

StealLoadTop(p) ==
    /\ thief[p].pc = "idle"
    /\ thief' = [thief EXCEPT ![p].pc = "bottom", ![p].t = top]
    /\ UNCHANGED <<top, bottom, bufs, pushed, taken, own>>

\* A thief that finds nothing goes home.
StealLoadBottom(p) ==
    /\ thief[p].pc = "bottom"
    /\ thief' = [thief EXCEPT ![p] = IF @.t >= bottom THEN IdleThief
                                     ELSE [@ EXCEPT !.pc = "buffer"]]
    /\ UNCHANGED <<top, bottom, bufs, pushed, taken, own>>

StealLoadBuffer(p) ==
    /\ thief[p].pc = "buffer"
    /\ thief' = [thief EXCEPT ![p].pc = "task", ![p].buf = Len(bufs)]
    /\ UNCHANGED <<top, bottom, bufs, pushed, taken, own>>

\* stealTop reads the task before it claims it.
StealLoadTask(p) ==
    /\ thief[p].pc = "task"
    /\ thief' = [thief EXCEPT ![p].pc = "cas",
                              ![p].task = load(bufs[thief[p].buf], thief[p].t)]
    /\ UNCHANGED <<top, bottom, bufs, pushed, taken, own>>

\* Mutant: a thief stores top without comparing.
StealCasBlind(p) ==
    /\ thief[p].pc = "cas"
    /\ top' = Inc(thief[p].t, 1)
    /\ Return({thief[p].task})
    /\ thief' = [thief EXCEPT ![p] = IdleThief]
    /\ UNCHANGED <<bottom, bufs, pushed, own>>

StealCas(p) ==
    /\ thief[p].pc = "cas"
    /\ \/ /\ top = thief[p].t
          /\ top' = Inc(top, 1)
          /\ Return({thief[p].task})
       \/ top # thief[p].t /\ UNCHANGED <<top, taken>>
    /\ thief' = [thief EXCEPT ![p] = IdleThief]
    /\ UNCHANGED <<bottom, bufs, pushed, own>>

----------------------------------------------------------------------------
OwnerStep ==
    \/ PushLoad \/ PushGrow \/ PushStore \/ PushPublish
    \/ PopLoad \/ PopStore \/ PopTake \/ PopContend \/ PopEmpty \/ PopCas \/ PopRestore

SingleStep(p) ==
    \/ StealLoadTop(p) \/ StealLoadBottom(p) \/ StealLoadBuffer(p)
    \/ StealLoadTask(p) \/ StealCas(p)

Next == OwnerStep \/ \E p \in Thieves : SingleStep(p)

Spec == Init /\ [][Next]_vars

----------------------------------------------------------------------------
(* Properties.                                                             *)

\* No task is handed out twice, to the owner and a thief or to two thieves.
TakenOnce == \A k \in Tasks : taken[k] <= 1

\* popBottom and the thieves report an empty deque (bottom <= top) only when
\* every task pushed has been handed out: no task is stranded behind the
\* indices.
EmptyMeansNothingLeft == own.pc = "idle" /\ bottom <= top => Remaining = {}

Quiet == own.pc = "idle" /\ \A p \in Thieves : thief[p].pc = "idle"

\* When every call has returned, a task that nobody received is in the
\* current buffer, between top and bottom: growth, lost races and the
\* restores of popBottom strand nothing.
QuietNothingLost ==
    Quiet => \A k \in Remaining : \E i \in Index :
                top <= i /\ i < bottom /\ load(Buffer, i) = k

\* With single thieves the deque implements the abstract one: the owner pops
\* the latest task and a thief takes the oldest, each at one instant.
Abstract == INSTANCE StealDeque WITH items <- Remaining

ImplementsStealDeque == Abstract!Spec
=============================================================================
