---------------------------- MODULE TaskRouting ----------------------------
(***************************************************************************)
(* Where TaskScheduler puts a task and where it looks for one              *)
(* (src/src/task_scheduler.cpp): schedule and scheduleBatch choose a queue *)
(* by domain, priority and calling thread; findWork and findWorkExternal   *)
(* search the two-priority deques and the injection queues; the tasks of   *)
(* the main thread go through a lock-free stack that drainMainThreadTasks  *)
(* takes whole and reverses.                                               *)
(*                                                                         *)
(* A deque is what StealDeque promises and an injection queue is what      *)
(* FifoQueue promises, capacity included (ChaseLevDeque and MpmcTaskQueue  *)
(* model how they work).  A worker that finds nothing parks in one step:   *)
(* that no wake-up is lost meanwhile is the subject of WorkerPool.         *)
(***************************************************************************)
EXTENDS Integers, FiniteSets, SequencesExt

CONSTANTS
    Workers, IOWorkers, Externals,  \* the threads
    Main,       \* the external thread that drains the main-thread tasks
    Helpers,    \* the external threads that wait in helpUntil ...
    Awaited,    \* ... until these tasks are done
    Tasks,
    Domain,     \* TaskNode::domain
    Priority,   \* TaskNode::priority, "high" or "normal"
    Calls,      \* the calls of a thread or a task, as sequences of the tasks
                \* they pass: one to schedule, several to scheduleBatch
    QUEUE,      \* capacity of an injection queue
    IOQUEUE,    \* capacity of m_ioQueue
    BATCH,      \* 128 in the code: the most a batch steal takes
    USIZE,      \* 2^64 in the code
    None

Threads == Workers \cup IOWorkers \cup Externals
Priorities == {"high", "normal"}

ASSUME RoutingAssumption ==
    /\ IsFiniteSet(Workers) /\ IsFiniteSet(IOWorkers) /\ IsFiniteSet(Externals)
    /\ Main \in Externals /\ Helpers \subseteq Externals
    /\ Domain \in [Tasks -> {"Worker", "IO", "MainThread"}]
    /\ Priority \in [Tasks -> Priorities]
    /\ Calls \in [Externals \cup Tasks -> Seq(Seq(Tasks))]
    /\ {QUEUE, IOQUEUE, BATCH, USIZE} \subseteq Nat \ {0}
    /\ Externals \cap (Workers \cup IOWorkers) = {} /\ Externals \cap Tasks = {}
    /\ None \notin Tasks

\* The tasks that a thread or a task schedules.
Callees(o) == UNION {Range(Calls[o][i]) : i \in DOMAIN Calls[o]}

\* Every task is scheduled by somebody, and once: a node is released once.
ASSUME CallsAssumption ==
    /\ \A x \in Tasks : \E o \in Externals \cup Tasks : x \in Callees(o)
    /\ \A o, q \in Externals \cup Tasks : \A i \in DOMAIN Calls[o], j \in DOMAIN Calls[q] :
          \A k \in DOMAIN Calls[o][i], l \in DOMAIN Calls[q][j] :
             Calls[o][i][k] = Calls[q][j][l] => o = q /\ i = j /\ k = l

VARIABLES
    deque,      \* a DualPriorityQueue per worker, oldest task first
    global,     \* m_globalHigh and m_globalNormal
    io,         \* m_ioQueue
    head,       \* the list at m_mainThreadHead, latest task first
    count,      \* m_mainThreadCount
    asleep,     \* the workers parked on m_wakeSignal
    drained,    \* what drainMainThreadTasks has still to execute
    drains,     \* how many tasks it took, 0 when it is not running
    pc, cur,    \* where a thread is, and the task it executes
    calls,      \* the calls a thread, or its task, has still to make
    todo,       \* the tasks its call has still to place
    placed,     \* workerTaskCount
    oldHead,    \* what pushMainThreadTask has read
    moving,     \* what a batch steal has claimed and not yet pushed
    victims,    \* the workers a search has still to try
    done        \* the tasks executed

queues == <<deque, global, io>>
main == <<head, count, drained, drains, oldHead>>
search == <<moving, victims>>
call == <<calls, todo, placed>>
vars == <<queues, main, search, call, asleep, pc, cur, done>>

Init ==
    /\ deque = [w \in Workers |-> [p \in Priorities |-> <<>>]]
    /\ global = [p \in Priorities |-> <<>>]
    /\ io = <<>> /\ head = <<>> /\ count = 0 /\ asleep = {}
    /\ drained = <<>> /\ drains = 0
    /\ pc = [t \in Threads |-> "idle"] /\ cur = [t \in Threads |-> None]
    /\ calls = [t \in Threads |-> IF t \in Externals THEN Calls[t] ELSE <<>>]
    /\ todo = [t \in Threads |-> <<>>] /\ placed = [t \in Threads |-> 0]
    /\ oldHead = [t \in Threads |-> None]
    /\ moving = [w \in Workers |-> <<>>] /\ victims = [t \in Threads |-> {}]
    /\ done = {}

Goto(t, label) == pc' = [pc EXCEPT ![t] = label]

----------------------------------------------------------------------------
(* schedule and scheduleBatch.                                             *)

IsBatch(t) == placed[t] + Len(todo[t]) > 1

BeginCall(t) ==
    /\ pc[t] \in {"idle", "run"} /\ calls[t] # <<>>
    /\ pc[t] = "idle" => cur[t] = None /\ (t = Main => drains = 0)
    /\ todo' = [todo EXCEPT ![t] = Head(calls[t])]
    /\ calls' = [calls EXCEPT ![t] = Tail(@)]
    /\ Goto(t, "place")
    /\ UNCHANGED <<queues, main, search, placed, asleep, cur, done>>

Placing(t, domain) == pc[t] = "place" /\ todo[t] # <<>> /\ Domain[Head(todo[t])] = domain
Next1(t) == todo' = [todo EXCEPT ![t] = Tail(@)]

\* The m_ioQueue takes the task when it has room; the thread spins until then.
PlaceIO(t) ==
    /\ Placing(t, "IO") /\ Len(io) < IOQUEUE
    /\ io' = Append(io, Head(todo[t]))
    /\ Next1(t)
    /\ UNCHANGED <<deque, global, main, search, calls, placed, asleep, pc, cur, done>>

\* DualPriorityQueue::push, onto the deque of the calling worker.
PlaceLocal(t) ==
    LET x == Head(todo[t])
    IN  /\ Placing(t, "Worker") /\ t \in Workers
        /\ deque' = [deque EXCEPT ![t][Priority[x]] = Append(@, x)]
        /\ placed' = [placed EXCEPT ![t] = @ + 1]
        /\ Next1(t)
        /\ UNCHANGED <<global, io, main, search, calls, asleep, pc, cur, done>>

\* Any other thread uses an injection queue, when it has room.
PlaceGlobal(t) ==
    LET x == Head(todo[t])
    IN  /\ Placing(t, "Worker") /\ t \notin Workers
        /\ Len(global[Priority[x]]) < QUEUE
        /\ global' = [global EXCEPT ![Priority[x]] = Append(@, x)]
        /\ placed' = [placed EXCEPT ![t] = @ + 1]
        /\ Next1(t)
        /\ UNCHANGED <<deque, io, main, search, calls, asleep, pc, cur, done>>

\* While the queue is full, schedule wakes the workers; scheduleBatch only
\* spins.
WakeForRoom(t) ==
    /\ Placing(t, "Worker") /\ t \notin Workers /\ ~IsBatch(t)
    /\ Len(global[Priority[Head(todo[t])]]) = QUEUE
    /\ asleep # {} /\ asleep' = {}
    /\ UNCHANGED <<queues, main, search, call, pc, cur, done>>

HeadOf(s) == IF s = <<>> THEN None ELSE Head(s)

\* pushMainThreadTask reads the head of the list ...
PushLoad(t) ==
    /\ Placing(t, "MainThread")
    /\ oldHead' = [oldHead EXCEPT ![t] = HeadOf(head)]
    /\ Goto(t, "cas")
    /\ UNCHANGED <<queues, head, count, drained, drains, search, call, asleep, cur, done>>

\* ... and swings it to its task unless it has changed.  The test compares
\* the first task only; whatever follows that task is in the list with it.
PushCas(t) ==
    /\ pc[t] = "cas"
    /\ \/ /\ HeadOf(head) = oldHead[t]
          /\ head' = <<Head(todo[t])>> \o head
          /\ oldHead' = [oldHead EXCEPT ![t] = None]
          /\ Goto(t, "count")
       \/ /\ HeadOf(head) # oldHead[t]
          /\ oldHead' = [oldHead EXCEPT ![t] = HeadOf(head)]
          /\ UNCHANGED <<head, pc>>
    /\ UNCHANGED <<queues, count, drained, drains, search, call, asleep, cur, done>>

\* The count follows the push, in a step of its own.
PushCount(t) ==
    /\ pc[t] = "count"
    /\ count' = (count + 1) % USIZE
    /\ Next1(t) /\ Goto(t, "place")
    /\ UNCHANGED <<queues, head, drained, drains, oldHead, search, calls, placed, asleep,
                   cur, done>>

\* Mutant: nobody is notified.
EndCallQuietly(t) ==
    /\ pc[t] = "place" /\ todo[t] = <<>>
    /\ placed' = [placed EXCEPT ![t] = 0]
    /\ Goto(t, IF cur[t] = None THEN "idle" ELSE "run")
    /\ UNCHANGED <<queues, main, search, calls, todo, asleep, cur, done>>

\* The call ends with one notifyWorker for the Worker tasks it placed.
EndCall(t) ==
    /\ pc[t] = "place" /\ todo[t] = <<>>
    /\ \E S \in SUBSET asleep :
          /\ asleep' = asleep \ S
          /\ Cardinality(S) = IF placed[t] < Cardinality(asleep) THEN placed[t]
                              ELSE Cardinality(asleep)
    /\ placed' = [placed EXCEPT ![t] = 0]
    /\ Goto(t, IF cur[t] = None THEN "idle" ELSE "run")
    /\ UNCHANGED <<queues, main, search, calls, todo, cur, done>>

----------------------------------------------------------------------------
(* Executing a task: its calls, then the next thing the thread does.       *)

Start(t, x) ==
    /\ cur' = [cur EXCEPT ![t] = x]
    /\ calls' = [calls EXCEPT ![t] = Calls[x]]
    /\ victims' = [victims EXCEPT ![t] = {}]
    /\ Goto(t, "run")
    /\ UNCHANGED <<moving, todo, placed, asleep, done>>

Finish(t) ==
    /\ pc[t] = "run" /\ calls[t] = <<>>
    /\ done' = done \cup {cur[t]}
    /\ cur' = [cur EXCEPT ![t] = None]
    /\ Goto(t, "idle")
    /\ UNCHANGED <<queues, main, search, call, asleep>>

----------------------------------------------------------------------------
(* drainMainThreadTasks and the IO threads.                                *)

\* Mutant: the list is executed as it was taken.
Unreversed(s) == s

\* The order in which the tasks taken are executed.
SubmissionOrder(s) == Reverse(s)

DrainTake ==
    /\ pc[Main] = "idle" /\ calls[Main] = <<>> /\ drains = 0 /\ head # <<>>
    /\ drained' = SubmissionOrder(head)
    /\ drains' = Len(head) /\ head' = <<>>
    /\ UNCHANGED <<queues, count, oldHead, search, call, asleep, pc, cur, done>>

DrainExecute ==
    /\ pc[Main] = "idle" /\ drained # <<>>
    /\ drained' = Tail(drained)
    /\ Start(Main, Head(drained))
    /\ UNCHANGED <<queues, head, count, drains, oldHead>>

\* Mutant: a drain counts for one task.
DrainEndOne ==
    /\ pc[Main] = "idle" /\ drains > 0 /\ drained = <<>>
    /\ count' = (count - 1) % USIZE
    /\ drains' = 0
    /\ UNCHANGED <<queues, head, drained, oldHead, search, call, asleep, pc, cur, done>>

\* The count is taken back when all tasks of the drain have run.
DrainEnd ==
    /\ pc[Main] = "idle" /\ drains > 0 /\ drained = <<>>
    /\ count' = (count - drains) % USIZE
    /\ drains' = 0
    /\ UNCHANGED <<queues, head, drained, oldHead, search, call, asleep, pc, cur, done>>

IOTake(t) ==
    /\ t \in IOWorkers /\ pc[t] = "idle" /\ io # <<>>
    /\ io' = Tail(io)
    /\ Start(t, Head(io))
    /\ UNCHANGED <<deque, global, main>>

----------------------------------------------------------------------------
(* findWork and findWorkExternal.                                          *)

\* The priority DualPriorityQueue serves first; only the owner of a deque
\* adds to it, so what pop sees of the two deques in two steps it sees in one.
First(d) == IF d["high"] # <<>> THEN "high" ELSE "normal"

\* A worker that is awake, or a thread in helpUntil, may look for work.
MaySearch(t) ==
    /\ t \in Workers \/ (t \in Helpers /\ ~(Awaited \subseteq done))
    /\ pc[t] = "idle" /\ t \notin asleep
    /\ calls[t] = <<>> /\ (t = Main => drains = 0)

\* DualPriorityQueue::pop on the own deque, the latest task, at the start of
\* findWork and after a batch steal.
PopOwn(w) ==
    LET p == First(deque[w])
        q == deque[w][p]
    IN  /\ w \in Workers /\ (MaySearch(w) \/ pc[w] = "popStolen")
        /\ q # <<>>
        /\ deque' = [deque EXCEPT ![w][p] = Front(@)]
        /\ Start(w, Last(q))
        /\ UNCHANGED <<global, io, main>>

\* Another thief has emptied the deque meanwhile: findWork returns nullptr.
PopStolenMiss(w) ==
    /\ pc[w] = "popStolen" /\ deque[w][First(deque[w])] = <<>>
    /\ Goto(w, "idle")
    /\ UNCHANGED <<queues, main, search, call, asleep, cur, done>>

\* Nothing of its own: a thread goes on to the injection queues.
Search(t) ==
    /\ MaySearch(t) /\ (t \in Workers => deque[t][First(deque[t])] = <<>>)
    /\ Goto(t, "high")
    /\ UNCHANGED <<queues, main, search, call, asleep, cur, done>>

\* tryDequeue on an injection queue: the oldest task.
TakeGlobal(t, p) ==
    /\ pc[t] = p
    /\ \/ /\ global[p] # <<>>
          /\ global' = [global EXCEPT ![p] = Tail(@)]
          /\ Start(t, Head(global[p]))
       \/ /\ global[p] = <<>>
          /\ Goto(t, IF p = "high" THEN "normal" ELSE "steal")
          /\ victims' = [victims EXCEPT ![t] = IF p = "high" THEN {} ELSE Workers \ {t}]
          /\ UNCHANGED <<global, moving, call, asleep, cur, done>>
    /\ UNCHANGED <<deque, io, main>>

\* ceil(K / 2) tasks, at most BATCH.
BatchSize(q) == IF (Len(q) + 1) \div 2 < BATCH THEN (Len(q) + 1) \div 2 ELSE BATCH

\* DualPriorityQueue::stealBatch claims the oldest tasks of the victim.  An
\* assumption: the claim is one step and takes each task once.  In the code it
\* is a CAS, a second look at bottom and a plain store that may take it back;
\* ChaseLevBatch shows that a task can then be claimed twice.
StealBatch(w, v) ==
    LET p == First(deque[v])
        q == deque[v][p]
        n == BatchSize(q)
    IN  /\ pc[w] = "steal" /\ w \in Workers /\ v \in victims[w] /\ q # <<>>
        /\ moving' = [moving EXCEPT ![w] = SubSeq(q, 1, n)]
        /\ deque' = [deque EXCEPT ![v][p] = SubSeq(q, n + 1, Len(q))]
        /\ victims' = [victims EXCEPT ![w] = {}]
        /\ Goto(w, "move")
        /\ UNCHANGED <<global, io, main, call, asleep, cur, done>>

\* Mutant: only the last of the claimed tasks is pushed.
MoveLast(w) ==
    /\ pc[w] = "move" /\ moving[w] # <<>>
    /\ LET x == Last(moving[w])
       IN  deque' = [deque EXCEPT ![w][Priority[x]] = Append(@, x)]
    /\ moving' = [moving EXCEPT ![w] = <<>>]
    /\ Goto(w, "popStolen")
    /\ UNCHANGED <<global, io, main, victims, call, asleep, cur, done>>

\* The claimed tasks are pushed onto the own deque one by one, where other
\* thieves find them at once.
Move(w) ==
    /\ pc[w] = "move" /\ moving[w] # <<>>
    /\ LET x == Head(moving[w])
       IN  deque' = [deque EXCEPT ![w][Priority[x]] = Append(@, x)]
    /\ moving' = [moving EXCEPT ![w] = Tail(@)]
    /\ Goto(w, IF Len(moving[w]) = 1 THEN "popStolen" ELSE "move")
    /\ UNCHANGED <<global, io, main, victims, call, asleep, cur, done>>

\* DualPriorityQueue::steal, by a helper, or by a worker whose batch steal
\* lost a race.
StealOne(t, v) ==
    LET p == First(deque[v])
        q == deque[v][p]
    IN  /\ pc[t] = "steal" /\ v \in victims[t] /\ q # <<>>
        /\ deque' = [deque EXCEPT ![v][p] = Tail(@)]
        /\ Start(t, Head(q))
        /\ UNCHANGED <<global, io, main>>

StealMiss(t, v) ==
    /\ pc[t] = "steal" /\ v \in victims[t] /\ deque[v][First(deque[v])] = <<>>
    /\ victims' = [victims EXCEPT ![t] = @ \ {v}]
    /\ UNCHANGED <<queues, main, moving, call, asleep, pc, cur, done>>

NoWork == /\ \A p \in Priorities : global[p] = <<>>
          /\ \A w \in Workers, p \in Priorities : deque[w][p] = <<>>

\* The search ends with nothing: a worker parks if there is still nothing.
SearchEnds(t) ==
    /\ pc[t] = "steal" /\ victims[t] = {}
    /\ asleep' = IF t \in Workers /\ NoWork THEN asleep \cup {t} ELSE asleep
    /\ Goto(t, "idle")
    /\ UNCHANGED <<queues, main, search, call, cur, done>>

----------------------------------------------------------------------------
ThreadStep(t) ==
    \/ BeginCall(t) \/ PlaceIO(t) \/ PlaceLocal(t) \/ PlaceGlobal(t)
    \/ WakeForRoom(t) \/ PushLoad(t) \/ PushCas(t) \/ PushCount(t) \/ EndCall(t)
    \/ Finish(t) \/ IOTake(t) \/ Search(t)
    \/ PopOwn(t) \/ PopStolenMiss(t) \/ Move(t)
    \/ \E p \in Priorities : TakeGlobal(t, p)
    \/ \E v \in Workers : StealBatch(t, v) \/ StealOne(t, v) \/ StealMiss(t, v)
    \/ SearchEnds(t)

Drain == DrainTake \/ DrainExecute \/ DrainEnd

Next == Drain \/ \E t \in Threads : ThreadStep(t)

Spec == Init /\ [][Next]_vars

\* Every thread goes on, and the application comes back to drain its
\* main-thread tasks.
FairSpec ==
    /\ Spec /\ SF_vars(Drain)
    /\ \A t \in Threads : WF_vars(ThreadStep(t))

----------------------------------------------------------------------------
(* Properties.                                                             *)

\* What a call has still to place: pushMainThreadTask keeps its task in todo
\* until it has counted it.
Unplaced(t) == IF pc[t] = "count" THEN Tail(todo[t]) ELSE todo[t]

\* The occurrences of x in the list s.
Spot(kind, key, x, s) == {<<kind, key, i>> : i \in {j \in DOMAIN s : s[j] = x}}

\* Where x is between its submission and its execution.
Spots(x) ==
    UNION ({Spot("todo", t, x, Unplaced(t)) : t \in Threads}
           \cup {UNION {Spot("calls", <<t, i>>, x, calls[t][i]) : i \in DOMAIN calls[t]}
                 : t \in Threads}
           \cup {Spot("cur", t, x, <<cur[t]>>) : t \in Threads}
           \cup {Spot("deque", <<w, p>>, x, deque[w][p]) : w \in Workers, p \in Priorities}
           \cup {Spot("moving", w, x, moving[w]) : w \in Workers}
           \cup {Spot("global", p, x, global[p]) : p \in Priorities}
           \cup {Spot("io", None, x, io), Spot("head", None, x, head),
                 Spot("drained", None, x, drained)})

\* Some task still to be started will schedule x.
Unborn(x) == \E y \in Tasks : x \in Callees(y) /\ y \notin done /\ \A t \in Threads : cur[t] # y

\* A task is in one place from its submission until it has been executed,
\* and executed once: no queue, no move between queues and no drain drops or
\* doubles it, if a batch steal claims each task once (see StealBatch).
NothingLost == \A x \in Tasks :
    Cardinality(Spots(x)) + (IF x \in done THEN 1 ELSE 0) + (IF Unborn(x) THEN 1 ELSE 0) = 1

\* m_mainThreadCount is the number of tasks in the main-thread queue, those
\* of a drain in progress included, once pushes in progress are counted;
\* between the two updates it is off, and may wrap around.
MainCountExact ==
    (count + Cardinality({t \in Threads : pc[t] = "count"})) % USIZE
        = (Len(head) + drains) % USIZE

\* The main-thread tasks are executed in the order in which they were pushed,
\* across drains and whatever is pushed meanwhile (drainMainThreadTasks).
MainQueue == INSTANCE FifoList WITH Items <- Tasks, list <- drained \o Reverse(head)
ImplementsMainQueue == MainQueue!Spec

\* From some moment on no worker steals a batch.
StealingEnds == <>[][\A w, v \in Workers : ~StealBatch(w, v)]_vars

\* Every task that is submitted is executed in the end, unless workers go on
\* stealing it back from one another for ever: full queues make room, parked
\* workers are woken for what is placed, and a batch steal that comes out
\* empty does not end in sleep over work (schedule, scheduleBatch, findWork).
AllTasksRun == StealingEnds => <>(done = Tasks)
=============================================================================
