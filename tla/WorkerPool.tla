----------------------------- MODULE WorkerPool -----------------------------
(***************************************************************************)
(* The threads of TaskScheduler (src/src/task_scheduler.cpp): how tasks    *)
(* are scheduled into the worker deques, the global injection queue and    *)
(* the IO queue, how idle workers and IO threads park on a futex and are   *)
(* woken, and how shutdown drains and joins them.                          *)
(*                                                                         *)
(* The deques and queues appear here as what they promise (ChaseLevDeque   *)
(* and MpmcTaskQueue model how they work): a deque is a set of tasks, an   *)
(* MPMC queue is a sequence of tickets of which a consumer gets the first  *)
(* one once its producer has published it.  The two priorities of a queue  *)
(* are one queue, and the 258 scans before parking are one.                *)
(***************************************************************************)
EXTENDS Integers, Sequences, FiniteSets

CONSTANTS
    Workers,    \* the threads of workerLoop
    IOWorkers,  \* the threads of ioWorkerLoop
    Producers,  \* external threads that call schedule
    Tasks,      \* tasks
    IOTasks,    \* those of domain IO; the others are of domain Worker
    External,   \* the tasks each producer schedules
    Children,   \* the tasks that a task makes ready when it completes
    StoreBuffer,\* a relaxed load may pass a release store that precedes it
    MayShutdown,\* whether shutdown may be called
    None        \* nullptr

\* The constructor starts at least one worker; a thread is of one kind.
ASSUME PoolAssumption ==
    /\ IsFiniteSet(Workers) /\ IsFiniteSet(IOWorkers) /\ IsFiniteSet(Producers)
    /\ Workers # {} /\ Workers \cap IOWorkers = {}
    /\ Producers \cap (Workers \cup IOWorkers) = {}
    /\ IOTasks \subseteq Tasks /\ None \notin Tasks
    /\ External \in [Producers -> SUBSET Tasks]
    /\ Children \in [Tasks -> SUBSET Tasks]
    /\ StoreBuffer \in BOOLEAN /\ MayShutdown \in BOOLEAN

Pool == Workers \cup IOWorkers
Threads == Pool \cup Producers

VARIABLES
    local,      \* the worker deques
    global,     \* the global injection queue: tickets in order
    ioQueue,    \* m_ioQueue: tickets in order
    buffer,     \* the ticket a thread has taken and not yet published
    wakeSignal, \* m_wakeSignal
    ioSignal,   \* m_ioWakeSignal
    sleeping,   \* m_sleepingCount
    stop,       \* m_stop
    parked,     \* threads blocked in wait
    pc,         \* where a thread is in its loop
    sig,        \* a thread's currentSignal
    announced,  \* the workers between the two updates of m_sleepingCount
    victims,    \* the workers a scan has still to try to steal from
    stolen,     \* the tasks of a batch not yet pushed onto the thief's deque
    inline,     \* t_nextInlineTask
    todo,       \* the tasks a thread has to schedule
    count,      \* the wake-ups a thread owes
    done,       \* tasks executed
    closing,    \* how far shutdown has come
    late        \* history: the tickets published after their thread's notify

queues == <<local, global, ioQueue, buffer>>
signals == <<wakeSignal, ioSignal, sleeping, parked, sig, announced>>
work == <<inline, todo, count, done>>
shut == <<stop, closing>>
scan == <<victims, stolen>>
vars == <<queues, signals, work, shut, pc, scan, late>>

Init ==
    /\ local = [w \in Workers |-> {}] /\ stolen = [w \in Workers |-> {}]
    /\ global = <<>> /\ ioQueue = <<>>
    /\ buffer = [t \in Threads |-> None]
    /\ wakeSignal = 0 /\ ioSignal = 0 /\ sleeping = 0
    /\ parked = {} /\ announced = {}
    /\ pc = [t \in Threads |-> IF t \in Producers THEN "emit" ELSE "loop"]
    /\ sig = [t \in Pool |-> 0]
    /\ victims = [w \in Workers |-> {}]
    /\ inline = [w \in Workers |-> None]
    /\ todo = [t \in Threads |-> IF t \in Producers THEN External[t] ELSE {}]
    /\ count = [t \in Threads |-> 0]
    /\ done = {}
    /\ stop = FALSE /\ closing = "open"
    /\ late = {}

Goto(t, label) == pc' = [pc EXCEPT ![t] = label]

\* The ticket x has been published: consumers see its task.
Visible(x) == \A t \in Threads : buffer[t] # x

\* tryDequeue hands out the first ticket, once it is published.
Ready(q) == q # <<>> /\ Visible(Head(q))

----------------------------------------------------------------------------
(* schedule, and the notifications that follow it, by any thread.  A pool  *)
(* thread schedules the tasks its last one made ready and then calls       *)
(* notifyWorker once; a producer calls it after every task.                *)

\* unblockSuccessors keeps one Worker task for the worker itself.
EmitInline(t, x) ==
    /\ pc[t] = "emit" /\ x \in todo[t] \ IOTasks
    /\ t \in Workers /\ inline[t] = None
    /\ inline' = [inline EXCEPT ![t] = x]
    /\ todo' = [todo EXCEPT ![t] = @ \ {x}]
    /\ UNCHANGED <<queues, signals, shut, pc, scan, late, count, done>>

EmitLocal(t, x) ==
    /\ pc[t] = "emit" /\ x \in todo[t] \ IOTasks
    /\ t \in Workers /\ inline[t] # None
    /\ local' = [local EXCEPT ![t] = @ \cup {x}]
    /\ todo' = [todo EXCEPT ![t] = @ \ {x}]
    /\ count' = [count EXCEPT ![t] = @ + 1]
    /\ UNCHANGED <<global, ioQueue, buffer, signals, shut, pc, scan, late, inline, done>>

\* Any other thread takes a ticket of the global queue.
EmitGlobal(t, x) ==
    /\ pc[t] = "emit" /\ x \in todo[t] \ IOTasks
    /\ t \notin Workers /\ buffer[t] = None
    /\ global' = Append(global, x)
    /\ buffer' = [buffer EXCEPT ![t] = x]
    /\ todo' = [todo EXCEPT ![t] = @ \ {x}]
    /\ count' = [count EXCEPT ![t] = @ + 1]
    /\ Goto(t, IF t \in Producers THEN "notify" ELSE "emit")
    /\ UNCHANGED <<local, ioQueue, signals, shut, scan, late, inline, done>>

EmitIO(t, x) ==
    /\ pc[t] = "emit" /\ x \in todo[t] \cap IOTasks
    /\ buffer[t] = None
    /\ ioQueue' = Append(ioQueue, x)
    /\ buffer' = [buffer EXCEPT ![t] = x]
    /\ todo' = [todo EXCEPT ![t] = @ \ {x}]
    /\ Goto(t, "signalIO")
    /\ UNCHANGED <<local, global, signals, shut, scan, late, inline, count, done>>

\* The store of the cell's sequence number reaches the other threads.
Publish(t) ==
    /\ buffer[t] # None
    /\ buffer' = [buffer EXCEPT ![t] = None]
    /\ UNCHANGED <<local, global, ioQueue, signals, work, shut, pc, scan, late>>

\* Threads of S blocked on a signal whose value is now v: a woken thread
\* whose currentSignal equals v goes back to sleep.
Unpark(S, v) == parked' = parked \ {t \in S : sig[t] # v}

\* m_ioWakeSignal.fetch_add and notify_one after every IO ticket.
SignalIO(t) ==
    /\ pc[t] = "signalIO" /\ buffer[t] = None
    /\ ioSignal' = ioSignal + 1
    /\ IF parked \cap IOWorkers = {} THEN UNCHANGED parked
       ELSE \E i \in parked \cap IOWorkers : Unpark({i}, ioSignal')
    /\ Goto(t, "emit")
    /\ UNCHANGED <<queues, wakeSignal, sleeping, sig, announced, work, shut, scan, late>>

EmitEnd(t) ==
    /\ pc[t] = "emit" /\ todo[t] = {} /\ t \in Pool
    /\ Goto(t, IF count[t] > 0 THEN "notify" ELSE "next")
    /\ UNCHANGED <<queues, signals, work, shut, scan, late>>

AfterNotify(t) == IF t \in Producers THEN "emit" ELSE "next"

\* notifyWorker reads m_sleepingCount with a relaxed load: on hardware with
\* store buffers it may be satisfied before the ticket is published.
NotifyLoad(t) ==
    LET n == IF count[t] < sleeping THEN count[t] ELSE sleeping
    IN  /\ pc[t] = "notify"
        /\ StoreBuffer \/ buffer[t] = None
        /\ late' = IF buffer[t] = None THEN late ELSE late \cup {buffer[t]}
        /\ count' = [count EXCEPT ![t] = n]
        /\ Goto(t, IF n = 0 THEN AfterNotify(t) ELSE "raise")
        /\ UNCHANGED <<queues, signals, inline, todo, done, shut, scan>>

\* Mutant: the workers are notified without a new value.
NotifyRaiseUnraised(t) ==
    /\ pc[t] = "raise" /\ buffer[t] = None
    /\ Goto(t, "wake")
    /\ UNCHANGED <<queues, signals, work, shut, scan, late>>

NotifyRaise(t) ==
    /\ pc[t] = "raise" /\ buffer[t] = None
    /\ wakeSignal' = wakeSignal + count[t]
    /\ Goto(t, "wake")
    /\ UNCHANGED <<queues, ioSignal, sleeping, parked, sig, announced, work, shut, scan, late>>

\* notify_one once per task, or notify_all when every worker is wanted.
NotifyWake(t) ==
    LET asleep == parked \cap Workers
        n == IF count[t] < Cardinality(asleep) THEN count[t] ELSE Cardinality(asleep)
    IN  /\ pc[t] = "wake"
        /\ \E S \in SUBSET asleep : Cardinality(S) = n /\ Unpark(S, wakeSignal)
        /\ count' = [count EXCEPT ![t] = 0]
        /\ Goto(t, AfterNotify(t))
        /\ UNCHANGED <<queues, wakeSignal, ioSignal, sleeping, sig, announced, inline,
                       todo, done, shut, scan, late>>

----------------------------------------------------------------------------
(* Executing a task.                                                       *)

\* The callable runs; what it made ready is then scheduled.
Execute(t, x) ==
    /\ done' = done \cup {x}
    /\ todo' = [todo EXCEPT ![t] = Children[x]]
    /\ Goto(t, "emit")
    /\ UNCHANGED count

\* A worker that finds a task while it is announced takes back its count.
Unannounce(w) ==
    /\ announced' = announced \ {w}
    /\ sleeping' = IF w \in announced THEN sleeping - 1 ELSE sleeping

Found(w, x) ==
    /\ Execute(w, x)
    /\ Unannounce(w)
    /\ UNCHANGED <<wakeSignal, ioSignal, parked, sig, inline, shut, scan, late>>

----------------------------------------------------------------------------
(* workerLoop                                                              *)

LoopTest(w) ==
    /\ pc[w] = "loop"
    /\ Goto(w, IF stop THEN "drain" ELSE IF w \in Workers THEN "local" ELSE "ioTake")
    /\ UNCHANGED <<queues, signals, work, shut, scan, late>>

\* executeWithContinuation empties the inline slot first.
RunInline(w) ==
    /\ pc[w] = "next" /\ w \in Workers /\ inline[w] # None
    /\ Execute(w, inline[w])
    /\ inline' = [inline EXCEPT ![w] = None]
    /\ UNCHANGED <<queues, signals, shut, scan, late>>

NextTurn(t) ==
    /\ pc[t] = "next" /\ (t \in Workers => inline[t] = None)
    /\ Goto(t, "loop")
    /\ UNCHANGED <<queues, signals, work, shut, scan, late>>

\* findWork: the own deque, the global queue, then the other deques.
ScanLocal(w) ==
    /\ pc[w] = "local"
    /\ \/ \E x \in local[w] : /\ local' = [local EXCEPT ![w] = @ \ {x}]
                              /\ Found(w, x)
       \/ /\ local[w] = {}
          /\ Goto(w, "global")
          /\ UNCHANGED <<local, signals, work, shut, scan, late>>
    /\ UNCHANGED <<global, ioQueue, buffer>>

ScanGlobal(w) ==
    /\ pc[w] = "global"
    /\ \/ /\ Ready(global)
          /\ global' = Tail(global)
          /\ Found(w, Head(global))
       \/ /\ ~Ready(global)
          /\ victims' = [victims EXCEPT ![w] = Workers \ {w}]
          /\ Goto(w, "steal")
          /\ UNCHANGED <<global, signals, work, shut, stolen, late>>
    /\ UNCHANGED <<local, ioQueue, buffer>>

\* stealBatch claims up to half of a victim's tasks,
StealBatch(w, v) ==
    /\ pc[w] = "steal" /\ v \in victims[w]
    /\ \E S \in SUBSET local[v] \ {{}} :
          /\ Cardinality(S) <= (Cardinality(local[v]) + 1) \div 2
          /\ local' = [local EXCEPT ![v] = @ \ S]
          /\ stolen' = [stolen EXCEPT ![w] = S]
    /\ victims' = [victims EXCEPT ![w] = {}]
    /\ Goto(w, "move")
    /\ UNCHANGED <<global, ioQueue, buffer, signals, work, shut, late>>

\* and pushes them one by one onto the thief's own deque, where other
\* thieves see them.
MoveStolen(w, x) ==
    /\ pc[w] = "move" /\ x \in stolen[w]
    /\ local' = [local EXCEPT ![w] = @ \cup {x}]
    /\ stolen' = [stolen EXCEPT ![w] = @ \ {x}]
    /\ Goto(w, IF stolen[w] = {x} THEN "popStolen" ELSE "move")
    /\ UNCHANGED <<global, ioQueue, buffer, signals, work, shut, victims, late>>

\* A scan without a task: back in workerLoop the worker announces itself,
\* or parks if this was its second look.
AfterScan(w) == Goto(w, IF w \in announced THEN "wait" ELSE "announce")

\* findWork returns what it pops then, and that is nothing if others have
\* stolen the whole batch meanwhile.
PopStolen(w) ==
    /\ pc[w] = "popStolen"
    /\ \/ \E x \in local[w] : /\ local' = [local EXCEPT ![w] = @ \ {x}]
                              /\ Found(w, x)
       \/ /\ local[w] = {}
          /\ AfterScan(w)
          /\ UNCHANGED <<local, signals, work, shut, scan, late>>
    /\ UNCHANGED <<global, ioQueue, buffer>>

\* The single steal that is tried when the batch steal got nothing.
StealOne(w, v) ==
    /\ pc[w] = "steal" /\ v \in victims[w]
    /\ \E x \in local[v] : /\ local' = [local EXCEPT ![v] = @ \ {x}]
                           /\ Found(w, x)
    /\ UNCHANGED <<global, ioQueue, buffer>>

\* Nothing to steal from v, or the race for it is lost.
ScanMiss(w, v) ==
    /\ pc[w] = "steal" /\ v \in victims[w]
    /\ victims' = [victims EXCEPT ![w] = @ \ {v}]
    /\ UNCHANGED <<queues, signals, work, shut, pc, stolen, late>>

ScanEnd(w) ==
    /\ pc[w] = "steal" /\ victims[w] = {}
    /\ AfterScan(w)
    /\ UNCHANGED <<queues, signals, work, shut, scan, late>>

Announce(w) ==
    /\ pc[w] = "announce"
    /\ sleeping' = sleeping + 1
    /\ announced' = announced \cup {w}
    /\ Goto(w, "signal")
    /\ UNCHANGED <<queues, wakeSignal, ioSignal, parked, sig, work, shut, scan, late>>

LoadSignal(w) ==
    /\ pc[w] = "signal"
    /\ sig' = [sig EXCEPT ![w] = wakeSignal]
    /\ Goto(w, "recheck")
    /\ UNCHANGED <<queues, wakeSignal, ioSignal, sleeping, parked, announced, work, shut, scan, late>>

\* Mutant: no second look for work before parking.
RecheckStopOnly(w) ==
    /\ pc[w] = "recheck"
    /\ \/ stop /\ Unannounce(w) /\ Goto(w, "drain")
       \/ ~stop /\ Goto(w, "wait") /\ UNCHANGED <<announced, sleeping>>
    /\ UNCHANGED <<queues, wakeSignal, ioSignal, parked, sig, work, shut, scan, late>>

Recheck(w) ==
    /\ pc[w] = "recheck"
    /\ \/ stop /\ Unannounce(w) /\ Goto(w, "drain")
       \/ ~stop /\ Goto(w, "local") /\ UNCHANGED <<announced, sleeping>>
    /\ UNCHANGED <<queues, wakeSignal, ioSignal, parked, sig, work, shut, scan, late>>

\* m_wakeSignal.wait(currentSignal) blocks while the signal is unchanged.
Wait(w) ==
    /\ pc[w] = "wait"
    /\ parked' = IF wakeSignal = sig[w] THEN parked \cup {w} ELSE parked
    /\ Goto(w, "woken")
    /\ UNCHANGED <<queues, wakeSignal, ioSignal, sleeping, sig, announced, work, shut, scan, late>>

Woken(w) ==
    /\ pc[w] = "woken" /\ w \notin parked
    /\ Unannounce(w)
    /\ Goto(w, "loop")
    /\ UNCHANGED <<queues, wakeSignal, ioSignal, parked, sig, work, shut, scan, late>>

\* Mutant: a worker ends without draining.
DrainLocalNot(w) ==
    /\ pc[w] = "drain" /\ w \in Workers
    /\ Goto(w, "exit")
    /\ UNCHANGED <<queues, signals, work, shut, scan, late>>

\* After the loop a worker empties its own deque and ends.
DrainLocal(w) ==
    /\ pc[w] = "drain" /\ w \in Workers
    /\ \/ \E x \in local[w] : /\ local' = [local EXCEPT ![w] = @ \ {x}]
                              /\ Found(w, x)
       \/ /\ local[w] = {}
          /\ Goto(w, "exit")
          /\ UNCHANGED <<local, signals, work, shut, scan, late>>
    /\ UNCHANGED <<global, ioQueue, buffer>>

----------------------------------------------------------------------------
(* ioWorkerLoop                                                            *)

RunIO(i) ==
    /\ ioQueue' = Tail(ioQueue)
    /\ Execute(i, Head(ioQueue))
    /\ UNCHANGED <<local, global, buffer, signals, inline, shut, scan, late>>

IOTake(i) ==
    /\ pc[i] = "ioTake"
    /\ \/ Ready(ioQueue) /\ RunIO(i)
       \/ ~Ready(ioQueue) /\ Goto(i, "ioSignal") /\ UNCHANGED <<queues, signals, work, shut, scan, late>>

IOLoadSignal(i) ==
    /\ pc[i] = "ioSignal"
    /\ sig' = [sig EXCEPT ![i] = ioSignal]
    /\ Goto(i, "ioRecheck")
    /\ UNCHANGED <<queues, wakeSignal, ioSignal, sleeping, parked, announced, work, shut, scan, late>>

IORecheckStop(i) ==
    /\ pc[i] = "ioRecheck"
    /\ Goto(i, IF stop THEN "drain" ELSE "ioEmpty")
    /\ UNCHANGED <<queues, signals, work, shut, scan, late>>

\* Mutant: no second look at the IO queue.
IORecheckEmptyNot(i) ==
    /\ pc[i] = "ioEmpty"
    /\ Goto(i, "ioWait")
    /\ UNCHANGED <<queues, signals, work, shut, scan, late>>

\* empty() compares the two positions: an unpublished ticket counts.
IORecheckEmpty(i) ==
    /\ pc[i] = "ioEmpty"
    /\ Goto(i, IF ioQueue # <<>> THEN "loop" ELSE "ioWait")
    /\ UNCHANGED <<queues, signals, work, shut, scan, late>>

IOWait(i) ==
    /\ pc[i] = "ioWait"
    /\ parked' = IF ioSignal = sig[i] THEN parked \cup {i} ELSE parked
    /\ Goto(i, "ioWoken")
    /\ UNCHANGED <<queues, wakeSignal, ioSignal, sleeping, sig, announced, work, shut, scan, late>>

IOWoken(i) ==
    /\ pc[i] = "ioWoken" /\ i \notin parked
    /\ Goto(i, "loop")
    /\ UNCHANGED <<queues, signals, work, shut, scan, late>>

DrainIO(i) ==
    /\ pc[i] = "drain" /\ i \in IOWorkers
    /\ \/ Ready(ioQueue) /\ RunIO(i)
       \/ ~Ready(ioQueue) /\ Goto(i, "exit") /\ UNCHANGED <<queues, signals, work, shut, scan, late>>

----------------------------------------------------------------------------
(* shutdown                                                                *)

Elements(q) == {q[i] : i \in 1..Len(q)}

\* The tasks whose schedule has been carried through.
Scheduled == UNION {local[w] : w \in Workers}
             \cup {x \in Elements(global) \cup Elements(ioQueue) : Visible(x)}

SetStop ==
    /\ MayShutdown /\ closing = "open"
    /\ stop' = TRUE /\ closing' = "stopping"
    /\ UNCHANGED <<queues, signals, work, pc, scan, late>>

WakeAll ==
    /\ closing = "stopping"
    /\ wakeSignal' = wakeSignal + 1
    /\ Unpark(parked \cap Workers, wakeSignal')
    /\ closing' = "woken"
    /\ UNCHANGED <<queues, ioSignal, sleeping, sig, announced, work, stop, pc, scan, late>>

\* Mutant: the IO threads are not woken.
WakeAllIONot ==
    /\ closing = "woken"
    /\ closing' = "joining"
    /\ UNCHANGED <<queues, signals, work, stop, pc, scan, late>>

WakeAllIO ==
    /\ closing = "woken"
    /\ ioSignal' = ioSignal + 1
    /\ Unpark(parked \cap IOWorkers, ioSignal')
    /\ closing' = "joining"
    /\ UNCHANGED <<queues, wakeSignal, sleeping, sig, announced, work, stop, pc, scan, late>>

Join ==
    /\ closing = "joining" /\ \A t \in Pool : pc[t] = "exit"
    /\ closing' = "closed"
    /\ UNCHANGED <<queues, signals, work, stop, pc, scan, late>>

----------------------------------------------------------------------------
EmitStep(t) ==
    \/ \E x \in Tasks : EmitInline(t, x) \/ EmitLocal(t, x) \/ EmitGlobal(t, x) \/ EmitIO(t, x)
    \/ SignalIO(t) \/ EmitEnd(t) \/ NotifyLoad(t) \/ NotifyRaise(t) \/ NotifyWake(t)

WorkerStep(w) ==
    \/ LoopTest(w) \/ RunInline(w) \/ NextTurn(w)
    \/ ScanLocal(w) \/ ScanGlobal(w)
    \/ \E v \in Workers : StealBatch(w, v) \/ StealOne(w, v) \/ ScanMiss(w, v)
    \/ \E x \in Tasks : MoveStolen(w, x)
    \/ PopStolen(w) \/ ScanEnd(w) \/ Announce(w) \/ LoadSignal(w) \/ Recheck(w) \/ Wait(w) \/ Woken(w)
    \/ DrainLocal(w)

IOStep(i) ==
    \/ LoopTest(i) \/ NextTurn(i) \/ IOTake(i) \/ IOLoadSignal(i)
    \/ IORecheckStop(i) \/ IORecheckEmpty(i) \/ IOWait(i) \/ IOWoken(i) \/ DrainIO(i)

ShutdownStep == WakeAll \/ WakeAllIO \/ Join

Next ==
    \/ \E t \in Threads : EmitStep(t) \/ Publish(t)
    \/ \E w \in Workers : WorkerStep(w)
    \/ \E i \in IOWorkers : IOStep(i)
    \/ SetStop \/ ShutdownStep

Spec == Init /\ [][Next]_vars

\* Every thread that is not blocked goes on, and stores become visible.
Fairness ==
    /\ \A t \in Threads : WF_vars(EmitStep(t)) /\ WF_vars(Publish(t))
    /\ \A w \in Workers : WF_vars(WorkerStep(w))
    /\ \A i \in IOWorkers : WF_vars(IOStep(i))
    /\ WF_vars(ShutdownStep)

FairSpec == Spec /\ Fairness

----------------------------------------------------------------------------
(* Properties.                                                             *)

\* The threads that will still raise and send a wake-up.
Waking == {t \in Threads : count[t] > 0}

\* No work while every worker is blocked and nobody is about to wake one:
\* no task waits in a deque or at the head of the global queue (the double
\* check of workerLoop against schedule and notifyWorker).
AllAsleep == Workers \subseteq parked /\ Waking = {}

NoSleepOnWork ==
    AllAsleep => ~Ready(global) /\ \A w \in Workers : local[w] = {}

\* Whatever the order of memory, only a task that became visible after its
\* thread had looked at m_sleepingCount may be left at the head of the global
\* queue while all workers sleep (the relaxed load of notifyWorker); a task
\* in a deque or on its way between two deques never is.
OnlyLateMissed ==
    AllAsleep =>
        /\ Ready(global) => Head(global) \in late
        /\ \A w \in Workers : local[w] = {} /\ stolen[w] = {}

\* The same for the IO threads and the IO queue.
NoIOSleepOnWork ==
    IOWorkers \subseteq parked /\ IOWorkers # {} /\ (\A t \in Threads : pc[t] # "signalIO")
        => ~Ready(ioQueue)

\* Every task that is scheduled is executed, if the scheduler is not shut
\* down: no lost wake-up, whoever schedules it, and no end of idle workers
\* taking one batch from each other before either pops a task of it.
ScheduledRuns == \A x \in Tasks : x \in Scheduled ~> x \in done \/ stop

\* shutdown returns: every parked thread is woken and every thread ends.
ShutdownTerminates == stop ~> closing = "closed"

\* No worker leaves anything behind: once shutdown has joined the threads
\* no deque, batch, inline slot or list of tasks to schedule of a worker
\* holds a task, although tasks that run while workers drain still push new
\* ones and thieves are at work on the same deques.
ShutdownDrainsDeques ==
    closing = "closed" =>
        \A w \in Workers : local[w] = {} /\ stolen[w] = {} /\ inline[w] = None /\ todo[w] = {}
=============================================================================
