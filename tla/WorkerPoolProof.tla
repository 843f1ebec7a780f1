--------------------------- MODULE WorkerPoolProof ---------------------------
(***************************************************************************)
(* Proofs about WorkerPool, for any number of workers, IO threads,         *)
(* producers and tasks: no worker and no IO thread sleeps on work that     *)
(* nobody will wake it for, and a shutdown leaves nothing in a deque.      *)
(***************************************************************************)
EXTENDS WorkerPool, FiniteSetTheorems, SequenceTheorems, TLAPS

\* The threads, by kind.
LEMMA Kinds ==
    /\ \A w \in Workers : w \in Pool /\ w \in Threads /\ w \notin IOWorkers /\ w \notin Producers
    /\ \A i \in IOWorkers : i \in Pool /\ i \in Threads /\ i \notin Workers /\ i \notin Producers
    /\ \A t \in Pool : t \in Workers \/ t \in IOWorkers
BY PoolAssumption DEF Pool, Threads

\* What the constants say of the tasks.
LEMMA TaskTypes ==
    /\ IOTasks \subseteq Tasks /\ None \notin Tasks
    /\ \A x \in Tasks : Children[x] \subseteq Tasks
BY PoolAssumption

----------------------------------------------------------------------------
(* The inductive invariant.                                                *)

Labels == {"emit", "signalIO", "notify", "raise", "wake", "next", "loop", "local", "global",
           "steal", "move", "popStolen", "announce", "signal", "recheck", "wait", "woken", "ioTake", "ioSignal",
           "ioRecheck", "ioEmpty", "ioWait", "ioWoken", "drain", "exit"}

\* The worker queue holds Worker tasks and the IO queue holds IO tasks.
QueueTypes ==
    /\ local \in [Workers -> SUBSET Tasks]
    /\ global \in Seq(Tasks \ IOTasks)
    /\ ioQueue \in Seq(IOTasks)
    /\ buffer \in [Threads -> Tasks \cup {None}]

ThreadTypes ==
    /\ wakeSignal \in Nat /\ ioSignal \in Nat
    /\ parked \subseteq Pool /\ announced \subseteq Workers
    /\ sleeping \in Int
    /\ pc \in [Threads -> Labels]
    /\ sig \in [Pool -> Nat]
    /\ victims \in [Workers -> SUBSET Workers]
    /\ stolen \in [Workers -> SUBSET Tasks]
    /\ inline \in [Workers -> Tasks \cup {None}]
    /\ todo \in [Threads -> SUBSET Tasks]
    /\ count \in [Threads -> Nat]

TypeInv == QueueTypes /\ ThreadTypes

\* m_sleepingCount counts the announced workers.
Counted == sleeping = Cardinality(announced)

\* A blocked thread stays where it waits, with a signal of the past; a
\* worker is counted as sleeping from its announcement to the end of its
\* wait.
Parking ==
    /\ \A w \in Workers :
          /\ sig[w] <= wakeSignal
          /\ w \in parked => pc[w] = "woken"
          /\ pc[w] \in {"wait", "woken"} => w \in announced
          /\ pc[w] = "announce" => w \notin announced
    /\ \A i \in IOWorkers : sig[i] <= ioSignal /\ (i \in parked => pc[i] = "ioWoken")

\* The labels at which a worker still has something of its last task to do,
\* and those it reaches only after it has found its own deque empty.
Busy == {"emit", "signalIO", "notify", "raise", "wake", "next"}
Emptied == {"global", "steal", "announce", "signal", "recheck", "wait", "woken", "exit"}

\* Where a worker's tasks may be: only the worker itself adds to its deque,
\* its batch, its inline slot and its list.
Carried ==
    \A w \in Workers :
        /\ pc[w] \notin {"emit", "signalIO"} => todo[w] = {}
        /\ pc[w] \notin Busy => inline[w] = None
        /\ pc[w] \in Emptied => local[w] = {}
        /\ pc[w] # "move" => stolen[w] = {}

Closed == closing = "closed" => \A t \in Pool : pc[t] = "exit"

\* i is blocked, or will block as soon as it goes on.
IOAsleep(i) == i \in parked \/ (pc[i] = "ioWait" /\ sig[i] = ioSignal)

\* While there is a ticket in the IO queue, an IO thread is on its way to it
\* or someone is about to wake one.
IOAwake ==
    ioQueue # <<>> /\ IOWorkers # {} =>
        \/ \E t \in Threads : pc[t] = "signalIO"
        \/ \E i \in IOWorkers : ~IOAsleep(i)

IInv == TypeInv /\ Counted /\ Parking /\ Carried /\ Closed /\ IOAwake

\* An unpublished ticket that is not late is one its thread has not yet
\* notified anybody of.
Owed ==
    \A t \in Threads :
        /\ buffer[t] \in IOTasks => pc[t] = "signalIO"
        /\ buffer[t] \in Tasks \ (IOTasks \cup late) =>
              count[t] > 0 /\ pc[t] \in {"emit", "notify"}
        /\ pc[t] = "raise" => count[t] > 0

\* w has seen the present signal and then an empty global queue, and is
\* blocked or will block as soon as it goes on.
Fresh(w) ==
    /\ sig[w] = wakeSignal
    /\ w \in parked \/ (w \in announced /\ pc[w] \in {"steal", "move", "popStolen", "wait"})

\* A task that is not late can be taken from the global queue.
Timely == Ready(global) /\ Head(global) \notin late

\* Meanwhile
Awake ==
    Timely =>
        \* someone will still raise the signal,
        \/ \E t \in Threads : count[t] > 0 /\ pc[t] # "wake"
        \* or a worker is on its way to the queue,
        \/ \E w \in Workers : w \notin parked /\ ~Fresh(w)
        \* or someone will wake a worker, and whichever it wakes will go.
        \/ /\ \E t \in Threads : count[t] > 0 /\ pc[t] = "wake"
           /\ \A w \in Workers : ~Fresh(w)

SleepInv == Owed /\ Awake



----------------------------------------------------------------------------
(* The type of the state, and the number of sleepers.                      *)

\* m_sleepingCount is never negative, and zero only if nobody is announced.
LEMMA SleepersCounted ==
    ASSUME TypeInv, Counted
    PROVE  /\ IsFiniteSet(announced) /\ sleeping \in Nat
           /\ sleeping = 0 => announced = {}
<1>1. IsFiniteSet(announced)
  BY FS_Subset, PoolAssumption DEF TypeInv, ThreadTypes
<1> QED
  BY <1>1, FS_CardinalityType, FS_EmptySet DEF Counted


\* A worker that has found a task keeps the types.
LEMMA FoundTypes ==
    ASSUME ThreadTypes, NEW w \in Workers, NEW x \in Tasks, Found(w, x)
    PROVE  ThreadTypes'
<1>1. pc' \in [Threads -> Labels]
  BY Kinds DEF ThreadTypes, Found, Execute, Goto, Labels
<1>2. todo' \in [Threads -> SUBSET Tasks] /\ count' \in [Threads -> Nat]
  BY Kinds, TaskTypes DEF ThreadTypes, Found, Execute
<1>3. announced' \subseteq Workers /\ sleeping' \in Int
  BY DEF ThreadTypes, Found, Unannounce
<1> QED
  BY <1>1, <1>2, <1>3 DEF ThreadTypes, Found, scan

\* So does an IO thread that takes a task.
LEMMA RunIOTypes ==
    ASSUME TypeInv, NEW i \in IOWorkers, Ready(ioQueue), RunIO(i)
    PROVE  TypeInv'
<1>1. Head(ioQueue) \in Tasks /\ ioQueue' \in Seq(IOTasks)
  BY TaskTypes DEF TypeInv, QueueTypes, RunIO, Ready
<1>2. pc' \in [Threads -> Labels]
  BY Kinds DEF TypeInv, ThreadTypes, RunIO, Execute, Goto, Labels
<1>3. todo' \in [Threads -> SUBSET Tasks] /\ count' \in [Threads -> Nat]
  BY <1>1, Kinds, TaskTypes DEF TypeInv, ThreadTypes, RunIO, Execute
<1> QED
  BY <1>1, <1>2, <1>3 DEF TypeInv, ThreadTypes, QueueTypes, RunIO, signals, scan

\* Every step keeps the types.
LEMMA TypeStep ==
    ASSUME TypeInv, Counted, Next
    PROVE  TypeInv'
<1> USE DEF scan
<1>1. ASSUME NEW t \in Threads, EmitStep(t) PROVE TypeInv'
  <2>1. ASSUME NEW x \in Tasks, EmitInline(t, x) PROVE TypeInv'
    BY <2>1, TypeInv, Kinds DEF EmitInline, Goto, TypeInv, QueueTypes,
       ThreadTypes, Labels, queues, signals
  <2>2. ASSUME NEW x \in Tasks, EmitLocal(t, x) PROVE TypeInv'
    BY <2>2, TypeInv, Kinds DEF EmitLocal, TypeInv, QueueTypes, ThreadTypes,
       Labels, signals
  <2>3. ASSUME NEW x \in Tasks, EmitGlobal(t, x) PROVE TypeInv'
    BY <2>3, TypeInv, Kinds DEF EmitGlobal, Goto, TypeInv, QueueTypes,
       ThreadTypes, Labels, signals
  <2>4. ASSUME NEW x \in Tasks, EmitIO(t, x) PROVE TypeInv'
    BY <2>4, TypeInv, Kinds DEF EmitIO, Goto, TypeInv, QueueTypes, ThreadTypes,
       Labels, signals
  <2>5. CASE SignalIO(t)
    BY <2>5, TypeInv, Kinds DEF SignalIO, Goto, Unpark, TypeInv, QueueTypes,
       ThreadTypes, Labels, queues, work
  <2>6. CASE EmitEnd(t)
    BY <2>6, TypeInv, Kinds DEF EmitEnd, Goto, TypeInv, QueueTypes,
       ThreadTypes, Labels, queues, signals, work
  <2>7. CASE NotifyLoad(t)
    BY <2>7, TypeInv, SleepersCounted DEF NotifyLoad, Goto, AfterNotify,
       Labels, queues, signals, work, shut, TypeInv, QueueTypes, ThreadTypes
  <2>8. CASE NotifyRaise(t)
    BY <2>8, TypeInv, Kinds DEF NotifyRaise, Goto, TypeInv, QueueTypes,
       ThreadTypes, Labels, queues, work
  <2>9. CASE NotifyWake(t)
    BY <2>9, TypeInv, Kinds DEF NotifyWake, Goto, Unpark, AfterNotify, TypeInv,
       QueueTypes, ThreadTypes, Labels, queues
  <2> QED
    BY <1>1, <2>1, <2>2, <2>3, <2>4, <2>5, <2>6, <2>7, <2>8, <2>9 DEF EmitStep
<1>2. ASSUME NEW t \in Threads, Publish(t) PROVE TypeInv'
  BY <1>2, TypeInv, Kinds DEF Publish, TypeInv, QueueTypes, ThreadTypes,
     Labels, signals, work
<1>3. ASSUME NEW w \in Workers, WorkerStep(w) PROVE TypeInv'
  <2>1. CASE LoopTest(w)
    BY <2>1, TypeInv, Kinds DEF LoopTest, Goto, TypeInv, QueueTypes,
       ThreadTypes, Labels, queues, signals, work
  <2>2. CASE RunInline(w)
    BY <2>2, TypeInv, Kinds, TaskTypes DEF RunInline, Execute, Goto, Labels,
       queues, signals, work, shut, TypeInv, QueueTypes, ThreadTypes
  <2>3. CASE NextTurn(w)
    BY <2>3, TypeInv, Kinds DEF NextTurn, Goto, TypeInv, QueueTypes,
       ThreadTypes, Labels, queues, signals, work
  <2>4. CASE ScanLocal(w)
    <3>1. ASSUME NEW x \in local[w], local' = [local EXCEPT ![w] = @ \ {x}], Found(w, x),
                 UNCHANGED <<global, ioQueue, buffer>>
          PROVE  TypeInv'
      BY <3>1, FoundTypes DEF TypeInv, QueueTypes
    <3>2. CASE pc' = [pc EXCEPT ![w] = "global"] /\ UNCHANGED <<queues, signals, work, scan>>
      BY <3>2, Kinds DEF TypeInv, QueueTypes, ThreadTypes, Labels, queues,
         signals, work
    <3> QED
      BY <2>4, <3>1, <3>2 DEF ScanLocal, Goto, queues
  <2>5. CASE ScanGlobal(w)
    <3>1. CASE Ready(global) /\ global' = Tail(global) /\ Found(w, Head(global))
      <4>1. Head(global) \in Tasks /\ global' \in Seq(Tasks \ IOTasks)
        BY <3>1 DEF TypeInv, QueueTypes, Ready
      <4> QED
        BY <2>5, <3>1, <4>1, FoundTypes DEF TypeInv, QueueTypes, ScanGlobal
    <3>2. CASE /\ pc' = [pc EXCEPT ![w] = "steal"]
               /\ victims' = [victims EXCEPT ![w] = Workers \ {w}]
               /\ UNCHANGED <<queues, signals, work, stolen>>
      BY <3>2, Kinds DEF TypeInv, QueueTypes, ThreadTypes, Labels, queues,
         signals, work
    <3> QED
      BY <2>5, <3>1, <3>2 DEF ScanGlobal, Goto, queues
  <2>6. ASSUME NEW v \in Workers, StealBatch(w, v) PROVE TypeInv'
    BY <2>6, TypeInv, Kinds DEF StealBatch, Goto, TypeInv, QueueTypes,
       ThreadTypes, Labels, signals, work
  <2>7. ASSUME NEW v \in Workers, ScanMiss(w, v) PROVE TypeInv'
    BY <2>7, TypeInv, Kinds DEF ScanMiss, TypeInv, QueueTypes, ThreadTypes,
       Labels, queues, signals, work
  <2>8. CASE ScanEnd(w)
    BY <2>8, TypeInv, Kinds DEF ScanEnd, AfterScan, Goto, TypeInv, QueueTypes,
       ThreadTypes, Labels, queues, signals, work
  <2>9. CASE Announce(w)
    BY <2>9, TypeInv, Kinds DEF Announce, Goto, TypeInv, QueueTypes,
       ThreadTypes, Labels, queues, work
  <2>10. CASE LoadSignal(w)
    BY <2>10, TypeInv, Kinds DEF LoadSignal, Goto, TypeInv, QueueTypes,
       ThreadTypes, Labels, queues, work
  <2>11. CASE Recheck(w)
    <3>1. announced' \subseteq Workers /\ sleeping' \in Int
      BY <2>11 DEF Recheck, Unannounce, TypeInv, ThreadTypes
    <3>2. pc' \in [Threads -> Labels]
      BY <2>11, Kinds DEF Recheck, Goto, TypeInv, ThreadTypes, Labels
    <3> QED
      BY <2>11, <3>1, <3>2 DEF Recheck, TypeInv, QueueTypes, ThreadTypes,
         queues, work
  <2>12. CASE Wait(w)
    BY <2>12, TypeInv, Kinds DEF Wait, Goto, TypeInv, QueueTypes, ThreadTypes,
       Labels, queues, work
  <2>13. CASE Woken(w)
    BY <2>13, TypeInv, Kinds DEF Woken, Goto, Unannounce, TypeInv, QueueTypes,
       ThreadTypes, Labels, queues, work
  <2>14. CASE DrainLocal(w)
    <3>1. ASSUME NEW x \in local[w], local' = [local EXCEPT ![w] = @ \ {x}], Found(w, x),
                 UNCHANGED <<global, ioQueue, buffer>>
          PROVE  TypeInv'
      BY <3>1, FoundTypes DEF TypeInv, QueueTypes
    <3>2. CASE pc' = [pc EXCEPT ![w] = "exit"] /\ UNCHANGED <<queues, signals, work, scan>>
      BY <3>2, Kinds DEF TypeInv, QueueTypes, ThreadTypes, Labels, queues,
         signals, work
    <3> QED
      BY <2>14, <3>1, <3>2 DEF DrainLocal, Goto, queues
  <2>15. ASSUME NEW x \in Tasks, MoveStolen(w, x) PROVE TypeInv'
    BY <2>15, TypeInv, Kinds DEF MoveStolen, Goto, TypeInv, QueueTypes,
       ThreadTypes, Labels, signals, work
  <2>16. CASE PopStolen(w)
    <3>1. ASSUME NEW x \in local[w], local' = [local EXCEPT ![w] = @ \ {x}], Found(w, x),
                 UNCHANGED <<global, ioQueue, buffer>>
          PROVE  TypeInv'
      BY <3>1, FoundTypes DEF TypeInv, QueueTypes
    <3>2. CASE AfterScan(w) /\ UNCHANGED <<queues, signals, work, scan>>
      BY <3>2, Kinds DEF AfterScan, Goto, TypeInv, QueueTypes, ThreadTypes,
         Labels, queues, signals, work
    <3> QED
      BY <2>16, <3>1, <3>2 DEF PopStolen, queues
  <2>17. ASSUME NEW v \in Workers, StealOne(w, v) PROVE TypeInv'
    <3>1. PICK x \in local[v] : local' = [local EXCEPT ![v] = @ \ {x}] /\ Found(w, x)
      BY <2>17 DEF StealOne
    <3>2. x \in Tasks /\ local' \in [Workers -> SUBSET Tasks]
      BY <3>1 DEF TypeInv, QueueTypes
    <3> QED
      BY <2>17, <3>1, <3>2, FoundTypes DEF TypeInv, QueueTypes, StealOne
  <2> QED
    BY <1>3, <2>1, <2>2, <2>3, <2>4, <2>5, <2>6, <2>7, <2>8, <2>9, <2>10,
       <2>11, <2>12, <2>13, <2>14, <2>15, <2>16, <2>17 DEF WorkerStep
<1>4. ASSUME NEW i \in IOWorkers, IOStep(i) PROVE TypeInv'
  <2>1. CASE LoopTest(i)
    BY <2>1, TypeInv, Kinds DEF LoopTest, Goto, TypeInv, QueueTypes,
       ThreadTypes, Labels, queues, signals, work
  <2>2. CASE NextTurn(i)
    BY <2>2, TypeInv, Kinds DEF NextTurn, Goto, TypeInv, QueueTypes,
       ThreadTypes, Labels, queues, signals, work
  <2>3. CASE IOTake(i)
    <3>1. CASE Ready(ioQueue) /\ RunIO(i)
      BY <3>1, RunIOTypes
    <3>2. CASE Goto(i, "ioSignal") /\ UNCHANGED <<queues, signals, work, shut, scan>>
      BY <3>2, Kinds DEF Goto, TypeInv, QueueTypes, ThreadTypes, Labels,
         queues, signals, work
    <3> QED
      BY <2>3, <3>1, <3>2 DEF IOTake
  <2>4. CASE IOLoadSignal(i)
    BY <2>4, TypeInv, Kinds DEF IOLoadSignal, Goto, TypeInv, QueueTypes,
       ThreadTypes, Labels, queues, work
  <2>5. CASE IORecheckStop(i)
    BY <2>5, TypeInv, Kinds DEF IORecheckStop, Goto, TypeInv, QueueTypes,
       ThreadTypes, Labels, queues, signals, work
  <2>6. CASE IORecheckEmpty(i)
    BY <2>6, TypeInv, Kinds DEF IORecheckEmpty, Goto, TypeInv, QueueTypes,
       ThreadTypes, Labels, queues, signals, work
  <2>7. CASE IOWait(i)
    BY <2>7, TypeInv, Kinds DEF IOWait, Goto, TypeInv, QueueTypes, ThreadTypes,
       Labels, queues, work
  <2>8. CASE IOWoken(i)
    BY <2>8, TypeInv, Kinds DEF IOWoken, Goto, TypeInv, QueueTypes,
       ThreadTypes, Labels, queues, signals, work
  <2>9. CASE DrainIO(i)
    <3>1. CASE Ready(ioQueue) /\ RunIO(i)
      BY <3>1, RunIOTypes
    <3>2. CASE Goto(i, "exit") /\ UNCHANGED <<queues, signals, work, shut, scan>>
      BY <3>2, Kinds DEF Goto, TypeInv, QueueTypes, ThreadTypes, Labels,
         queues, signals, work
    <3> QED
      BY <2>9, <3>1, <3>2 DEF DrainIO
  <2> QED
    BY <1>4, <2>1, <2>2, <2>3, <2>4, <2>5, <2>6, <2>7, <2>8, <2>9 DEF IOStep
<1>5. CASE SetStop
  BY <1>5, TypeInv, Kinds DEF SetStop, TypeInv, QueueTypes, ThreadTypes,
     Labels, queues, signals, work
<1>6. CASE WakeAll
  BY <1>6, TypeInv, Kinds DEF WakeAll, Unpark, TypeInv, QueueTypes,
     ThreadTypes, Labels, queues, work
<1>7. CASE WakeAllIO
  BY <1>7, TypeInv, Kinds DEF WakeAllIO, Unpark, TypeInv, QueueTypes,
     ThreadTypes, Labels, queues, work
<1>8. CASE Join
  BY <1>8, TypeInv, Kinds DEF Join, TypeInv, QueueTypes, ThreadTypes, Labels,
     queues, signals, work
<1> QED
  BY <1>1, <1>2, <1>3, <1>4, <1>5, <1>6, <1>7, <1>8 DEF Next, ShutdownStep


\* A worker that takes its announcement back is no longer counted.
LEMMA UnannounceCounts ==
    ASSUME TypeInv, Counted, NEW w \in Workers, Unannounce(w)
    PROVE  Counted'
<1>1. CASE w \in announced
  BY <1>1, SleepersCounted, FS_RemoveElement DEF Unannounce, Counted
<1>2. CASE w \notin announced
  BY <1>2 DEF Unannounce, Counted
<1> QED
  BY <1>1, <1>2


\* Every step keeps the count of the sleepers: only a worker that announces
\* itself or takes that back changes it.
LEMMA CountedStep ==
    ASSUME TypeInv, Counted, Parking, Next
    PROVE  Counted'
<1>1. ASSUME NEW t \in Threads, EmitStep(t) \/ Publish(t) PROVE Counted'
  BY <1>1, Counted DEF EmitStep, EmitInline, EmitLocal, EmitGlobal, EmitIO,
     SignalIO, EmitEnd, NotifyLoad, NotifyRaise, NotifyWake, Publish, Counted,
     signals
<1>2. ASSUME NEW w \in Workers, WorkerStep(w) PROVE Counted'
  <2>1. CASE Announce(w)
    BY <2>1, Parking, SleepersCounted, FS_AddElement DEF Announce, Parking,
       Counted
  <2>2. CASE \E x : Found(w, x)
    BY <2>2, UnannounceCounts DEF Found
  <2>3. CASE Recheck(w) \/ Woken(w)
    BY <2>3, Counted, UnannounceCounts DEF Recheck, Woken, Counted
  <2>4. CASE UNCHANGED <<sleeping, announced>>
    BY <2>4, Counted DEF Counted
  <2>5. ASSUME NEW v \in Workers, StealBatch(w, v) \/ StealOne(w, v) \/ ScanMiss(w, v)
        PROVE Counted'
    BY <2>5, <2>2, <2>4 DEF StealBatch, StealOne, ScanMiss, signals
  <2>6. CASE ScanLocal(w) \/ ScanGlobal(w) \/ PopStolen(w) \/ DrainLocal(w)
    BY <2>6, <2>2, <2>4 DEF ScanLocal, ScanGlobal, PopStolen, DrainLocal, signals
  <2>8. ASSUME NEW x \in Tasks, MoveStolen(w, x) PROVE Counted'
    BY <2>8, <2>4 DEF MoveStolen, signals
  <2>7. CASE LoopTest(w) \/ RunInline(w) \/ NextTurn(w) \/ ScanEnd(w) \/ LoadSignal(w) \/ Wait(w)
    BY <2>7, <2>4 DEF LoopTest, RunInline, NextTurn, ScanEnd, LoadSignal, Wait,
       signals
  <2> QED
    BY <1>2, <2>1, <2>3, <2>5, <2>6, <2>7, <2>8 DEF WorkerStep
<1>3. ASSUME NEW i \in IOWorkers, IOStep(i) PROVE Counted'
  BY <1>3, Counted DEF IOStep, LoopTest, NextTurn, IOTake, RunIO, IOLoadSignal,
     IORecheckStop, IORecheckEmpty, IOWait, IOWoken, DrainIO, Counted, signals
<1>4. CASE SetStop \/ ShutdownStep
  BY <1>4, Counted DEF SetStop, ShutdownStep, WakeAll, WakeAllIO, Join,
     Counted, signals
<1> QED
  BY <1>1, <1>2, <1>3, <1>4 DEF Next

\* Every step keeps Parking.
LEMMA ParkingStep ==
    ASSUME IInv, Next
    PROVE  Parking'
<1> USE DEF IInv
<1>1. ASSUME NEW t \in Threads, EmitStep(t) PROVE Parking'
  <2>1. ASSUME NEW x \in Tasks, EmitInline(t, x) PROVE Parking'
    BY <2>1, TypeInv, Parking, Kinds DEF EmitInline, Goto, Parking, TypeInv,
       ThreadTypes, signals
  <2>2. ASSUME NEW x \in Tasks, EmitLocal(t, x) PROVE Parking'
    BY <2>2, TypeInv, Parking, Kinds DEF EmitLocal, Parking, TypeInv,
       ThreadTypes, signals
  <2>3. ASSUME NEW x \in Tasks, EmitGlobal(t, x) PROVE Parking'
    BY <2>3, TypeInv, Parking, Kinds DEF EmitGlobal, Goto, Parking, TypeInv,
       ThreadTypes, signals
  <2>4. ASSUME NEW x \in Tasks, EmitIO(t, x) PROVE Parking'
    BY <2>4, TypeInv, Parking, Kinds DEF EmitIO, Goto, Parking, TypeInv,
       ThreadTypes, signals
  <2>5. CASE SignalIO(t)
    BY <2>5, TypeInv, Parking, Kinds DEF SignalIO, Goto, Unpark, Parking,
       TypeInv, ThreadTypes
  <2>6. CASE EmitEnd(t)
    BY <2>6, TypeInv, Parking, Kinds DEF EmitEnd, Goto, Parking, TypeInv,
       ThreadTypes, signals
  <2>7. CASE NotifyLoad(t)
    BY <2>7, TypeInv, Parking, Kinds DEF NotifyLoad, Goto, AfterNotify,
       Parking, TypeInv, ThreadTypes, signals
  <2>8. CASE NotifyRaise(t)
    BY <2>8, TypeInv, Parking, Kinds DEF NotifyRaise, Goto, Parking, TypeInv,
       ThreadTypes
  <2>9. CASE NotifyWake(t)
    BY <2>9, TypeInv, Parking, Kinds DEF NotifyWake, Goto, Unpark, AfterNotify,
       Parking, TypeInv, ThreadTypes
  <2> QED
    BY <1>1, <2>1, <2>2, <2>3, <2>4, <2>5, <2>6, <2>7, <2>8, <2>9 DEF EmitStep
<1>2. ASSUME NEW t \in Threads, Publish(t) PROVE Parking'
  BY <1>2, TypeInv, Parking, Kinds DEF Publish, Parking, TypeInv, ThreadTypes,
     signals
<1>3. ASSUME NEW w \in Workers, WorkerStep(w) PROVE Parking'
  <2>1. CASE LoopTest(w)
    BY <2>1, TypeInv, Parking, Kinds DEF LoopTest, Goto, Parking, TypeInv,
       ThreadTypes, signals
  <2>2. CASE RunInline(w)
    BY <2>2, TypeInv, Parking, Kinds DEF RunInline, Execute, Goto, Parking,
       TypeInv, ThreadTypes, signals
  <2>3. CASE NextTurn(w)
    BY <2>3, TypeInv, Parking, Kinds DEF NextTurn, Goto, Parking, TypeInv,
       ThreadTypes, signals
  <2>4. CASE ScanLocal(w)
    BY <2>4, TypeInv, Parking, Kinds DEF ScanLocal, Found, Execute, Unannounce,
       Goto, Parking, TypeInv, ThreadTypes, signals
  <2>5. CASE ScanGlobal(w)
    BY <2>5, TypeInv, Parking, Kinds DEF ScanGlobal, Found, Execute,
       Unannounce, Goto, Parking, TypeInv, ThreadTypes, signals
  <2>6. ASSUME NEW v \in Workers, StealBatch(w, v) PROVE Parking'
    BY <2>6, TypeInv, Parking, Kinds DEF StealBatch, Goto, Parking, TypeInv, ThreadTypes, signals, work
  <2>7. ASSUME NEW v \in Workers, ScanMiss(w, v) PROVE Parking'
    BY <2>7, TypeInv, Parking, Kinds DEF ScanMiss, Parking, TypeInv,
       ThreadTypes, signals
  <2>8. CASE ScanEnd(w)
    BY <2>8, TypeInv, Parking, Kinds DEF ScanEnd, AfterScan, Goto, Parking, TypeInv,
       ThreadTypes, signals
  <2>9. CASE Announce(w)
    BY <2>9, TypeInv, Parking, Kinds DEF Announce, Goto, Parking, TypeInv,
       ThreadTypes
  <2>10. CASE LoadSignal(w)
    BY <2>10, TypeInv, Parking, Kinds DEF LoadSignal, Goto, Parking, TypeInv,
       ThreadTypes
  <2>11. CASE Recheck(w)
    BY <2>11, TypeInv, Parking, Kinds DEF Recheck, Goto, Unannounce, Parking,
       TypeInv, ThreadTypes
  <2>12. CASE Wait(w)
    BY <2>12, TypeInv, Parking, Kinds DEF Wait, Goto, Parking, TypeInv,
       ThreadTypes
  <2>13. CASE Woken(w)
    BY <2>13, TypeInv, Parking, Kinds DEF Woken, Goto, Unannounce, Parking,
       TypeInv, ThreadTypes
  <2>14. CASE DrainLocal(w)
    BY <2>14, TypeInv, Parking, Kinds DEF DrainLocal, Found, Execute,
       Unannounce, Goto, Parking, TypeInv, ThreadTypes, signals
  <2>15. ASSUME NEW x \in Tasks, MoveStolen(w, x) PROVE Parking'
    BY <2>15, TypeInv, Parking, Kinds DEF MoveStolen, Goto, Parking, TypeInv, ThreadTypes, signals, work
  <2>16. CASE PopStolen(w)
    BY <2>16, TypeInv, Parking, Kinds DEF PopStolen, AfterScan, Found, Execute, Unannounce,
       Goto, Parking, TypeInv, ThreadTypes, signals, work
  <2>17. ASSUME NEW v \in Workers, StealOne(w, v) PROVE Parking'
    BY <2>17, TypeInv, Parking, Kinds DEF StealOne, Found, Execute, Unannounce, Goto,
       Parking, TypeInv, ThreadTypes
  <2> QED
    BY <1>3, <2>1, <2>2, <2>3, <2>4, <2>5, <2>6, <2>7, <2>8, <2>9, <2>10,
       <2>11, <2>12, <2>13, <2>14, <2>15, <2>16, <2>17 DEF WorkerStep
<1>4. ASSUME NEW i \in IOWorkers, IOStep(i) PROVE Parking'
  <2>1. CASE LoopTest(i)
    BY <2>1, TypeInv, Parking, Kinds DEF LoopTest, Goto, Parking, TypeInv,
       ThreadTypes, signals
  <2>2. CASE NextTurn(i)
    BY <2>2, TypeInv, Parking, Kinds DEF NextTurn, Goto, Parking, TypeInv,
       ThreadTypes, signals
  <2>3. CASE IOTake(i)
    BY <2>3, TypeInv, Parking, Kinds DEF IOTake, RunIO, Execute, Goto, Parking,
       TypeInv, ThreadTypes, signals
  <2>4. CASE IOLoadSignal(i)
    BY <2>4, TypeInv, Parking, Kinds DEF IOLoadSignal, Goto, Parking, TypeInv,
       ThreadTypes
  <2>5. CASE IORecheckStop(i)
    BY <2>5, TypeInv, Parking, Kinds DEF IORecheckStop, Goto, Parking, TypeInv,
       ThreadTypes, signals
  <2>6. CASE IORecheckEmpty(i)
    BY <2>6, TypeInv, Parking, Kinds DEF IORecheckEmpty, Goto, Parking,
       TypeInv, ThreadTypes, signals
  <2>7. CASE IOWait(i)
    BY <2>7, TypeInv, Parking, Kinds DEF IOWait, Goto, Parking, TypeInv,
       ThreadTypes
  <2>8. CASE IOWoken(i)
    BY <2>8, TypeInv, Parking, Kinds DEF IOWoken, Goto, Parking, TypeInv,
       ThreadTypes, signals
  <2>9. CASE DrainIO(i)
    BY <2>9, TypeInv, Parking, Kinds DEF DrainIO, RunIO, Execute, Goto,
       Parking, TypeInv, ThreadTypes, signals
  <2> QED
    BY <1>4, <2>1, <2>2, <2>3, <2>4, <2>5, <2>6, <2>7, <2>8, <2>9 DEF IOStep
<1>5. CASE SetStop
  BY <1>5, TypeInv, Parking, Kinds DEF SetStop, Parking, TypeInv, ThreadTypes,
     signals
<1>6. CASE WakeAll
  BY <1>6, TypeInv, Parking, Kinds DEF WakeAll, Unpark, Parking, TypeInv,
     ThreadTypes
<1>7. CASE WakeAllIO
  BY <1>7, TypeInv, Parking, Kinds DEF WakeAllIO, Unpark, Parking, TypeInv,
     ThreadTypes
<1>8. CASE Join
  BY <1>8, TypeInv, Parking, Kinds DEF Join, Parking, TypeInv, ThreadTypes,
     signals
<1> QED
  BY <1>1, <1>2, <1>3, <1>4, <1>5, <1>6, <1>7, <1>8 DEF Next, ShutdownStep

\* Every step keeps Carried.
LEMMA CarriedStep ==
    ASSUME IInv, Next
    PROVE  Carried'
<1> USE DEF IInv, scan
<1>1. ASSUME NEW t \in Threads, EmitStep(t) PROVE Carried'
  <2>1. ASSUME NEW x \in Tasks, EmitInline(t, x) PROVE Carried'
    BY <2>1, TypeInv, Carried, Kinds DEF EmitInline, Goto, Carried, TypeInv,
       QueueTypes, ThreadTypes, Busy, Emptied, queues
  <2>2. ASSUME NEW x \in Tasks, EmitLocal(t, x) PROVE Carried'
    BY <2>2, TypeInv, Carried, Kinds DEF EmitLocal, Carried, TypeInv,
       QueueTypes, ThreadTypes, Busy, Emptied
  <2>3. ASSUME NEW x \in Tasks, EmitGlobal(t, x) PROVE Carried'
    BY <2>3, TypeInv, Carried, Kinds DEF EmitGlobal, Goto, Carried, TypeInv,
       QueueTypes, ThreadTypes, Busy, Emptied
  <2>4. ASSUME NEW x \in Tasks, EmitIO(t, x) PROVE Carried'
    BY <2>4, TypeInv, Carried, Kinds DEF EmitIO, Goto, Carried, TypeInv,
       QueueTypes, ThreadTypes, Busy, Emptied
  <2>5. CASE SignalIO(t)
    BY <2>5, TypeInv, Carried, Kinds DEF SignalIO, Goto, Carried, TypeInv,
       QueueTypes, ThreadTypes, Busy, Emptied, queues, work
  <2>6. CASE EmitEnd(t)
    BY <2>6, TypeInv, Carried, Kinds DEF EmitEnd, Goto, Carried, TypeInv,
       QueueTypes, ThreadTypes, Busy, Emptied, queues, work
  <2>7. CASE NotifyLoad(t)
    BY <2>7, TypeInv, Carried, Kinds DEF NotifyLoad, Goto, AfterNotify,
       Carried, TypeInv, QueueTypes, ThreadTypes, Busy, Emptied, queues
  <2>8. CASE NotifyRaise(t)
    BY <2>8, TypeInv, Carried, Kinds DEF NotifyRaise, Goto, Carried, TypeInv,
       QueueTypes, ThreadTypes, Busy, Emptied, queues, work
  <2>9. CASE NotifyWake(t)
    BY <2>9, TypeInv, Carried, Kinds DEF NotifyWake, Goto, AfterNotify,
       Carried, TypeInv, QueueTypes, ThreadTypes, Busy, Emptied, queues
  <2> QED
    BY <1>1, <2>1, <2>2, <2>3, <2>4, <2>5, <2>6, <2>7, <2>8, <2>9 DEF EmitStep
<1>2. ASSUME NEW t \in Threads, Publish(t) PROVE Carried'
  BY <1>2, TypeInv, Carried, Kinds DEF Publish, Carried, TypeInv, QueueTypes,
     ThreadTypes, Busy, Emptied, work
<1>3. ASSUME NEW w \in Workers, WorkerStep(w) PROVE Carried'
  <2>1. CASE LoopTest(w)
    BY <2>1, TypeInv, Carried, Kinds DEF LoopTest, Goto, Carried, TypeInv,
       QueueTypes, ThreadTypes, Busy, Emptied, queues, work
  <2>2. CASE RunInline(w)
    BY <2>2, TypeInv, Carried, Kinds DEF RunInline, Execute, Goto, Carried,
       TypeInv, QueueTypes, ThreadTypes, Busy, Emptied, queues
  <2>3. CASE NextTurn(w)
    BY <2>3, TypeInv, Carried, Kinds DEF NextTurn, Goto, Carried, TypeInv,
       QueueTypes, ThreadTypes, Busy, Emptied, queues, work
  <2>4. CASE ScanLocal(w)
    BY <2>4, TypeInv, Carried, Kinds, ZenonT(30) DEF ScanLocal, Found, Execute, Goto,
       Carried, TypeInv, QueueTypes, ThreadTypes, Busy, Emptied, work
  <2>5. CASE ScanGlobal(w)
    BY <2>5, TypeInv, Carried, Kinds DEF ScanGlobal, Found, Execute, Goto,
       Carried, TypeInv, QueueTypes, ThreadTypes, Busy, Emptied, work
  <2>6. ASSUME NEW v \in Workers, StealBatch(w, v) PROVE Carried'
    <3>1. pc'[w] = "move" /\ \A u \in Workers : u # w => pc'[u] = pc[u]
      BY <2>6, Kinds DEF StealBatch, Goto, TypeInv, ThreadTypes
    <3>2. pc[w] = "steal" /\ todo' = todo /\ inline' = inline
      BY <2>6 DEF StealBatch, work
    <3>3. \A u \in Workers : /\ local'[u] \subseteq local[u]
                             /\ u # w => stolen'[u] = stolen[u]
      BY <2>6 DEF StealBatch, TypeInv, QueueTypes, ThreadTypes
    <3> QED
      BY <3>1, <3>2, <3>3, Carried DEF Carried, Busy, Emptied
  <2>7. ASSUME NEW v \in Workers, ScanMiss(w, v) PROVE Carried'
    BY <2>7, TypeInv, Carried, Kinds DEF ScanMiss, Carried, TypeInv,
       QueueTypes, ThreadTypes, Busy, Emptied, queues, work
  <2>8. CASE ScanEnd(w)
    BY <2>8, TypeInv, Carried, Kinds DEF ScanEnd, AfterScan, Goto, Carried, TypeInv,
       QueueTypes, ThreadTypes, Busy, Emptied, queues, work
  <2>9. CASE Announce(w)
    BY <2>9, TypeInv, Carried, Kinds DEF Announce, Goto, Carried, TypeInv,
       QueueTypes, ThreadTypes, Busy, Emptied, queues, work
  <2>10. CASE LoadSignal(w)
    BY <2>10, TypeInv, Carried, Kinds DEF LoadSignal, Goto, Carried, TypeInv,
       QueueTypes, ThreadTypes, Busy, Emptied, queues, work
  <2>11. CASE Recheck(w)
    BY <2>11, TypeInv, Carried, Kinds DEF Recheck, Goto, Carried, TypeInv,
       QueueTypes, ThreadTypes, Busy, Emptied, queues, work
  <2>12. CASE Wait(w)
    BY <2>12, TypeInv, Carried, Kinds DEF Wait, Goto, Carried, TypeInv,
       QueueTypes, ThreadTypes, Busy, Emptied, queues, work
  <2>13. CASE Woken(w)
    BY <2>13, TypeInv, Carried, Kinds DEF Woken, Goto, Carried, TypeInv,
       QueueTypes, ThreadTypes, Busy, Emptied, queues, work
  <2>14. CASE DrainLocal(w)
    BY <2>14, TypeInv, Carried, Kinds, ZenonT(30) DEF DrainLocal, Found, Execute, Goto,
       Carried, TypeInv, QueueTypes, ThreadTypes, Busy, Emptied, work
  <2>15. ASSUME NEW x \in Tasks, MoveStolen(w, x) PROVE Carried'
    BY <2>15, TypeInv, Carried, Kinds DEF MoveStolen, Goto, Carried, TypeInv,
       QueueTypes, ThreadTypes, Busy, Emptied, work
  <2>16. CASE PopStolen(w)
    BY <2>16, TypeInv, Carried, Kinds, ZenonT(30) DEF PopStolen, AfterScan, Found, Execute,
       Goto, Carried, TypeInv, QueueTypes, ThreadTypes, Busy, Emptied, work
  <2>17. ASSUME NEW v \in Workers, StealOne(w, v) PROVE Carried'
    <3>1. PICK x \in local[v] : local' = [local EXCEPT ![v] = @ \ {x}] /\ Found(w, x)
      BY <2>17 DEF StealOne
    <3>2. pc[w] = "steal" /\ pc'[w] = "emit" /\ \A u \in Workers : u # w => pc'[u] = pc[u]
      BY <2>17, <3>1, Kinds DEF StealOne, Found, Execute, Goto, TypeInv, ThreadTypes
    <3>3. /\ inline' = inline /\ stolen' = stolen
          /\ \A u \in Workers : u # w => todo'[u] = todo[u]
      BY <3>1 DEF Found, Execute, TypeInv, ThreadTypes
    <3>4. \A u \in Workers : local'[u] \subseteq local[u]
      BY <3>1 DEF TypeInv, QueueTypes
    <3> QED
      BY <3>2, <3>3, <3>4, Carried DEF Carried, Busy, Emptied
  <2> QED
    BY <1>3, <2>1, <2>2, <2>3, <2>4, <2>5, <2>6, <2>7, <2>8, <2>9, <2>10,
       <2>11, <2>12, <2>13, <2>14, <2>15, <2>16, <2>17 DEF WorkerStep
<1>4. ASSUME NEW i \in IOWorkers, IOStep(i) PROVE Carried'
  <2>1. CASE LoopTest(i)
    BY <2>1, TypeInv, Carried, Kinds DEF LoopTest, Goto, Carried, TypeInv,
       QueueTypes, ThreadTypes, Busy, Emptied, queues, work
  <2>2. CASE NextTurn(i)
    BY <2>2, TypeInv, Carried, Kinds DEF NextTurn, Goto, Carried, TypeInv,
       QueueTypes, ThreadTypes, Busy, Emptied, queues, work
  <2>3. CASE IOTake(i)
    BY <2>3, TypeInv, Carried, Kinds DEF IOTake, RunIO, Execute, Goto, Carried,
       TypeInv, QueueTypes, ThreadTypes, Busy, Emptied, queues, work
  <2>4. CASE IOLoadSignal(i)
    BY <2>4, TypeInv, Carried, Kinds DEF IOLoadSignal, Goto, Carried, TypeInv,
       QueueTypes, ThreadTypes, Busy, Emptied, queues, work
  <2>5. CASE IORecheckStop(i)
    BY <2>5, TypeInv, Carried, Kinds DEF IORecheckStop, Goto, Carried, TypeInv,
       QueueTypes, ThreadTypes, Busy, Emptied, queues, work
  <2>6. CASE IORecheckEmpty(i)
    BY <2>6, TypeInv, Carried, Kinds DEF IORecheckEmpty, Goto, Carried,
       TypeInv, QueueTypes, ThreadTypes, Busy, Emptied, queues, work
  <2>7. CASE IOWait(i)
    BY <2>7, TypeInv, Carried, Kinds DEF IOWait, Goto, Carried, TypeInv,
       QueueTypes, ThreadTypes, Busy, Emptied, queues, work
  <2>8. CASE IOWoken(i)
    BY <2>8, TypeInv, Carried, Kinds DEF IOWoken, Goto, Carried, TypeInv,
       QueueTypes, ThreadTypes, Busy, Emptied, queues, work
  <2>9. CASE DrainIO(i)
    BY <2>9, TypeInv, Carried, Kinds DEF DrainIO, RunIO, Execute, Goto,
       Carried, TypeInv, QueueTypes, ThreadTypes, Busy, Emptied, queues, work
  <2> QED
    BY <1>4, <2>1, <2>2, <2>3, <2>4, <2>5, <2>6, <2>7, <2>8, <2>9 DEF IOStep
<1>5. CASE SetStop
  BY <1>5, TypeInv, Carried, Kinds DEF SetStop, Carried, TypeInv, QueueTypes,
     ThreadTypes, Busy, Emptied, queues, work
<1>6. CASE WakeAll
  BY <1>6, TypeInv, Carried, Kinds DEF WakeAll, Carried, TypeInv, QueueTypes,
     ThreadTypes, Busy, Emptied, queues, work
<1>7. CASE WakeAllIO
  BY <1>7, TypeInv, Carried, Kinds DEF WakeAllIO, Carried, TypeInv, QueueTypes,
     ThreadTypes, Busy, Emptied, queues, work
<1>8. CASE Join
  BY <1>8, TypeInv, Carried, Kinds DEF Join, Carried, TypeInv, QueueTypes,
     ThreadTypes, Busy, Emptied, queues, work
<1> QED
  BY <1>1, <1>2, <1>3, <1>4, <1>5, <1>6, <1>7, <1>8 DEF Next, ShutdownStep

\* Every step keeps IOAwake.
LEMMA IOAwakeStep ==
    ASSUME IInv, Next
    PROVE  IOAwake'
<1> USE DEF IInv
<1>1. ASSUME NEW t \in Threads, EmitStep(t) PROVE IOAwake'
  <2>1. ASSUME NEW x \in Tasks, EmitInline(t, x) PROVE IOAwake'
    BY <2>1, TypeInv, Parking, IOAwake, Kinds DEF EmitInline, Goto, IOAwake,
       TypeInv, ThreadTypes, QueueTypes, Parking, IOAsleep, queues, signals
  <2>2. ASSUME NEW x \in Tasks, EmitLocal(t, x) PROVE IOAwake'
    BY <2>2, TypeInv, Parking, IOAwake, Kinds DEF EmitLocal, IOAwake, TypeInv,
       ThreadTypes, QueueTypes, Parking, IOAsleep, signals
  <2>3. ASSUME NEW x \in Tasks, EmitGlobal(t, x) PROVE IOAwake'
    BY <2>3, TypeInv, Parking, IOAwake, Kinds DEF EmitGlobal, Goto, IOAwake,
       TypeInv, ThreadTypes, QueueTypes, Parking, IOAsleep, signals
  <2>4. ASSUME NEW x \in Tasks, EmitIO(t, x) PROVE IOAwake'
    BY <2>4, TypeInv, Parking, IOAwake, Kinds DEF EmitIO, Goto, IOAwake,
       TypeInv, ThreadTypes, QueueTypes, Parking, IOAsleep, signals
  <2>5. CASE SignalIO(t)
    <3>1. \A i \in IOWorkers : sig[i] # ioSignal'
      BY <2>5 DEF SignalIO, Parking, TypeInv, ThreadTypes
    <3>2. \A i \in IOWorkers : i \notin parked' => ~IOAsleep(i)'
      BY <2>5, <3>1 DEF SignalIO, IOAsleep
    <3>3. CASE parked \cap IOWorkers = {}
      BY <2>5, <3>2, <3>3 DEF SignalIO, IOAwake
    <3>4. CASE \E i \in parked \cap IOWorkers : Unpark({i}, ioSignal')
      BY <3>1, <3>2, <3>4 DEF Unpark, IOAwake
    <3> QED
      BY <2>5, <3>3, <3>4 DEF SignalIO
  <2>6. CASE EmitEnd(t)
    BY <2>6, TypeInv, Parking, IOAwake, Kinds DEF EmitEnd, Goto, IOAwake,
       TypeInv, ThreadTypes, QueueTypes, Parking, IOAsleep, queues, signals
  <2>7. CASE NotifyLoad(t)
    BY <2>7, TypeInv, Parking, IOAwake, Kinds DEF NotifyLoad, Goto,
       AfterNotify, IOAwake, TypeInv, ThreadTypes, QueueTypes, Parking,
       IOAsleep, queues, signals
  <2>8. CASE NotifyRaise(t)
    BY <2>8, TypeInv, Parking, IOAwake, Kinds DEF NotifyRaise, Goto, IOAwake,
       TypeInv, ThreadTypes, QueueTypes, Parking, IOAsleep, queues
  <2>9. CASE NotifyWake(t)
    BY <2>9, TypeInv, Parking, IOAwake, Kinds DEF NotifyWake, Goto, Unpark,
       AfterNotify, IOAwake, TypeInv, ThreadTypes, QueueTypes, Parking,
       IOAsleep, queues
  <2> QED
    BY <1>1, <2>1, <2>2, <2>3, <2>4, <2>5, <2>6, <2>7, <2>8, <2>9 DEF EmitStep
<1>2. ASSUME NEW t \in Threads, Publish(t) PROVE IOAwake'
  BY <1>2, TypeInv, Parking, IOAwake, Kinds DEF Publish, IOAwake, TypeInv,
     ThreadTypes, QueueTypes, Parking, IOAsleep, signals
<1>3. ASSUME NEW w \in Workers, WorkerStep(w) PROVE IOAwake'
  <2>1. CASE LoopTest(w)
    BY <2>1, TypeInv, Parking, IOAwake, Kinds DEF LoopTest, Goto, IOAwake,
       TypeInv, ThreadTypes, QueueTypes, Parking, IOAsleep, queues, signals
  <2>2. CASE RunInline(w)
    BY <2>2, TypeInv, Parking, IOAwake, Kinds DEF RunInline, Execute, Goto,
       IOAwake, TypeInv, ThreadTypes, QueueTypes, Parking, IOAsleep, queues,
       signals
  <2>3. CASE NextTurn(w)
    BY <2>3, TypeInv, Parking, IOAwake, Kinds DEF NextTurn, Goto, IOAwake,
       TypeInv, ThreadTypes, QueueTypes, Parking, IOAsleep, queues, signals
  <2>4. CASE ScanLocal(w)
    BY <2>4, TypeInv, Parking, IOAwake, Kinds DEF ScanLocal, Found, Execute,
       Goto, IOAwake, TypeInv, ThreadTypes, QueueTypes, Parking, IOAsleep,
       signals
  <2>5. CASE ScanGlobal(w)
    BY <2>5, TypeInv, Parking, IOAwake, Kinds DEF ScanGlobal, Found, Execute,
       Goto, Ready, IOAwake, TypeInv, ThreadTypes, QueueTypes, Parking,
       IOAsleep, signals
  <2>6. ASSUME NEW v \in Workers, StealBatch(w, v) PROVE IOAwake'
    BY <2>6, TypeInv, Parking, IOAwake, Kinds DEF StealBatch, Goto, IOAwake, TypeInv, ThreadTypes,
       QueueTypes, Parking, IOAsleep, signals, work
  <2>7. ASSUME NEW v \in Workers, ScanMiss(w, v) PROVE IOAwake'
    BY <2>7, TypeInv, Parking, IOAwake, Kinds DEF ScanMiss, IOAwake, TypeInv,
       ThreadTypes, QueueTypes, Parking, IOAsleep, queues, signals
  <2>8. CASE ScanEnd(w)
    BY <2>8, TypeInv, Parking, IOAwake, Kinds DEF ScanEnd, AfterScan, Goto, IOAwake,
       TypeInv, ThreadTypes, QueueTypes, Parking, IOAsleep, queues, signals
  <2>9. CASE Announce(w)
    BY <2>9, TypeInv, Parking, IOAwake, Kinds DEF Announce, Goto, IOAwake,
       TypeInv, ThreadTypes, QueueTypes, Parking, IOAsleep, queues
  <2>10. CASE LoadSignal(w)
    BY <2>10, TypeInv, Parking, IOAwake, Kinds DEF LoadSignal, Goto, IOAwake,
       TypeInv, ThreadTypes, QueueTypes, Parking, IOAsleep, queues
  <2>11. CASE Recheck(w)
    BY <2>11, TypeInv, Parking, IOAwake, Kinds DEF Recheck, Goto, IOAwake,
       TypeInv, ThreadTypes, QueueTypes, Parking, IOAsleep, queues
  <2>12. CASE Wait(w)
    BY <2>12, TypeInv, Parking, IOAwake, Kinds DEF Wait, Goto, IOAwake,
       TypeInv, ThreadTypes, QueueTypes, Parking, IOAsleep, queues
  <2>13. CASE Woken(w)
    BY <2>13, TypeInv, Parking, IOAwake, Kinds DEF Woken, Goto, IOAwake,
       TypeInv, ThreadTypes, QueueTypes, Parking, IOAsleep, queues
  <2>14. CASE DrainLocal(w)
    BY <2>14, TypeInv, Parking, IOAwake, Kinds DEF DrainLocal, Found, Execute,
       Goto, IOAwake, TypeInv, ThreadTypes, QueueTypes, Parking, IOAsleep,
       signals
  <2>15. ASSUME NEW x \in Tasks, MoveStolen(w, x) PROVE IOAwake'
    BY <2>15, TypeInv, Parking, IOAwake, Kinds DEF MoveStolen, Goto, IOAwake, TypeInv, ThreadTypes,
       QueueTypes, Parking, IOAsleep, signals, work
  <2>16. CASE PopStolen(w)
    BY <2>16, TypeInv, Parking, IOAwake, Kinds DEF PopStolen, AfterScan, Found, Execute, Unannounce,
       Goto, IOAwake, TypeInv, ThreadTypes,
       QueueTypes, Parking, IOAsleep, signals, work
  <2>17. ASSUME NEW v \in Workers, StealOne(w, v) PROVE IOAwake'
    BY <2>17, TypeInv, Parking, IOAwake, Kinds DEF StealOne, Found, Execute, Unannounce, Goto,
       IOAwake, TypeInv, ThreadTypes,
       QueueTypes, Parking, IOAsleep
  <2> QED
    BY <1>3, <2>1, <2>2, <2>3, <2>4, <2>5, <2>6, <2>7, <2>8, <2>9, <2>10,
       <2>11, <2>12, <2>13, <2>14, <2>15, <2>16, <2>17 DEF WorkerStep
<1>4. ASSUME NEW i \in IOWorkers, IOStep(i) PROVE IOAwake'
  <2>1. CASE LoopTest(i)
    BY <2>1, TypeInv, Parking, IOAwake, Kinds DEF LoopTest, Goto, IOAwake,
       TypeInv, ThreadTypes, QueueTypes, Parking, IOAsleep, queues, signals
  <2>2. CASE NextTurn(i)
    BY <2>2, TypeInv, Parking, IOAwake, Kinds DEF NextTurn, Goto, IOAwake,
       TypeInv, ThreadTypes, QueueTypes, Parking, IOAsleep, queues, signals
  <2>3. CASE IOTake(i)
    BY <2>3, TypeInv, Parking, IOAwake, Kinds DEF IOTake, RunIO, Execute, Goto,
       Ready, IOAwake, TypeInv, ThreadTypes, QueueTypes, Parking, IOAsleep,
       queues, signals
  <2>4. CASE IOLoadSignal(i)
    BY <2>4, TypeInv, Parking, IOAwake, Kinds DEF IOLoadSignal, Goto, IOAwake,
       TypeInv, ThreadTypes, QueueTypes, Parking, IOAsleep, queues
  <2>5. CASE IORecheckStop(i)
    BY <2>5, TypeInv, Parking, IOAwake, Kinds DEF IORecheckStop, Goto, IOAwake,
       TypeInv, ThreadTypes, QueueTypes, Parking, IOAsleep, queues, signals
  <2>6. CASE IORecheckEmpty(i)
    BY <2>6, TypeInv, Parking, IOAwake, Kinds DEF IORecheckEmpty, Goto,
       IOAwake, TypeInv, ThreadTypes, QueueTypes, Parking, IOAsleep, queues,
       signals
  <2>7. CASE IOWait(i)
    BY <2>7, TypeInv, Parking, IOAwake, Kinds DEF IOWait, Goto, IOAwake,
       TypeInv, ThreadTypes, QueueTypes, Parking, IOAsleep, queues
  <2>8. CASE IOWoken(i)
    BY <2>8, TypeInv, Parking, IOAwake, Kinds DEF IOWoken, Goto, IOAwake,
       TypeInv, ThreadTypes, QueueTypes, Parking, IOAsleep, queues, signals
  <2>9. CASE DrainIO(i)
    BY <2>9, TypeInv, Parking, IOAwake, Kinds DEF DrainIO, RunIO, Execute,
       Goto, Ready, IOAwake, TypeInv, ThreadTypes, QueueTypes, Parking,
       IOAsleep, queues, signals
  <2> QED
    BY <1>4, <2>1, <2>2, <2>3, <2>4, <2>5, <2>6, <2>7, <2>8, <2>9 DEF IOStep
<1>5. CASE SetStop
  BY <1>5, TypeInv, Parking, IOAwake, Kinds DEF SetStop, IOAwake, TypeInv,
     ThreadTypes, QueueTypes, Parking, IOAsleep, queues, signals
<1>6. CASE WakeAll
  BY <1>6, TypeInv, Parking, IOAwake, Kinds DEF WakeAll, Unpark, IOAwake,
     TypeInv, ThreadTypes, QueueTypes, Parking, IOAsleep, queues
<1>7. CASE WakeAllIO
  BY <1>7, TypeInv, Parking, IOAwake, Kinds DEF WakeAllIO, Unpark, IOAwake,
     TypeInv, ThreadTypes, QueueTypes, Parking, IOAsleep, queues
<1>8. CASE Join
  BY <1>8, TypeInv, Parking, IOAwake, Kinds DEF Join, IOAwake, TypeInv,
     ThreadTypes, QueueTypes, Parking, IOAsleep, queues, signals
<1> QED
  BY <1>1, <1>2, <1>3, <1>4, <1>5, <1>6, <1>7, <1>8 DEF Next, ShutdownStep


\* A thread that has ended takes no step, and shutdown is over once.
LEMMA ClosedStep ==
    ASSUME TypeInv, Closed, Next
    PROVE  Closed'
<1>1. ASSUME closing = "closed", NEW u \in Pool PROVE pc'[u] = "exit"
  <2>1. u \in Threads /\ pc[u] = "exit"
    BY <1>1, Closed, Kinds DEF Closed
  <2>2. ASSUME NEW t \in Threads, EmitStep(t) \/ Publish(t) PROVE pc'[u] = "exit"
    BY <2>1, <2>2 DEF EmitStep, EmitInline, EmitLocal, EmitGlobal, EmitIO,
       SignalIO, EmitEnd, NotifyLoad, NotifyRaise, NotifyWake, Publish, Goto,
       TypeInv, ThreadTypes
  <2>3. ASSUME NEW w \in Workers, WorkerStep(w) PROVE pc'[u] = "exit"
    BY <2>1, <2>3 DEF WorkerStep, LoopTest, RunInline, NextTurn, ScanLocal,
       ScanGlobal, StealBatch, MoveStolen, PopStolen, StealOne, AfterScan,
       ScanMiss, ScanEnd, Announce, LoadSignal, Recheck,
       Wait, Woken, DrainLocal, Found, Execute, Goto, TypeInv, ThreadTypes
  <2>4. ASSUME NEW i \in IOWorkers, IOStep(i) PROVE pc'[u] = "exit"
    BY <2>1, <2>4 DEF IOStep, LoopTest, NextTurn, IOTake, IOLoadSignal,
       IORecheckStop, IORecheckEmpty, IOWait, IOWoken, DrainIO, RunIO, Execute,
       Goto, TypeInv, ThreadTypes
  <2> QED
    BY <1>1, <2>1, <2>2, <2>3, <2>4 DEF Next, SetStop, ShutdownStep, WakeAll,
       WakeAllIO, Join
<1>2. CASE closing' # closing
  <2>1. SetStop \/ ShutdownStep
    <3>1. ASSUME NEW t \in Threads, EmitStep(t) \/ Publish(t) PROVE closing' = closing
      BY <3>1 DEF EmitStep, EmitInline, EmitLocal, EmitGlobal, EmitIO,
         SignalIO, EmitEnd, NotifyLoad, NotifyRaise, NotifyWake, Publish, shut
    <3>2. ASSUME NEW w \in Workers, WorkerStep(w) PROVE closing' = closing
      BY <3>2 DEF WorkerStep, LoopTest, RunInline, NextTurn, ScanLocal,
         ScanGlobal, StealBatch, MoveStolen, PopStolen, StealOne, AfterScan,
       ScanMiss, ScanEnd, Announce, LoadSignal,
         Recheck, Wait, Woken, DrainLocal, Found, shut
    <3>3. ASSUME NEW i \in IOWorkers, IOStep(i) PROVE closing' = closing
      BY <3>3 DEF IOStep, LoopTest, NextTurn, IOTake, IOLoadSignal,
         IORecheckStop, IORecheckEmpty, IOWait, IOWoken, DrainIO, RunIO, shut
    <3> QED
      BY <1>2, <3>1, <3>2, <3>3 DEF Next
  <2> QED
    BY <2>1 DEF Closed, SetStop, ShutdownStep, WakeAll, WakeAllIO, Join
<1> QED
  BY <1>1, <1>2 DEF Closed


\* The invariant holds when the scheduler has started.
LEMMA InitInv == ASSUME Init PROVE IInv
<1>1. TypeInv
  <2>1. todo \in [Threads -> SUBSET Tasks]
    BY PoolAssumption DEF Init
  <2>2. global \in Seq(Tasks \ IOTasks) /\ ioQueue \in Seq(IOTasks)
    BY DEF Init
  <2> QED
    BY <2>1, <2>2 DEF Init, TypeInv, QueueTypes, ThreadTypes, Labels
<1>2. Counted
  BY FS_EmptySet DEF Init, Counted
<1>3. Parking /\ Carried /\ Closed /\ IOAwake
  BY Kinds DEF Init, Parking, Carried, Busy, Emptied, Closed, IOAwake
<1> QED
  BY <1>1, <1>2, <1>3 DEF IInv

\* Every step keeps the invariant.
LEMMA StepInv == ASSUME IInv, [Next]_vars PROVE IInv'
<1>1. CASE Next
  BY <1>1, TypeStep, CountedStep, ParkingStep, CarriedStep, ClosedStep,
     IOAwakeStep DEF IInv
<1>2. CASE UNCHANGED vars
  BY <1>2 DEF IInv, TypeInv, QueueTypes, ThreadTypes, Counted, Parking,
     Carried, Closed,
     IOAwake, IOAsleep, vars, queues, signals, work, shut, scan
<1> QED
  BY <1>1, <1>2

\* The state of the pool is always well formed.
LEMMA PoolInv == Spec => []IInv
<1> QED
  BY InitInv, StepInv, PTL DEF Spec

\* Once shutdown has joined the threads no worker has left a task in its
\* deque, its inline slot or its list (workerLoop drains its deque after the
\* loop; tasks run meanwhile push new ones, and thieves take some).
THEOREM ShutdownLeavesNothing == Spec => []ShutdownDrainsDeques
<1>1. IInv => ShutdownDrainsDeques
  BY Kinds DEF IInv, Closed, Carried, Busy, Emptied, ShutdownDrainsDeques
<1> QED
  BY <1>1, PoolInv, PTL

\* No IO thread sleeps on the IO queue: if all of them are blocked and no
\* thread is between its ticket and its wake-up, nothing can be taken from
\* the queue (ioWorkerLoop looks again between reading the signal and
\* waiting for it to change).
THEOREM IOThreadsWoken == Spec => []NoIOSleepOnWork
<1>1. IInv => NoIOSleepOnWork
  BY DEF IInv, IOAwake, IOAsleep, Ready, NoIOSleepOnWork
<1> QED
  BY <1>1, PoolInv, PTL

----------------------------------------------------------------------------
(* The workers' wake-ups.                                                  *)

\* Every step keeps Owed.
LEMMA OwedStep ==
    ASSUME TypeInv, Counted, Owed, Next
    PROVE  Owed'
<1>1. ASSUME NEW t \in Threads, EmitStep(t) PROVE Owed'
  <2>1. ASSUME NEW x \in Tasks, EmitInline(t, x) PROVE Owed'
    BY <2>1, TypeInv, Owed, Kinds, TaskTypes DEF EmitInline, Goto, Owed,
       TypeInv, QueueTypes, ThreadTypes, queues
  <2>2. ASSUME NEW x \in Tasks, EmitLocal(t, x) PROVE Owed'
    BY <2>2, TypeInv, Owed, Kinds, TaskTypes DEF EmitLocal, Owed, TypeInv,
       QueueTypes, ThreadTypes
  <2>3. ASSUME NEW x \in Tasks, EmitGlobal(t, x) PROVE Owed'
    BY <2>3, TypeInv, Owed, Kinds, TaskTypes DEF EmitGlobal, Goto, Owed,
       TypeInv, QueueTypes, ThreadTypes
  <2>4. ASSUME NEW x \in Tasks, EmitIO(t, x) PROVE Owed'
    BY <2>4, TypeInv, Owed, Kinds, TaskTypes DEF EmitIO, Goto, Owed, TypeInv,
       QueueTypes, ThreadTypes
  <2>5. CASE SignalIO(t)
    BY <2>5, TypeInv, Owed, Kinds, TaskTypes DEF SignalIO, Goto, Owed, TypeInv,
       QueueTypes, ThreadTypes, queues, work
  <2>6. CASE EmitEnd(t)
    BY <2>6, TypeInv, Owed, Kinds, TaskTypes DEF EmitEnd, Goto, Owed, TypeInv,
       QueueTypes, ThreadTypes, queues, work
  <2>7. CASE NotifyLoad(t)
    BY <2>7, TypeInv, Owed, TaskTypes, SleepersCounted DEF
       NotifyLoad, Goto, AfterNotify, Owed, TypeInv, QueueTypes, ThreadTypes,
       queues
  <2>8. CASE NotifyRaise(t)
    BY <2>8, TypeInv, Owed, Kinds, TaskTypes DEF NotifyRaise, Goto, Owed,
       TypeInv, QueueTypes, ThreadTypes, queues, work
  <2>9. CASE NotifyWake(t)
    BY <2>9, TypeInv, Owed, Kinds, TaskTypes DEF NotifyWake, Goto, AfterNotify,
       Owed, TypeInv, QueueTypes, ThreadTypes, queues
  <2> QED
    BY <1>1, <2>1, <2>2, <2>3, <2>4, <2>5, <2>6, <2>7, <2>8, <2>9 DEF EmitStep
<1>2. ASSUME NEW t \in Threads, Publish(t) PROVE Owed'
  BY <1>2, TypeInv, Owed, Kinds, TaskTypes DEF Publish, Owed, TypeInv,
     QueueTypes, ThreadTypes, work
<1>3. ASSUME NEW w \in Workers, WorkerStep(w) PROVE Owed'
  <2>1. CASE LoopTest(w)
    BY <2>1, TypeInv, Owed, Kinds, TaskTypes DEF LoopTest, Goto, Owed, TypeInv,
       QueueTypes, ThreadTypes, queues, work
  <2>2. CASE RunInline(w)
    BY <2>2, TypeInv, Owed, Kinds, TaskTypes DEF RunInline, Execute, Goto,
       Owed, TypeInv, QueueTypes, ThreadTypes, queues
  <2>3. CASE NextTurn(w)
    BY <2>3, TypeInv, Owed, Kinds, TaskTypes DEF NextTurn, Goto, Owed, TypeInv,
       QueueTypes, ThreadTypes, queues, work
  <2>4. CASE ScanLocal(w)
    BY <2>4, TypeInv, Owed, Kinds, TaskTypes DEF ScanLocal, Found, Execute,
       Goto, Owed, TypeInv, QueueTypes, ThreadTypes, work
  <2>5. CASE ScanGlobal(w)
    BY <2>5, TypeInv, Owed, Kinds, TaskTypes DEF ScanGlobal, Found, Execute,
       Goto, Owed, TypeInv, QueueTypes, ThreadTypes, work
  <2>6. ASSUME NEW v \in Workers, StealBatch(w, v) PROVE Owed'
    BY <2>6, TypeInv, Owed, Kinds, TaskTypes DEF StealBatch, Goto, Owed, TypeInv, QueueTypes,
       ThreadTypes, signals, work
  <2>7. ASSUME NEW v \in Workers, ScanMiss(w, v) PROVE Owed'
    BY <2>7, TypeInv, Owed, Kinds, TaskTypes DEF ScanMiss, Owed, TypeInv,
       QueueTypes, ThreadTypes, queues, work
  <2>8. CASE ScanEnd(w)
    BY <2>8, TypeInv, Owed, Kinds, TaskTypes DEF ScanEnd, AfterScan, Goto, Owed, TypeInv,
       QueueTypes, ThreadTypes, queues, work
  <2>9. CASE Announce(w)
    BY <2>9, TypeInv, Owed, Kinds, TaskTypes DEF Announce, Goto, Owed, TypeInv,
       QueueTypes, ThreadTypes, queues, work
  <2>10. CASE LoadSignal(w)
    BY <2>10, TypeInv, Owed, Kinds, TaskTypes DEF LoadSignal, Goto, Owed,
       TypeInv, QueueTypes, ThreadTypes, queues, work
  <2>11. CASE Recheck(w)
    BY <2>11, TypeInv, Owed, Kinds, TaskTypes DEF Recheck, Goto, Owed, TypeInv,
       QueueTypes, ThreadTypes, queues, work
  <2>12. CASE Wait(w)
    BY <2>12, TypeInv, Owed, Kinds, TaskTypes DEF Wait, Goto, Owed, TypeInv,
       QueueTypes, ThreadTypes, queues, work
  <2>13. CASE Woken(w)
    BY <2>13, TypeInv, Owed, Kinds, TaskTypes DEF Woken, Goto, Owed, TypeInv,
       QueueTypes, ThreadTypes, queues, work
  <2>14. CASE DrainLocal(w)
    BY <2>14, TypeInv, Owed, Kinds, TaskTypes DEF DrainLocal, Found, Execute,
       Goto, Owed, TypeInv, QueueTypes, ThreadTypes, work
  <2>15. ASSUME NEW x \in Tasks, MoveStolen(w, x) PROVE Owed'
    BY <2>15, TypeInv, Owed, Kinds, TaskTypes DEF MoveStolen, Goto, Owed, TypeInv, QueueTypes,
       ThreadTypes, signals, work
  <2>16. CASE PopStolen(w)
    BY <2>16, TypeInv, Owed, Kinds, TaskTypes DEF PopStolen, AfterScan, Found, Execute, Unannounce,
       Goto, Owed, TypeInv, QueueTypes,
       ThreadTypes, signals, work
  <2>17. ASSUME NEW v \in Workers, StealOne(w, v) PROVE Owed'
    BY <2>17, TypeInv, Owed, Kinds, TaskTypes DEF StealOne, Found, Execute, Unannounce, Goto,
       Owed, TypeInv, QueueTypes,
       ThreadTypes
  <2> QED
    BY <1>3, <2>1, <2>2, <2>3, <2>4, <2>5, <2>6, <2>7, <2>8, <2>9, <2>10,
       <2>11, <2>12, <2>13, <2>14, <2>15, <2>16, <2>17 DEF WorkerStep
<1>4. ASSUME NEW i \in IOWorkers, IOStep(i) PROVE Owed'
  <2>1. CASE LoopTest(i)
    BY <2>1, TypeInv, Owed, Kinds, TaskTypes DEF LoopTest, Goto, Owed, TypeInv,
       QueueTypes, ThreadTypes, queues, work
  <2>2. CASE NextTurn(i)
    BY <2>2, TypeInv, Owed, Kinds, TaskTypes DEF NextTurn, Goto, Owed, TypeInv,
       QueueTypes, ThreadTypes, queues, work
  <2>3. CASE IOTake(i)
    BY <2>3, TypeInv, Owed, Kinds, TaskTypes DEF IOTake, RunIO, Execute, Goto,
       Owed, TypeInv, QueueTypes, ThreadTypes, queues, work
  <2>4. CASE IOLoadSignal(i)
    BY <2>4, TypeInv, Owed, Kinds, TaskTypes DEF IOLoadSignal, Goto, Owed,
       TypeInv, QueueTypes, ThreadTypes, queues, work
  <2>5. CASE IORecheckStop(i)
    BY <2>5, TypeInv, Owed, Kinds, TaskTypes DEF IORecheckStop, Goto, Owed,
       TypeInv, QueueTypes, ThreadTypes, queues, work
  <2>6. CASE IORecheckEmpty(i)
    BY <2>6, TypeInv, Owed, Kinds, TaskTypes DEF IORecheckEmpty, Goto, Owed,
       TypeInv, QueueTypes, ThreadTypes, queues, work
  <2>7. CASE IOWait(i)
    BY <2>7, TypeInv, Owed, Kinds, TaskTypes DEF IOWait, Goto, Owed, TypeInv,
       QueueTypes, ThreadTypes, queues, work
  <2>8. CASE IOWoken(i)
    BY <2>8, TypeInv, Owed, Kinds, TaskTypes DEF IOWoken, Goto, Owed, TypeInv,
       QueueTypes, ThreadTypes, queues, work
  <2>9. CASE DrainIO(i)
    BY <2>9, TypeInv, Owed, Kinds, TaskTypes DEF DrainIO, RunIO, Execute, Goto,
       Owed, TypeInv, QueueTypes, ThreadTypes, queues, work
  <2> QED
    BY <1>4, <2>1, <2>2, <2>3, <2>4, <2>5, <2>6, <2>7, <2>8, <2>9 DEF IOStep
<1>5. CASE SetStop
  BY <1>5, TypeInv, Owed, Kinds, TaskTypes DEF SetStop, Owed, TypeInv,
     QueueTypes, ThreadTypes, queues, work
<1>6. CASE WakeAll
  BY <1>6, TypeInv, Owed, Kinds, TaskTypes DEF WakeAll, Owed, TypeInv,
     QueueTypes, ThreadTypes, queues, work
<1>7. CASE WakeAllIO
  BY <1>7, TypeInv, Owed, Kinds, TaskTypes DEF WakeAllIO, Owed, TypeInv,
     QueueTypes, ThreadTypes, queues, work
<1>8. CASE Join
  BY <1>8, TypeInv, Owed, Kinds, TaskTypes DEF Join, Owed, TypeInv, QueueTypes,
     ThreadTypes, queues, work
<1> QED
  BY <1>1, <1>2, <1>3, <1>4, <1>5, <1>6, <1>7, <1>8 DEF Next, ShutdownStep

\* Every step keeps Awake.
LEMMA AwakeStep ==
    ASSUME IInv, Owed, Awake, Next
    PROVE  Awake'
<1> USE DEF IInv
<1>1. ASSUME NEW t \in Threads, EmitStep(t) PROVE Awake'
  <2>1. ASSUME NEW x \in Tasks, EmitInline(t, x) PROVE Awake'
    BY <2>1, TypeInv, Parking, Owed, Awake, Kinds DEF EmitInline, Goto, Awake,
       Fresh, Timely, Ready, Visible, Parking, TypeInv, QueueTypes, ThreadTypes,
       queues, signals
  <2>2. ASSUME NEW x \in Tasks, EmitLocal(t, x) PROVE Awake'
    BY <2>2, TypeInv, Parking, Owed, Awake, Kinds DEF EmitLocal, Awake, Fresh,
       Timely, Ready, Visible, Parking, TypeInv, QueueTypes, ThreadTypes, signals
  <2>3. ASSUME NEW x \in Tasks, EmitGlobal(t, x) PROVE Awake'
    BY <2>3, TypeInv, Parking, Owed, Awake, Kinds DEF EmitGlobal, Goto, Awake,
       Fresh, Timely, Ready, Visible, Parking, TypeInv, QueueTypes, ThreadTypes,
       signals
  <2>4. ASSUME NEW x \in Tasks, EmitIO(t, x) PROVE Awake'
    <3>1. Timely' => Timely
      BY <2>4, TaskTypes DEF EmitIO, Timely, Ready, Visible, TypeInv, QueueTypes
    <3> QED
      BY <2>4, <3>1, Awake DEF EmitIO, Goto, Awake, Fresh, signals, TypeInv,
         ThreadTypes
  <2>5. CASE SignalIO(t)
    BY <2>5, TypeInv, Parking, Owed, Awake, Kinds DEF SignalIO, Goto, Unpark,
       Awake, Fresh, Timely, Ready, Visible, Parking, TypeInv, QueueTypes, ThreadTypes,
       queues, work
  <2>6. CASE EmitEnd(t)
    BY <2>6, TypeInv, Parking, Owed, Awake, Kinds DEF EmitEnd, Goto, Awake,
       Fresh, Timely, Ready, Visible, Parking, TypeInv, QueueTypes, ThreadTypes,
       queues, signals, work
  <2>7. CASE NotifyLoad(t)
    <3>1. sleeping = 0 => \A w \in Workers : w \notin parked /\ ~Fresh(w)
      BY Parking, SleepersCounted DEF Parking, Fresh
    <3>2. Timely' => Timely
      BY <2>7 DEF NotifyLoad, Timely, Ready, Visible, queues
    <3>3. \A w \in Workers : Fresh(w)' => Fresh(w)
      BY <2>7, Kinds DEF NotifyLoad, Goto, AfterNotify, Fresh, signals,
         TypeInv, ThreadTypes
    <3>4. CASE sleeping = 0
      BY <2>7, <3>1, <3>3, <3>4, PoolAssumption DEF NotifyLoad, Awake, signals
    <3>5. CASE sleeping # 0 /\ count[t] = 0
      <4>1. \A u \in Threads : count[u] > 0 => u # t /\ count'[u] = count[u] /\ pc'[u] = pc[u]
        BY <2>7, <3>5 DEF NotifyLoad, Goto, TypeInv, ThreadTypes
      <4> QED
        BY <2>7, <3>2, <3>3, <4>1, Awake DEF NotifyLoad, Awake, signals,
           TypeInv, ThreadTypes
    <3>6. CASE sleeping # 0 /\ count[t] # 0
      <4>1. count'[t] > 0 /\ pc'[t] = "raise"
        BY <2>7, <3>6, SleepersCounted DEF NotifyLoad, Goto, TypeInv,
           ThreadTypes
      <4> QED
        BY <4>1 DEF Awake
    <3> QED
      BY <3>4, <3>5, <3>6
  <2>8. CASE NotifyRaise(t)
    BY <2>8, TypeInv, Parking, Owed, Awake, Kinds DEF NotifyRaise, Goto, Awake,
       Fresh, Timely, Ready, Visible, Parking, TypeInv, QueueTypes, ThreadTypes,
       queues, work
  <2>9. CASE NotifyWake(t)
    <3> DEFINE asleep == parked \cap Workers
               n == IF count[t] < Cardinality(asleep) THEN count[t] ELSE Cardinality(asleep)
    <3>1. PICK S \in SUBSET asleep : Cardinality(S) = n /\ Unpark(S, wakeSignal)
      BY <2>9 DEF NotifyWake
    <3>2. parked' \subseteq parked /\ \A w \in Workers : Fresh(w)' => Fresh(w)
      BY <2>9, <3>1, Kinds DEF NotifyWake, Unpark, Goto, AfterNotify, Fresh,
         TypeInv, ThreadTypes
    <3>3. Timely' => Timely
      BY <2>9 DEF NotifyWake, Timely, Ready, Visible, queues
    <3>4. \A u \in Threads : u # t => count'[u] = count[u] /\ pc'[u] = pc[u]
      BY <2>9 DEF NotifyWake, Goto, TypeInv, ThreadTypes
    <3>5. CASE \E u \in Threads : u # t /\ count[u] > 0
      BY <2>9, <3>2, <3>3, <3>4, <3>5, Awake DEF NotifyWake, Awake
    <3>6. CASE \E w \in Workers : w \notin parked /\ ~Fresh(w)
      BY <3>2, <3>6 DEF Awake
    \* Only t is about to wake anybody, and every worker is blocked with a
    \* signal of the past: whichever t wakes will go.
    <3>7. CASE /\ count[t] > 0 /\ \A w \in Workers : ~Fresh(w)
               /\ \A w \in Workers : w \in parked
      <4>1. asleep = Workers /\ Cardinality(asleep) \in Nat /\ Cardinality(asleep) # 0
        BY <3>7, PoolAssumption, FS_CardinalityType, FS_EmptySet
      <4>2. n # 0
        BY <3>7, <4>1 DEF TypeInv, ThreadTypes
      <4>3. S # {}
        BY <3>1, <4>2, FS_EmptySet
      <4>4. PICK w \in S : TRUE
        BY <4>3
      <4>5. w \in Workers /\ w \notin parked'
        BY <3>1, <3>7, <4>4 DEF Unpark, Fresh
      <4> QED
        BY <3>2, <3>7, <4>5 DEF Awake
    <3> QED
      BY <2>9, <3>3, <3>5, <3>6, <3>7, Awake DEF Awake, NotifyWake
  <2> QED
    BY <1>1, <2>1, <2>2, <2>3, <2>4, <2>5, <2>6, <2>7, <2>8, <2>9 DEF EmitStep
<1>2. ASSUME NEW t \in Threads, Publish(t) PROVE Awake'
  <2>1. CASE buffer[t] \in Tasks \ (IOTasks \cup late)
    BY <1>2, <2>1, Owed DEF Publish, Owed, Awake, work
  <2>2. CASE buffer[t] \in IOTasks \cup late
    <3>1. Timely' => Timely
      BY <1>2, <2>2 DEF Publish, Timely, Ready, Visible, TypeInv, QueueTypes
    <3> QED
      BY <1>2, <3>1, Awake DEF Publish, Awake, Fresh, signals, work
  <2> QED
    BY <1>2, <2>1, <2>2 DEF Publish, TypeInv, QueueTypes
<1>3. ASSUME NEW w \in Workers, WorkerStep(w) PROVE Awake'
  <2>1. CASE LoopTest(w)
    BY <2>1, TypeInv, Parking, Owed, Awake, Kinds DEF LoopTest, Goto, Awake,
       Fresh, Timely, Ready, Visible, Parking, TypeInv, QueueTypes, ThreadTypes,
       queues, signals, work
  <2>2. CASE RunInline(w)
    BY <2>2, TypeInv, Parking, Owed, Awake, Kinds DEF RunInline, Execute, Goto,
       Awake, Fresh, Timely, Ready, Visible, Parking, TypeInv, QueueTypes, ThreadTypes,
       queues, signals
  <2>3. CASE NextTurn(w)
    BY <2>3, TypeInv, Parking, Owed, Awake, Kinds DEF NextTurn, Goto, Awake,
       Fresh, Timely, Ready, Visible, Parking, TypeInv, QueueTypes, ThreadTypes,
       queues, signals, work
  <2>4. CASE ScanLocal(w)
    BY <2>4, TypeInv, Parking, Owed, Awake, Kinds DEF ScanLocal, Found,
       Execute, Unannounce, Goto, Awake, Fresh, Timely, Ready, Visible, Parking,
       TypeInv, QueueTypes, ThreadTypes, signals, work
  <2>5. CASE ScanGlobal(w)
    BY <2>5, TypeInv, Parking, Owed, Awake, Kinds DEF ScanGlobal, Found,
       Execute, Unannounce, Goto, Timely, Ready, Awake, Fresh, Visible, Parking,
       TypeInv, QueueTypes, ThreadTypes, signals, work
  <2>6. ASSUME NEW v \in Workers, StealBatch(w, v) PROVE Awake'
    BY <2>6, TypeInv, Parking, Owed, Awake, Kinds DEF StealBatch, Goto, Awake, Fresh, Timely, Ready, Visible,
       Parking, TypeInv, QueueTypes, ThreadTypes, signals, work
  <2>7. ASSUME NEW v \in Workers, ScanMiss(w, v) PROVE Awake'
    BY <2>7, TypeInv, Parking, Owed, Awake, Kinds DEF ScanMiss, Awake, Fresh,
       Timely, Ready, Visible, Parking, TypeInv, QueueTypes, ThreadTypes, queues,
       signals, work
  <2>8. CASE ScanEnd(w)
    BY <2>8, TypeInv, Parking, Owed, Awake, Kinds DEF ScanEnd, AfterScan, Goto, Awake,
       Fresh, Timely, Ready, Visible, Parking, TypeInv, QueueTypes, ThreadTypes,
       queues, signals, work
  <2>9. CASE Announce(w)
    BY <2>9, TypeInv, Parking, Owed, Awake, Kinds DEF Announce, Goto, Awake,
       Fresh, Timely, Ready, Visible, Parking, TypeInv, QueueTypes, ThreadTypes,
       queues, work
  <2>10. CASE LoadSignal(w)
    BY <2>10, TypeInv, Parking, Owed, Awake, Kinds DEF LoadSignal, Goto, Awake,
       Fresh, Timely, Ready, Visible, Parking, TypeInv, QueueTypes, ThreadTypes,
       queues, work
  <2>11. CASE Recheck(w)
    BY <2>11, TypeInv, Parking, Owed, Awake, Kinds DEF Recheck, Goto,
       Unannounce, Awake, Fresh, Timely, Ready, Visible, Parking, TypeInv, QueueTypes,
       ThreadTypes, queues, work
  <2>12. CASE Wait(w)
    BY <2>12, TypeInv, Parking, Owed, Awake, Kinds DEF Wait, Goto, Awake,
       Fresh, Timely, Ready, Visible, Parking, TypeInv, QueueTypes, ThreadTypes,
       queues, work
  <2>13. CASE Woken(w)
    BY <2>13, TypeInv, Parking, Owed, Awake, Kinds DEF Woken, Goto, Unannounce,
       Awake, Fresh, Timely, Ready, Visible, Parking, TypeInv, QueueTypes, ThreadTypes,
       queues, work
  <2>14. CASE DrainLocal(w)
    BY <2>14, TypeInv, Parking, Owed, Awake, Kinds DEF DrainLocal, Found,
       Execute, Unannounce, Goto, Awake, Fresh, Timely, Ready, Visible, Parking,
       TypeInv, QueueTypes, ThreadTypes, signals, work
  <2>15. ASSUME NEW x \in Tasks, MoveStolen(w, x) PROVE Awake'
    BY <2>15, TypeInv, Parking, Owed, Awake, Kinds DEF MoveStolen, Goto, Awake, Fresh, Timely, Ready, Visible,
       Parking, TypeInv, QueueTypes, ThreadTypes, signals, work
  <2>16. CASE PopStolen(w)
    BY <2>16, TypeInv, Parking, Owed, Awake, Kinds DEF PopStolen, AfterScan, Found, Execute, Unannounce,
       Goto, Awake, Fresh, Timely, Ready, Visible,
       Parking, TypeInv, QueueTypes, ThreadTypes, signals, work
  <2>17. ASSUME NEW v \in Workers, StealOne(w, v) PROVE Awake'
    BY <2>17, TypeInv, Parking, Owed, Awake, Kinds DEF StealOne, Found, Execute, Unannounce, Goto,
       Awake, Fresh, Timely, Ready, Visible,
       Parking, TypeInv, QueueTypes, ThreadTypes
  <2> QED
    BY <1>3, <2>1, <2>2, <2>3, <2>4, <2>5, <2>6, <2>7, <2>8, <2>9, <2>10,
       <2>11, <2>12, <2>13, <2>14, <2>15, <2>16, <2>17 DEF WorkerStep
<1>4. ASSUME NEW i \in IOWorkers, IOStep(i) PROVE Awake'
  <2>1. CASE LoopTest(i)
    BY <2>1, TypeInv, Parking, Owed, Awake, Kinds DEF LoopTest, Goto, Awake,
       Fresh, Timely, Ready, Visible, Parking, TypeInv, QueueTypes, ThreadTypes,
       queues, signals, work
  <2>2. CASE NextTurn(i)
    BY <2>2, TypeInv, Parking, Owed, Awake, Kinds DEF NextTurn, Goto, Awake,
       Fresh, Timely, Ready, Visible, Parking, TypeInv, QueueTypes, ThreadTypes,
       queues, signals, work
  <2>3. CASE IOTake(i)
    <3>1. Timely' => Timely
      BY <2>3 DEF IOTake, RunIO, Timely, Ready, Visible, queues
    <3>2. \A w \in Workers : pc'[w] = pc[w]
      BY <2>3, Kinds DEF IOTake, RunIO, Execute, Goto, TypeInv, ThreadTypes
    <3>3. \A w \in Workers : Fresh(w)' = Fresh(w)
      BY <2>3, <3>2 DEF IOTake, RunIO, Fresh, signals
    <3>4. pc[i] # "wake" /\ pc'[i] # "wake" /\ \A u \in Threads : u # i => pc'[u] = pc[u]
      BY <2>3, Kinds DEF IOTake, RunIO, Execute, Goto, TypeInv, ThreadTypes
    <3>5. count' = count /\ parked' = parked
      BY <2>3 DEF IOTake, RunIO, Execute, signals, work
    <3> QED
      BY <3>1, <3>3, <3>4, <3>5, Awake DEF Awake
  <2>4. CASE IOLoadSignal(i)
    BY <2>4, TypeInv, Parking, Owed, Awake, Kinds DEF IOLoadSignal, Goto,
       Awake, Fresh, Timely, Ready, Visible, Parking, TypeInv, QueueTypes, ThreadTypes,
       queues, work
  <2>5. CASE IORecheckStop(i)
    BY <2>5, TypeInv, Parking, Owed, Awake, Kinds DEF IORecheckStop, Goto,
       Awake, Fresh, Timely, Ready, Visible, Parking, TypeInv, QueueTypes, ThreadTypes,
       queues, signals, work
  <2>6. CASE IORecheckEmpty(i)
    BY <2>6, TypeInv, Parking, Owed, Awake, Kinds DEF IORecheckEmpty, Goto,
       Awake, Fresh, Timely, Ready, Visible, Parking, TypeInv, QueueTypes, ThreadTypes,
       queues, signals, work
  <2>7. CASE IOWait(i)
    BY <2>7, TypeInv, Parking, Owed, Awake, Kinds DEF IOWait, Goto, Awake,
       Fresh, Timely, Ready, Visible, Parking, TypeInv, QueueTypes, ThreadTypes,
       queues, work
  <2>8. CASE IOWoken(i)
    BY <2>8, TypeInv, Parking, Owed, Awake, Kinds DEF IOWoken, Goto, Awake,
       Fresh, Timely, Ready, Visible, Parking, TypeInv, QueueTypes, ThreadTypes,
       queues, signals, work
  <2>9. CASE DrainIO(i)
    <3>1. Timely' => Timely
      BY <2>9 DEF DrainIO, RunIO, Timely, Ready, Visible, queues
    <3>2. \A w \in Workers : pc'[w] = pc[w]
      BY <2>9, Kinds DEF DrainIO, RunIO, Execute, Goto, TypeInv, ThreadTypes
    <3>3. \A w \in Workers : Fresh(w)' = Fresh(w)
      BY <2>9, <3>2 DEF DrainIO, RunIO, Fresh, signals
    <3>4. pc[i] # "wake" /\ pc'[i] # "wake" /\ \A u \in Threads : u # i => pc'[u] = pc[u]
      BY <2>9, Kinds DEF DrainIO, RunIO, Execute, Goto, TypeInv, ThreadTypes
    <3>5. count' = count /\ parked' = parked
      BY <2>9 DEF DrainIO, RunIO, Execute, signals, work
    <3> QED
      BY <3>1, <3>3, <3>4, <3>5, Awake DEF Awake
  <2> QED
    BY <1>4, <2>1, <2>2, <2>3, <2>4, <2>5, <2>6, <2>7, <2>8, <2>9 DEF IOStep
<1>5. CASE SetStop
  BY <1>5, TypeInv, Parking, Owed, Awake, Kinds DEF SetStop, Awake, Fresh,
     Timely, Ready, Visible, Parking, TypeInv, QueueTypes, ThreadTypes, queues,
     signals, work
<1>6. CASE WakeAll
  BY <1>6, TypeInv, Parking, Owed, Awake, Kinds DEF WakeAll, Unpark, Awake,
     Fresh, Timely, Ready, Visible, Parking, TypeInv, QueueTypes, ThreadTypes, queues,
     work
<1>7. CASE WakeAllIO
  BY <1>7, TypeInv, Parking, Owed, Awake, Kinds DEF WakeAllIO, Unpark, Awake,
     Fresh, Timely, Ready, Visible, Parking, TypeInv, QueueTypes, ThreadTypes, queues,
     work
<1>8. CASE Join
  BY <1>8, TypeInv, Parking, Owed, Awake, Kinds DEF Join, Awake, Fresh, Timely, Ready,
     Visible, Parking, TypeInv, QueueTypes, ThreadTypes, queues, signals, work
<1> QED
  BY <1>1, <1>2, <1>3, <1>4, <1>5, <1>6, <1>7, <1>8 DEF Next, ShutdownStep


\* The workers never all sleep on work that was visible in time: if all are
\* blocked and no thread has wake-ups to send, the head of the global queue,
\* if it can be taken, is a task that became visible only after its thread
\* had looked at m_sleepingCount, and no task is in a deque or in a batch.
THEOREM WorkersWoken == Spec => []OnlyLateMissed
<1>1. Init => SleepInv
  BY TaskTypes DEF Init, SleepInv, Owed, Awake, Timely, Ready
<1>2. IInv /\ SleepInv /\ [Next]_vars => SleepInv'
  <2>1. ASSUME IInv, SleepInv, Next PROVE SleepInv'
    BY <2>1, OwedStep, AwakeStep DEF SleepInv, IInv
  <2>2. ASSUME SleepInv, UNCHANGED vars PROVE SleepInv'
    BY <2>2 DEF SleepInv, Owed, Awake, Timely, Ready, Visible, Fresh, vars, queues,
       signals, work, shut
  <2> QED
    BY <2>1, <2>2
<1>3. IInv /\ SleepInv => OnlyLateMissed
  <2> SUFFICES ASSUME IInv, SleepInv, Workers \subseteq parked, Waking = {}
               PROVE  /\ Ready(global) => Head(global) \in late
                      /\ \A w \in Workers : local[w] = {} /\ stolen[w] = {}
    BY DEF OnlyLateMissed, AllAsleep
  <2>1. \A t \in Threads : ~(count[t] > 0)
    BY DEF Waking
  <2>2. Ready(global) => Head(global) \in late
    BY <2>1 DEF SleepInv, Awake, Timely
  <2>3. \A w \in Workers : local[w] = {} /\ stolen[w] = {}
    BY DEF IInv, Parking, Carried, Emptied
  <2> QED
    BY <2>2, <2>3
<1> QED
  BY <1>1, <1>2, <1>3, PoolInv, PTL DEF Spec

=============================================================================
