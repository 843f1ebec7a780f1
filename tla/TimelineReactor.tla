-------------------------- MODULE TimelineReactor --------------------------
(***************************************************************************)
(* GPU timeline waits (src/src/timeline_reactor.cpp) during runAndWait of  *)
(* one graph: prepareRun registers the wait nodes in the reactor's list    *)
(* while a GPU callback pushes completed values and idle threads poll the  *)
(* device and look for timeouts.  All of them walk the same list, and a    *)
(* wait is resolved by whoever wins the compare-and-swap on satisfied.     *)
(*                                                                         *)
(* A task's callable, with the delivery to its successors, is one step     *)
(* here: TaskGraph models how these interleave.                            *)
(***************************************************************************)
EXTENDS Integers, FiniteSets

CONSTANTS
    Tasks,      \* the tasks of the graph
    Successors, \* the tasks that depend on a task
    Waits,      \* the TimelineWaitNodes of the graph
    TaskOf,     \* TimelineWaitNode::task
    Handles,    \* timelines
    Handle,     \* syncPoint.handle
    Value,      \* syncPoint.value
    Timeout,    \* syncPoint.timeoutMs, in ticks of the clock
    Notifiers,  \* threads that call notifyTimelineAdvanced
    Pollers,    \* threads that call pollTimelineFallback, the caller included
    Caller,     \* the thread inside runAndWait
    Device,     \* whether a timeline device is configured
    MaxValue,   \* bound: the value a timeline reaches
    MaxClock,   \* bound: the ticks of a run; a greater timeout never expires
    None        \* nullptr

ASSUME ReactorAssumption ==
    /\ IsFiniteSet(Tasks) /\ IsFiniteSet(Waits)
    /\ IsFiniteSet(Notifiers) /\ IsFiniteSet(Pollers)
    /\ Successors \in [Tasks -> SUBSET Tasks]
    /\ TaskOf \in [Waits -> Tasks] /\ Handle \in [Waits -> Handles]
    /\ MaxValue \in Nat /\ MaxClock \in Nat
    /\ Value \in [Waits -> Nat] /\ Timeout \in [Waits -> Nat]
    /\ Caller \in Pollers /\ Notifiers \cap Pollers = {}
    /\ Device \in BOOLEAN /\ None \notin Waits

Threads == Notifiers \cup Pollers

VARIABLES
    completed,  \* the value each timeline has reached
    clock,      \* ticks since the waits were registered
    head,       \* m_head
    next,       \* nextInReactor
    satisfied,  \* TimelineWaitNode::satisfied
    count,      \* m_pendingCount
    hasTimeout, \* m_hasTimeout
    inDegree,   \* the two halves of TaskNode::inDegree
    state,      \* TaskNode::state
    pending,    \* m_pendingTasks
    queued,     \* tasks handed to the scheduler
    phase,      \* where runAndWait is
    toRegister, \* the wait nodes prepareRun has still to register
    arming,     \* the wait node it is about to register
    status,     \* what the last runAndWait returned
    th,         \* where a thread is in its walk of the list
    expired     \* history: the waits of this run that a timeout has won

reactor == <<head, next, satisfied, count, hasTimeout>>
graph == <<inDegree, state, pending, queued>>
run == <<phase, toRegister, arming, status>>
vars == <<completed, clock, reactor, graph, run, th, expired>>

WaitsOf(t) == {w \in Waits : TaskOf[w] = t}
Predecessors(t) == {u \in Tasks : t \in Successors[u]}

EdgesOf(t) == {<<t, u>> : u \in Successors[t]}
Edges == UNION {EdgesOf(t) : t \in Tasks}

\* addEdge and addWaitPoint each count one dependency.
initialInDegree(t) == Cardinality(WaitsOf(t)) + Cardinality(Predecessors(t))

Idle == [pc |-> "idle", mode |-> "none", handle |-> None, value |-> 0, now |-> 0,
         curr |-> None, skip |-> {}]

Init ==
    /\ completed = [h \in Handles |-> 0] /\ clock = 0
    /\ head = None /\ next = [w \in Waits |-> None]
    /\ satisfied = [w \in Waits |-> FALSE]
    /\ count = 0 /\ hasTimeout = FALSE
    /\ inDegree = [t \in Tasks |-> [low |-> initialInDegree(t), up |-> 0]]
    /\ state = [t \in Tasks |-> "Pending"]
    /\ pending = 0 /\ queued = {}
    /\ phase = "idle" /\ toRegister = {} /\ arming = None /\ status = "Success"
    /\ th = [p \in Threads |-> Idle] /\ expired = {}

----------------------------------------------------------------------------
(* The GPU, and time.                                                      *)

Advance(h) ==
    /\ completed[h] < MaxValue
    /\ completed' = [completed EXCEPT ![h] = @ + 1]
    /\ UNCHANGED <<clock, reactor, graph, run, th, expired>>

Tick ==
    /\ phase = "help" /\ clock < MaxClock
    /\ clock' = clock + 1
    /\ UNCHANGED <<completed, reactor, graph, run, th, expired>>

----------------------------------------------------------------------------
(* runAndWait                                                              *)

\* Mutant: the tasks that wait are not counted.
prepareRunUncounted ==
    /\ phase = "idle"
    /\ hasTimeout' = FALSE
    /\ pending' = Cardinality({t \in Tasks : WaitsOf(t) = {}})
    /\ inDegree' = [t \in Tasks |-> [low |-> initialInDegree(t), up |-> 0]]
    /\ state' = [t \in Tasks |-> "Pending"]
    /\ toRegister' = Waits
    /\ clock' = 0
    /\ th' = [p \in Threads |-> [th[p] EXCEPT !.now = 0]]
    /\ expired' = {}
    /\ phase' = "register"
    /\ UNCHANGED <<completed, head, next, satisfied, count, queued, arming, status>>

\* resetTimeout, and prepareRun up to the registration of the waits.  What
\* a thread still on its way through the list of the last run takes for the
\* time is not later than this one.
prepareRun ==
    /\ phase = "idle"
    /\ hasTimeout' = FALSE
    /\ pending' = Cardinality(Tasks)
    /\ inDegree' = [t \in Tasks |-> [low |-> initialInDegree(t), up |-> 0]]
    /\ state' = [t \in Tasks |-> "Pending"]
    /\ toRegister' = Waits
    /\ clock' = 0
    /\ th' = [p \in Threads |-> [th[p] EXCEPT !.now = 0]]
    /\ expired' = {}
    /\ phase' = "register"
    /\ UNCHANGED <<completed, head, next, satisfied, count, queued, arming, status>>

\* A wait of the last run becomes claimable again, for the threads that are
\* still on their way through it, before it is linked.
RegisterArm(w) ==
    /\ phase = "register" /\ w \in toRegister
    /\ satisfied' = [satisfied EXCEPT ![w] = FALSE]
    /\ toRegister' = toRegister \ {w}
    /\ arming' = w
    /\ phase' = "push"
    /\ UNCHANGED <<completed, clock, head, next, count, hasTimeout, graph, status, th, expired>>

\* registeredTime is stamped, and registerWait links the node in front of the
\* list and then counts it.
RegisterPush ==
    /\ phase = "push"
    /\ next' = [next EXCEPT ![arming] = head]
    /\ head' = arming
    /\ arming' = None
    /\ phase' = "count"
    /\ UNCHANGED <<completed, clock, satisfied, count, hasTimeout, graph, toRegister, status, th,
                   expired>>

RegisterCount ==
    /\ phase = "count"
    /\ count' = count + 1
    /\ phase' = "register"
    /\ UNCHANGED <<completed, clock, head, next, satisfied, hasTimeout, graph, toRegister, arming,
                   status, th, expired>>

ScheduleRoots ==
    /\ phase = "register" /\ toRegister = {}
    /\ queued' = queued \cup {t \in Tasks : initialInDegree(t) = 0}
    /\ phase' = "help"
    /\ UNCHANGED <<completed, clock, reactor, inDegree, state, pending, toRegister, arming, status,
                   th, expired>>

\* helpUntil ends between two looks at the reactor.
Return ==
    /\ phase = "help" /\ th[Caller].pc = "idle"
    /\ pending = 0
    /\ status' = IF hasTimeout THEN "GpuTimeout" ELSE "Success"
    /\ phase' = "reset"
    /\ UNCHANGED <<completed, clock, reactor, graph, toRegister, arming, th, expired>>

\* TimelineReactor::reset
ResetHead ==
    /\ phase = "reset"
    /\ head' = None
    /\ phase' = "resetCount"
    /\ UNCHANGED <<completed, clock, next, satisfied, count, hasTimeout, graph, toRegister, arming,
                   status, th, expired>>

ResetCount ==
    /\ phase = "resetCount"
    /\ count' = 0 /\ hasTimeout' = FALSE
    /\ phase' = "idle"
    /\ UNCHANGED <<completed, clock, head, next, satisfied, graph, toRegister, arming, status, th, expired>>

----------------------------------------------------------------------------
(* The tasks.                                                              *)

\* Every task of S gets one dependency delivered by a completed predecessor.
Activated(S) == [t \in Tasks |-> IF t \in S
                    THEN [low |-> inDegree[t].low - 1, up |-> inDegree[t].up + 1]
                    ELSE inDegree[t]]

\* The tasks of S that this was the last dependency of.
Unblocked(S) == {t \in S : inDegree[t].low = 1}

ExecuteTask(t) ==
    /\ t \in queued
    /\ state' = [state EXCEPT ![t] = "Completed"]
    /\ inDegree' = Activated(Successors[t])
    /\ queued' = (queued \ {t}) \cup Unblocked(Successors[t])
    /\ pending' = pending - 1
    /\ UNCHANGED <<completed, clock, reactor, run, th, expired>>

----------------------------------------------------------------------------
(* Walking the list.                                                       *)

Goto(p, label) == th' = [th EXCEPT ![p].pc = label]

NotifyCall(n, h) ==
    /\ th[n].pc = "idle" /\ n \in Notifiers
    /\ th' = [th EXCEPT ![n] = [Idle EXCEPT !.pc = "check", !.mode = "notify",
                                            !.handle = h, !.value = completed[h]]]
    /\ UNCHANGED <<completed, clock, reactor, graph, run, expired>>

hasPending == count # 0

\* pollTimelineFallback: the device first, if there is one, then timeouts.
PollCall(p) ==
    /\ th[p].pc = "idle" /\ p \in Pollers
    /\ p = Caller => phase = "help" /\ pending # 0
    /\ th' = [th EXCEPT ![p] = IF ~hasPending THEN Idle
                  ELSE [Idle EXCEPT !.pc = "check", !.mode = IF Device THEN "poll" ELSE "timeout"]]
    /\ UNCHANGED <<completed, clock, reactor, graph, run, expired>>

\* What follows a walk, or the look at the count that saves one.
AfterWalk(p) ==
    IF th[p].mode = "poll" THEN [Idle EXCEPT !.pc = "check", !.mode = "timeout"] ELSE Idle

CheckPending(p) ==
    /\ th[p].pc = "check"
    /\ th' = [th EXCEPT ![p] = IF ~hasPending THEN AfterWalk(p)
                  ELSE [@ EXCEPT !.pc = "load", !.now = IF th[p].mode = "timeout" THEN clock ELSE 0]]
    /\ UNCHANGED <<completed, clock, reactor, graph, run, expired>>

LoadHead(p) ==
    /\ th[p].pc = "load"
    /\ th' = [th EXCEPT ![p].pc = "visit", ![p].curr = head]
    /\ UNCHANGED <<completed, clock, reactor, graph, run, expired>>

\* What each of the three walks looks for.  A wait that is being armed still
\* has the registeredTime of the last run, or not: that is a data race.
Expired(w, now) == now >= Timeout[w]

\* Mutant: a push for a timeline resolves its waits for later values too.
EligibleAnyValue(p, w) ==
    CASE th[p].mode = "notify" -> Handle[w] = th[p].handle
      [] th[p].mode = "poll" -> ~satisfied[w] /\ completed[Handle[w]] >= Value[w]
      [] OTHER -> ~satisfied[w] /\ (Expired(w, th[p].now) \/ w = arming)

Eligible(p, w) ==
    CASE th[p].mode = "notify" -> Handle[w] = th[p].handle /\ Value[w] <= th[p].value
      [] th[p].mode = "poll" -> ~satisfied[w] /\ completed[Handle[w]] >= Value[w]
      [] OTHER -> ~satisfied[w] /\ (Expired(w, th[p].now) \/ w = arming)

\* The test, and some time later
Visit(p) ==
    /\ th[p].pc = "visit" /\ th[p].curr # None
    /\ Eligible(p, th[p].curr)
    /\ Goto(p, "cas")
    /\ UNCHANGED <<completed, clock, reactor, graph, run, expired>>

PassOver(p) ==
    LET w == th[p].curr
    IN  /\ th[p].pc = "visit" /\ w # None
        /\ ~Eligible(p, w) \/ (th[p].mode = "timeout" /\ w = arming)
        /\ Goto(p, "advance")
        /\ UNCHANGED <<completed, clock, reactor, graph, run, expired>>

\* Mutant: satisfied is stored, not compared and swapped.
ClaimBlind(p) ==
    LET w == th[p].curr
    IN  /\ th[p].pc = "cas"
        /\ satisfied' = [satisfied EXCEPT ![w] = TRUE]
        /\ expired' = IF th[p].mode = "timeout" THEN expired \cup {w} ELSE expired
        /\ Goto(p, "claimed")
        /\ UNCHANGED <<completed, clock, head, next, count, hasTimeout, graph, run>>

\* the compare-and-swap on satisfied, which one walker wins.
Claim(p) ==
    LET w == th[p].curr
    IN  /\ th[p].pc = "cas" /\ ~satisfied[w]
        /\ satisfied' = [satisfied EXCEPT ![w] = TRUE]
        /\ expired' = IF th[p].mode = "timeout" THEN expired \cup {w} ELSE expired
        /\ Goto(p, "claimed")
        /\ UNCHANGED <<completed, clock, head, next, count, hasTimeout, graph, run>>

LoseClaim(p) ==
    /\ th[p].pc = "cas" /\ satisfied[th[p].curr]
    /\ Goto(p, "advance")
    /\ UNCHANGED <<completed, clock, reactor, graph, run, expired>>

CountOff(p) ==
    /\ th[p].pc = "claimed"
    /\ count' = count - 1
    /\ Goto(p, IF th[p].mode = "timeout" THEN "flag" ELSE "deliver")
    /\ UNCHANGED <<completed, clock, head, next, satisfied, hasTimeout, graph, run, expired>>

\* decrementActive on the waiting task, scheduling it if that was the last.
Deliver(p) ==
    LET t == TaskOf[th[p].curr]
    IN  /\ th[p].pc = "deliver"
        /\ inDegree' = Activated({t})
        /\ queued' = queued \cup Unblocked({t})
        /\ Goto(p, "advance")
        /\ UNCHANGED <<completed, clock, reactor, state, pending, run, expired>>

\* Mutant: the timeout is not recorded.
FlagTimeoutNot(p) ==
    /\ th[p].pc = "flag"
    /\ Goto(p, "cancel")
    /\ UNCHANGED <<completed, clock, reactor, graph, run, expired>>

FlagTimeout(p) ==
    /\ th[p].pc = "flag"
    /\ hasTimeout' = TRUE
    /\ Goto(p, "cancel")
    /\ UNCHANGED <<completed, clock, head, next, satisfied, count, graph, run, expired>>

\* Mutant: the successors of a task that timed out are left waiting.
handleGpuTimeoutAlone(p) ==
    LET t == TaskOf[th[p].curr]
    IN  /\ th[p].pc = "cancel"
        /\ state' = [state EXCEPT ![t] = "Timeout"]
        /\ pending' = pending - 1
        /\ Goto(p, "advance")
        /\ UNCHANGED <<completed, clock, reactor, inDegree, queued, run, expired>>

\* handleGpuTimeout: the task is counted off, its successors are skipped.
handleGpuTimeout(p) ==
    LET t == TaskOf[th[p].curr]
    IN  /\ th[p].pc = "cancel"
        /\ state' = [state EXCEPT ![t] = "Timeout"]
        /\ pending' = pending - 1
        /\ th' = [th EXCEPT ![p].pc = "skip", ![p].skip = EdgesOf(t)]
        /\ UNCHANGED <<completed, clock, reactor, inDegree, queued, run, expired>>

\* decrementSkipped on the target of an edge, and cascadeSkip when that is its
\* last dependency and none was active.
SkipOne(p, e) ==
    LET t == e[2]
        last == inDegree[t].low = 1
        dead == last /\ inDegree[t].up = 0
    IN  /\ th[p].pc = "skip" /\ e \in th[p].skip
        /\ inDegree' = [inDegree EXCEPT ![t].low = @ - 1]
        /\ state' = IF dead THEN [state EXCEPT ![t] = "Skipped"] ELSE state
        /\ pending' = IF dead THEN pending - 1 ELSE pending
        /\ queued' = IF last /\ ~dead THEN queued \cup {t} ELSE queued
        /\ th' = [th EXCEPT ![p].skip = (@ \ {e}) \cup (IF dead THEN EdgesOf(t) ELSE {})]
        /\ UNCHANGED <<completed, clock, reactor, run, expired>>

SkipEnd(p) ==
    /\ th[p].pc = "skip" /\ th[p].skip = {}
    /\ Goto(p, "advance")
    /\ UNCHANGED <<completed, clock, reactor, graph, run, expired>>

AdvanceNode(p) ==
    /\ th[p].pc = "advance"
    /\ th' = [th EXCEPT ![p].pc = "visit", ![p].curr = next[th[p].curr]]
    /\ UNCHANGED <<completed, clock, reactor, graph, run, expired>>

WalkEnd(p) ==
    /\ th[p].pc = "visit" /\ th[p].curr = None
    /\ th' = [th EXCEPT ![p] = AfterWalk(p)]
    /\ UNCHANGED <<completed, clock, reactor, graph, run, expired>>

----------------------------------------------------------------------------
CallerStep ==
    \/ \E w \in Waits : RegisterArm(w)
    \/ RegisterPush \/ RegisterCount \/ ScheduleRoots \/ Return \/ ResetHead \/ ResetCount

WalkStep(p) ==
    \/ CheckPending(p) \/ LoadHead(p) \/ Visit(p) \/ PassOver(p)
    \/ Claim(p) \/ LoseClaim(p) \/ CountOff(p) \/ Deliver(p) \/ FlagTimeout(p) \/ handleGpuTimeout(p)
    \/ (\E e \in Edges : SkipOne(p, e))
    \/ SkipEnd(p) \/ AdvanceNode(p) \/ WalkEnd(p)

Next ==
    \/ \E h \in Handles : Advance(h)
    \/ Tick
    \/ prepareRun \/ CallerStep
    \/ \E t \in Tasks : ExecuteTask(t)
    \/ \E n \in Notifiers, h \in Handles : NotifyCall(n, h)
    \/ \E p \in Pollers : PollCall(p)
    \/ \E p \in Threads : WalkStep(p)

Spec == Init /\ [][Next]_vars

\* Threads go on, tasks that are queued are executed, the caller polls while
\* it has nothing else to do, and time passes.  The GPU need not advance.
Fairness ==
    /\ WF_vars(Tick) /\ WF_vars(CallerStep)
    /\ \A t \in Tasks : WF_vars(ExecuteTask(t))
    /\ WF_vars(PollCall(Caller))
    /\ \A p \in Threads : WF_vars(WalkStep(p))

FairSpec == Spec /\ Fairness

----------------------------------------------------------------------------
(* Properties.                                                             *)

Finished == {"Completed", "Skipped", "Timeout"}

\* A task runs only when the GPU has reached every value it waits for, and
\* never when one of its waits was lost to a timeout, however the push, the
\* poll and the watchdog race for its waits: a late answer changes nothing.
RunsAfterSignal ==
    \A t \in Tasks : t \in queued \/ state[t] = "Completed" =>
        \A w \in WaitsOf(t) : completed[Handle[w]] >= Value[w] /\ w \notin expired

\* isCompleted: when the count of tasks is 0 every task has finished, and
\* none is left in a queue.
CompletedMeansDone ==
    phase = "help" /\ pending = 0 =>
        queued = {} /\ \A t \in Tasks : state[t] \in Finished

\* runAndWait reports GpuTimeout exactly when a task of this run timed out:
\* the flag is raised before the task is counted off.
TimeoutReported ==
    phase = "reset" => (status = "GpuTimeout" <=> \E t \in Tasks : state[t] = "Timeout")

\* The nodes of the list, from w on.
ListFrom(w) ==
    {x \in Waits : \A S \in SUBSET Waits :
        (w \in Waits => w \in S) /\ (\A y \in S : next[y] \in Waits => next[y] \in S) => x \in S}

Unresolved == {w \in ListFrom(head) : ~satisfied[w]}

\* The node that is not counted yet is resolved, or will be by somebody.
Uncounted == IF phase = "count" \/ (phase = "push" /\ satisfied[arming]) THEN 1 ELSE 0

\* m_pendingCount is the number of unresolved waits in the list, give or
\* take the registration and the claims that are under way: a walk that
\* stops at 0 leaves nothing behind.
CountsWaits ==
    phase # "resetCount" =>
        count = Cardinality(Unresolved) + Cardinality({p \in Threads : th[p].pc = "claimed"})
                - Uncounted

\* Every run ends, whether the GPU answers or hangs: the watchdog keeps the
\* caller from waiting for ever.
RunReturns == phase = "register" ~> phase = "idle"
=============================================================================
