----------------------------- MODULE TaskGraph -----------------------------
(***************************************************************************)
(* The task graph of LightFlow (src/src/task_graph.cpp) while the          *)
(* scheduler runs it: prepareRun resets the nodes and dispatches the       *)
(* roots, threads take scheduled nodes and execute them, and whoever       *)
(* delivers the last dependency of a node schedules it, keeps it in its    *)
(* thread-local inline slot, or cascades a skip through it.                *)
(*                                                                         *)
(* The graph is a constant: nodes, and edges between them as addEdge built *)
(* them.  Every atomic read-modify-write of the code is an action of its   *)
(* own; plain stores to a node that no other thread can reach at that      *)
(* point are merged with the atomic step they belong to.  The order in     *)
(* which a thread walks its successor list is left open (the code walks it *)
(* last added first), so every order of addEdge calls is covered at once.  *)
(***************************************************************************)
EXTENDS Integers, FiniteSets

CONSTANTS
    Nodes,      \* TaskNode objects of the graph
    Edges,      \* SuccessorEdge objects of the graph
    Source,     \* the node in whose successor list an edge is
    Target,     \* SuccessorEdge::target
    Branch,     \* SuccessorEdge::branch, -1 when unconditional
    LoopBack,   \* SuccessorEdge::isLoopBack
    Conditions, \* the nodes of TaskType::Condition
    Branches,   \* what the condition callables may return
    Domain,     \* TaskNode::domain
    Threads,    \* the threads that execute tasks
    Caller,     \* the thread inside runAndWait
    Serves,     \* the domains whose queues a thread takes tasks from
    Inlines,    \* the threads whose t_canInlineTask is set
    MAX_VISITED, \* how many nodes reaches can hold, 128 in the code
    MAX_CYCLE,  \* how many nodes a loop can re-arm, 64 in the code
    HALF,       \* 2^16 in the code: the range of one half of inDegree
    None        \* nullptr

Domains == {"Worker", "IO", "MainThread"}

ASSUME GraphAssumption ==
    /\ IsFiniteSet(Nodes) /\ IsFiniteSet(Edges)
    /\ Source \in [Edges -> Nodes] /\ Target \in [Edges -> Nodes]
    /\ Branch \in [Edges -> Int] /\ LoopBack \in [Edges -> BOOLEAN]
    /\ Conditions \subseteq Nodes
    /\ Branches \subseteq Int /\ Branches # {}
    /\ Domain \in [Nodes -> Domains]
    /\ None \notin Nodes

\* addEdge looks for a loop only on an edge that leaves a condition node (an
\* edge with a branch number is taken to leave one).
ASSUME LoopAssumption ==
    \A e \in Edges : LoopBack[e] => Source[e] \in Conditions

ASSUME ThreadAssumption ==
    /\ IsFiniteSet(Threads) /\ Caller \in Threads
    /\ Inlines \subseteq Threads
    /\ Serves \in [Threads -> SUBSET Domains]

ASSUME HalfAssumption == HALF \in Nat /\ HALF >= 2

VARIABLES
    running,    \* runAndWait is between prepareRun and the end of helpUntil
    roots,      \* the roots prepareRun has still to schedule
    pending,    \* m_pendingTasks
    inDegree,   \* TaskNode::inDegree, as its two 16-bit halves
    state,      \* TaskNode::state
    chosen,     \* TaskNode::userData: the branch a condition returned
    queued,     \* how often a node sits in some queue or deque
    inline,     \* t_nextInlineTask
    pc,         \* where a thread is inside TaskNode::execute
    cur,        \* the node a thread is executing
    act,        \* edges a thread has still to deliver with decrementActive
    skp,        \* edges a thread has still to deliver with decrementSkipped
    skipping    \* the node a thread is about to cascadeSkip

vars == <<running, roots, pending, inDegree, state, chosen, queued, inline,
          pc, cur, act, skp, skipping>>

----------------------------------------------------------------------------
(* The graph.                                                              *)

OutEdges(n) == {e \in Edges : Source[e] = n}

\* The edges addEdge counted: a loop-back edge adds nothing to its target.
InEdges(n) == {e \in Edges : Target[e] = n /\ ~LoopBack[e]}

initialInDegree(n) == Cardinality(InEdges(n))

\* Mutant: a node with one predecessor passes for a root.
RootsOffByOne == {n \in Nodes : initialInDegree(n) <= 1}

Roots == {n \in Nodes : initialInDegree(n) = 0}

\* inDegree.store(initialInDegree): the count spills into the upper half
\* once it does not fit the lower one.
InitialWord(n) == [low |-> initialInDegree(n) % HALF,
                   up  |-> (initialInDegree(n) \div HALF) % HALF]

\* The nodes that a walk along the edges of F reaches from n: those in every
\* set that contains n and that no edge of F leaves.
ReachableFrom(n, F) ==
    {m \in Nodes : \A S \in SUBSET Nodes :
        n \in S /\ (\A e \in F : Source[e] \in S => Target[e] \in S) => m \in S}

ReachableNodes == [m \in Nodes |-> ReachableFrom(m, Edges)]

reaches(m, n) == n \in ReachableNodes[m]

\* Mutant: a loop re-arms the whole graph.
CycleNodesAll(target, c) == Nodes

\* The nodes that take part in the cycle from a loop edge's target to the
\* condition c that closes it.
CycleNodes(target, c) ==
    IF target = c THEN {c}
    ELSE ReachableFrom(target, {e \in Edges : ~LoopBack[e] /\ reaches(Target[e], c)})

\* The nodes that following a loop-back edge re-arms.
LoopNodes == [e \in {e \in Edges : LoopBack[e]} |-> CycleNodes(Target[e], Source[e])]

\* No search and no loop is cut off: the code asserts that the nodes fit and
\* drops those that do not when assertions are off.
ASSUME SearchAssumption ==
    /\ \A n \in Nodes : Cardinality(ReachableNodes[n]) <= MAX_VISITED
    /\ \A e \in Edges : LoopBack[e] => Cardinality(LoopNodes[e]) <= MAX_CYCLE

Selected(e, b) == Branch[e] = -1 \/ Branch[e] = b

\* Mutant: a loop-back edge is followed whatever the answer.
LoopEdgesAny(c, b) == {e \in OutEdges(c) : LoopBack[e]}

\* The loop-back edges that the answer b of condition c selects.
LoopEdges(c, b) == {e \in OutEdges(c) : Selected(e, b) /\ LoopBack[e]}

----------------------------------------------------------------------------
(* The two halves of inDegree.  Adding 0xFFFF takes one from the lower     *)
(* half and carries one into the upper half; subtracting 1 borrows from    *)
(* the upper half when the lower one is 0.                                 *)

AddFFFF(w) == IF w.low = 0 THEN [low |-> HALF - 1, up |-> w.up]
              ELSE [low |-> w.low - 1, up |-> (w.up + 1) % HALF]

\* Mutant: a skip is taken from the wrong half.
SubOneUpper(w) == [w EXCEPT !.up = @ - 1]

SubOne(w) == IF w.low = 0 THEN [low |-> HALF - 1, up |-> (w.up + HALF - 1) % HALF]
             ELSE [low |-> w.low - 1, up |-> w.up]

Words == [low : 0..HALF-1, up : 0..HALF-1]

----------------------------------------------------------------------------
Init ==
    /\ running = FALSE
    /\ roots = {}
    /\ pending = 0
    /\ inDegree = [n \in Nodes |-> InitialWord(n)]
    /\ state = [n \in Nodes |-> "Pending"]
    /\ chosen = [n \in Nodes |-> 0]
    /\ queued = [n \in Nodes |-> 0]
    /\ inline = [t \in Threads |-> None]
    /\ pc = [t \in Threads |-> "idle"]
    /\ cur = [t \in Threads |-> None]
    /\ act = [t \in Threads |-> {}]
    /\ skp = [t \in Threads |-> {}]
    /\ skipping = [t \in Threads |-> None]

\* scheduler.schedule(n): n enters the queue of its domain.
Schedule(n) == queued' = [queued EXCEPT ![n] = @ + 1]

\* Mutant: the roots are not counted.
prepareRunUncounted ==
    /\ ~running
    /\ running' = TRUE
    /\ pending' = Cardinality(Nodes \ Roots)
    /\ inDegree' = [n \in Nodes |-> InitialWord(n)]
    /\ state' = [n \in Nodes |-> "Pending"]
    /\ roots' = Roots
    /\ UNCHANGED <<chosen, queued, inline, pc, cur, act, skp, skipping>>

\* prepareRun up to the reset of every node.  Nobody else reaches the nodes
\* of a graph that is not running, so the reset is one step.
prepareRun ==
    /\ ~running
    /\ running' = TRUE
    /\ pending' = Cardinality(Nodes)
    /\ inDegree' = [n \in Nodes |-> InitialWord(n)]
    /\ state' = [n \in Nodes |-> "Pending"]
    /\ roots' = Roots
    /\ UNCHANGED <<chosen, queued, inline, pc, cur, act, skp, skipping>>

\* prepareRun schedules the roots one by one, while threads already run the
\* ones it has scheduled.
ScheduleRoot(n) ==
    /\ n \in roots
    /\ roots' = roots \ {n}
    /\ Schedule(n)
    /\ UNCHANGED <<running, pending, inDegree, state, chosen, inline, pc, cur,
                   act, skp, skipping>>

\* helpUntil: the caller looks at isCompleted between two tasks only.
isCompleted == pending = 0

runAndWaitReturns ==
    /\ running /\ roots = {}
    /\ pc[Caller] = "idle" /\ inline[Caller] = None
    /\ isCompleted
    /\ running' = FALSE
    /\ UNCHANGED <<roots, pending, inDegree, state, chosen, queued, inline,
                   pc, cur, act, skp, skipping>>

\* TaskNode::execute up to the call of the callable.
StartExecute(t, n) ==
    /\ pc' = [pc EXCEPT ![t] = "execute"]
    /\ cur' = [cur EXCEPT ![t] = n]
    /\ state' = [state EXCEPT ![n] = "Executing"]

\* A thread finds n in a queue it serves and begins to execute it.  The
\* caller helps only while it waits.
TakeQueued(t, n) ==
    /\ pc[t] = "idle" /\ inline[t] = None
    /\ t = Caller => running /\ roots = {} /\ ~isCompleted
    /\ queued[n] > 0 /\ Domain[n] \in Serves[t]
    /\ queued' = [queued EXCEPT ![n] = @ - 1]
    /\ StartExecute(t, n)
    /\ UNCHANGED <<running, roots, pending, inDegree, chosen, inline, act, skp,
                   skipping>>

\* Mutant: the inline slot is not emptied.
TakeInlineKept(t) ==
    /\ pc[t] = "idle" /\ inline[t] # None
    /\ StartExecute(t, inline[t])
    /\ UNCHANGED <<running, roots, pending, inDegree, chosen, queued, inline, act,
                   skp, skipping>>

\* The continuation loop: the inline slot is emptied before anything else.
TakeInline(t) ==
    /\ pc[t] = "idle" /\ inline[t] # None
    /\ StartExecute(t, inline[t])
    /\ inline' = [inline EXCEPT ![t] = None]
    /\ UNCHANGED <<running, roots, pending, inDegree, chosen, queued, act, skp,
                   skipping>>

\* The callable of a node that is no condition returns; every successor is
\* to be told that an active predecessor completed.
ExecuteStatic(t) ==
    /\ pc[t] = "execute" /\ cur[t] \notin Conditions
    /\ state' = [state EXCEPT ![cur[t]] = "Completed"]
    /\ act' = [act EXCEPT ![t] = OutEdges(cur[t])]
    /\ pc' = [pc EXCEPT ![t] = "unblock"]
    /\ UNCHANGED <<running, roots, pending, inDegree, chosen, queued, inline,
                   cur, skp, skipping>>

\* A condition returns b and b selects no loop-back edge: the selected
\* successors are told of a completed predecessor, the others, loop-back
\* edges apart, of a skipped one.
ExecuteCondition(t, b) ==
    /\ pc[t] = "execute" /\ cur[t] \in Conditions
    /\ LoopEdges(cur[t], b) = {}
    /\ chosen' = [chosen EXCEPT ![cur[t]] = b]
    /\ state' = [state EXCEPT ![cur[t]] = "Completed"]
    /\ act' = [act EXCEPT ![t] = {e \in OutEdges(cur[t]) : Selected(e, b)}]
    /\ skp' = [skp EXCEPT ![t] = {e \in OutEdges(cur[t]) :
                                    ~Selected(e, b) /\ ~LoopBack[e]}]
    /\ pc' = [pc EXCEPT ![t] = "unblock"]
    /\ UNCHANGED <<running, roots, pending, inDegree, queued, inline, cur,
                   skipping>>

\* A condition returns b and b selects the loop-back edge e: the nodes of
\* the cycle are re-armed and counted as pending again, and the head of the
\* loop is scheduled.  Every dependency of a cycle node has been delivered
\* when the condition runs, so no thread touches these nodes meanwhile.
ExecuteLoopBack(t, b, e) ==
    LET c == cur[t]
        head == Target[e]
        cycle == LoopNodes[e]
    IN  /\ pc[t] = "execute" /\ c \in Conditions
        /\ e \in LoopEdges(c, b)
        /\ chosen' = [chosen EXCEPT ![c] = b]
        /\ inDegree' = [n \in Nodes |-> IF n \in cycle /\ n # head
                                        THEN InitialWord(n) ELSE inDegree[n]]
        /\ state' = [n \in Nodes |-> IF n \in cycle THEN "Pending"
                                     ELSE IF n = c THEN "Completed" ELSE state[n]]
        /\ pending' = pending + Cardinality(cycle)
        /\ Schedule(head)
        /\ pc' = [pc EXCEPT ![t] = "unblock"]
        /\ UNCHANGED <<running, roots, inline, cur, act, skp, skipping>>

\* decrementActive on the target of e; the thread that takes the lower half
\* from 1 to 0 owns the node and keeps it inline or schedules it.
decrementActive(t, e) ==
    LET n == Target[e]
        wins == inDegree[n].low = 1
        keeps == t \in Inlines /\ inline[t] = None /\ Domain[n] = "Worker"
    IN  /\ skipping[t] = None /\ e \in act[t]
        /\ act' = [act EXCEPT ![t] = @ \ {e}]
        /\ inDegree' = [inDegree EXCEPT ![n] = AddFFFF(@)]
        /\ \/ wins /\ keeps /\ inline' = [inline EXCEPT ![t] = n] /\ UNCHANGED queued
           \/ wins /\ ~keeps /\ Schedule(n) /\ UNCHANGED inline
           \/ ~wins /\ UNCHANGED <<queued, inline>>
        /\ UNCHANGED <<running, roots, pending, state, chosen, pc, cur, skp,
                       skipping>>

\* Mutant: the upper half is not looked at.
decrementSkippedBlind(t, e) ==
    LET n == Target[e]
        wins == inDegree[n].low = 1
    IN  /\ skipping[t] = None /\ e \in skp[t]
        /\ skp' = [skp EXCEPT ![t] = @ \ {e}]
        /\ inDegree' = [inDegree EXCEPT ![n] = SubOne(@)]
        /\ skipping' = IF wins THEN [skipping EXCEPT ![t] = n] ELSE skipping
        /\ UNCHANGED <<running, roots, pending, state, chosen, queued, inline, pc,
                       cur, act>>

\* decrementSkipped on the target of e: the last dependency schedules the
\* node if any predecessor was active, and skips it otherwise.
decrementSkipped(t, e) ==
    LET n == Target[e]
        wins == inDegree[n].low = 1
        live == inDegree[n].up > 0
    IN  /\ skipping[t] = None /\ e \in skp[t]
        /\ skp' = [skp EXCEPT ![t] = @ \ {e}]
        /\ inDegree' = [inDegree EXCEPT ![n] = SubOne(@)]
        /\ \/ wins /\ live /\ Schedule(n) /\ UNCHANGED skipping
           \/ wins /\ ~live /\ skipping' = [skipping EXCEPT ![t] = n] /\ UNCHANGED queued
           \/ ~wins /\ UNCHANGED <<queued, skipping>>
        /\ UNCHANGED <<running, roots, pending, state, chosen, inline, pc, cur,
                       act>>

\* cascadeSkip: the node is counted off before its successors, loop-back
\* edges included, are told.
cascadeSkip(t) ==
    LET n == skipping[t]
    IN  /\ n # None
        /\ state' = [state EXCEPT ![n] = "Skipped"]
        /\ pending' = pending - 1
        /\ skp' = [skp EXCEPT ![t] = @ \cup OutEdges(n)]
        /\ skipping' = [skipping EXCEPT ![t] = None]
        /\ UNCHANGED <<running, roots, inDegree, chosen, queued, inline, pc, cur,
                       act>>

\* unblockSuccessors has returned: execute ends with onTaskCompleted.
onTaskCompleted(t) ==
    /\ pc[t] = "unblock"
    /\ act[t] = {} /\ skp[t] = {} /\ skipping[t] = None
    /\ pending' = pending - 1
    /\ pc' = [pc EXCEPT ![t] = "idle"]
    /\ cur' = [cur EXCEPT ![t] = None]
    /\ UNCHANGED <<running, roots, inDegree, state, chosen, queued, inline, act,
                   skp, skipping>>

----------------------------------------------------------------------------
ThreadStep(t) ==
    \/ \E n \in Nodes : TakeQueued(t, n)
    \/ TakeInline(t)
    \/ ExecuteStatic(t)
    \/ \E b \in Branches : ExecuteCondition(t, b)
    \/ \E b \in Branches, e \in Edges : ExecuteLoopBack(t, b, e)
    \/ \E e \in Edges : decrementActive(t, e)
    \/ \E e \in Edges : decrementSkipped(t, e)
    \/ cascadeSkip(t)
    \/ onTaskCompleted(t)

CallerStep ==
    \/ \E n \in Nodes : ScheduleRoot(n)
    \/ runAndWaitReturns

Next ==
    \/ prepareRun
    \/ CallerStep
    \/ \E t \in Threads : ThreadStep(t)

Spec == Init /\ [][Next]_vars

\* The callable of condition c returns an answer that does not loop back.
LeavesLoop(c) ==
    \E t \in Threads, b \in Branches : cur[t] = c /\ ExecuteCondition(t, b)

\* A thread of the pool that can take a step takes one (how parked workers
\* are woken is the business of the parking protocol), the caller goes on,
\* and a condition that is asked again and again leaves its loop in the end.
Fairness ==
    /\ WF_vars(CallerStep)
    /\ \A t \in Threads : WF_vars(ThreadStep(t))
    /\ \A c \in Conditions : SF_vars(LeavesLoop(c))

FairSpec == Spec /\ Fairness

----------------------------------------------------------------------------
(* Properties.                                                             *)

Finished == {"Completed", "Skipped"}

TypeOK ==
    /\ running \in BOOLEAN
    /\ roots \subseteq Nodes
    /\ pending \in Int
    /\ inDegree \in [Nodes -> Words]
    /\ state \in [Nodes -> {"Pending", "Executing"} \cup Finished]
    /\ chosen \in [Nodes -> Branches \cup {0}]
    /\ queued \in [Nodes -> Nat]
    /\ inline \in [Threads -> Nodes \cup {None}]
    /\ pc \in [Threads -> {"idle", "execute", "unblock"}]
    /\ cur \in [Threads -> Nodes \cup {None}]
    /\ act \in [Threads -> SUBSET Edges]
    /\ skp \in [Threads -> SUBSET Edges]
    /\ skipping \in [Threads -> Nodes \cup {None}]

\* Threads inside the callable of n.
Executors(n) == {t \in Threads : pc[t] = "execute" /\ cur[t] = n}

\* Threads that keep n in their inline slot.
Keepers(n) == {t \in Threads : inline[t] = n}

\* n has been handed to the scheduler and its callable has not returned.
Released(n) == queued[n] > 0 \/ Keepers(n) # {} \/ Executors(n) # {}

\* The callable of a node runs only after every node it depends on has run
\* or has been skipped: the winner of the in-degree counter is the last
\* predecessor, whatever the interleaving of decrementActive and
\* decrementSkipped (task_graph.cpp, decrementActive and decrementSkipped).
PredecessorsFirst ==
    \A n \in Nodes : Released(n) =>
        \A e \in InEdges(n) : state[Source[e]] \in Finished

\* A node is released once: it is in one queue, or one inline slot, or under
\* one thread, never in two of them, and never again after it has finished
\* (unblockSuccessors, exactly one winner per node and run).
ReleasedOnce ==
    \A n \in Nodes :
        /\ queued[n] + Cardinality(Keepers(n)) + Cardinality(Executors(n)) <= 1
        /\ Released(n) => state[n] \notin Finished

\* When m_pendingTasks reads 0 the run is over for good: every node has
\* finished and no thread still holds, executes or walks a node, so the
\* caller may re-run or clear the graph (isCompleted, runAndWait).
CompletedIsQuiescent ==
    running /\ roots = {} /\ isCompleted =>
        /\ \A n \in Nodes : state[n] \in Finished /\ ~Released(n)
        /\ \A t \in Threads : pc[t] = "idle" /\ skipping[t] = None

\* An edge along which an active predecessor completed.
Active(e) ==
    /\ state[Source[e]] = "Completed"
    /\ Source[e] \in Conditions => Selected(e, chosen[Source[e]])

\* A node is skipped exactly when it has predecessors and no edge into it is
\* active: one selected edge is enough to run it, in whatever order the
\* active and the skipped edges are delivered (decrementSkipped's test of
\* the upper half).
SkippedIffNoActiveEdge ==
    \A n \in Nodes :
        state[n] \in Finished =>
            (state[n] = "Skipped" <=>
                n \notin Roots /\ \A e \in InEdges(n) : ~Active(e))

\* Every run ends: nobody waits for a dependency that is never delivered,
\* whatever branches the conditions choose (runAndWait returns).
RunTerminates == running ~> ~running

\* What a step may never do: outside prepareRun, a node that has finished
\* starts again only because a condition closed a loop through it.
FinishedStaysFinished ==
    [][\A n \in Nodes : state[n] \in Finished /\ state'[n] \notin Finished =>
          \/ ~running
          \/ \E t \in Threads : /\ cur[t] \in Conditions /\ pc[t] = "execute"
                                /\ reaches(n, cur[t])]_vars

----------------------------------------------------------------------------
(* The inductive invariant of an acyclic graph whose in-degrees fit one    *)
(* half of the counter.                                                    *)

Acyclic == \A e \in Edges : ~LoopBack[e]

DegreesFit == \A n \in Nodes : initialInDegree(n) < HALF

\* The dependency e has not been delivered: its source has not finished, or
\* the thread that finished it has not come to e yet.
Owed(e) ==
    \/ state[Source[e]] \notin Finished
    \/ \E t \in Threads : e \in act[t] \cup skp[t]

OwedTo(n) == {e \in InEdges(n) : Owed(e)}
ActiveAt(n) == {e \in InEdges(n) : ~Owed(e) /\ Active(e)}

\* The two halves count what they are meant to count.
Counts ==
    \A n \in Nodes : /\ inDegree[n].low = Cardinality(OwedTo(n))
                     /\ inDegree[n].up = Cardinality(ActiveAt(n))

\* What a thread still has to deliver, it delivers the right way, and no
\* other thread delivers it too.
Deliveries ==
    /\ \A t \in Threads : \A e \in act[t] : Active(e)
    /\ \A t \in Threads : \A e \in skp[t] : state[Source[e]] \in Finished /\ ~Active(e)
    /\ \A t \in Threads : pc[t] # "unblock" =>
            act[t] = {} /\ skp[t] = {} /\ skipping[t] = None
    /\ \A t, u \in Threads : \A e \in Edges :
            e \in act[t] \cup skp[t] /\ e \in act[u] \cup skp[u] => t = u

Runs(t, n) == pc[t] = "execute" /\ cur[t] = n
Holds(t, n) == inline[t] = n \/ Runs(t, n) \/ skipping[t] = n

\* A node is in one place at a time, and its state tells which.
Placement ==
    /\ \A t \in Threads : pc[t] # "idle" => cur[t] \in Nodes
    /\ \A n \in Nodes :
        /\ queued[n] \in {0, 1}
        /\ n \in roots => n \in Roots /\ queued[n] = 0
        /\ n \in roots \/ queued[n] = 1 => state[n] = "Pending"
        /\ state[n] = "Executing" => \E t \in Threads : Runs(t, n)
    /\ \A n \in Nodes, t \in Threads :
        /\ Holds(t, n) => queued[n] = 0 /\ n \notin roots
        /\ Runs(t, n) => state[n] = "Executing" /\ inline[t] # n
        /\ inline[t] = n \/ skipping[t] = n => state[n] = "Pending"
        /\ ~(inline[t] = n /\ skipping[t] = n)
    /\ \A n \in Nodes, t, u \in Threads : Holds(t, n) /\ Holds(u, n) => t = u

\* A node that is in some place has no dependency outstanding, and goes
\* where the dependencies delivered to it say.
Decided ==
    /\ \A n \in Nodes :
        /\ n \in roots \/ queued[n] = 1 \/ state[n] # "Pending" => inDegree[n].low = 0
        /\ queued[n] = 1 \/ state[n] \in {"Executing", "Completed"} =>
              inDegree[n].up > 0 \/ n \in Roots
        /\ state[n] = "Skipped" => inDegree[n].up = 0 /\ n \notin Roots
    /\ \A n \in Nodes, t \in Threads :
        /\ inline[t] = n => inDegree[n].low = 0 /\ (inDegree[n].up > 0 \/ n \in Roots)
        /\ skipping[t] = n => inDegree[n].low = 0 /\ inDegree[n].up = 0 /\ n \notin Roots

Unfinished == {n \in Nodes : state[n] \notin Finished}
Unblocking == {t \in Threads : pc[t] = "unblock"}

\* m_pendingTasks counts the nodes to finish and the threads that have
\* finished one and not yet said so.
PendingCount ==
    running => pending = Cardinality(Unfinished) + Cardinality(Unblocking)

\* Between two runs nobody has anything to do with the graph.
Resting ==
    ~running => /\ roots = {}
                /\ \A n \in Nodes : queued[n] = 0
                /\ \A t \in Threads : pc[t] = "idle" /\ inline[t] = None

IInv == TypeOK /\ Counts /\ Deliveries /\ Placement /\ Decided /\ PendingCount /\ Resting
=============================================================================
