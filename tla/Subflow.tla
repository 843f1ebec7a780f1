------------------------------ MODULE Subflow ------------------------------
(***************************************************************************)
(* Subflows (src/include/lightflow/task/subflow.hpp): a node whose         *)
(* callable builds a child graph while the graph runs.  Subflow::splice    *)
(* closes the child graph with an exit node, hands the successors of the   *)
(* parent to that node, counts the new tasks and schedules their roots;    *)
(* Subflow::join makes the thread help (TaskScheduler::helpUntil) until    *)
(* the exit node has run, so that a thread executes tasks inside a task.   *)
(*                                                                         *)
(* What the callables build is a constant.  A subflow may hold subflows.   *)
(* Condition nodes matter here only for the loops they close: a repeater   *)
(* is a condition with a loop-back edge to itself.  Choosing between       *)
(* branches, skipping and larger cycles are the subject of TaskGraph.      *)
(***************************************************************************)
EXTENDS Integers, FiniteSets, SequencesExt

CONSTANTS
    Nodes,      \* the nodes that TaskGraph and Subflow emplace
    Flows,      \* those of TaskType::Subflow
    Repeaters,  \* conditions that may choose to run themselves again
    Parent,     \* the flow that emplaces a node, None for a node of the graph
    Edges,      \* pairs of nodes, loop-back edges apart
    Mode,       \* what the callable of a flow asks for: async, join or detach
    Exit,       \* the exit node of a flow
    Domain,     \* TaskNode::domain of the nodes
    Threads,
    Caller,     \* the thread inside runAndWait
    Serves,     \* the domain whose tasks a thread takes when it is in no task
    Inlines,    \* the threads whose t_canInlineTask is set outside helpUntil
    None

Exits == {Exit[p] : p \in Flows}
All == Nodes \cup Exits
Top == {n \in Nodes : Parent[n] = None}
Children(p) == {n \in Nodes : Parent[n] = p}

ASSUME SubflowAssumption ==
    /\ IsFiniteSet(Nodes)
    /\ Flows \subseteq Nodes /\ Repeaters \subseteq Nodes \ Flows
    /\ Exits \cap Nodes = {}
    /\ None \notin All /\ None \notin {"Pending", "Executing", "Completed"}
    /\ Parent \in [Nodes -> Flows \cup {None}]
    /\ Edges \subseteq Nodes \X Nodes /\ \A e \in Edges : Parent[e[1]] = Parent[e[2]]
    /\ \A p, q \in Flows : Exit[p] = Exit[q] => p = q
    /\ Mode \in [Flows -> {"async", "join", "detach"}]
    /\ Caller \in Threads

VARIABLES
    running,
    pending,    \* m_pendingTasks
    successors, \* TaskNode::successors, loop-back edges apart
    inDegree,
    state,      \* TaskNode::state, None while the node does not exist
    queued,     \* how often a node sits in some queue
    inline,     \* t_nextInlineTask
    stack,      \* the tasks a thread is inside of, innermost last
    isDone      \* Subflow::m_isDone

vars == <<running, pending, successors, inDegree, state, queued, inline, stack,
          isDone>>

UserSuccessors(n) == {m \in Nodes : <<n, m>> \in Edges}

\* Loop-back edges apart, a graph has no cycle: in any set of nodes one leads
\* to none of the set.
Acyclic == \A S \in SUBSET Nodes : S # {} => \E n \in S : UserSuccessors(n) \cap S = {}

\* Inside a flow, something comes after a repeater: it would not be a sink.
RepeatersGoOn == \A n \in Repeaters : Parent[n] # None => UserSuccessors(n) # {}

initialInDegree(n) == Cardinality({m \in Nodes : <<m, n>> \in Edges})
Roots(S) == {n \in S : initialInDegree(n) = 0}
FlowOf(x) == CHOOSE p \in Flows : Exit[p] = x
DomainOf(n) == IF n \in Exits THEN Domain[FlowOf(n)] ELSE Domain[n]

Init ==
    /\ running = FALSE /\ pending = 0
    /\ successors = [n \in All |-> IF n \in Top THEN UserSuccessors(n) ELSE {}]
    /\ inDegree = [n \in All |-> 0]
    /\ state = [n \in All |-> IF n \in Top THEN "Pending" ELSE None]
    /\ queued = [n \in All |-> 0]
    /\ inline = [t \in Threads |-> None]
    /\ stack = [t \in Threads |-> <<>>]
    /\ isDone = [p \in Flows |-> FALSE]

----------------------------------------------------------------------------
(* The caller.                                                             *)

\* prepareRun resets the nodes of the graph, and no others, and schedules
\* the roots.
prepareRun ==
    /\ ~running
    /\ running' = TRUE
    /\ pending' = Cardinality(Top)
    /\ inDegree' = [n \in All |-> IF n \in Top THEN initialInDegree(n) ELSE inDegree[n]]
    /\ state' = [n \in All |-> IF n \in Top THEN "Pending" ELSE state[n]]
    /\ queued' = [n \in All |-> queued[n] + IF n \in Roots(Top) THEN 1 ELSE 0]
    /\ UNCHANGED <<successors, inline, stack, isDone>>

\* helpUntil sees isCompleted; runAndWait then resets the worker arenas,
\* where the nodes of the subflows are.
runAndWaitReturns ==
    /\ running /\ pending = 0
    /\ stack[Caller] = <<>> /\ inline[Caller] = None
    /\ running' = FALSE
    /\ state' = [n \in All |-> IF n \in Top THEN state[n] ELSE None]
    /\ successors' = [n \in All |-> IF n \in Top THEN successors[n] ELSE {}]
    /\ UNCHANGED <<pending, inDegree, queued, inline, stack, isDone>>

----------------------------------------------------------------------------
(* The threads.                                                            *)

Innermost(t) == Last(stack[t])
Busy(t, pc) == stack[t] # <<>> /\ Innermost(t).pc = pc
Helping(t) == Busy(t, "join")
Replace(t, pc, todo) ==
    stack' = [stack EXCEPT ![t] = Append(Front(@), [Last(@) EXCEPT !.pc = pc, !.todo = todo])]

\* Subflow::isCompleted, the predicate that join waits for.
isCompleted(p) == isDone[p]

\* TaskNode::execute up to the callable, inside whatever t is doing.
StartExecute(t, n) ==
    /\ stack' = [stack EXCEPT ![t] = Append(@, [node |-> n, pc |-> "execute", todo |-> {}])]
    /\ state' = [state EXCEPT ![n] = "Executing"]

\* t finds n in a queue.  Inside join it is in helpUntil, where findWork and
\* findWorkExternal look at the tasks of the Worker domain only.
TakeQueued(t, n) ==
    /\ inline[t] = None /\ queued[n] > 0
    /\ \/ /\ stack[t] = <<>> /\ DomainOf(n) = Serves[t]
          /\ t = Caller => running /\ pending # 0
       \/ Helping(t) /\ ~isCompleted(Innermost(t).node) /\ DomainOf(n) = "Worker"
    /\ queued' = [queued EXCEPT ![n] = @ - 1]
    /\ StartExecute(t, n)
    /\ UNCHANGED <<running, pending, successors, inDegree, inline, isDone>>

\* The continuation loop, of the worker or of helpUntil.
TakeInline(t) ==
    /\ inline[t] # None /\ (stack[t] = <<>> \/ Helping(t))
    /\ inline' = [inline EXCEPT ![t] = None]
    /\ StartExecute(t, inline[t])
    /\ UNCHANGED <<running, pending, successors, inDegree, queued, isDone>>

\* Mutant: the exit node of the flows that are not joined sets m_isDone.
TellsAsync(n, p) == n = Exit[p] /\ Mode[p] # "join"

\* The callable of n sets m_isDone of p: n is the exit node of a joined flow.
TellsJoin(n, p) == n = Exit[p] /\ Mode[p] = "join"

\* The callable of a plain node, or of an exit node, returns.
ExecuteStatic(t) ==
    LET n == Innermost(t).node
    IN  /\ Busy(t, "execute") /\ n \notin Flows
        /\ state' = [state EXCEPT ![n] = "Completed"]
        /\ isDone' = [p \in Flows |-> isDone[p] \/ TellsJoin(n, p)]
        /\ Replace(t, "unblock", successors[n])
        /\ UNCHANGED <<running, pending, successors, inDegree, queued, inline>>

\* A repeater chooses its loop-back edge: it is counted and scheduled again.
ExecuteRepeat(t) ==
    LET n == Innermost(t).node
    IN  /\ Busy(t, "execute") /\ n \in Repeaters
        /\ state' = [state EXCEPT ![n] = "Pending"]
        /\ pending' = pending + 1
        /\ queued' = [queued EXCEPT ![n] = @ + 1]
        /\ Replace(t, "unblock", {})
        /\ UNCHANGED <<running, successors, inDegree, inline, isDone>>

\* The exit node splice creates: none for a detached flow.
ExitsOf(p) == IF Mode[p] = "detach" THEN {} ELSE {Exit[p]}

\* Mutant: only one sink is connected to the exit node.
OneSink(p) == {CHOOSE k \in Children(p) : UserSuccessors(k) = {}}

\* The children splice connects to the exit node: their successor list,
\* loop-back edges included, is empty.
Sinks(p) == {k \in Children(p) : UserSuccessors(k) = {} /\ k \notin Repeaters}

\* Mutant: the exit node is not counted.
CountedChildren(p) == Cardinality(Children(p))

\* What splice adds to m_pendingTasks.
Counted(p) == Cardinality(Children(p)) + Cardinality(ExitsOf(p))

\* The successors of n once p is spliced: those of an asynchronous flow are
\* moved to its exit node.
SplicedSuccessors(p, n) ==
    CASE n \in Children(p) -> IF n \in Sinks(p) THEN ExitsOf(p) ELSE UserSuccessors(n)
      [] n \in ExitsOf(p)  -> IF Mode[p] = "async" THEN successors[p] ELSE {}
      [] n = p             -> IF Mode[p] = "async" THEN {} ELSE successors[p]
      [] OTHER             -> successors[n]

\* The callable of flow p: it emplaces the children of p and their edges,
\* and splice adds the exit node, connects it and counts the new tasks.  No
\* other thread reaches the new nodes before a root is scheduled, and the
\* count is above 0 as long as p itself is counted, so all this is one step.
splice(t) ==
    LET p == Innermost(t).node
        new == Children(p) \cup ExitsOf(p)
    IN  /\ Busy(t, "execute") /\ p \in Flows /\ Children(p) # {}
        /\ state' = [n \in All |-> IF n \in new THEN "Pending" ELSE state[n]]
        /\ successors' = [n \in All |-> SplicedSuccessors(p, n)]
        /\ inDegree' = [n \in All |-> IF n \in Children(p) THEN initialInDegree(n)
                                      ELSE IF n \in new THEN Cardinality(Sinks(p))
                                      ELSE inDegree[n]]
        /\ isDone' = [isDone EXCEPT ![p] = Mode[p] = "detach"]
        /\ pending' = pending + Counted(p)
        /\ Replace(t, "dispatch", Roots(Children(p)))
        /\ UNCHANGED <<running, queued, inline>>

\* splice schedules a root of the child graph.
DispatchRoot(t, n) ==
    /\ Busy(t, "dispatch") /\ n \in Innermost(t).todo
    /\ queued' = [queued EXCEPT ![n] = @ + 1]
    /\ Replace(t, "dispatch", Innermost(t).todo \ {n})
    /\ UNCHANGED <<running, pending, successors, inDegree, state, inline, isDone>>

\* splice returns to join, which enters helpUntil.
join(t) ==
    /\ Busy(t, "dispatch") /\ Innermost(t).todo = {} /\ Mode[Innermost(t).node] = "join"
    /\ Replace(t, "join", {})
    /\ UNCHANGED <<running, pending, successors, inDegree, state, queued, inline,
                   isDone>>

\* The callable of a flow returns: after splice, after join has seen isDone
\* (helpUntil tests it between two tasks), or at once when it built nothing.
\* The Subflow object dies with the callable.
FlowReturns(t) ==
    LET p == Innermost(t).node
    IN  /\ \/ Busy(t, "dispatch") /\ Innermost(t).todo = {} /\ Mode[p] # "join"
           \/ Helping(t) /\ inline[t] = None /\ isCompleted(p)
           \/ Busy(t, "execute") /\ p \in Flows /\ Children(p) = {}
        /\ state' = [state EXCEPT ![p] = "Completed"]
        /\ isDone' = [isDone EXCEPT ![p] = FALSE]
        /\ Replace(t, "unblock", successors[p])
        /\ UNCHANGED <<running, pending, successors, inDegree, queued, inline>>

\* helpUntil lets its thread keep a task inline until it returns.
CanInline(t) == t \in Inlines \/ \E i \in 1..Len(stack[t]) : stack[t][i].pc = "join"

\* Mutant: a task that is kept inline is scheduled as well.
QueuedAnyway(wins, keeps) == wins

\* A task that is ready, and not kept inline, is scheduled.
GoesToQueue(wins, keeps) == wins /\ ~keeps

\* unblockSuccessors delivers one dependency.
Unblock(t, n) ==
    LET wins == inDegree[n] = 1
        keeps == CanInline(t) /\ inline[t] = None /\ DomainOf(n) = "Worker"
    IN  /\ Busy(t, "unblock") /\ n \in Innermost(t).todo
        /\ inDegree' = [inDegree EXCEPT ![n] = @ - 1]
        /\ inline' = IF wins /\ keeps THEN [inline EXCEPT ![t] = n] ELSE inline
        /\ queued' = IF GoesToQueue(wins, keeps) THEN [queued EXCEPT ![n] = @ + 1] ELSE queued
        /\ Replace(t, "unblock", Innermost(t).todo \ {n})
        /\ UNCHANGED <<running, pending, successors, state, isDone>>

onTaskCompleted(t) ==
    /\ Busy(t, "unblock") /\ Innermost(t).todo = {}
    /\ pending' = pending - 1
    /\ stack' = [stack EXCEPT ![t] = Front(@)]
    /\ UNCHANGED <<running, successors, inDegree, state, queued, inline, isDone>>

ThreadStep(t) ==
    \/ \E n \in All : TakeQueued(t, n) \/ DispatchRoot(t, n) \/ Unblock(t, n)
    \/ TakeInline(t) \/ ExecuteStatic(t) \/ ExecuteRepeat(t)
    \/ splice(t) \/ join(t) \/ FlowReturns(t) \/ onTaskCompleted(t)

Next == prepareRun \/ runAndWaitReturns \/ \E t \in Threads : ThreadStep(t)

Spec == Init /\ [][Next]_vars

\* Every thread goes on (a thread of the pool that may take a task is woken
\* for it: see WorkerPool), the caller returns when it can, and a repeater
\* that is asked again and again stops in the end.
FairSpec ==
    /\ Spec /\ WF_vars(runAndWaitReturns)
    /\ \A t \in Threads : WF_vars(ThreadStep(t))
    /\ \A n \in Repeaters :
          SF_vars(\E t \in Threads : ExecuteStatic(t) /\ Innermost(t).node = n)

----------------------------------------------------------------------------
(* Properties.                                                             *)

\* The frames, of any thread, of the execution of n.
Frames(n) == {f \in Threads \X (1..Cardinality(Flows) + 1) :
                 f[2] <= Len(stack[f[1]]) /\ stack[f[1]][f[2]].node = n}

\* n has been handed to the scheduler.
Released(n) ==
    \/ queued[n] > 0 \/ \E t \in Threads : inline[t] = n
    \/ state[n] \in {"Executing", "Completed"}

\* The user's code of n has returned, and so has that of the tasks inside n
\* unless they are detached.  An asynchronous flow may still be in splice,
\* scheduling its last root, when its exit node has already run.
Over(n) ==
    IF n \in Flows /\ Mode[n] = "async" /\ Children(n) # {}
    THEN state[Exit[n]] = "Completed" ELSE state[n] = "Completed"

\* The exit node of a flow, its successors, and what comes after its join,
\* run only after every task inside the flow, nested flows included, however
\* the successors travel from a parent to its exit node and from a nested
\* flow to an exit node of its own (subflow.hpp, splice and join).
ChildrenFirst ==
    \A p \in Flows : running /\ Mode[p] # "detach" =>
        \/ \A n \in Children(p) : Over(n)
        \/ /\ \A n \in UserSuccessors(p) \cup {Exit[p]} : ~Released(n)
           /\ Mode[p] = "join" => state[p] # "Completed"

\* When m_pendingTasks reads 0 no task of a subflow, detached ones and exit
\* nodes included, is anywhere, nor is a thread inside a task: runAndWait
\* may reset the arenas these nodes live in (splice's fetch_add, and
\* resetWorkerArenas in task_scheduler.cpp).
ArenasUnused ==
    pending = 0 =>
        /\ \A n \in All : queued[n] = 0 /\ state[n] \in {"Completed", None} \cup
                                 (IF running THEN {} ELSE {"Pending"})
        /\ \A t \in Threads : stack[t] = <<>> /\ inline[t] = None

\* The places of the frames of t in the stacks s; a frame executes its node,
\* or it has something to tell its successors, n among them.
Depth(s, t) == 1 .. Len(s[t])
Active(t, i) == stack[t][i].pc # "unblock"
Telling(t, i) == stack[t][i].pc = "unblock" /\ stack[t][i].todo # {}
ToTell(t, i, n) == stack[t][i].pc = "unblock" /\ n \in stack[t][i].todo

\* The nodes that n still waits for.
Owed(n) ==
    {m \in All : \/ n \in successors[m] /\ state[m] \in {"Pending", "Executing"}
                 \/ \E t \in Threads : \E i \in Depth(stack, t) :
                       ToTell(t, i, n) /\ stack[t][i].node = m}

\* A node is released and runs once in a run, helping inside itself
\* included: it is in one queue, slot or frame, and still Pending on its way
\* there; one frame only tells its successors; its count never falls below
\* the dependencies it is owed, so that the last of them releases it; and a
\* node that has started is owed nothing more (splice, unblockSuccessors).
RunsOnce ==
    \A n \in All :
        /\ Cardinality({f \in Frames(n) : Active(f[1], f[2])}) + queued[n]
              + Cardinality({t \in Threads : inline[t] = n}) <= 1
        /\ queued[n] > 0 \/ (\E t \in Threads : inline[t] = n) => state[n] = "Pending"
        /\ Cardinality({f \in Frames(n) : Telling(f[1], f[2])}) <= 1
        /\ running /\ state[n] # None => Cardinality(Owed(n)) <= inDegree[n]
        /\ running /\ state[n] \in {"Executing", "Completed"} => inDegree[n] = 0

\* Every run ends: threads that help inside join, nested in one another,
\* never wait for what only they could run (helpUntil in join).
RunReturns == running ~> ~running
=============================================================================
