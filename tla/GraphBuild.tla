---------------------------- MODULE GraphBuild ----------------------------
(***************************************************************************)
(* How an application builds a TaskGraph (src/include/lightflow/task/      *)
(* task_graph.hpp, task_handle.hpp, src/src/task_graph.cpp): tasks and     *)
(* conditions, parallelFor, edges between handles, waits for GPU           *)
(* timelines, and runs in between.  The calls come from one thread, and    *)
(* each is one step.  Nodes are numbered from 1 in the order of their ids; *)
(* names, domains, priorities and callables are left out, of a callable of *)
(* parallelFor the range it is given is kept.                              *)
(*                                                                         *)
(* TaskGraph takes a graph as its constant; this module says which graphs  *)
(* those are, and what a run can make of them.                             *)
(***************************************************************************)
EXTENDS Integers, Sequences, FiniteSets, SequencesExt

CONSTANTS
    MAX_VISITED,    \* how many nodes reaches can hold, 128 in the code
    USIZE,          \* 2^64 in the code: usize arithmetic is modulo USIZE
    Counts,         \* the counts parallelFor is called with
    BatchSizes,     \* and the batch sizes
    MaxNodes,       \* bound: the nodes of a graph
    MaxCalls        \* bound: the calls that build a graph, until it is cleared

ASSUME BuildAssumption ==
    /\ MAX_VISITED \in Nat \ {0} /\ USIZE \in Nat \ {0}
    /\ Counts \subseteq 0..USIZE-1 /\ BatchSizes \subseteq 0..USIZE-1
    /\ MaxNodes \in Nat /\ MaxCalls \in Nat

VARIABLES
    nodes,          \* by id: TaskNode::type, initialInDegree and the range of a chunk
    listed,         \* the list from m_firstNode along nextInGraph
    successors,     \* by id: TaskNode::successors, first edge first
    handles,        \* the handles the application holds
    waitNodes,      \* the list from m_firstWaitNode: the tasks that wait
    reactor,        \* the tasks of the waits registered in the reactor
    scheduler,      \* m_scheduler # nullptr
    running,        \* runAndWait is between prepareRun and its end
    lateWaits,      \* history: how many waits were added after a first run
    calls           \* bound: the calls that built the graph so far

vars == <<nodes, listed, successors, handles, waitNodes, reactor, scheduler,
          running, lateWaits, calls>>

m_nodeCount == Len(nodes)
Ids == 1..m_nodeCount

NoRange == [start |-> 0, end |-> 0]
Node(type, range) == [type |-> type, range |-> range, initialInDegree |-> 0]

\* A ParallelForHandle; any other TaskHandle has a single node and no chunks.
Handle(entry, exit, count, chunks) ==
    [entry |-> entry, exit |-> exit, count |-> count, chunks |-> chunks]

Edge(target, branch, loop) == [target |-> target, branch |-> branch, isLoopBack |-> loop]

Init ==
    /\ nodes = <<>> /\ listed = <<>> /\ successors = <<>>
    /\ handles = {} /\ waitNodes = <<>> /\ reactor = <<>>
    /\ scheduler = FALSE /\ running = FALSE /\ lateWaits = 0 /\ calls = 0

----------------------------------------------------------------------------
(* The search of addEdge.                                                  *)

Targets(succs, n) == [i \in DOMAIN succs[n] |-> succs[n][i].target]

\* queue and visited always hold the same nodes; a node that does not fit
\* is dropped (LF_ASSERT stops a debug build there).
Visit(queue, n) ==
    IF n \in ToSet(queue) \/ Len(queue) >= MAX_VISITED THEN queue ELSE Append(queue, n)

\* Mutant: the search ends with the successors of its start.
reachesOneStep(succs, start, target) ==
    start = target \/ target \in ToSet(Targets(succs, start))

\* The queue after each round, when nothing ends the search early; a round
\* that finds the target among the successors of its node ends it.
reaches(succs, start, target) ==
    LET queue[head \in 0..MAX_VISITED] ==
            IF head = 0 THEN <<start>>
            ELSE LET q == queue[head - 1]
                 IN  IF head > Len(q) THEN q ELSE FoldLeft(Visit, q, Targets(succs, q[head]))
        dequeued == ToSet(queue[MAX_VISITED])
    IN  start = target \/ \E n \in dequeued : target \in ToSet(Targets(succs, n))

----------------------------------------------------------------------------
(* Nodes and edges of a graph under construction, g.                       *)

graph == [nodes |-> nodes, listed |-> listed, successors |-> successors]

createNode(g, node) ==
    [g EXCEPT !.nodes = Append(@, node), !.successors = Append(@, <<>>)]

appendNode(g, n) == [g EXCEPT !.listed = Append(@, n)]

\* The edge is linked first, then the search begins.
addEdge(g, from, to, branch) ==
    LET linked == [g.successors EXCEPT ![from] = <<Edge(to, branch, FALSE)>> \o @]
        isLoop == /\ g.nodes[from].type = "Condition" \/ branch >= 0
                  /\ reaches(linked, to, from)
    IN  [g EXCEPT !.successors = [linked EXCEPT ![from][1].isLoopBack = isLoop],
                  !.nodes[to].initialInDegree = IF isLoop THEN @ ELSE @ + 1]

Build(g) ==
    /\ nodes' = g.nodes
    /\ listed' = g.listed
    /\ successors' = g.successors

\* The application builds while the graph does not run.
MayBuild == ~running /\ calls < MaxCalls /\ calls' = calls + 1

----------------------------------------------------------------------------
(* emplace, emplaceCondition and parallelFor.                              *)

EmplaceNode(type) ==
    /\ MayBuild /\ m_nodeCount < MaxNodes
    /\ LET n == m_nodeCount + 1
       IN  /\ Build(appendNode(createNode(graph, Node(type, NoRange)), n))
           /\ handles' = handles \cup {Handle(n, n, 0, {})}
    /\ UNCHANGED <<waitNodes, reactor, scheduler, running, lateWaits>>

emplace == EmplaceNode("Static")
emplaceCondition == EmplaceNode("Condition")

\* Mutant: the last, shorter chunk is forgotten.
numChunksFloor(count, batchSize) == count \div batchSize

numChunks(count, batchSize) == ((count + batchSize - 1) % USIZE) \div batchSize

\* The range of chunk number c.
ChunkRange(count, batchSize, c) ==
    LET start == (c * batchSize) % USIZE
        stop == (start + batchSize) % USIZE
    IN  [start |-> start, end |-> IF count < stop THEN count ELSE stop]

\* One node: an empty range, or a single chunk.
SingleChunk(count, chunks) ==
    LET n == m_nodeCount + 1
        node == Node("ParallelForChunk", [start |-> 0, end |-> count])
    IN  /\ m_nodeCount < MaxNodes
        /\ Build(appendNode(createNode(graph, node), n))
        /\ handles' = handles \cup {Handle(n, n, count, IF chunks = 0 THEN {} ELSE {n})}

\* An entry, the chunks and a barrier; the barrier is created before the
\* chunks and listed after them.
ForkJoin(count, batchSize, chunks) ==
    LET entry == m_nodeCount + 1
        join == m_nodeCount + 2
        AddChunk(g, c) ==
            LET node == Node("ParallelForChunk", ChunkRange(count, batchSize, c))
                n == Len(g.nodes) + 1
                chunk == appendNode(createNode(g, node), n)
            IN  addEdge(addEdge(chunk, entry, n, -1), n, join, -1)
        ends == createNode(appendNode(createNode(graph, Node("Static", NoRange)), entry),
                           Node("Static", NoRange))
    IN  /\ m_nodeCount + 2 + chunks <= MaxNodes
        /\ Build(appendNode(FoldLeft(AddChunk, ends, [c \in 1..chunks |-> c - 1]), join))
        /\ handles' = handles \cup {Handle(entry, join, count, join+1..join+chunks)}

\* The overload for ByChunk (parallelForChunks) builds the same nodes and
\* gives the callable the number of the chunk instead of its range.
parallelFor(count, batchArgument) ==
    LET batchSize == IF batchArgument = 0 THEN 1 ELSE batchArgument
        chunks == IF count = 0 THEN 0 ELSE numChunks(count, batchSize)
    IN  /\ MayBuild
        /\ IF count = 0 \/ chunks = 1
           THEN SingleChunk(count, chunks)
           ELSE ForkJoin(count, batchSize, chunks)
        /\ UNCHANGED <<waitNodes, reactor, scheduler, running, lateWaits>>

----------------------------------------------------------------------------
(* Edges between handles.                                                  *)

\* The edges along which a node waits for another.
ForwardEdges ==
    UNION {{<<n, e.target>> : e \in {d \in ToSet(successors[n]) : ~d.isLoopBack}} : n \in Ids}

\* Whether forward edges lead from m to n, or the two are the same.
ForwardPath(m, n) ==
    LET within[steps \in 0..m_nodeCount] ==
            IF steps = 0 THEN {m}
            ELSE LET S == within[steps - 1]
                 IN  S \cup {e[2] : e \in {d \in ForwardEdges : d[1] \in S}}
    IN  n \in within[m_nodeCount]

\* What the code asks of the application without saying so: an edge for
\* which addEdge does not search, from a task and without a branch, closes no
\* cycle of dependencies.
ClientMayAdd(from, to, branch) ==
    nodes[from].type # "Condition" /\ branch = -1 => ~ForwardPath(to, from)

AddEdgeBetween(h, other, branch) ==
    /\ MayBuild
    /\ ClientMayAdd(h.exit, other.entry, branch)
    /\ Build(addEdge(graph, h.exit, other.entry, branch))
    /\ UNCHANGED <<handles, waitNodes, reactor, scheduler, running, lateWaits>>

\* TaskHandle::precede: h >> other.
precede(h, other) == AddEdgeBetween(h, other, -1)

\* BranchHandle::precede: h.to(branch) >> other, on a handle of any kind.
branchPrecede(h, branch, other) == AddEdgeBetween(h, other, branch)

----------------------------------------------------------------------------
(* Waits, runs and clear.                                                  *)

\* TaskHandle::waits.  Once the graph has run, the wait goes to the reactor
\* at once and not into the list of the graph.
addWaitPoint(h) ==
    /\ MayBuild
    /\ nodes' = [nodes EXCEPT ![h.entry].initialInDegree = @ + 1]
    /\ IF scheduler
       THEN /\ reactor' = <<h.entry>> \o reactor
            /\ lateWaits' = lateWaits + 1
            /\ UNCHANGED waitNodes
       ELSE /\ waitNodes' = <<h.entry>> \o waitNodes
            /\ UNCHANGED <<reactor, lateWaits>>
    /\ UNCHANGED <<listed, successors, handles, scheduler, running>>

\* runAndWait up to helpUntil; an empty graph registers nothing.
prepareRun ==
    /\ ~running
    /\ scheduler' = TRUE /\ running' = TRUE
    /\ reactor' = IF m_nodeCount = 0 THEN reactor ELSE Reverse(waitNodes) \o reactor
    /\ UNCHANGED <<nodes, listed, successors, handles, waitNodes, lateWaits, calls>>

\* runAndWait after helpUntil: the reactor is emptied.
runAndWaitEnds ==
    /\ running
    /\ running' = FALSE /\ reactor' = <<>>
    /\ UNCHANGED <<nodes, listed, successors, handles, waitNodes, scheduler, lateWaits, calls>>

\* The application drops its handles: their nodes are gone.  It does not
\* clear a graph between a late addWaitPoint and the next run, as nothing
\* would take the wait, which lies in the cleared arena, out of the reactor.
clear ==
    /\ ~running /\ reactor = <<>>
    /\ nodes' = <<>> /\ listed' = <<>> /\ successors' = <<>> /\ handles' = {}
    /\ waitNodes' = <<>> /\ scheduler' = FALSE /\ lateWaits' = 0 /\ calls' = 0
    /\ UNCHANGED <<reactor, running>>

Next ==
    \/ emplace
    \/ emplaceCondition
    \/ \E count \in Counts, batchSize \in BatchSizes : parallelFor(count, batchSize)
    \/ \E h, other \in handles : precede(h, other)
    \/ \E h, other \in handles : branchPrecede(h, 0, other)
    \/ \E h \in handles : addWaitPoint(h)
    \/ prepareRun
    \/ runAndWaitEnds
    \/ clear

Spec == Init /\ [][Next]_vars

----------------------------------------------------------------------------
(* Properties.                                                             *)

Count(s, x) == Cardinality({i \in DOMAIN s : s[i] = x})

\* The dependencies of n that a run delivers if the nodes of S finish: one
\* for each edge, except the loop-back edges of conditions, and one for each
\* registered wait.  A task delivers along all its edges.
Deliverable(S, n) ==
    LET MaxDegree == FoldLeft(LAMBDA m, s : IF Len(s) > m THEN Len(s) ELSE m, 0, successors)
        edges == {<<m, i>> \in S \X (1..MaxDegree) :
                     /\ i \in DOMAIN successors[m]
                     /\ successors[m][i].target = n
                     /\ successors[m][i].isLoopBack => nodes[m].type # "Condition"}
    IN  Cardinality(edges) + Count(reactor, n)

\* The nodes that finish: prepareRun resets those on its list, and a node
\* is released when as many dependencies have been delivered as
\* initialInDegree says; what is delivered after that changes nothing.
Finishing ==
    LET after[k \in 0..m_nodeCount] ==
            IF k = 0 THEN {}
            ELSE LET S == after[k - 1]
                 IN  S \cup {n \in ToSet(listed) : nodes[n].initialInDegree <= Deliverable(S, n)}
    IN  after[m_nodeCount]

\* A run of a graph built by calls that ClientMayAdd allows, of fewer nodes
\* than reaches can hold, finishes all m_nodeCount nodes that prepareRun puts
\* into m_pendingTasks, if every callable and the GPU do their part: no cycle
\* is left without a loop-back edge, no node is off the list and every
\* dependency counted by addEdge and addWaitPoint is delivered.  Waits added
\* after a first run are excepted: the next run but one waits for them in
\* vain.
RunCanComplete == running /\ lateWaits = 0 => Finishing = Ids

\* TaskHandle::precede "Declares that this task must complete before other
\* starts" (task_handle.hpp:96): what is put after a handle waits for it,
\* unless it lies before it, where that would be a cycle.
PrecedesUnlessCycle ==
    \A n \in Ids : \A i \in DOMAIN successors[n] :
        LET e == successors[n][i]
        IN  e.branch = -1 => ForwardPath(n, e.target) \/ ForwardPath(e.target, n)

\* parallelFor gives every index of [0, count) to exactly one chunk, no chunk
\* is empty, and what is put after the handle comes after all of them.
ParallelForComplete ==
    \A h \in {g \in handles : g.count > 0} :
        /\ \A i \in 0..h.count-1 :
              \E c \in h.chunks :
                 /\ nodes[c].range.start <= i /\ i < nodes[c].range.end
                 /\ \A d \in h.chunks \ {c} : nodes[d].range.end <= i \/ i < nodes[d].range.start
        /\ \A c \in h.chunks : /\ nodes[c].range.start < nodes[c].range.end
                               /\ ForwardPath(h.entry, c) /\ ForwardPath(c, h.exit)
=============================================================================
