# LightFlow: a TLA+ model of the scheduler

LightFlow is a C++20 task-graph engine: an application builds a graph of tasks,
`TaskScheduler::runAndWait` executes it on a pool of worker and IO threads, and
tasks may wait for values of GPU timelines. This directory models the parts of
it whose correctness depends on how threads interleave, checks them with TLC
and proves, with TLAPS and for every size, what matters most of the graph, the two
queues, the routing of tasks, the worker pool, the reactor, the subflows and the
arenas. Paths below are relative to the repository
(`src/src/...` are the .cpp files, `src/include/lightflow/...` the headers).

## 1. Inventory

| Part | State it keeps | Operations | Hard behaviours | What makes it correct |
|---|---|---|---|---|
| **Task graph** (`task_graph.cpp`, `task_node.hpp`) | per node `inDegree` (two 16-bit counters in one word), `state`, the branch a condition chose; `m_pendingTasks` | `prepareRun`, `execute`, `unblockSuccessors`, `decrementActive`, `decrementSkipped`, `cascadeSkip`, `onTaskCompleted`, `addEdge` | predecessors of one node finish at the same time; a skip races with an active edge; loops re-arm nodes; the count reaches 0 while somebody still walks the graph | a node runs once, after its predecessors; it is skipped exactly when no edge into it is active; `isCompleted` means nobody touches the graph; a run ends |
| **Chase-Lev deque** (`chase_lev_deque.cpp`) | `m_top`, `m_bottom`, the ring buffer and the retired ones | `pushBottom`, `popBottom`, `stealTop`, `stealBatch`, `grow` | owner against thieves for the last task; batch claims taken back; slots reused after growth; index wrap | every task is taken once and none is lost; the owner takes the latest, thieves the oldest |
| **MPMC queue** (`task_scheduler.cpp`) | two positions, a sequence number and a task per cell | `tryEnqueue`, `tryDequeue` | producers and consumers of different laps at one cell | first in, first out; full and empty answers are right; a cell has one user |
| **Worker pool** (`task_scheduler.cpp`) | deques, global and IO queue, `m_wakeSignal`, `m_ioWakeSignal`, `m_sleepingCount`, `m_stop` | `schedule`, `notifyWorker`, `workerLoop`, `ioWorkerLoop`, `findWork`, `shutdown` | lost wake-ups; parking against scheduling; shutdown against everything | no sleeper beside work; what is scheduled runs; shutdown ends and drains |
| **Timeline reactor** (`timeline_reactor.cpp`) | a lock-free list of waits, a count, a timeout flag, `satisfied` per wait | `registerWait`, `notifyTimelineAdvanced`, `pollDevice`, `checkTimeouts`, `reset` | push, polls and watchdog race for one wait; timeouts race with late answers; several waits per task | a wait is resolved once; no task runs before its value, nor after a timeout has won one of its waits; a run returns even if the GPU hangs, and says so |
| **DualPriorityQueue** | two deques | `push`, `pop`, `steal`, `stealBatch` | a batch under way, stolen back by another thief | every task is in one place and runs |
| **MainThread queue** | a Treiber stack, a count | `pushMainThreadTask`, `drainMainThreadTasks` | pushes during a drain | submission order, nothing lost |
| **Subflow** (`subflow.hpp`) | child nodes, an exit node, `m_isDone` | `emplace`, `addEdge`, `splice`, `join`, `detach` | children run while the parent still splices; threads run tasks inside `join`; a graph with a subflow runs again | what follows a flow waits for everything inside it; the arenas are unused when the count reads 0; nobody waits for a task below on his own stack |
| **Graph construction** (`task_graph.hpp`, `task_graph.cpp`, `parallel_for.hpp`) | nodes, edges, wait nodes | `emplace*`, `addEdge`, `reaches`, `parallelFor`, `addWaitPoint`, `clear` | bounded loop search that depends on the order of the calls; waits added between runs | a run can finish every node; what is put after a handle waits for it; a range is partitioned without gap or overlap |
| **BlockPool, SlabArena** (`memory_pool.cpp`, `slab_arena.cpp`) | a tagged stack of slabs, chunks, a growth lock; a bump pointer | `acquire_slab`, `release_slab_chain`, growth; `allocate`, `reset` | ABA; two threads grow at once; failed allocations | a slab has one owner; counts match |
| **GPU submission** (`gpu_submission.hpp`, `vulkan_sync.hpp`) | arrays in an arena that the structures of a batch point to | `toVkSubmitInfo2`, `toVkSubmitInfo2Batch` | an arena that runs out half-way; stages without a Vulkan bit; two kinds of sync points in one array | what the driver reads is what was submitted, with stages that order something |
| **MoveOnlyTask, profiling, tools** | - | - | object lifetime | outside the model, see 8 |

How the parts interact: `runAndWait` calls `prepareRun`, which registers the
waits in the reactor and schedules the roots; the caller then helps
(`helpUntil`) by taking tasks like a worker and polling the reactor when it
finds none. A thread that executes a node delivers to its successors; whoever
delivers the last dependency schedules the node into its own deque (worker),
the global queue (external thread), the IO queue or the MainThread queue, or
keeps it in its thread-local inline slot. The reactor delivers dependencies in
the same way, from whichever thread resolves the wait. Threads share
`inDegree`, `m_pendingTasks`, the queues, the two futex words and the
reactor's list; there are no locks on these paths.

## 2. Modules

| Module | Models | Granularity |
|---|---|---|
| `TaskGraph` | execution of a fixed graph, run after run | one action per atomic read-modify-write of `inDegree` and `m_pendingTasks` and per hand-over of a node |
| `TaskGraphProof`, `ChaseLevDequeProof`, `MpmcTaskQueueProof`, `TaskRoutingProof`, `WorkerPoolProof`, `TimelineReactorProof`, `SubflowProof`, `SlabArenaProof` | theorems about the module of that name (section 6) | |
| `StealDeque` | what a work-stealing deque promises | one action per operation |
| `ChaseLevDeque` | the deque with single thieves; implements `StealDeque` | one action per access to `m_top`, `m_bottom`, `m_buffer` or a slot |
| `ChaseLevBatch` | `stealBatch` beside the operations of `ChaseLevDeque` | the same |
| `FifoQueue` | what a bounded queue promises | one action per operation |
| `MpmcTaskQueue` | the MPMC queue; implements `FifoQueue` | one action per access to a position, a sequence number or a cell |
| `FifoList` | what the MainThread queue promises: a list without a bound | one action per operation |
| `WorkerPool` | scheduling, parking, waking and shutdown | one action per access to a futex word, `m_sleepingCount`, `m_stop` or a queue; the queues are what `StealDeque` and `FifoQueue` promise, with the publication of a ticket as a step of its own |
| `TimelineReactor` | the reactor during `runAndWait` of one graph | one action per access to the list, the count, `satisfied` and the flag; executing a task is one step |
| `BlockPool` | the stack of slabs and its growth | one action per access to `m_head`, a link, `m_available_slabs` or `m_growth_lock` |
| `SlabArena` | one arena per thread over the shared pool; extends `BlockPool` | the steps of the pool, plus one action per call that stays inside the arena |
| `GraphBuild` | the calls that build a graph, with runs and `clear` in between | one action per call: the calls come from one thread |
| `Subflow` | flows inside a running graph, run after run | one action per step that another thread can see: taking a task, `splice`, each root it schedules, entering and leaving `join`, each dependency, the count |
| `TaskRouting` | which queue a task goes to and where threads look, both priorities, bounded queues, batch steals, the MainThread queue; implements `FifoList` for the latter | one action per queue operation of a call or a search; one per access to the MainThread list and its count |
| `GpuSubmit` | batches of submissions turned into Vulkan structures | one action per submission |
| `MCTaskGraph`, `MCWorkerPool`, `MCTimelineReactor`, `MCSlabArena`, `MCSubflow`, `MCTaskRouting`, `MCGpuSubmit` | the graphs, task trees, calls and requests of the runs | |

How the modules rest on one another: `ChaseLevDeque` and `MpmcTaskQueue` are
shown to implement `StealDeque` and `FifoQueue`, the MainThread queue of
`TaskRouting` to implement `FifoList`; `WorkerPool` and `TaskRouting`
use queues that do what the first two promise; `TaskGraph` and `Subflow` use a
scheduler that runs what it is given, which is what `ScheduledRuns` and
`AllTasksRun` say. One link is broken in the code: `TaskRouting` assumes that a
batch steal takes each task once, which `deque_batch_twice` refutes.

Abstractions that matter when reading a module against the code:

- **TaskGraph.** The graph is a constant, with edges as `addEdge` left them.
  `inDegree` is a record of its two halves; `AddFFFF` and `SubOne` are the two
  `fetch_add`/`fetch_sub` on them with carry and borrow; `HALF` is 2^16 in the
  code. The order in which a thread walks its successor list is left open. The
  reset of nodes in `prepareRun`, and of the cycle in a loop, are single steps:
  nobody else can reach those nodes then. The two searches that find the cycle hold
  `MAX_VISITED` and `MAX_CYCLE` nodes; `SearchAssumption` says that these are enough. Queues and deques are a count per node.
- **ChaseLevDeque.** Sequential consistency; indices modulo `WIDTH`, compared as
  plain numbers like the `u32` of the code. Tasks are numbered in push order.
  `Pops` says whether the owner pops, `MaxLive` bounds the tasks in the deque.
- **WorkerPool.** The priorities are one queue and the 258 scans before parking
  one. A batch steal is a claim of up to half of the victim's tasks, a push of each
  onto the thief's own deque, and a pop that may find them stolen in turn; the claim
  is one step (`TaskRouting` below). With `StoreBuffer` a relaxed load of `m_sleepingCount` may be
  satisfied before the release store that publishes a task is visible, as x86
  and ARM allow. The futex words grow without wrapping.
- **BlockPool, SlabArena.** The tag grows without wrapping (64 bits in the
  code); a weak CAS fails only when the values differ; slabs are numbered in
  address order. A chunk is partitioned in one step, before it is published.
  Blocks are given by offsets into their slab, but the end of a request is computed
  from the address of the slab, modulo `ADDRESSES` (2^64 in the code), where the code
  does so: a request whose end wraps is handed out wherever the wrapped end fits.
  `RequestsFit` is the assumption that there is none. An oversized block is memory of
  its own with a header in front. The size of a slab, of both headers and the
  smallest alignment are constants. The system may refuse any chunk. Alignments
  divide one another, as powers of two do. A block that is handed out is named by
  the number of the call that asked for it, so that two blocks of the same extent
  are two blocks.
- **GraphBuild.** Of a node, its type, its in-degree and the range of a chunk are
  kept. `ClientMayAdd` states what the code leaves to the application: an edge for
  which `addEdge` does not search, one without a branch that leaves a task, closes no
  cycle of dependencies. All other calls are allowed, in any order. A run is `prepareRun` and the end of
  `runAndWait`; what happens in between is `TaskGraph`. The graphs it builds are
  the constants of `TaskGraph`: `initialInDegree` there counts the edges that are
  not marked, which is what `RunCanComplete` rests on here.
- **Subflow.** What the callable of a flow builds is a constant, and so is whether
  it joins, detaches or returns. A thread is a stack of the tasks it is inside of:
  `join` calls `helpUntil`, which takes Worker tasks only and keeps one in the
  inline slot. Building and counting the children is one step, for nobody can
  reach them before a root is scheduled and the count cannot reach 0 before the
  parent is counted off. `runAndWaitReturns` resets the arenas: nodes of flows
  cease to exist. Branches and larger loops are in `TaskGraph`; of conditions only
  those that repeat themselves are kept, because a loop edge decides whether a
  child is a sink.
- **TaskRouting.** A worker parks in one step when it has found nothing and there
  is nothing (the details are in `WorkerPool`); IO threads do not park. `Calls`
  says what each external thread and each task schedules; several tasks in one call
  are a `scheduleBatch`. Every task is scheduled by one call, once
  (`CallsAssumption`), for the graph releases a node once; a task scheduled in
  every iteration of a loop stands for several tasks here. A thread in `helpUntil` waits for the tasks `Awaited`.
- **GpuSubmit.** A stage mask is a set of bit numbers, a cell of memory holds one
  structure, a handle is a number below `PTR`. The arena hands out `CAPACITY`
  cells; memory goes on behind them so that an overrun would be seen.
- **TimelineReactor.** Time is a counter of ticks; a walk reads it once, as
  `checkTimeouts` does. The GPU may advance at any time and need not. Setting
  `satisfied` back, linking the node and counting it are three steps, and so are
  looking at a wait and claiming it: a thread other than the caller may still be on
  its way through the waits of the last run when the next one registers them, as
  workers poll too (`task_scheduler.cpp:449`). Such a thread may take a wait that is
  being armed for expired, because `registeredTime` is still the old one, and
  `m_pendingCount` may pass through a value below 0. `expired` remembers which waits
  a timeout has won in this run.

## 3. Runs

Passing runs:

| Run | Question | Bounds and why they are enough |
|---|---|---|
| `graph` | branches that join, skips that cascade, nested and bypassed loops, in all three domains; termination | nine nodes, thirteen edges, four threads, two answers per condition; unbounded runs and iterations (re-arming the nodes keeps the state space finite) |
| `deque_steal` | single thieves: safety and refinement of `StealDeque` | two thieves, five tasks, first ring of two slots, so it grows twice |
| `mpmc` | queue: safety and refinement of `FifoQueue` | three threads, each may produce and consume, two cells, four tasks: two laps |
| `pool_park` | parking against scheduling, spawning and batch steals, and shutdown at any moment, while workers steal from one another; liveness | two workers, one producer, a task that spawns two: one inline, one to steal |
| `pool_shutdown` | IO parking, a load of `m_sleepingCount` that passes the publication of a task, and the end of shutdown | one worker, one IO thread, a store buffer, a task that spawns three, one of them for IO |
| `slab_arena` | two arenas on one pool: ABA, growth by two threads, refused memory, returned chains | one thread makes one call and may stall anywhere in it, the other makes four; two slabs, then a chunk of three; four calls are enough for a slab to be taken, returned and taken again; requests that fill a slab, need padding, or are oversized |
| `graph_build` | building a graph and running it | six calls, six nodes: a loop around a `parallelFor`, two loops in one another, a wait and a second run; every order of the calls; batches with and without a shorter last chunk |
| `reactor_race` | push, poll and watchdog over repeated runs | two waits, values 1 and 2, one tick of the clock is the timeout, four tasks |
| `subflow` | nested flows of all three modes, helping inside `join`, run after run | three threads, five flows nested two deep, ten nodes; two joined flows, so that two threads can be inside `join` at once, with an IO task and a repeated one below |
| `routing` | placement, search, batch steals and the MainThread queue together | two workers, an IO thread, the main thread that helps and drains; eight tasks, queues of one place, so they fill up, batches of two, so that a batch can be stolen back; the count wraps at 4 |
| `gpu_submit` | batches of submissions | a submission of every mix of descriptors, points and stages, alone or before one of a few others; eleven cells, so the arena runs out half-way through the largest batches |

A graph, a deque operation or a walk over the list is short, and every hazard
in `PROJECT.json` involves at most three threads and two tasks; the bounds leave
one more of each where the state space allows. Deadlock is checked except for
the worker pool, the routing, the arenas and the submissions, which rest when
everything has run or every call has been made.

One run must be refuted; the sentence of the repository it refutes is under
`findings` in `PROJECT.json`.

- `deque_batch_twice` (`ChaseLevBatch` with one batch thief, four tasks, batches of
  two): `stealBatch` reads `m_top` and `m_bottom`; the owner pops two slots without a
  CAS, for `m_top` has not moved yet; the batch CAS moves it over the second of them;
  the owner's next push finds `m_bottom` below `m_top` and raises it, so that the
  recheck finds nothing missing; and both return the task of that slot.
Four more configurations are kept beside the runs, to be started by hand:

- `MCWorkerPool_relaxed.cfg` (a store buffer, one worker, one producer and one task)
  refutes `NoSleepOnWork`: the relaxed load of `m_sleepingCount`
  (`task_scheduler.cpp:230`) is satisfied before the task is visible, and the worker
  parks beside a task nobody tells it of, although `task_scheduler.hpp:122` says
  "Wakes up sleeping workers to handle newly scheduled work". It does not hang a
  `runAndWait`, whose caller helps; it delays tasks of threads that do not help.
  `OnlyLateMissed` says what holds all the same;
- `GraphBuild_order.cfg` (three nodes) refutes `PrecedesUnlessCycle`: whether an edge
  is a loop-back edge depends on the order of the calls, which no document mentions.
  `reaches` follows loop-back edges too, so that an edge of a condition which closes
  no cycle of dependencies is marked when a loop lies behind it
  (`task_graph.cpp:315`), and its target does not wait, although `task_handle.hpp:96`
  says "Declares that this task must complete before other starts";
- `MCWorkerPool_late.cfg` checks `OnlyLateMissed` and `ShutdownDrainsDeques` with two
  workers, a store buffer and a task that spawns two more beside another task
  (about five million states);
- `MCTimelineReactor_watchdogs.cfg` checks the safety properties of the reactor with
  a second thread that polls and looks for timeouts, late for the next run.

Further disagreements between the code and its documentation that modelling
brought up, and that have no run of their own:

- two waits of one task that both time out count it off twice
  (`task_graph.cpp:269`), and `runAndWait` never returns, although
  `docs/api/gpu-timeline.md:35` says the watchdog prevents "the entire engine from
  deadlocking" (`RunReturns` of `TimelineReactor` with one task, two waits for the
  value 1 and `Device = FALSE`);
- `handleGpuTimeout` counts a task off before it skips its successors
  (`task_graph.cpp:269-281`). If a successor waits itself and has timed out too, the
  run can end and the next `prepareRun` set its in-degree again while the thread that
  polled the first timeout has still to take a dependency from it: the task then
  runs before its value is reached (`RunsAfterSignal` with two pollers and two tasks
  behind one another that both wait, workers poll too: `task_scheduler.cpp:449`). It
  came up as the step of the proof that fails without `WaitsApart`;
- a flow of the graph itself that is neither joined nor detached gives its
  successors to its exit node (`subflow.hpp:198`), which dies with the run: the
  next run never reaches them (`RunReturns` of `Subflow` with a flow J of mode
  async, a child and a successor);
- a child of a flow whose only successor is its own loop is not a sink
  (`subflow.hpp:204`): what follows the flow starts while it still runs, although
  `docs/api/task-graph.md:117` says successors "will not unblock until all tasks
  inside the subflow complete" (`ChildrenFirst` with a repeater beside another
  child). A flow whose children all loop has an exit node that nobody releases;
- the exit node has the domain of the parent (`subflow.hpp:184`), and a thread in
  `join` serves Worker tasks only: a flow of the IO domain that joins on the only
  IO thread, or one of the MainThread domain, waits for ever (`RunReturns` with
  J in the IO domain and mode join);
- tasks emplaced in a flow after `splice`, that is after `join`, are never
  scheduled nor counted (`subflow.hpp:166`);
- an edge between handles of children comes from the arena of the graph
  (`task_graph.hpp:540`), which no lock protects, although several workers may be
  building flows at once;
- a wait that a thread of the last run still visits may be taken for expired in the
  next one, while `prepareRun` arms it: `registeredTime` is still that of the last run
  (`task_graph.cpp:374-375`), and a run that would have succeeded returns `GpuTimeout`;
- `scheduleBatch`, which only applications call, spins on a full injection queue
  without waking anybody (`task_scheduler.cpp:268`), unlike `schedule`: a batch larger
  than the queue (4096 tasks of high priority), from an external thread and with every
  worker parked, never ends (`AllTasksRun` with one worker, no helper, `QUEUE = 1` and
  one call with three Worker tasks);
- an IO task that schedules more IO tasks than `m_ioQueue` has room for spins for
  ever when it runs on the only IO thread (`task_scheduler.cpp:210`; `AllTasksRun`
  with one IO thread, `IOQUEUE = 1` and an IO task that makes two calls with one);
- `stealBatch` reads a slot after it has claimed it, when the owner may have
  reused it: it then returns a task that is returned again later, and the claimed
  one is gone, although `chase_lev_deque.hpp:58` says "Stolen tasks are copied
  into the destination span in FIFO order" (`TakenOnce` of `ChaseLevBatch` with
  `Thieves = Batchers = {q, r}`, `CAPACITY = 2`, `BATCH = 1`, `Pops = FALSE`);
- `shutdown` leaves the global queue as it is (`task_scheduler.cpp:481`), although
  `docs/api/scheduler.md:109` says "Safely drains and joins all worker and IO
  threads upon destruction"; `ShutdownDrainsDeques` is what holds;
- `m_available_slabs` is updated after the CAS that takes or returns a slab, so
  that `available_slabs()` may be off by the operations under way, and may even
  read 2^64 - 1; `AvailableExact` says by how much;
- a loop edge that is added before the body of its loop is not marked, for it closes
  no cycle yet; the edge of the body that closes it must then come from a condition or
  a branch, or the graph has a cycle of dependencies that `addEdge` does not look for
  and no run ends (`RunCanComplete` without `ClientMayAdd`);
- an edge that leaves a task with a branch (`t.to(0)`) is searched for and may be
  marked, but a task delivers along all its edges, the marked ones included: such a
  node gets one dependency more than it counts;
- the search stops at 128 nodes; in a build without assertions a loop with a
  larger body never ends (`RunCanComplete` with `MAX_VISITED = 2`); the re-arming of
  a loop likewise stops at 64 nodes (`task_graph.cpp:126`, `MAX_CYCLE`);
- `allocate` computes the end of a block in `uintptr_t` (`slab_arena.cpp:99`): for a
  size near 2^64 it wraps, the test passes, the bump pointer moves back and the next
  block overlaps an earlier one (`BlocksDisjoint` without `RequestsFit`; the oversized
  path wraps too, `slab_arena.cpp:150`);
- `count + batchSize - 1` in `parallelFor` wraps for a batch size near 2^64, and
  no chunk is created (`ParallelForComplete` with `USIZE = 6`);
- a wait added after a graph has run is not in the graph's list: the first run
  after it may get its signal, every later one waits for it in vain
  (`RunCanComplete` without its premise `lateWaits = 0`);
- the rollback of `stealBatch` (`chase_lev_deque.cpp:193`) is a plain store: it
  moves `m_top` back, which `chase_lev_deque.hpp:71` calls "strictly monotonic";
  with one batch thief it strands no task (`QuietNothingLost` holds in
  `ChaseLevBatch` with five tasks), with two it overwrites the claim of the other
  and a task is stranded (`Thieves = Batchers = {q, r}`);
- the `u32` indices of the deque are compared as plain numbers, so that after
  2^32 pushes a deque with tasks passes for empty (`EmptyMeansNothingLeft` with
  a `WIDTH` smaller than `MaxTasks`);
- nothing keeps the in-degree of a node below 2^16; with 65537 predecessors the
  first delivery releases the node (`PredecessorsFirst` with `HALF` smaller than
  an in-degree; the theorems assume `DegreesFit`);
- `registerWait` links a wait before it counts it, and a push in between returns
  at once, although `timeline_reactor.hpp:43` promises "unblocking all eligible
  tasks"; a poll or the watchdog resolves the wait later;
- a timeout of 0, "0 = infinite" in `docs/api/gpu-timeline.md:52`, expires at the
  first look.

## 4. Properties

- *TaskGraph*: `PredecessorsFirst`, `ReleasedOnce`, `CompletedIsQuiescent`,
  `SkippedIffNoActiveEdge`, `FinishedStaysFinished` (action property),
  `RunTerminates` (liveness).
- *ChaseLevDeque*: `TakenOnce` (refuted for `ChaseLevBatch`),
  `EmptyMeansNothingLeft`, `QuietNothingLost`, `ImplementsStealDeque` (refinement:
  `items` is the set of tasks nobody has received).
- *MpmcTaskQueue*: `TicketsMatch`, `RefusalsJustified`, `ImplementsFifoQueue`
  (refinement: `queue` is the part of the ticket history between the two
  positions).
- *WorkerPool*: `NoSleepOnWork` (without a store buffer), `OnlyLateMissed`,
  `NoIOSleepOnWork`, `ShutdownDrainsDeques`, `ScheduledRuns` and
  `ShutdownTerminates` (liveness).
- *Subflow*: `ChildrenFirst`, `ArenasUnused`, `RunsOnce`, `RunReturns` (liveness).
- *TaskRouting*: `NothingLost`, `MainCountExact`, `ImplementsMainQueue`
  (refinement: `list` is what a drain has still to execute, then the stack
  reversed), `AllTasksRun` (liveness, if `StealingEnds`).
- *GpuSubmit*: `BatchExact`.
- *SlabArena*: `OneOwner`, `AvailableExact`, `BlocksDisjoint`, `CallsReturn`
  (liveness).
- *GraphBuild*: `RunCanComplete`, `ParallelForComplete`, `PrecedesUnlessCycle`
  (refuted, outside the runs).
- *TimelineReactor*: `RunsAfterSignal`, `CompletedMeansDone`, `TimeoutReported`,
  `CountsWaits`, `RunReturns` (liveness; fails for a task with two waits).

Every property of a passing run has a mutant in `PROJECT.json`: a variant of one
definition, kept next to it in the module, that a plausible slip in the code
would produce and that violates the property.

## 5. Fairness

- Weak fairness of every thread's next step: threads are OS threads that no
  part of the code suspends, except in the futex waits, which the models
  represent explicitly (a parked thread has no step).
- `TaskGraph`: strong fairness of a condition leaving its loop. The code has no
  bound on iterations; a condition that loops for ever never ends a run, so
  `RunTerminates` is stated for conditions that eventually answer otherwise.
- `TimelineReactor`: time passes, and the caller polls while it has nothing else
  to do (`helpUntil`). Nothing is assumed of the GPU, of the push notification
  or of other pollers.
- `WorkerPool`: stores become visible eventually.
- `SlabArena`: a thread inside a call goes on; no thread has to make another call.
- `Subflow`: strong fairness of a repeater leaving its loop, as for `TaskGraph`.
- `TaskRouting`: strong fairness of the drain, because the application comes back
  to its main-thread tasks whatever it does between. Two idle workers may for ever
  steal one task back from each other in the gap between a batch steal and the pop
  that follows it (`task_scheduler.cpp:547-549`), which no fairness excludes here:
  `AllTasksRun` is stated for behaviours in which this ends (`StealingEnds`). In the
  code it ends because such a scan reports no task, and a worker that has had 259 of
  them in a row parks; `WorkerPool` has these scans, and its `ScheduledRuns` needs no
  such premise.

## 6. What is proved

Every theorem is about the specification the runs check, for every value of its
constants that satisfies the named assumptions: `GraphAssumption`,
`SearchAssumption`, `LoopAssumption`, `ThreadAssumption` and `HalfAssumption` of `TaskGraph`,
`DequeAssumption`, `QueueAssumption`, `PoolAssumption` of `WorkerPool` and of
`BlockPool`, `ReactorAssumption`, `SubflowAssumption`, `ArenaAssumption`,
`RoutingAssumption` and `CallsAssumption`. They say that sets of tasks, nodes and
threads are finite or apart where the code has it so, that capacities are positive,
that alignments divide one another and that a task is scheduled once; TLC evaluates
them in the runs `graph`, `deque_steal`, `mpmc`, `subflow`, `slab_arena`, `routing`
and those of the pool and the reactor. A theorem with a further hypothesis says so:
`DegreesFit`, `NoWrap`, `OneWait`, `WaitsApart`, `RequestsFit` and `RepeatersGoOn` exclude cases in which the code breaks the property (section 3),
`Acyclic` (of `TaskGraph` and of `Subflow`) graphs that the invariant does not
describe.

| Module | Theorem | Property | Hypothesis |
|---|---|---|---|
| `TaskGraphProof` | `TypeCorrect` | `TypeOK` | |
| | `PredecessorsFirstHolds`, `ReleasedOnceHolds`, `CompletedIsQuiescentHolds`, `SkipsAreExact`, `FinishedStaysFinishedHolds` | `PredecessorsFirst`, `ReleasedOnce`, `CompletedIsQuiescent`, `SkippedIffNoActiveEdge`, `FinishedStaysFinished` | `Acyclic`, `DegreesFit` |
| `MpmcTaskQueueProof` | `TicketsCorrect`, `RefusalsCorrect`, `QueueRefinesFifo` | `TicketsMatch`, `RefusalsJustified`, `ImplementsFifoQueue` | |
| `ChaseLevDequeProof` | `TasksTakenOnce`, `EmptyIsEmpty`, `NothingStranded`, `DequeRefinesStealDeque` | `TakenOnce`, `EmptyMeansNothingLeft`, `QuietNothingLost`, `ImplementsStealDeque` | `NoWrap` |
| `WorkerPoolProof` | `ShutdownLeavesNothing`, `IOThreadsWoken`, `WorkersWoken` | `ShutdownDrainsDeques`, `NoIOSleepOnWork`, `OnlyLateMissed` | |
| `TimelineReactorProof` | `NoRunBeforeSignal`, `TimeoutsReported`, `CompletedIsDone`, `WaitsCounted` | `RunsAfterSignal`, `TimeoutReported`, `CompletedMeansDone`, `CountsWaits` | `OneWait`, `WaitsApart` |
| `SubflowProof` | `NodesRunOnce`, `ArenasFree` | `RunsOnce`, `ArenasUnused` | |
| | `ChildrenRunFirst` | `ChildrenFirst` | `Acyclic`, `RepeatersGoOn` |
| `SlabArenaProof` | `OneOwnerHolds`, `AvailableExactHolds` | `OneOwner`, `AvailableExact` | |
| | `BlocksDisjointHolds` | `BlocksDisjoint` | `RequestsFit` |
| `TaskRoutingProof` | `MainCountHolds`, `MainQueueIsFifo`, `TasksAreKept` | `MainCountExact`, `ImplementsMainQueue`, `NothingLost` | |

None of these properties is inductive. Each module states an inductive invariant
`IInv`, a conjunction of named parts, which TLC has checked on the instance of the
run before it was proved; there is a lemma per action.

### Task graph

For every finite graph, any set of threads and any width of the counters:

- `TypeCorrect`: `Spec => []TypeOK`, for every graph, loops included;
- `Inductive`: `Spec => []IInv` if the graph has no loop-back edge (`Acyclic`)
  and every in-degree fits one half of the counter (`DegreesFit`);
- from it `PredecessorsFirstHolds`, `ReleasedOnceHolds`,
  `CompletedIsQuiescentHolds` and `SkipsAreExact`, and the action property
  `FinishedStaysFinishedHolds`: only a pending node is ever taken or skipped.

None of them is inductive. What keeps them true is that the two halves of
`inDegree` are exact, and that in turn needs to know which deliveries are under
way. `IInv` says:

- `Counts`: the lower half is the number of edges whose delivery is still owed
  (the source has not finished, or the thread that finished it has not come to
  the edge), the upper half the number of active edges delivered;
- `Deliveries`: what is on a thread's lists is delivered the right way and by
  nobody else;
- `Placement`: a node is in one place (root list, queue, inline slot, thread,
  cascade), and `state` says which;
- `Decided`: a node that is somewhere has nothing owed to it, and goes to a
  queue or to a skip as the upper half says;
- `PendingCount`: `m_pendingTasks` is the number of unfinished nodes plus the
  threads between finishing a node and saying so;
- `Resting`: between runs nobody holds anything.

The proof has a lemma per action. The two `decrement` actions rest on
`DeliveredSets` and `DeliveredCounts` (a delivery moves one edge out of the owed
set, and into the active set if it is active), the release of a node on
`ZeroMeansDelivered` and `UpperMeansActive`. `Acyclic` is needed because a loop
re-arms nodes whose predecessors have finished, which `Counts` does not
describe; `DegreesFit` because without it the counters are not exact.

### MPMC queue

A ticket is the position its producer or consumer won. `IInv` says which tickets
exist (`Positions`), that a cell between the two positions holds its task or has a
producer at work (`Filled`), that any other cell is free or has a consumer of the
lap before at work (`Free`), what a thread between its CAS and its publication owns
(`Writers`, `Readers`), and that a thread on its way to the CAS holds a position of
the past, and the sequence number it saw still stands if the CAS will succeed
(`Seekers`). The argument rests on two lemmas on remainders: tickets less than a lap
apart have different cells, tickets of one cell differ by whole laps. A CAS that
succeeds proves that the position is still the one whose cell was inspected, and
`Seekers` that the cell has not changed hands. Two cells are needed
(`CAPACITY > 1`): with one, a full cell and a cell of the next lap have the same
sequence number. The refinement maps `queue` to the tickets between the two
positions: the two CAS are the steps of the abstract queue, everything else a
stutter.

### Chase-Lev deque

`NoWrap` (fewer pushes than the indices have values) is needed because indices are
compared as plain numbers. `IInv`: `Indices` orders `m_top` and `m_bottom`, the one
of a pop under way included, and bounds the tasks by the ring; `Contents` says that
the tasks nobody has received are those between `m_top` and `End` (`m_bottom`, or
one more while a pop is undecided), in the order of their pushes; `Handed` that none
was handed out twice; `Thieving` that a thief's copies are of the past and that, if
its CAS will succeed, the ring it loaded, though it may be retired, has the same
task at `m_top` as the present one. In the refinement `items` is the set of tasks
nobody has received: a thief's step is its CAS, the owner's push the store that
publishes it, its pop the second load of `m_top`, which finds more than one task, or
else its CAS.

### Worker pool

`IInv`: `m_sleepingCount` counts the workers that announced themselves (`Counted`),
a blocked thread waits with a signal of the past (`Parking`), only a worker puts
anything in its own deque and it parks or exits only after finding it empty
(`Carried`), after `shutdown` everybody has left (`Closed`), and while there is a
ticket in the IO queue an IO thread is awake or someone will wake one (`IOAwake`).
`OnlyLateMissed` needs two more parts. A task is late if its thread looked at
`m_sleepingCount` before it was published; without a store buffer none is, and
`OnlyLateMissed` then implies `NoSleepOnWork`. `Owed`: a ticket that is not published
and not late has a thread that will notify. `Awake`: while a task that is not late is
at the head of the global queue someone will raise the signal or a worker does not
hold the present one. That a worker whose batch was stolen from it scans to the end
without looking at the global queue again is why `Fresh` covers those steps too.

### Timeline reactor

`IInv` follows a wait from its registration to its resolution: who is on which node
(`OnNode`), that the waits of former runs are resolved until they are armed again
(`OldResolved`, `Arming`), that a thread that claimed a wait is the only one that owes
its dependency or its skips (`Carried`, `Skipping`), that an in-degree is the number
of open waits and edges (`Degrees`), what `state` and the queue say of a task
(`States`), that `m_pendingTasks` counts the unfinished ones (`Tally`), that what was
delivered was reached and not lost to a timeout (`Reached`), that the flag is up from
the first timeout on (`Flagged`), and what the list and its count hold (`Listed`). `OneWait` (no task has two waits) and
`WaitsApart` (no task that waits is behind another in the graph) exclude the two
failures of `handleGpuTimeout` described in section 3.

### Subflows

For any nesting of flows of the three modes, any edges and any number of threads.
`IInv`: a node is executed in one frame, and only one frame tells its successors
(`Executed`); one that waits to be executed is in one place (`Placed`); the count of
a node covers the dependencies it is owed and is 0 once it is given out (`Degrees`);
the nodes of a flow exist from its splice to the end of the run (`Exists`, `Fresh`);
`m_pendingTasks` is the number of nodes not started plus the frames on all stacks (`Tally`); between runs all is empty
(`Resting`). `Degrees` says that a count is at least what is owed, not equal to
it: the second run of a graph with an asynchronous flow at the top waits for what
the exit node of the first was given (section 3), and a node that never starts does
not run twice. The steps that matter are `splice`, which moves the successors of
the parent to the exit node and adds the children while other threads run, and
`join`, which puts a second frame on a stack.

`ChildrenRunFirst` needs more than `IInv`: who will tell a node that it may go on.
The *messenger* of a flow that splices its children asynchronously is its exit node,
of every other node the node itself. `Order` says: a node is on the successor list of
the messenger of something it comes after, or of a flow that has not spliced yet
(`Lists`); only messengers tell anybody (`Tells`); the count of a node covers every
node it comes after that is not over or whose messenger has still to tell it
(`Waits`); and a joined flow goes on only after its exit node has run (`Joined`).
A node that is released has a count of 0, so that all it comes after is over; the
exit node comes after the sinks among the children. That every child is then over
rests on `Acyclic` (loop-back edges apart, in any set of nodes one leads to none of
the set): among the children that are not over one is followed by none of these,
it is a sink, and the exit node has waited for it. `RepeatersGoOn` says that a
repeater inside a flow has something behind it; without it the repeater would not be
a sink of the flow, and the code lets the flow end while it runs (section 3). TLC
evaluates both on the graph of the run `subflow`.

### Arenas

For any number of threads, slabs, chunks and calls, any sizes and alignments.
The stack and the chains are linked lists in shared memory. Instead of sequences the
invariant speaks of places and ranks: `IInv` says that every slab can be given a
place (on the stack, in the arena, the hand or the unpublished chunk of a thread, or
not asked for yet) and a rank there, such that a chain has each rank from 1 to its
length once and every link leads to the slab one rank lower (`IsChain`). A step
changes few places and ranks, and `Shape` says that heads, tails, counts and links
follow them. `Tags` is the argument against ABA: a tag read earlier is not above the
present one, and if the head still is what a thread saw, the link it read still
stands. `Counted` is `AvailableExact` with the length of the stack, and `Blocks` says
that blocks lie in the slabs of their arena, below the bump pointer in the current
one, and apart from each other, all of it only if `RequestsFit`. The proof showed that an earlier `BlocksDisjoint`
did not compare all pairs of blocks, because two of them could have one name; calls
are numbered since.

### Routing

For any threads, queues, batch sizes and calls. The count and the refinement rest on
`IInv`: types, what a thread has in hand by where it is in its call (`LabelInv`), that
only a drain under way holds tasks (`DrainInv`), and `MainCountExact`. A push enters
the list with the CAS of the head, a drain that takes the stack and reverses it changes
nothing, and a task leaves when the drain executes it.

`TasksAreKept` needs `PlacesInv`: every task is in exactly one of the places of a
thread, a queue or the histories (`OnePlace`; a task whose caller has not started is
`Unborn`), no list holds it twice (`NoRepeats`), and what a thread has in hand fits
where it is (`PhaseInv`). Each step takes a set of tasks from one place and puts it,
whole, into one other, which the lemmas `Transfer` turn into `OnePlace`; the start of a
task also moves what it will schedule from `Unborn` to its thread. Only `NothingLost`
counts, and it follows from `OnePlace` and `NoRepeats`. Like the run, the theorem
takes from the deques that a batch steal moves what it claims, which
`deque_batch_twice` refutes for the code: what is proved is that nothing else loses a
task.

## 7. What is only model-checked

- all liveness: fairness, `ENABLED` and leads-to are out of TLAPS's reach here;
- `RunCanComplete` of `GraphBuild`: reachability and a bounded search are inductions
  over paths, which the provers do not have;
- `ParallelForComplete` (the loop over the chunks is an induction over data) and
  `BatchExact` (what a batch does is a fold over its submissions);
- graphs with loops, except their types;
- `ChaseLevBatch`, whose run is refuted, and what the configurations of section 3 refute.

## 8. What is not modelled

- `MoveOnlyTask`, handles, callables and their destruction: C++ object lifetime.
- Of the Vulkan layer: queue family indices, `toTimelineHandle`, the overloads
  that take storage of the caller, and the driver itself.
- Thread names, affinity, Tracy zones, benchmarks, tools, scripts.
- The construction of the pool and the moves of graphs, arenas and pools.
- Notifications that a wide fan-out coalesces every 64 tasks.
- Memory orders weaker than sequential consistency, except the one relaxed
  load that `StoreBuffer` stands for.
- For now: see the plan.

## 9. Plan

Order: what every run of the engine depends on comes first.

1. Done: `TaskGraph`, `ChaseLevDeque`, `MpmcTaskQueue`, `WorkerPool`,
   `TimelineReactor`, and the proof of `TaskGraph`.
2. Done: `BlockPool` with `SlabArena` over it, and `GraphBuild`. Left of them: the
   global pool (a singleton made on first use) and the destruction of a pool.
3. Done: `Subflow`; `TaskRouting` with `scheduleBatch`, bounded queues, the two
   priorities and the MainThread queue; `GpuSubmit`.
4. Left: two graphs with one reactor; a graph that is cleared after `runAndWait`
   while a walker is still in the list of waits.
5. Done: the proofs of section 6, which state every safety property of the runs
   except the three of `GraphBuild` and `GpuSubmit`. Left: `ParallelForComplete` and
   `BatchExact`, and the safety of `TaskGraph` with loops.
