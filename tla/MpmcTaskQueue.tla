--------------------------- MODULE MpmcTaskQueue ---------------------------
(***************************************************************************)
(* The bounded lock-free queue (class MpmcTaskQueue,                       *)
(* src/src/task_scheduler.cpp) behind the global injection queues and the  *)
(* IO queue.  A cell's sequence number says whose turn it is: pos for the  *)
(* producer that holds ticket pos, pos + 1 for the consumer of ticket pos, *)
(* pos + capacity for the producer of the next lap.                        *)
(*                                                                         *)
(* Every load, store and compare-and-swap of a shared field is a step.     *)
(* Positions are 64-bit in the code and do not wrap here.                  *)
(***************************************************************************)
EXTENDS Integers, Sequences, FiniteSets

CONSTANTS
    Threads,    \* threads that call tryEnqueue and tryDequeue
    CAPACITY,   \* m_capacity
    MaxTasks    \* bound: how many tasks are ever offered

\* The constructor rounds the capacity up to a power of two, 16 or more; a
\* single cell would not do: its "taken" and its "free" are the same number.
ASSUME QueueAssumption ==
    /\ CAPACITY \in Nat /\ CAPACITY > 1
    /\ MaxTasks \in Nat /\ IsFiniteSet(Threads)

Tasks == 1..MaxTasks
Null == 0
Cells == 0..CAPACITY-1

VARIABLES
    enqueuePos, \* m_enqueuePos
    dequeuePos, \* m_dequeuePos
    sequence,   \* Cell::sequence
    task,       \* Cell::task
    pc,         \* where a thread is inside tryEnqueue or tryDequeue
    pos,        \* its local pos
    arg,        \* the task it enqueues, or has dequeued
    offered,    \* how many tasks have been offered to tryEnqueue
    tickets     \* history: the task that won each enqueue position

vars == <<enqueuePos, dequeuePos, sequence, task, pc, pos, arg, offered, tickets>>

Cell(p) == p % CAPACITY

Init ==
    /\ enqueuePos = 0 /\ dequeuePos = 0
    /\ sequence = [c \in Cells |-> c]
    /\ task = [c \in Cells |-> Null]
    /\ pc = [t \in Threads |-> "idle"]
    /\ pos = [t \in Threads |-> 0]
    /\ arg = [t \in Threads |-> Null]
    /\ offered = 0
    /\ tickets = <<>>

Goto(t, label) == pc' = [pc EXCEPT ![t] = label]

Done(t) ==
    /\ Goto(t, "idle")
    /\ arg' = [arg EXCEPT ![t] = Null]
    /\ pos' = [pos EXCEPT ![t] = 0]

----------------------------------------------------------------------------
(* tryEnqueue                                                              *)

EnqStart(t) ==
    /\ pc[t] = "idle" /\ offered < MaxTasks
    /\ offered' = offered + 1
    /\ arg' = [arg EXCEPT ![t] = offered']
    /\ pos' = [pos EXCEPT ![t] = enqueuePos]
    /\ Goto(t, "enqSeq")
    /\ UNCHANGED <<enqueuePos, dequeuePos, sequence, task, tickets>>

\* The cell is free for ticket pos, still in use from the last lap (the
\* queue is full), or already taken by a faster producer.
EnqLoadSequence(t) ==
    LET seq == sequence[Cell(pos[t])]
    IN  /\ pc[t] = "enqSeq"
        /\ \/ seq = pos[t] /\ Goto(t, "enqCas") /\ UNCHANGED <<pos, arg>>
           \/ seq < pos[t] /\ Done(t)
           \/ seq > pos[t] /\ Goto(t, "enqReload") /\ UNCHANGED <<pos, arg>>
        /\ UNCHANGED <<enqueuePos, dequeuePos, sequence, task, offered, tickets>>

EnqReload(t) ==
    /\ pc[t] = "enqReload"
    /\ pos' = [pos EXCEPT ![t] = enqueuePos]
    /\ Goto(t, "enqSeq")
    /\ UNCHANGED <<enqueuePos, dequeuePos, sequence, task, arg, offered, tickets>>

\* Mutant: the compare-and-swap compares nothing.
EnqCasBlind(t) ==
    /\ pc[t] = "enqCas"
    /\ enqueuePos' = pos[t] + 1
    /\ tickets' = [k \in 1..pos[t] + 1 |-> IF k = pos[t] + 1 THEN arg[t] ELSE tickets[k]]
    /\ Goto(t, "enqWrite")
    /\ UNCHANGED <<dequeuePos, sequence, task, pos, arg, offered>>

\* The compare-and-swap is weak: it may fail though nobody interfered; a
\* failure loads the current position.
EnqCas(t) ==
    /\ pc[t] = "enqCas"
    /\ \/ /\ enqueuePos = pos[t]
          /\ enqueuePos' = enqueuePos + 1
          /\ tickets' = Append(tickets, arg[t])
          /\ Goto(t, "enqWrite")
          /\ UNCHANGED pos
       \/ /\ pos' = [pos EXCEPT ![t] = enqueuePos]
          /\ Goto(t, "enqSeq")
          /\ UNCHANGED <<enqueuePos, tickets>>
    /\ UNCHANGED <<dequeuePos, sequence, task, arg, offered>>

EnqWrite(t) ==
    /\ pc[t] = "enqWrite"
    /\ task' = [task EXCEPT ![Cell(pos[t])] = arg[t]]
    /\ Goto(t, "enqPublish")
    /\ UNCHANGED <<enqueuePos, dequeuePos, sequence, pos, arg, offered, tickets>>

\* Mutant: the cell is marked for the producer of the next ticket.
EnqPublishLate(t) ==
    /\ pc[t] = "enqPublish"
    /\ sequence' = [sequence EXCEPT ![Cell(pos[t])] = pos[t]]
    /\ Done(t)
    /\ UNCHANGED <<enqueuePos, dequeuePos, task, offered, tickets>>

EnqPublish(t) ==
    /\ pc[t] = "enqPublish"
    /\ sequence' = [sequence EXCEPT ![Cell(pos[t])] = pos[t] + 1]
    /\ Done(t)
    /\ UNCHANGED <<enqueuePos, dequeuePos, task, offered, tickets>>

----------------------------------------------------------------------------
(* tryDequeue                                                              *)

DeqStart(t) ==
    /\ pc[t] = "idle"
    /\ pos' = [pos EXCEPT ![t] = dequeuePos]
    /\ Goto(t, "deqSeq")
    /\ UNCHANGED <<enqueuePos, dequeuePos, sequence, task, arg, offered, tickets>>

\* The task of ticket pos is there, not there yet (the queue is empty or its
\* producer is late), or already taken by a faster consumer.
DeqLoadSequence(t) ==
    LET seq == sequence[Cell(pos[t])]
    IN  /\ pc[t] = "deqSeq"
        /\ \/ seq = pos[t] + 1 /\ Goto(t, "deqCas") /\ UNCHANGED <<pos, arg>>
           \/ seq < pos[t] + 1 /\ Done(t)
           \/ seq > pos[t] + 1 /\ Goto(t, "deqReload") /\ UNCHANGED <<pos, arg>>
        /\ UNCHANGED <<enqueuePos, dequeuePos, sequence, task, offered, tickets>>

DeqReload(t) ==
    /\ pc[t] = "deqReload"
    /\ pos' = [pos EXCEPT ![t] = dequeuePos]
    /\ Goto(t, "deqSeq")
    /\ UNCHANGED <<enqueuePos, dequeuePos, sequence, task, arg, offered, tickets>>

\* Mutant: the position is stored, not compared and swapped.
DeqCasBlind(t) ==
    /\ pc[t] = "deqCas"
    /\ dequeuePos' = pos[t] + 1
    /\ Goto(t, "deqRead")
    /\ UNCHANGED <<enqueuePos, sequence, task, pos, arg, offered, tickets>>

DeqCas(t) ==
    /\ pc[t] = "deqCas"
    /\ \/ /\ dequeuePos = pos[t]
          /\ dequeuePos' = dequeuePos + 1
          /\ Goto(t, "deqRead")
          /\ UNCHANGED pos
       \/ /\ pos' = [pos EXCEPT ![t] = dequeuePos]
          /\ Goto(t, "deqSeq")
          /\ UNCHANGED dequeuePos
    /\ UNCHANGED <<enqueuePos, sequence, task, arg, offered, tickets>>

DeqRead(t) ==
    /\ pc[t] = "deqRead"
    /\ arg' = [arg EXCEPT ![t] = task[Cell(pos[t])]]
    /\ task' = [task EXCEPT ![Cell(pos[t])] = Null]
    /\ Goto(t, "deqRelease")
    /\ UNCHANGED <<enqueuePos, dequeuePos, sequence, pos, offered, tickets>>

DeqRelease(t) ==
    /\ pc[t] = "deqRelease"
    /\ sequence' = [sequence EXCEPT ![Cell(pos[t])] = pos[t] + CAPACITY]
    /\ Done(t)
    /\ UNCHANGED <<enqueuePos, dequeuePos, task, offered, tickets>>

----------------------------------------------------------------------------
EnqStep(t) ==
    \/ EnqStart(t) \/ EnqLoadSequence(t) \/ EnqReload(t) \/ EnqCas(t)
    \/ EnqWrite(t) \/ EnqPublish(t)

DeqStep(t) ==
    \/ DeqStart(t) \/ DeqLoadSequence(t) \/ DeqReload(t) \/ DeqCas(t)
    \/ DeqRead(t) \/ DeqRelease(t)

Next == \E t \in Threads : EnqStep(t) \/ DeqStep(t)

Spec == Init /\ [][Next]_vars

----------------------------------------------------------------------------
(* Properties.                                                             *)

\* Threads between winning a ticket and giving the cell on.
Writing(t) == pc[t] \in {"enqWrite", "enqPublish"}
Reading(t) == pc[t] \in {"deqRead", "deqRelease"}

\* Cell::task is a plain field: a thread with a ticket in hand is alone at
\* its cell, whatever the laps, and the consumer with ticket p finds there
\* the task of the producer with ticket p, so tasks leave in ticket order and
\* each leaves once (tryEnqueue and tryDequeue).
TicketsMatch ==
    \A t \in Threads :
        /\ pc[t] = "deqRead" => task[Cell(pos[t])] = tickets[pos[t] + 1]
        /\ pc[t] = "deqRelease" => arg[t] = tickets[pos[t] + 1]
        /\ \A u \in Threads \ {t} :
              (Writing(t) \/ Reading(t)) /\ (Writing(u) \/ Reading(u)) =>
                  Cell(pos[t]) # Cell(pos[u])

\* tryEnqueue refuses a task only when the queue is full, or the consumer of
\* the previous lap is still busy with the very cell it needs; tryDequeue
\* reports an empty queue only when no task is ready at the position it looks
\* at: nothing enqueued there, or its producer not done.
RefusalsJustified ==
    \A t \in Threads :
        /\ pc[t] = "enqSeq" /\ sequence[Cell(pos[t])] < pos[t] =>
              \/ enqueuePos - dequeuePos = CAPACITY
              \/ \E u \in Threads : Reading(u) /\ pos[u] = pos[t] - CAPACITY
        /\ pc[t] = "deqSeq" /\ sequence[Cell(pos[t])] < pos[t] + 1 =>
              \/ enqueuePos <= pos[t]
              \/ \E u \in Threads : Writing(u) /\ pos[u] = pos[t]

\* The queue implements a bounded FIFO queue: enqueue and dequeue take
\* effect when their ticket is won.
Abstract == INSTANCE FifoQueue WITH
    Items <- Tasks, Capacity <- CAPACITY,
    queue <- SubSeq(tickets, dequeuePos + 1, enqueuePos)

ImplementsFifoQueue == Abstract!Spec
=============================================================================
