----------------------------- MODULE FifoQueue -----------------------------
(***************************************************************************)
(* What a bounded multi-producer multi-consumer queue promises: tasks      *)
(* leave in the order in which they entered, each once, and never more     *)
(* than Capacity are inside.                                               *)
(***************************************************************************)
EXTENDS Naturals, Sequences

CONSTANTS Items, Capacity

VARIABLE queue

Init == queue = <<>>

Enqueue == /\ Len(queue) < Capacity
           /\ \E x \in Items : queue' = Append(queue, x)

Dequeue == queue # <<>> /\ queue' = Tail(queue)

Spec == Init /\ [][Enqueue \/ Dequeue]_queue
=============================================================================
