---------------------------- MODULE MCWorkerPool ----------------------------
(***************************************************************************)
(* Small instances of WorkerPool: task a makes b, c and the IO task io     *)
(* ready; io makes the Worker task d ready.                                *)
(***************************************************************************)
EXTENDS WorkerPool

TreeChildren == [x \in Tasks |->
    CASE x = "a" -> {"b", "c", "io"} \cap Tasks
      [] x = "io" -> {"d"} \cap Tasks
      [] OTHER -> {}]

Root == [p \in Producers |-> {"a"}]
Pair == [p \in Producers |-> {"a", "e"}]
=============================================================================
