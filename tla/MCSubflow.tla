----------------------------- MODULE MCSubflow -----------------------------
(* An instance of Subflow for TLC.  Flow J joins its children: the          *)
(* asynchronous flow N, b after it, and the detached flow D.  N runs x,     *)
(* which may repeat itself, and then y, a task for the IO thread.  Flow K   *)
(* joins k.  The flow d, which builds nothing, comes after J.               *)
EXTENDS Subflow

ParentsFrom(f) == [n \in Nodes |-> IF n \in DOMAIN f THEN f[n] ELSE None]

NestParent == ParentsFrom([N |-> "J", b |-> "J", D |-> "J", x |-> "N", y |-> "N",
                           e |-> "D", k |-> "K"])
NestEdges == {<<"J", "d">>, <<"N", "b">>, <<"x", "y">>}
NestMode == [J |-> "join", N |-> "async", D |-> "detach", K |-> "join", d |-> "async"]
NestDomain == [n \in Nodes |-> IF n = "y" THEN "IO" ELSE "Worker"]

\* What ChildrenFirst rests on: the graph has this shape.
ASSUME GraphShape == Acyclic /\ RepeatersGoOn

MCExit == [p \in Flows |-> "exit of " \o p]
MCServes == [t \in Threads |-> IF t = "io" THEN "IO" ELSE "Worker"]
=============================================================================
