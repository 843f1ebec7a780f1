---------------------------- MODULE MCTaskGraph ----------------------------
(***************************************************************************)
(* A graph for TaskGraph; an edge is <<source, target, branch, loop>>.      *)
(***************************************************************************)
EXTENDS TaskGraph

MCSource == [e \in Edges |-> e[1]]
MCTarget == [e \in Edges |-> e[2]]
MCBranch == [e \in Edges |-> e[3]]
MCLoopBack == [e \in Edges |-> e[4]]

\* The caller of runAndWait and a pool worker serve the Worker queues, an IO
\* thread the IO queue, and another thread drains the MainThread queue.
MCThreads == {"main", "worker", "io", "drainer"}
MCServes == [t \in Threads |-> CASE t = "io" -> {"IO"}
                                 [] t = "drainer" -> {"MainThread"}
                                 [] OTHER -> {"Worker"}]
MCInlines == Threads \ {"io", "drainer"}

\* A loop that condition p enters at h (0) or leaves aside for y (1).  Its
\* body runs b beside the self-looping condition s; condition c closes it
\* (0) or leaves it (1).  Condition d runs beside all this; c and d decide
\* about m, and j joins m, y and d.
GraphNodes == {"p", "h", "b", "s", "c", "y", "d", "m", "j"}
GraphEdges == {<<"p", "h", 0, FALSE>>, <<"p", "y", 1, FALSE>>,
               <<"h", "b", -1, FALSE>>, <<"h", "s", -1, FALSE>>,
               <<"s", "s", 0, TRUE>>, <<"s", "c", 1, FALSE>>,
               <<"b", "c", -1, FALSE>>, <<"c", "h", 0, TRUE>>,
               <<"c", "m", 1, FALSE>>, <<"d", "m", 0, FALSE>>,
               <<"d", "j", 1, FALSE>>, <<"m", "j", -1, FALSE>>,
               <<"y", "j", -1, FALSE>>}
GraphConditions == {"p", "s", "c", "d"}
GraphDomain == [n \in GraphNodes |-> CASE n \in {"b", "y"} -> "IO"
                                       [] n = "m" -> "MainThread"
                                       [] OTHER -> "Worker"]
=============================================================================
