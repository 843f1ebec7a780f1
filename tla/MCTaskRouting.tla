--------------------------- MODULE MCTaskRouting ---------------------------
(* An instance of TaskRouting for TLC.                                      *)
EXTENDS TaskRouting

\* The main thread schedules a and h.  The callable of a schedules b, c and e
\* as a batch; those of b and c schedule the main-thread tasks m and n, that
\* of h the IO task i.  a and h have high priority.  The main thread helps
\* until a is done.
MixDomain == [x \in Tasks |-> CASE x \in {"m", "n"} -> "MainThread"
                                [] x = "i"         -> "IO"
                                [] OTHER           -> "Worker"]
MixPriority == [x \in Tasks |-> IF x \in {"a", "h"} THEN "high" ELSE "normal"]
MixCalls == [x \in Externals \cup Tasks |->
    CASE x = "main" -> <<<<"a">>, <<"h">>>>
      [] x = "a"    -> <<<<"b", "c", "e">>>>
      [] x = "b"    -> <<<<"m">>>>
      [] x = "c"    -> <<<<"n">>>>
      [] x = "h"    -> <<<<"i">>>>
      [] OTHER      -> <<>>]
=============================================================================
