------------------------- MODULE MCTimelineReactor -------------------------
(***************************************************************************)
(* A small graph with timeline waits.                                      *)
(***************************************************************************)
EXTENDS TimelineReactor

\* Root r precedes a; a and b wait for the GPU; c follows both.
RaceTasks == {"r", "a", "b", "c"}
RaceSuccessors == [t \in RaceTasks |->
    CASE t = "r" -> {"a"} [] t \in {"a", "b"} -> {"c"} [] OTHER -> {}]
RaceWaits == {"wa", "wb"}
RaceTaskOf == [w \in RaceWaits |-> IF w = "wa" THEN "a" ELSE "b"]
RaceValue == [w \in RaceWaits |-> IF w = "wa" THEN 1 ELSE 2]

Timeline == [w \in Waits |-> "gpu"]
AllAtOne == [w \in Waits |-> 1]
=============================================================================
