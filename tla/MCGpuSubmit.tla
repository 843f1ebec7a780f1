---------------------------- MODULE MCGpuSubmit ----------------------------
(* An instance of GpuSubmit for TLC: batches of up to two submissions, with *)
(* up to two explicit and one convenience wait or signal, stages that are   *)
(* absent, named, overridden or without a named bit, and an arena that is   *)
(* too small for the largest batches.                                       *)
EXTENDS GpuSubmit

Point(h, v) == [handle |-> h, value |-> v]
Desc(point, stage, override) ==
    [point |-> point, stage |-> stage, override |-> override, device |-> 0]

Bare == Desc(Point(1, 1), {}, {})
Staged == Desc(Point(2, 5), {11, 17}, {})
Nameless == Desc(Point(1, 2), {24, 63}, {})
Overridden == Desc(Point(3, 1), {11}, {40})

Descs == {<<>>, <<Bare, Overridden>>, <<Nameless>>, <<Staged>>}
Submissions ==
    [queue : {"Graphics", "Compute", "Transfer"}, cmds : {<<>>, <<"c">>},
     waits : Descs, waitPoints : {<<>>, <<Point(4, 7)>>},
     signals : {<<>>, <<Staged>>}, signalPoints : {<<>>, <<Point(5, 1)>>},
     defaultWait : {{}, {3}}, defaultSignal : {{}}]

\* The second submission of a batch is one of a few.
Seconds == {s \in Submissions : s.defaultWait = {} /\ s.queue # "Graphics"
                                /\ s.waits = s.signals}
MCBatches == {<<>>} \cup {<<s>> : s \in Submissions}
             \cup {<<s, r>> : s \in Submissions, r \in Seconds}
=============================================================================
