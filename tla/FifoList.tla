------------------------------ MODULE FifoList ------------------------------
(***************************************************************************)
(* What a list of tasks that is never full promises: tasks leave in the    *)
(* order in which they entered, each once.                                 *)
(***************************************************************************)
EXTENDS Sequences

CONSTANT Items

VARIABLE list

Init == list = <<>>

Enter == \E x \in Items : list' = Append(list, x)

Leave == list # <<>> /\ list' = Tail(list)

Spec == Init /\ [][Enter \/ Leave]_list
=============================================================================
