---------------------------- MODULE StealDeque ----------------------------
(***************************************************************************)
(* What a work-stealing deque promises: the owner pushes tasks at the      *)
(* bottom and pops the latest one, thieves take the oldest one, and every  *)
(* task leaves once.  Tasks are numbered in the order of their pushes.     *)
(***************************************************************************)
EXTENDS Naturals, FiniteSetsExt

VARIABLES pushed, items

Init == pushed = 0 /\ items = {}

Push == pushed' = pushed + 1 /\ items' = items \cup {pushed'}

PopBottom == items # {} /\ items' = items \ {Max(items)} /\ UNCHANGED pushed

StealTop == items # {} /\ items' = items \ {Min(items)} /\ UNCHANGED pushed

Next == Push \/ PopBottom \/ StealTop

Spec == Init /\ [][Next]_<<pushed, items>>
=============================================================================
