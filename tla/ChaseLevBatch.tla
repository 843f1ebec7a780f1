--------------------------- MODULE ChaseLevBatch ---------------------------
(***************************************************************************)
(* ChaseLevDeque::stealBatch (src/src/chase_lev_deque.cpp), beside the     *)
(* operations of ChaseLevDeque: a thief claims half of what it sees with   *)
(* one compare-and-swap on top, looks at bottom again, takes part of the   *)
(* claim back if the owner has popped into it, and copies the rest.        *)
(***************************************************************************)
EXTENDS ChaseLevDeque

CONSTANTS
    Batchers,   \* the thieves that call stealBatch
    BATCH       \* destination.size()

\* pushBottom, when a claim has passed bottom: the owner starts again at top.
PushFix ==
    /\ own.pc = "pushFix"
    /\ bottom' = own.b
    /\ own' = [own EXCEPT !.pc = "pushStore"]
    /\ UNCHANGED <<top, bufs, pushed, taken, thief>>

Goto(p, label) == thief' = [thief EXCEPT ![p].pc = label]

\* Half of what the thief sees, rounded up.
Share(p) ==
    LET half == (bottom - thief[p].t + 1) \div 2
    IN  IF half > BATCH THEN BATCH ELSE half

BatchLoadBottom(p) ==
    /\ thief[p].pc = "bottom"
    /\ \/ /\ thief[p].t >= bottom \/ BATCH = 0
          /\ thief' = [thief EXCEPT ![p] = IdleThief]
       \/ /\ thief[p].t < bottom /\ BATCH > 0
          /\ thief' = [thief EXCEPT ![p].pc = "buffer", ![p].n = Share(p)]
    /\ UNCHANGED <<top, bottom, bufs, pushed, taken, own>>

BatchLoadBuffer(p) ==
    /\ thief[p].pc = "buffer"
    /\ thief' = [thief EXCEPT ![p].pc = "batchCas", ![p].buf = Len(bufs)]
    /\ UNCHANGED <<top, bottom, bufs, pushed, taken, own>>

\* stealBatch claims its whole share first; the weak compare-and-swap may
\* also fail for no reason.
BatchCas(p) ==
    /\ thief[p].pc = "batchCas"
    /\ \/ /\ top = thief[p].t
          /\ top' = Inc(top, thief[p].n)
          /\ Goto(p, "recheck")
       \/ thief' = [thief EXCEPT ![p] = IdleThief] /\ UNCHANGED top
    /\ UNCHANGED <<bottom, bufs, pushed, taken, own>>

\* The owner may have popped into the share: what it left is stolen, and top
\* is to be stored back.
BatchRecheck(p) ==
    LET t == thief[p].t
        end == Inc(t, thief[p].n)
        left == IF bottom > t THEN bottom - t ELSE 0
    IN  /\ thief[p].pc = "recheck"
        /\ \/ bottom >= end /\ Goto(p, "copy")
           \/ bottom < end /\ thief' = [thief EXCEPT ![p].pc = "rollback", ![p].n = left]
        /\ UNCHANGED <<top, bottom, bufs, pushed, taken, own>>

BatchRollback(p) ==
    /\ thief[p].pc = "rollback"
    /\ top' = Inc(thief[p].t, thief[p].n)
    /\ Goto(p, "copy")
    /\ UNCHANGED <<bottom, bufs, pushed, taken, own>>

\* The claimed tasks are read one by one.
BatchCopy(p) ==
    LET s == thief[p]
    IN  /\ s.pc = "copy"
        /\ \/ /\ s.i < s.n
              /\ Return({load(bufs[s.buf], Inc(s.t, s.i))})
              /\ thief' = [thief EXCEPT ![p].i = @ + 1]
           \/ s.i = s.n /\ thief' = [thief EXCEPT ![p] = IdleThief] /\ UNCHANGED taken
        /\ UNCHANGED <<top, bottom, bufs, pushed, own>>

----------------------------------------------------------------------------
BatchStep(p) ==
    \/ StealLoadTop(p) \/ BatchLoadBottom(p) \/ BatchLoadBuffer(p)
    \/ BatchCas(p) \/ BatchRecheck(p) \/ BatchRollback(p) \/ BatchCopy(p)

BatchNext ==
    \/ OwnerStep \/ PushFix
    \/ \E p \in Thieves \ Batchers : SingleStep(p)
    \/ \E p \in Batchers : BatchStep(p)

BatchSpec == Init /\ [][BatchNext]_vars
=============================================================================
