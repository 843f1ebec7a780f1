---------------------------- MODULE MCSlabArena ----------------------------
(***************************************************************************)
(* Slabs with a payload of four units: a request that takes half of it,   *)
(* padding included, one that takes it all, one that is too large for a    *)
(* slab, and one that asks for a larger alignment than a slab has.         *)
(***************************************************************************)
EXTENDS SlabArena

MCRequests == {[bytes |-> 1, alignment |-> 1], [bytes |-> 3, alignment |-> 4],
               [bytes |-> 5, alignment |-> 1], [bytes |-> 1, alignment |-> 8]}

\* The slabs lie one behind the other, below the end of the address space.
MCBase == [s \in Slabs |-> s * SLAB_SIZE]

ASSUME RequestsFit

\* One thread may stall anywhere in its call while the other makes four.
MCMaxOps == [x \in Threads |-> IF x = "t" THEN 1 ELSE 4]
=============================================================================
