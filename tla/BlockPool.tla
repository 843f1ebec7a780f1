----------------------------- MODULE BlockPool -----------------------------
(***************************************************************************)
(* The central pool of slabs (src/src/memory_pool.cpp): a stack linked     *)
(* through the slabs themselves, whose head carries a tag, and growth by   *)
(* whole chunks under a spin lock.  One action per access of a shared      *)
(* variable.  Slabs are numbered in address order and Null is the null     *)
(* pointer.  A thread enters acquire_slab at "acquire" and leaves it at    *)
(* "acquired" with the result in slab; it enters release_slab_chain at     *)
(* "release" and leaves it at "released".  compare_exchange_weak fails     *)
(* only when the values differ: a spurious failure repeats the load and    *)
(* changes nothing.                                                        *)
(***************************************************************************)
EXTENDS Integers, FiniteSets

CONSTANTS Threads,       \* the threads that use the pool
          InitialSlabs,  \* slabs of the first chunk
          ChunkSlabs,    \* m_chunk_slabs
          AllowGrowth,   \* m_allow_growth
          MaxChunks,     \* bound on the chunks the system provides
          USIZE          \* the counters are taken modulo USIZE

ASSUME PoolAssumption ==
    /\ IsFiniteSet(Threads)
    /\ InitialSlabs \in Nat /\ ChunkSlabs \in Nat \ {0}
    /\ AllowGrowth \in BOOLEAN /\ MaxChunks \in Nat \ {0} /\ USIZE \in Nat \ {0}

Null == 0
Slabs == 1 .. InitialSlabs + (MaxChunks - 1) * ChunkSlabs

VARIABLES head,        \* m_head: pointer and tag
          next,        \* the link in the header of every slab
          available,   \* m_available_slabs
          total,       \* m_total_slabs
          chunks,      \* m_chunk_count, the length of the list m_chunks
          lock,        \* m_growth_lock
          th           \* where each thread is, and its local variables

poolVars == <<head, next, available, total, chunks, lock>>

Tagged(p, n) == [ptr |-> p, tag |-> n]

IdleThread ==
    [pc |-> "idle", cur |-> Tagged(Null, 0), nxt |-> Null, slab |-> Null,
     first |-> Null, last |-> Null, count |-> 0, then |-> "idle"]

\* partition_slab_chain: the slabs from a to b are linked in address order.
Partition(links, a, b) ==
    [s \in Slabs |-> IF s \in a .. b THEN IF s < b THEN s + 1 ELSE Null
                                     ELSE links[s]]

\* The constructor, with an allocation that succeeds.
PoolInit ==
    /\ head = Tagged(IF InitialSlabs > 0 THEN 1 ELSE Null, 0)
    /\ next = Partition([s \in Slabs |-> Null], 1, InitialSlabs)
    /\ available = InitialSlabs % USIZE
    /\ total = InitialSlabs
    /\ chunks = 1
    /\ lock = FALSE
    /\ th = [t \in Threads |-> IdleThread]

At(t, place) == th[t].pc = place
Goto(t, place) == th' = [th EXCEPT ![t].pc = place]
-----------------------------------------------------------------------------
\* acquire_slab looks at the head h: it tries to take the first slab, or
\* grows the pool, or gives up.
OnHead(t, h) ==
    th' = [th EXCEPT ![t].cur = h,
                     ![t].pc = CASE h.ptr # Null -> "next"
                                 [] h.ptr = Null /\ AllowGrowth -> "lock"
                                 [] OTHER -> "acquired"]

AcquireLoad(t) ==
    /\ At(t, "acquire")
    /\ OnHead(t, head)
    /\ UNCHANGED poolVars

\* The slab may have been taken meanwhile: its link is read all the same.
AcquireNext(t) ==
    /\ At(t, "next")
    /\ th' = [th EXCEPT ![t].pc = "take", ![t].nxt = next[th[t].cur.ptr]]
    /\ UNCHANGED poolVars

\* Mutant: the tag is not compared.
AcquireCasUntagged(t) ==
    /\ At(t, "take")
    /\ \/ /\ head.ptr = th[t].cur.ptr
          /\ head' = Tagged(th[t].nxt, th[t].cur.tag + 1)
          /\ th' = [th EXCEPT ![t].pc = "count", ![t].slab = th[t].cur.ptr]
       \/ head.ptr # th[t].cur.ptr /\ OnHead(t, head) /\ UNCHANGED head
    /\ UNCHANGED <<next, available, total, chunks, lock>>

AcquireCas(t) ==
    /\ At(t, "take")
    /\ \/ /\ head = th[t].cur
          /\ head' = Tagged(th[t].nxt, th[t].cur.tag + 1)
          /\ th' = [th EXCEPT ![t].pc = "count", ![t].slab = th[t].cur.ptr]
       \/ head # th[t].cur /\ OnHead(t, head) /\ UNCHANGED head
    /\ UNCHANGED <<next, available, total, chunks, lock>>

AcquireCount(t) ==
    /\ At(t, "count")
    /\ available' = (available - 1) % USIZE
    /\ Goto(t, "clear")
    /\ UNCHANGED <<head, next, total, chunks, lock>>

AcquireClear(t) ==
    /\ At(t, "clear")
    /\ next' = [next EXCEPT ![th[t].slab] = Null]
    /\ Goto(t, "acquired")
    /\ UNCHANGED <<head, available, total, chunks, lock>>
-----------------------------------------------------------------------------
\* release_slab_chain pushes the chain from first to last.
ReleaseLoad(t) ==
    /\ At(t, "release")
    /\ th' = [th EXCEPT ![t].pc = "link", ![t].cur = head]
    /\ UNCHANGED poolVars

ReleaseLink(t) ==
    /\ At(t, "link")
    /\ next' = [next EXCEPT ![th[t].last] = th[t].cur.ptr]
    /\ Goto(t, "put")
    /\ UNCHANGED <<head, available, total, chunks, lock>>

ReleaseCas(t) ==
    /\ At(t, "put")
    /\ \/ /\ head = th[t].cur
          /\ head' = Tagged(th[t].first, th[t].cur.tag + 1)
          /\ Goto(t, "add")
       \/ /\ head # th[t].cur
          /\ th' = [th EXCEPT ![t].pc = "link", ![t].cur = head]
          /\ UNCHANGED head
    /\ UNCHANGED <<next, available, total, chunks, lock>>

\* Mutant: a chain counts as one slab.
ReleaseCountOne(t) ==
    /\ At(t, "add")
    /\ available' = (available + 1) % USIZE
    /\ Goto(t, IF th[t].slab # Null THEN "unlock" ELSE "released")
    /\ UNCHANGED <<head, next, total, chunks, lock>>

\* The caller is reset of an arena, or growth, which holds a slab.
ReleaseCount(t) ==
    /\ At(t, "add")
    /\ available' = (available + th[t].count) % USIZE
    /\ Goto(t, IF th[t].slab # Null THEN "unlock" ELSE "released")
    /\ UNCHANGED <<head, next, total, chunks, lock>>
-----------------------------------------------------------------------------
\* allocate_chunk_and_acquire spins for the lock.
GrowLock(t) ==
    /\ At(t, "lock")
    /\ \/ ~lock /\ lock' = TRUE /\ Goto(t, "check")
       \/ lock /\ Goto(t, "peek") /\ UNCHANGED lock
    /\ UNCHANGED <<head, next, available, total, chunks>>

\* While it spins it goes back to the stack as soon as there is a slab.
GrowPeek(t) ==
    /\ At(t, "peek")
    /\ Goto(t, IF head.ptr # Null THEN "acquire" ELSE "lock")
    /\ UNCHANGED poolVars

GrowCheck(t) ==
    /\ At(t, "check")
    /\ \/ head.ptr # Null /\ th' = [th EXCEPT ![t].pc = "unlock", ![t].then = "acquire"]
       \/ head.ptr = Null /\ Goto(t, "grow")
    /\ UNCHANGED poolVars

\* Either of the two allocations fails.
GrowFail(t) ==
    /\ At(t, "grow")
    /\ th' = [th EXCEPT ![t].pc = "unlock", ![t].then = "acquired"]
    /\ UNCHANGED poolVars

\* A chunk is linked and counted and its slabs, which nobody else knows yet,
\* are prepared: the first is kept, the others are released.
GrowChunk(t) ==
    LET slab == total + 1
        last == total + ChunkSlabs
    IN  /\ At(t, "grow")
        /\ chunks < MaxChunks
        /\ chunks' = chunks + 1
        /\ total' = total + ChunkSlabs
        /\ next' = [Partition(next, slab + 1, last) EXCEPT ![slab] = Null]
        /\ th' = [th EXCEPT ![t].pc = IF ChunkSlabs > 1 THEN "release" ELSE "unlock",
                            ![t].then = "acquired", ![t].slab = slab,
                            ![t].first = slab + 1, ![t].last = last,
                            ![t].count = ChunkSlabs - 1]
        /\ UNCHANGED <<head, available, lock>>

\* Mutant: the lock is not given back when the memory is exhausted.
GrowUnlockNot(t) ==
    /\ At(t, "unlock")
    /\ lock' = (th[t].then = "acquired" /\ th[t].slab = Null)
    /\ Goto(t, th[t].then)
    /\ UNCHANGED <<head, next, available, total, chunks>>

GrowUnlock(t) ==
    /\ At(t, "unlock")
    /\ lock' = FALSE
    /\ Goto(t, th[t].then)
    /\ UNCHANGED <<head, next, available, total, chunks>>

PoolStep(t) ==
    \/ AcquireLoad(t) \/ AcquireNext(t) \/ AcquireCas(t)
    \/ AcquireCount(t) \/ AcquireClear(t)
    \/ ReleaseLoad(t) \/ ReleaseLink(t) \/ ReleaseCas(t) \/ ReleaseCount(t)
    \/ GrowLock(t) \/ GrowPeek(t) \/ GrowCheck(t)
    \/ GrowFail(t) \/ GrowChunk(t) \/ GrowUnlock(t)
=============================================================================
