----------------------------- MODULE SlabArena -----------------------------
(***************************************************************************)
(* Bump allocators over the pool (src/src/slab_arena.cpp): every thread    *)
(* owns an arena that takes slabs from the shared BlockPool, chains them   *)
(* by their links, and gives the whole chain back at once.                 *)
(* m_current_slab is left out: it equals m_head_slab everywhere.           *)
(* Addresses are offsets into a slab, whose base is aligned to its size;   *)
(* the code computes with absolute ones, of uintptr_t, which wrap around.  *)
(* Requests of 0 bytes return at once and are left out.                    *)
(***************************************************************************)
EXTENDS BlockPool

CONSTANTS SLAB_SIZE,       \* size of a slab, header included
          CACHELINE_SIZE,  \* size of the header, and the largest alignment of a slab
          MIN_ALIGN,       \* alignof(std::max_align_t), the smallest alignment
          HEADER,          \* sizeof(OversizedBlock)
          ADDRESSES,       \* addresses and sizes are taken modulo ADDRESSES
          Base,            \* the address of each slab
          Requests,        \* sizes and alignments asked for
          MaxOps           \* bound on the calls of allocate and reset, by thread

\* allocate raises the alignment of a request to MIN_ALIGN.
Alignment(r) == IF r.alignment < MIN_ALIGN THEN MIN_ALIGN ELSE r.alignment

ASSUME ArenaAssumption ==
    /\ CACHELINE_SIZE \in Nat \ {0} /\ SLAB_SIZE \in Nat /\ CACHELINE_SIZE < SLAB_SIZE
    /\ MIN_ALIGN \in 1 .. CACHELINE_SIZE
    /\ Requests \subseteq [bytes : Nat \ {0}, alignment : Nat \ {0}]
    /\ MaxOps \in [Threads -> Nat]
    \* A slab lies below the end of the address space.
    /\ HEADER \in Nat /\ ADDRESSES \in Nat \ {0} /\ Base \in [Slabs -> Nat]
    /\ \A s \in Slabs : Base[s] + SLAB_SIZE < ADDRESSES
    \* Alignments are powers of two (LF_ASSERT in allocate), and so are the
    \* smallest and the largest one of a slab: the smaller divides the greater.
    /\ \A r \in Requests : r.alignment <= CACHELINE_SIZE => CACHELINE_SIZE % Alignment(r) = 0

\* No request is so large that its end, reckoned from the end of a slab or of
\* the header of an oversized block, passes the end of the address space.
\* The code does not check it.
RequestsFit ==
    \A r \in Requests :
        /\ r.bytes + HEADER + Alignment(r) < ADDRESSES
        /\ \A s \in Slabs : Base[s] + SLAB_SIZE + r.bytes + Alignment(r) < ADDRESSES

VARIABLES arena,   \* m_head_slab, m_tail_slab, m_slab_count, m_bump_ptr, and
                   \* the length of the list m_oversized_head, by thread
          asked,   \* the request a thread is taking a slab for
          live,    \* history: the blocks handed out since the last reset
          ops      \* history: number of calls so far, by thread

vars == <<poolVars, th, arena, asked, live, ops>>

EmptyArena == [head |-> Null, tail |-> Null, count |-> 0, bump |-> 0, oversized |-> 0]
NoRequest == [bytes |-> 0, alignment |-> 0]

Init ==
    /\ PoolInit
    /\ arena = [t \in Threads |-> EmptyArena]
    /\ asked = [t \in Threads |-> NoRequest]
    /\ live = [t \in Threads |-> {}]
    /\ ops = [t \in Threads |-> 0]

\* The first address from a on that suits r.
Aligned(a, r) == ((a + Alignment(r) - 1) \div Alignment(r)) * Alignment(r)

\* The end of a block for r when the bump pointer is at a in slab s: the
\* address may wrap around, and then lies below the slab.
BlockEnd(s, a, r) ==
    LET e == Aligned(a, r) + r.bytes
    IN  IF Base[s] + e < ADDRESSES THEN e ELSE e - ADDRESSES

\* The block that call number n gets when r is placed at or after a in slab s.
Block(n, s, a, r) ==
    [id |-> n, slab |-> s, from |-> Aligned(a, r), to |-> Aligned(a, r) + r.bytes, size |-> SLAB_SIZE]

\* The block that call number n gets in memory of its own, of the size asked
\* of the system, which is suitably aligned and used for nothing else.
OversizedBlock(n, r) ==
    [id |-> n, slab |-> Null, from |-> Aligned(HEADER, r), to |-> Aligned(HEADER, r) + r.bytes,
     size |-> (r.bytes + HEADER + Alignment(r)) % ADDRESSES]

\* The bump pointer after r is placed in the current slab.
Bumped(t, r) == BlockEnd(arena[t].head, arena[t].bump, r)

Fits(t, r) == arena[t].head # Null /\ Bumped(t, r) <= SLAB_SIZE

\* A slab can serve r.
Small(r) == r.bytes <= SLAB_SIZE - CACHELINE_SIZE /\ r.alignment <= CACHELINE_SIZE

Call(t) == At(t, "idle") /\ ops[t] < MaxOps[t] /\ ops' = [ops EXCEPT ![t] = @ + 1]
-----------------------------------------------------------------------------
\* Mutant: the bump pointer moves by the size asked for, without the padding.
AllocateFastUnpadded(t, r) ==
    /\ Call(t) /\ Fits(t, r)
    /\ arena' = [arena EXCEPT ![t].bump = @ + r.bytes]
    /\ live' = [live EXCEPT ![t] = @ \cup {Block(ops[t] + 1, arena[t].head, arena[t].bump, r)}]
    /\ UNCHANGED <<poolVars, th, asked>>

\* allocate: the block fits the current slab.
AllocateFast(t, r) ==
    /\ Call(t) /\ Fits(t, r)
    /\ arena' = [arena EXCEPT ![t].bump = Bumped(t, r)]
    /\ live' = [live EXCEPT ![t] = @ \cup {Block(ops[t] + 1, arena[t].head, arena[t].bump, r)}]
    /\ UNCHANGED <<poolVars, th, asked>>

\* allocate_slow: a new slab is needed.
AllocateSlow(t, r) ==
    /\ Call(t) /\ ~Fits(t, r) /\ Small(r)
    /\ asked' = [asked EXCEPT ![t] = r]
    /\ Goto(t, "acquire")
    /\ UNCHANGED <<poolVars, arena, live>>

\* allocate_slow: a slab cannot serve r; memory of its own is allocated for
\* it, or that fails.
AllocateOversized(t, r) ==
    /\ Call(t) /\ ~Fits(t, r) /\ ~Small(r)
    /\ \/ /\ arena' = [arena EXCEPT ![t].oversized = @ + 1]
          /\ live' = [live EXCEPT ![t] = @ \cup {OversizedBlock(ops[t] + 1, r)}]
       \/ UNCHANGED <<arena, live>>
    /\ UNCHANGED <<poolVars, th, asked>>

\* acquire_slab has returned a slab: it becomes the head of the chain.
TakeSlab(t) ==
    LET s == th[t].slab
    IN  /\ At(t, "acquired") /\ s # Null
        /\ next' = [next EXCEPT ![s] = arena[t].head]
        /\ arena' = [arena EXCEPT
               ![t].head = s,
               ![t].tail = IF @ = Null THEN s ELSE @,
               ![t].count = @ + 1,
               ![t].bump = BlockEnd(s, CACHELINE_SIZE, asked[t])]
        /\ live' = [live EXCEPT ![t] = @ \cup {Block(ops[t], s, CACHELINE_SIZE, asked[t])}]
        /\ asked' = [asked EXCEPT ![t] = NoRequest]
        /\ th' = [th EXCEPT ![t] = IdleThread]
        /\ UNCHANGED <<head, available, total, chunks, lock, ops>>

\* acquire_slab has returned nullptr, and so does allocate.
AllocateFails(t) ==
    /\ At(t, "acquired") /\ th[t].slab = Null
    /\ asked' = [asked EXCEPT ![t] = NoRequest]
    /\ th' = [th EXCEPT ![t] = IdleThread]
    /\ UNCHANGED <<poolVars, arena, live, ops>>

\* reset, and the destructor: the chain goes back to the pool.
Reset(t) ==
    /\ Call(t)
    /\ live' = [live EXCEPT ![t] = {}]
    /\ \/ /\ arena[t].head # Null
          /\ th' = [th EXCEPT ![t].pc = "release", ![t].first = arena[t].head,
                              ![t].last = arena[t].tail, ![t].count = arena[t].count]
       \/ arena[t].head = Null /\ Goto(t, "released")
    /\ UNCHANGED <<poolVars, arena, asked>>

\* The arena forgets its slabs and frees its oversized blocks.
ResetEnd(t) ==
    /\ At(t, "released")
    /\ arena' = [arena EXCEPT ![t] = EmptyArena]
    /\ th' = [th EXCEPT ![t] = IdleThread]
    /\ UNCHANGED <<poolVars, asked, live, ops>>

\* What a thread does inside a call.
Inside(t) ==
    \/ PoolStep(t) /\ UNCHANGED <<arena, asked, live, ops>>
    \/ TakeSlab(t) \/ AllocateFails(t) \/ ResetEnd(t)

Next ==
    \E t \in Threads :
        \/ Inside(t)
        \/ Reset(t)
        \/ \E r \in Requests : AllocateFast(t, r) \/ AllocateSlow(t, r) \/ AllocateOversized(t, r)

Spec == Init /\ [][Next]_vars

\* A thread inside a call goes on.
FairSpec == Spec /\ \A t \in Threads : WF_vars(Inside(t))
-----------------------------------------------------------------------------
\* The first n slabs of the chain that starts at p.
Chain(p, n) ==
    LET slab[i \in 1 .. n] == IF i = 1 THEN p
                              ELSE IF slab[i - 1] = Null THEN Null ELSE next[slab[i - 1]]
    IN  {slab[i] : i \in 1 .. n} \ {Null}

Free == Chain(head.ptr, Cardinality(Slabs))

\* t has pushed the chain of its arena and has not forgotten it yet.
GivenBack(t) == th[t].pc \in {"add", "released"} /\ th[t].slab = Null

\* The slabs of t: its arena's, the one it has just acquired, and the rest
\* of a chunk it has not pushed yet.
Held(t) ==
    (IF GivenBack(t) THEN {} ELSE Chain(arena[t].head, arena[t].count))
    \cup ({th[t].slab} \ {Null})
    \cup (IF th[t].slab # Null /\ th[t].pc \in {"release", "link", "put"}
          THEN Chain(th[t].first, th[t].count) ELSE {})

\* Every slab of the pool is on the stack or has one owner, never both and
\* never neither: threads that read the link of a slab another thread has
\* taken, pushed back or re-linked meanwhile (acquire_slab,
\* release_slab_chain, allocate_slow) neither hand a slab out twice nor drop
\* the rest of the stack.
OneOwner ==
    /\ Free \cup UNION {Held(t) : t \in Threads} = 1 .. total
    /\ \A t \in Threads : Held(t) \cap Free = {}
    /\ \A t, u \in Threads : t # u => Held(t) \cap Held(u) = {}

\* m_available_slabs differs from the length of the stack only by the
\* operations between their CAS and their fetch_sub or fetch_add, and a
\* chain counts as many slabs as it has (acquire_slab, release_slab_chain,
\* m_slab_count of SlabArena).
AvailableExact ==
    LET taken == {t \in Threads : th[t].pc = "count"}
        put == UNION {{<<t, i>> : i \in 1 .. th[t].count} :
                         t \in {u \in Threads : th[u].pc = "add"}}
    IN  available = (Cardinality(Free) + Cardinality(taken) - Cardinality(put)) % USIZE

\* Blocks handed out and not given back by reset do not overlap, not even
\* between arenas; each lies inside a slab of its arena, behind the header,
\* or inside memory of its own, behind the header of an oversized block
\* (SlabArena::allocate, allocate_slow, reset).  Only where RequestsFit: a
\* size near 2^64 passes the test of allocate and moves the pointer back.
BlocksDisjoint ==
    \A t, u \in Threads : \A x \in live[t], y \in live[u] :
        /\ \/ x.slab \in Held(t) /\ CACHELINE_SIZE <= x.from
           \/ x.slab = Null /\ HEADER <= x.from
        /\ x.from < x.to /\ x.to <= x.size
        /\ (t # u \/ x.id # y.id) =>
               x.slab # y.slab \/ x.slab = Null \/ x.to <= y.from \/ y.to <= x.from

\* Every call returns, also the ones that wait for another thread to grow
\* the pool, and also when the memory is exhausted
\* (allocate_chunk_and_acquire gives the lock back on every path).
CallsReturn == \A t \in Threads : th[t].pc # "idle" ~> th[t].pc = "idle"
=============================================================================
