-------------------------- MODULE SlabArenaProof ---------------------------
(***************************************************************************)
(* Proofs about SlabArena, for any number of threads, slabs, chunks and    *)
(* calls: a slab has one owner, the count of free slabs is right, and      *)
(* blocks do not overlap.                                                  *)
(***************************************************************************)
EXTENDS SlabArena, FiniteSetTheorems, FunctionTheorems, WellFoundedInduction, TLAPS

----------------------------------------------------------------------------
(* Chains.  A set of slabs is a chain when ranks number it from its end    *)
(* and every link leads to the slab of the next lower rank.                *)

IsChain(links, S, rank, first, n) ==
    /\ n \in Nat /\ (n = 0 <=> first = Null)
    /\ n > 0 => first \in S /\ rank[first] = n
    /\ \A s \in S : rank[s] \in 1 .. n
    /\ \A s, u \in S : rank[s] = rank[u] => s = u
    /\ \A i \in 1 .. n : \E s \in S : rank[s] = i
    /\ \A s \in S : rank[s] > 1 => links[s] \in S /\ rank[links[s]] = rank[s] - 1

\* Every nonempty set of naturals has a least member.
LEMMA LeastNatural ==
    ASSUME NEW T, T \subseteq Nat, T # {}
    PROVE  \E x \in T : \A y \in T : x <= y
<1>1. \E x \in T : \A y \in T : ~(<<y, x>> \in OpToRel(<, Nat))
  BY NatLessThanWellFounded, WFMin
<1>2. PICK x \in T : \A y \in T : ~(<<y, x>> \in OpToRel(<, Nat))
  BY <1>1
<1>3. \A y \in T : ~(y < x)
  BY <1>2 DEF OpToRel
<1> QED
  BY <1>3

\* A chain of rank n has n slabs.
LEMMA ChainCount ==
    ASSUME NEW links, NEW S, NEW rank, NEW first, NEW n, IsChain(links, S, rank, first, n)
    PROVE  IsFiniteSet(S) /\ Cardinality(S) = n
<1> PICK f : f = [s \in S |-> rank[s]]
  OBVIOUS
<1>1. n \in Nat /\ f \in Bijection(S, 1 .. n)
  <2>1. n \in Nat /\ f \in [S -> 1 .. n]
    BY DEF IsChain
  <2>2. \A s, u \in S : f[s] = f[u] => s = u
    BY DEF IsChain
  <2>3. \A i \in 1 .. n : \E s \in S : f[s] = i
    BY DEF IsChain
  <2>4. f \in Injection(S, 1 .. n)
    BY <2>1, <2>2 DEF Injection, IsInjective
  <2>5. f \in Surjection(S, 1 .. n)
    BY <2>1, <2>3 DEF Surjection
  <2> QED
    BY <2>1, <2>4, <2>5 DEF Bijection
<1>2. IsFiniteSet(1 .. n) /\ Cardinality(1 .. n) = n
  BY <1>1, FS_Interval
<1>3. ExistsBijection(1 .. n, S)
  BY <1>1, Fun_ExistsBijSymmetric DEF ExistsBijection
<1> QED
  BY <1>2, <1>3, FS_Bijection

\* A chain depends on its own links and ranks only.
LEMMA ChainFrame ==
    ASSUME NEW links, NEW S, NEW rank, NEW first, NEW n, IsChain(links, S, rank, first, n),
           NEW links2, NEW rank2,
           \A s \in S : rank2[s] = rank[s] /\ (rank[s] > 1 => links2[s] = links[s])
    PROVE  IsChain(links2, S, rank2, first, n)
  BY DEF IsChain

\* Taking the first slab off.
LEMMA ChainPop ==
    ASSUME NEW links, NEW S, NEW rank, NEW first, NEW n, IsChain(links, S, rank, first, n),
           n > 0, n = 1 => links[first] = Null, Null \notin S
    PROVE  IsChain(links, S \ {first}, rank, links[first], n - 1)
  BY DEF IsChain

\* A new first slab.
LEMMA ChainPush ==
    ASSUME NEW links, NEW S, NEW rank, NEW first, NEW n, IsChain(links, S, rank, first, n),
           NEW s, s \notin S, s # Null, NEW links2, NEW rank2,
           rank2[s] = n + 1, links2[s] = first,
           \A u \in S : rank2[u] = rank[u] /\ links2[u] = links[u]
    PROVE  IsChain(links2, S \cup {s}, rank2, s, n + 1)
  BY DEF IsChain

\* One chain before another.
LEMMA ChainJoin ==
    ASSUME NEW links, NEW S, NEW T, NEW rank, NEW first, NEW last, NEW n, NEW below, NEW k,
           IsChain(links, S, rank, first, n), IsChain(links, T, rank, below, k),
           n > 0, last \in S, rank[last] = 1, links[last] = below, S \cap T = {}, Null \notin T,
           NEW rank2, \A s \in S : rank2[s] = rank[s] + k, \A s \in T : rank2[s] = rank[s]
    PROVE  IsChain(links, S \cup T, rank2, first, n + k)
<1>1. n \in Nat /\ k \in Nat /\ \A s \in S : rank[s] \in 1 .. n
  BY DEF IsChain
<1>2. \A s \in S \cup T : rank2[s] \in 1 .. n + k
  BY <1>1 DEF IsChain
<1>3. \A s, u \in S \cup T : rank2[s] = rank2[u] => s = u
  BY <1>1 DEF IsChain
<1>4. ASSUME NEW i \in 1 .. n + k PROVE \E s \in S \cup T : rank2[s] = i
  <2>1. CASE i <= k
    BY <1>1, <2>1 DEF IsChain
  <2>2. CASE i > k
    <3>1. PICK s \in S : rank[s] = i - k
      <4>1. i - k \in 1 .. n
        BY <1>1, <2>2
      <4> QED
        BY <4>1 DEF IsChain
    <3> QED
      BY <1>1, <3>1
  <2> QED
    BY <1>1, <2>1, <2>2
<1>5. ASSUME NEW s \in S \cup T, rank2[s] > 1
      PROVE  links[s] \in S \cup T /\ rank2[links[s]] = rank2[s] - 1
  <2>1. CASE s \in T
    BY <2>1, <1>5 DEF IsChain
  <2>2. CASE s \in S /\ rank[s] > 1
    BY <2>2, <1>1 DEF IsChain
  <2>3. CASE s \in S /\ rank[s] = 1
    <3>1. s = last
      BY <2>3 DEF IsChain
    <3>2. k > 0
      BY <1>1, <1>5, <2>3
    <3> QED
      BY <1>1, <2>3, <3>1, <3>2 DEF IsChain
  <2> QED
    BY <1>1, <2>1, <2>2, <2>3
<1>6. n + k \in Nat /\ first \in S \cup T /\ rank2[first] = n + k /\ first # Null
  BY <1>1 DEF IsChain
<1> QED
  BY <1>1, <1>2, <1>3, <1>4, <1>5, <1>6 DEF IsChain

\* Following the links visits exactly the slabs of a chain.
LEMMA ChainVisits ==
    ASSUME NEW S, NEW rank, NEW first, NEW n, IsChain(next, S, rank, first, n), Null \notin S,
           NEW N \in Nat, n <= N,
           n < N => \A s \in S : rank[s] = 1 => next[s] = Null
    PROVE  Chain(first, N) = S
<1> DEFINE Step(f) == [i \in 1 .. N |-> IF i = 1 THEN first
                          ELSE IF f[i - 1] = Null THEN Null ELSE next[f[i - 1]]]
           walk == CHOOSE f : f = Step(f)
<1> PICK g : g = [i \in 1 .. N |-> IF i <= n THEN CHOOSE s \in S : rank[s] = n + 1 - i ELSE Null]
  OBVIOUS
<1>1. n \in Nat
  BY DEF IsChain
<1>2. ASSUME NEW i \in 1 .. N, i <= n PROVE g[i] \in S /\ rank[g[i]] = n + 1 - i
  <2>1. n + 1 - i \in 1 .. n
    BY <1>1, <1>2
  <2>2. \E s \in S : rank[s] = n + 1 - i
    BY <2>1 DEF IsChain
  <2> QED
    BY <1>2, <2>2
<1>3. \A i \in 1 .. N : i > n => g[i] = Null
  BY <1>1
<1>4. ASSUME NEW i \in 1 .. N
      PROVE  g[i] = IF i = 1 THEN first
                    ELSE IF g[i - 1] = Null THEN Null ELSE next[g[i - 1]]
  <2>1. CASE i = 1
    <3>1. CASE n = 0
      BY <2>1, <3>1, <1>3 DEF IsChain
    <3>2. CASE n > 0
      BY <1>1, <2>1, <3>2, <1>2 DEF IsChain
    <3> QED
      BY <1>1, <3>1, <3>2, <2>1
  <2>2. CASE i > 1 /\ i - 1 > n
    <3>1. i - 1 \in 1 .. N /\ i > n /\ i - 1 > n
      BY <1>1, <2>2
    <3>2. g[i] = Null /\ g[i - 1] = Null
      BY <1>3, <3>1
    <3>3. i # 1
      BY <2>2
    <3> QED
      BY <3>2, <3>3
  <2>3. CASE i > 1 /\ i - 1 <= n
    <3>1. i - 1 \in 1 .. N
      BY <2>3
    <3>2. g[i - 1] \in S /\ rank[g[i - 1]] = n + 2 - i
      BY <1>1, <2>3, <3>1, <1>2
    <3>3. g[i - 1] # Null
      BY <3>2
    <3>4. CASE i <= n
      <4>1. g[i] \in S /\ rank[g[i]] = n + 1 - i
        BY <3>4, <1>2
      <4>2. next[g[i - 1]] \in S /\ rank[next[g[i - 1]]] = n + 1 - i
        BY <1>1, <3>2, <3>4 DEF IsChain
      <4>3. next[g[i - 1]] = g[i]
        BY <4>1, <4>2 DEF IsChain
      <4> QED
        BY <2>3, <3>3, <4>3
    <3>5. CASE i > n
      <4>1. rank[g[i - 1]] = 1 /\ n < N
        BY <1>1, <2>3, <3>2, <3>5
      <4>2. next[g[i - 1]] = Null
        BY <3>2, <4>1
      <4>3. g[i] = Null
        BY <1>3, <3>5
      <4>4. i # 1
        BY <2>3
      <4> QED
        BY <3>3, <4>2, <4>3, <4>4
    <3> QED
      BY <1>1, <3>4, <3>5
  <2> QED
    BY <1>1, <2>1, <2>2, <2>3
<1>5. g = Step(g)
  BY <1>4
<1>6. walk = Step(walk)
  <2> HIDE DEF Step
  <2>1. \E f : f = Step(f)
    BY ONLY <1>5
  <2> QED
    BY ONLY <2>1 DEF walk
<1>7. Chain(first, N) = {walk[i] : i \in 1 .. N} \ {Null}
  BY DEF Chain
<1>8. \A i \in 1 .. N : walk[i] = IF i = 1 THEN first
                          ELSE IF walk[i - 1] = Null THEN Null ELSE next[walk[i - 1]]
  <2> HIDE DEF walk
  <2> QED
    BY <1>6
<1> HIDE DEF walk, Step
<1>9. \A i \in 1 .. N : walk[i] = g[i]
  <2> PICK T : T = {i \in 1 .. N : walk[i] # g[i]}
    OBVIOUS
  <2>1. SUFFICES ASSUME T # {} PROVE FALSE
    OBVIOUS
  <2>2. T \subseteq Nat
    OBVIOUS
  <2> PICK i \in T : \A j \in T : i <= j
    BY <2>1, <2>2, LeastNatural
  <2>3. i \in 1 .. N /\ walk[i] # g[i]
    OBVIOUS
  <2>4. i # 1
    BY <2>3, <1>4, <1>8
  <2>5. i - 1 \in 1 .. N /\ i - 1 \notin T
    <3>1. i - 1 \in 1 .. N /\ ~(i <= i - 1)
      BY <2>3, <2>4
    <3> QED
      BY <3>1
  <2>6. walk[i - 1] = g[i - 1]
    BY <2>5
  <2>7. g[i] = IF g[i - 1] = Null THEN Null ELSE next[g[i - 1]]
    BY <1>4, <2>3, <2>4
  <2>8. walk[i] = IF walk[i - 1] = Null THEN Null ELSE next[walk[i - 1]]
    BY <1>8, <2>3, <2>4
  <2> QED
    BY <2>3, <2>6, <2>7, <2>8
<1>10. \A s \in S : \E i \in 1 .. N : g[i] = s
  <2> SUFFICES ASSUME NEW s \in S PROVE \E i \in 1 .. N : g[i] = s
    OBVIOUS
  <2>1. rank[s] \in 1 .. n
    BY DEF IsChain
  <2>2. n + 1 - rank[s] \in 1 .. N /\ n + 1 - rank[s] <= n
    BY <1>1, <2>1
  <2>3. g[n + 1 - rank[s]] \in S /\ rank[g[n + 1 - rank[s]]] = rank[s]
    BY <1>1, <1>2, <2>1, <2>2
  <2>4. g[n + 1 - rank[s]] = s
    BY <2>3 DEF IsChain
  <2> QED
    BY <2>2, <2>4
<1>11. \A i \in 1 .. N : g[i] \in S \cup {Null}
  BY <1>1, <1>2, <1>3
<1> QED
  BY <1>7, <1>9, <1>10, <1>11
----------------------------------------------------------------------------
(* Counters that wrap around.                                              *)

LEMMA Division ==
    ASSUME NEW U \in Nat \ {0}, NEW x \in Int
    PROVE  \E p \in Int, m \in 0 .. U - 1 : x = U * p + m /\ x % U = m
  OBVIOUS

\* A remainder is the only one of its range.
LEMMA RemainderUnique ==
    ASSUME NEW U \in Nat \ {0}, NEW x \in Int, NEW q \in Int, NEW r \in 0 .. U - 1, x = U * q + r
    PROVE  x % U = r
<1>1. PICK p \in Int, m \in 0 .. U - 1 : x = U * p + m /\ x % U = m
  BY ONLY U \in Nat \ {0}, x \in Int, Division
<1>2. CASE p = q
  BY <1>1, <1>2
<1>3. CASE p < q
  <2>1. U * q >= U * p + U
    <3>1. q - p - 1 \in Nat
      BY <1>1, <1>3
    <3>2. U * (q - p - 1) \in Nat
      BY <3>1
    <3> QED
      BY <3>2, <1>1
  <2> QED
    BY <2>1, <1>1
<1>4. CASE q < p
  <2>1. U * p >= U * q + U
    <3>1. p - q - 1 \in Nat
      BY <1>1, <1>4
    <3>2. U * (p - q - 1) \in Nat
      BY <3>1
    <3> QED
      BY <3>2, <1>1
  <2> QED
    BY <2>1, <1>1
<1> QED
  BY <1>1, <1>2, <1>3, <1>4

\* Counters that wrap around add up.
LEMMA WrappedSum ==
    ASSUME NEW U \in Nat \ {0}, NEW a \in Int, NEW b \in Int
    PROVE  ((a % U) + b) % U = (a + b) % U
<1>1. PICK p \in Int, m \in 0 .. U - 1 : a = U * p + m /\ a % U = m
  BY Division
<1>2. PICK q \in Int, r \in 0 .. U - 1 : m + b = U * q + r /\ (m + b) % U = r
  <2>1. m + b \in Int
    BY <1>1
  <2> QED
    BY <2>1
<1>3. a + b = U * (p + q) + r
  BY <1>1, <1>2
<1>4. (a + b) % U = r
  <2>1. p + q \in Int /\ a + b \in Int
    BY <1>1, <1>2
  <2> QED
    BY <1>2, <1>3, <2>1, RemainderUnique
<1> QED
  BY <1>1, <1>2, <1>4
----------------------------------------------------------------------------
(* The inductive invariant.  It says that every slab can be given a place  *)
(* (the stack, the arena, the hand or the unpublished chunk of a thread)   *)
(* and a rank there.                                                       *)

Labels == {"idle", "acquire", "next", "take", "count", "clear", "acquired", "lock", "peek",
           "check", "grow", "unlock", "release", "link", "put", "add", "released"}

Pointers == Slabs \cup {Null}

ThreadType ==
    [pc : Labels, cur : [ptr : Pointers, tag : Nat], nxt : Pointers, slab : Pointers,
     first : Nat, last : Nat, count : Nat, then : Labels]

ArenaType == [head : Pointers, tail : Pointers, count : Nat, bump : Int, oversized : Nat]
BlockType == [id : Nat, slab : Pointers, from : Int, to : Int, size : Int]

TypeInv ==
    /\ head \in [ptr : Pointers, tag : Nat]
    /\ next \in [Slabs -> Pointers]
    /\ chunks \in 1 .. MaxChunks /\ total = InitialSlabs + (chunks - 1) * ChunkSlabs
    /\ th \in [Threads -> ThreadType]
    /\ arena \in [Threads -> ArenaType]
    /\ asked \in [Threads -> Requests \cup {NoRequest}]
    /\ live \in [Threads -> SUBSET BlockType]
    /\ ops \in [Threads -> Nat]

Putting == {"release", "link", "put"}

\* t pushes the rest of a chunk, or the slabs of its arena.
Growing(t) == th[t].pc \in Putting /\ th[t].slab # Null
Returning(t) == th[t].pc \in Putting /\ th[t].slab = Null

\* Where a thread has a slab in its hand, and what it pushes.
LocalsOf(t) ==
    /\ th[t].pc \in {"idle", "acquire", "next", "take", "lock", "peek", "check", "grow",
                     "released"} => th[t].slab = Null
    /\ th[t].pc \in {"count", "clear"} => th[t].slab # Null
    /\ th[t].pc = "unlock" => \/ th[t].then = "acquire" /\ th[t].slab = Null
                              \/ th[t].then = "acquired"
    /\ th[t].pc \in Putting \cup {"add"} /\ th[t].slab # Null => th[t].then = "acquired"
    /\ th[t].pc \in Putting => th[t].count > 0
    /\ Returning(t) => /\ th[t].first = arena[t].head /\ th[t].last = arena[t].tail
                       /\ th[t].count = arena[t].count

Locals == \A t \in Threads : LocalsOf(t)

\* The tag only grows, so a head that compares equal has not changed since
\* it was read; the link read after it still stands.
TagsOf(t) ==
    /\ th[t].pc \in {"next", "take"} => th[t].cur.ptr # Null
    /\ th[t].pc \in {"next", "take", "link", "put"} => th[t].cur.tag <= head.tag
    /\ th[t].pc = "take" /\ th[t].cur = head => th[t].nxt = next[head.ptr]
    /\ th[t].pc = "put" => next[th[t].last] = th[t].cur.ptr

Tags == \A t \in Threads : TagsOf(t)

Parts == {"arena", "hand", "chunk"}
Part(kind, owner, c, t) == {s \in Slabs : kind[s] = c /\ owner[s] = t}
Stack(kind) == {s \in Slabs : kind[s] = "stack"}

\* The places of the slabs of one thread.
ThreadShape(kind, owner, rank, t) ==
    LET slabs == Part(kind, owner, "arena", t)
        chunk == Part(kind, owner, "chunk", t)
    IN  /\ Part(kind, owner, "hand", t) = {th[t].slab} \ {Null}
        /\ IF GivenBack(t) THEN slabs = {}
           ELSE /\ IsChain(next, slabs, rank, arena[t].head, arena[t].count)
                /\ arena[t].head = Null => arena[t].tail = Null
                /\ arena[t].head # Null => arena[t].tail \in slabs /\ rank[arena[t].tail] = 1
        /\ IF Growing(t)
           THEN /\ IsChain(next, chunk, rank, th[t].first, th[t].count)
                /\ th[t].last \in chunk /\ rank[th[t].last] = 1
           ELSE chunk = {}

\* Every slab of the pool is in one place, and the stack ends with a null
\* link.
Shape(kind, owner, rank, size) ==
    /\ \A s \in Slabs : IF s > total THEN kind[s] = "none"
                        ELSE kind[s] = "stack" \/ (kind[s] \in Parts /\ owner[s] \in Threads)
    /\ IsChain(next, Stack(kind), rank, head.ptr, size)
    /\ \A s \in Stack(kind) : rank[s] = 1 => next[s] = Null
    /\ \A t \in Threads : ThreadShape(kind, owner, rank, t)

\* The threads, with the states in p, that have taken a slab they have not
\* counted yet; the slabs the threads in T have put and not counted yet.
Takers(p) == {t \in Threads : p[t].pc = "count"}
Puts(p, T) == UNION {{<<t, i>> : i \in 1 .. p[t].count} : t \in {u \in T : p[u].pc = "add"}}
Pending(p) == Cardinality(Takers(p)) - Cardinality(Puts(p, Threads))

\* The count is right but for the operations under way.
Counted(size) == available = (size + Pending(th)) % USIZE

\* t is inside allocate_slow, or inside reset.
Slow(t) ==
    \/ th[t].pc \in {"acquire", "next", "take", "count", "clear", "acquired", "lock", "peek",
                     "check", "grow", "unlock"}
    \/ th[t].pc \in Putting \cup {"add"} /\ th[t].slab # Null
Resetting(t) == th[t].pc # "idle" /\ ~Slow(t)

Apart(x, y) == x.slab # y.slab \/ x.slab = Null \/ x.to <= y.from \/ y.to <= x.from

\* A block lies in a slab of its thread's arena, below the bump pointer in
\* the slab it allocates from, or in memory of its own.
InPlace(kind, owner, t, x) ==
    /\ \/ /\ x.slab \in Part(kind, owner, "arena", t)
          /\ CACHELINE_SIZE <= x.from
          /\ x.slab = arena[t].head => x.to <= arena[t].bump
       \/ x.slab = Null /\ HEADER <= x.from
    /\ x.from < x.to /\ x.to <= x.size
    /\ x.id <= ops[t] /\ (th[t].pc # "idle" => x.id < ops[t])

\* The bump pointer stays inside its slab, and blocks in their places.
Separate(kind, owner, t) ==
    /\ arena[t].head # Null => CACHELINE_SIZE <= arena[t].bump /\ arena[t].bump <= SLAB_SIZE
    /\ \A x \in live[t] : InPlace(kind, owner, t, x)
    /\ \A x, y \in live[t] : x.id # y.id => Apart(x, y)

BlocksOf(kind, owner, t) ==
    /\ Slow(t) => asked[t] \in Requests /\ Small(asked[t])
    /\ Resetting(t) => live[t] = {}
    /\ RequestsFit => Separate(kind, owner, t)

Blocks(kind, owner) == \A t \in Threads : BlocksOf(kind, owner, t)

Placed(kind, owner, rank, size) ==
    Shape(kind, owner, rank, size) /\ Counted(size) /\ Blocks(kind, owner)

Inv(kind, owner, rank, size) == TypeInv /\ Locals /\ Tags /\ Placed(kind, owner, rank, size)

IInv == \E kind, owner, rank, size : Inv(kind, owner, rank, size)
----------------------------------------------------------------------------
(* The slabs of the pool.                                                  *)

Top == InitialSlabs + (MaxChunks - 1) * ChunkSlabs

LEMMA SlabsNumbered ==
    /\ Top \in Nat /\ Slabs = 1 .. Top /\ Null \notin Slabs /\ Pointers \subseteq Nat
    /\ IsFiniteSet(Slabs) /\ Cardinality(Slabs) = Top
<1>1. Top \in Nat
  <2>1. \A a, b \in Nat : a * b \in Nat
    OBVIOUS
  <2>2. MaxChunks - 1 \in Nat /\ ChunkSlabs \in Nat /\ InitialSlabs \in Nat
    BY PoolAssumption
  <2>3. (MaxChunks - 1) * ChunkSlabs \in Nat
    BY <2>1, <2>2
  <2> QED
    BY <2>2, <2>3 DEF Top
<1>2. Slabs = 1 .. Top
  BY DEF Slabs, Top
<1>3. Null \notin Slabs /\ Pointers \subseteq Nat
  BY <1>1, <1>2 DEF Null, Pointers
<1>4. IsFiniteSet(1 .. Top) /\ Cardinality(1 .. Top) = Top
  BY <1>1, FS_Interval
<1> QED
  BY <1>1, <1>2, <1>3, <1>4

LEMMA TotalBound ==
    ASSUME chunks \in 1 .. MaxChunks, total = InitialSlabs + (chunks - 1) * ChunkSlabs
    PROVE  /\ total \in Nat /\ total <= Top
           /\ chunks < MaxChunks => /\ total + ChunkSlabs <= Top
                                    /\ total + ChunkSlabs = InitialSlabs + (chunks + 1 - 1) * ChunkSlabs
<1>1. \A a, b, c \in Nat : a <= b => a * c <= b * c
  <2> SUFFICES ASSUME NEW a \in Nat, NEW b \in Nat, NEW c \in Nat, a <= b PROVE a * c <= b * c
    OBVIOUS
  <2>1. b - a \in Nat /\ (b - a) * c \in Nat
    OBVIOUS
  <2>2. b * c = a * c + (b - a) * c
    OBVIOUS
  <2> QED
    BY <2>1, <2>2
<1>2. MaxChunks \in Nat /\ MaxChunks - 1 \in Nat /\ chunks \in Nat /\ chunks - 1 \in Nat /\ ChunkSlabs \in Nat /\ InitialSlabs \in Nat
  BY PoolAssumption
<1>3. (chunks - 1) * ChunkSlabs \in Nat
  <2>1. \A a, b \in Nat : a * b \in Nat
    OBVIOUS
  <2> QED
    BY <1>2, <2>1
<1>4. (chunks - 1) * ChunkSlabs <= (MaxChunks - 1) * ChunkSlabs
  <2>1. chunks - 1 <= MaxChunks - 1
    BY <1>2
  <2> QED
    BY <1>1, <1>2, <2>1, Zenon
<1>5. chunks + 1 - 1 = chunks /\ chunks \in Nat
  BY <1>2
<1>6. (chunks - 1) * ChunkSlabs + ChunkSlabs = chunks * ChunkSlabs
  BY <1>2
<1>7. chunks < MaxChunks => chunks * ChunkSlabs <= (MaxChunks - 1) * ChunkSlabs
  <2>1. chunks < MaxChunks => chunks <= MaxChunks - 1
    BY <1>2
  <2> QED
    BY <1>1, <1>2, <1>5, <2>1, Zenon
<1>8. chunks * ChunkSlabs \in Nat
  BY <1>3, <1>6, <1>2
<1>9. (MaxChunks - 1) * ChunkSlabs \in Nat
  <2>1. \A a, b \in Nat : a * b \in Nat
    OBVIOUS
  <2> QED
    BY <1>2, <2>1
<1> HIDE PoolAssumption
<1>10. total \in Nat
  BY <1>2, <1>3
<1>11. total <= Top
  BY <1>2, <1>3, <1>4, <1>9 DEF Top
<1>12. total + ChunkSlabs = InitialSlabs + chunks * ChunkSlabs
  BY <1>2, <1>3, <1>6, <1>8
<1> QED
  BY <1>2, <1>5, <1>7, <1>8, <1>9, <1>10, <1>11, <1>12 DEF Top
----------------------------------------------------------------------------
(* What a step leaves alone.                                               *)

\* Thread u has the same slabs in the same places.
Keeps(u) ==
    /\ th'[u].slab = th[u].slab
    /\ GivenBack(u)' <=> GivenBack(u)
    /\ Growing(u)' <=> Growing(u)
    /\ Growing(u) => /\ th'[u].first = th[u].first /\ th'[u].last = th[u].last
                     /\ th'[u].count = th[u].count
    /\ arena'[u].head = arena[u].head /\ arena'[u].tail = arena[u].tail
    /\ arena'[u].count = arena[u].count

\* t writes only links of slabs that it owns or that nobody knows.
OwnLinks(kind, owner, t) ==
    \A s \in Slabs : next'[s] # next[s] => \/ kind[s] = "none"
                                           \/ kind[s] \in Parts /\ owner[s] = t

LEMMA ThreadFrame ==
    ASSUME NEW kind, NEW owner, NEW rank, NEW u, ThreadShape(kind, owner, rank, u),
           NEW kind2, NEW owner2, NEW rank2, Keeps(u),
           \A c \in Parts : Part(kind2, owner2, c, u) = Part(kind, owner, c, u),
           \A c \in Parts : \A s \in Part(kind, owner, c, u) : rank2[s] = rank[s],
           \A c \in {"arena", "chunk"} : \A s \in Part(kind, owner, c, u) :
               rank[s] > 1 => next'[s] = next[s]
    PROVE  ThreadShape(kind2, owner2, rank2, u)'
<1>1. Part(kind2, owner2, "hand", u) = {th'[u].slab} \ {Null}
  BY DEF ThreadShape, Keeps, Parts
<1>2. PICK S : S = Part(kind, owner, "arena", u)
  OBVIOUS
<1>3. PICK C : C = Part(kind, owner, "chunk", u)
  OBVIOUS
<1>4. /\ Part(kind2, owner2, "arena", u) = S /\ Part(kind2, owner2, "chunk", u) = C
      /\ \A s \in S \cup C : rank2[s] = rank[s] /\ (rank[s] > 1 => next'[s] = next[s])
  BY <1>2, <1>3 DEF Parts
<1>5. IF GivenBack(u)' THEN S = {}
      ELSE /\ IsChain(next', S, rank2, arena'[u].head, arena'[u].count)
           /\ arena'[u].head = Null => arena'[u].tail = Null
           /\ arena'[u].head # Null => arena'[u].tail \in S /\ rank2[arena'[u].tail] = 1
  <2>1. CASE GivenBack(u)
    BY <1>2, <2>1 DEF ThreadShape, Keeps
  <2>2. CASE ~GivenBack(u)
    <3>1. /\ IsChain(next, S, rank, arena[u].head, arena[u].count)
          /\ arena[u].head = Null => arena[u].tail = Null
          /\ arena[u].head # Null => arena[u].tail \in S /\ rank[arena[u].tail] = 1
      BY <2>2, <1>2 DEF ThreadShape
    <3>2. IsChain(next', S, rank2, arena[u].head, arena[u].count)
      BY <3>1, <1>4, ChainFrame
    <3> QED
      BY <2>2, <3>1, <3>2, <1>4 DEF Keeps
  <2> QED
    BY <2>1, <2>2
<1>6. IF Growing(u)' THEN /\ IsChain(next', C, rank2, th'[u].first, th'[u].count)
                          /\ th'[u].last \in C /\ rank2[th'[u].last] = 1
      ELSE C = {}
  <2>1. CASE ~Growing(u)
    BY <1>3, <2>1 DEF ThreadShape, Keeps
  <2>2. CASE Growing(u)
    <3>1. IsChain(next, C, rank, th[u].first, th[u].count) /\ th[u].last \in C /\ rank[th[u].last] = 1
      BY <2>2, <1>3 DEF ThreadShape
    <3>2. IsChain(next', C, rank2, th[u].first, th[u].count)
      BY <3>1, <1>4, ChainFrame
    <3> QED
      BY <2>2, <3>1, <3>2, <1>4 DEF Keeps
  <2> QED
    BY <2>1, <2>2
<1> QED
  BY <1>1, <1>4, <1>5, <1>6 DEF ThreadShape

\* The places stay right in a step that moves no slab.
LEMMA QuietShape ==
    ASSUME NEW kind, NEW owner, NEW rank, NEW size, Shape(kind, owner, rank, size),
           head'.ptr = head.ptr, total' = total, \A u \in Threads : Keeps(u),
           \A s \in Slabs : kind[s] = "stack" \/ (kind[s] # "hand" /\ rank[s] > 1) => next'[s] = next[s]
    PROVE  Shape(kind, owner, rank, size)'
<1>1. \A s \in Slabs : IF s > total' THEN kind[s] = "none"
                       ELSE kind[s] = "stack" \/ (kind[s] \in Parts /\ owner[s] \in Threads)
  BY DEF Shape
<1>2. IsChain(next', Stack(kind), rank, head'.ptr, size)
  <2>1. IsChain(next, Stack(kind), rank, head.ptr, size)
    BY DEF Shape
  <2>2. \A s \in Stack(kind) : next'[s] = next[s]
    BY DEF Stack
  <2>3. IsChain(next', Stack(kind), rank, head.ptr, size)
    BY <2>1, <2>2, ChainFrame
  <2> QED
    BY <2>3
<1>3. \A s \in Stack(kind) : rank[s] = 1 => next'[s] = Null
  BY DEF Shape, Stack
<1>4. ASSUME NEW u \in Threads PROVE ThreadShape(kind, owner, rank, u)'
  <2>1. ThreadShape(kind, owner, rank, u) /\ Keeps(u)
    BY DEF Shape
  <2>2. \A c \in {"arena", "chunk"} : \A s \in Part(kind, owner, c, u) :
            rank[s] > 1 => next'[s] = next[s]
    BY DEF Part
  <2> QED
    BY <2>1, <2>2, ThreadFrame
<1>5. Stack(kind)' = Stack(kind)
  BY DEF Stack, Slabs
<1> QED
  BY <1>1, <1>2, <1>3, <1>4, <1>5 DEF Shape

\* Threads that do not move keep what they know of the head and the links.
LEMMA TagsFrame ==
    ASSUME NEW kind, NEW owner, NEW rank, NEW size, Shape(kind, owner, rank, size),
           TypeInv, Locals, NEW t, OwnLinks(kind, owner, t),
           NEW u \in Threads \ {t}, TagsOf(u), th'[u] = th[u],
           head' = head \/ head'.tag = head.tag + 1
    PROVE  TagsOf(u)'
<1>1. head.tag \in Nat /\ th[u].cur.tag \in Nat
  BY DEF TypeInv, ThreadType
<1>2. /\ th'[u].pc \in {"next", "take"} => th'[u].cur.ptr # Null
      /\ th'[u].pc \in {"next", "take", "link", "put"} => th'[u].cur.tag <= head'.tag
  BY <1>1 DEF TagsOf
<1>3. th'[u].pc = "take" /\ th'[u].cur = head' => th'[u].nxt = next'[head'.ptr]
  <2> SUFFICES ASSUME th[u].pc = "take", th[u].cur = head' PROVE th[u].nxt = next'[head'.ptr]
    OBVIOUS
  <2>1. head' = head
    BY <1>1 DEF TagsOf
  <2>2. head.ptr \in Slabs /\ kind[head.ptr] = "stack"
    BY <2>1 DEF TagsOf, Shape, IsChain, Stack
  <2>3. next'[head.ptr] = next[head.ptr]
    BY <2>2 DEF OwnLinks, Parts
  <2> QED
    BY <2>1, <2>3 DEF TagsOf
<1>4. th'[u].pc = "put" => next'[th'[u].last] = th'[u].cur.ptr
  <2> SUFFICES ASSUME th[u].pc = "put" PROVE next'[th[u].last] = th[u].cur.ptr
    OBVIOUS
  <2>0. ThreadShape(kind, owner, rank, u) /\ LocalsOf(u)
    BY DEF Shape, Locals
  <2>1. th[u].last \in Slabs /\ kind[th[u].last] \in Parts /\ owner[th[u].last] = u
    <3>1. CASE th[u].slab # Null
      BY <2>0, <3>1 DEF ThreadShape, Growing, Putting, Part, Parts
    <3>2. CASE th[u].slab = Null
      <4>1. th[u].last = arena[u].tail /\ th[u].count > 0 /\ th[u].count = arena[u].count
        BY <2>0, <3>2 DEF LocalsOf, Returning, Putting
      <4>2. arena[u].head # Null
        BY <2>0, <3>2, <4>1 DEF ThreadShape, GivenBack, IsChain
      <4> QED
        BY <2>0, <3>2, <4>1, <4>2 DEF ThreadShape, GivenBack, Part, Parts
    <3> QED
      BY <3>1, <3>2
  <2>2. next'[th[u].last] = next[th[u].last]
    BY <2>1 DEF OwnLinks, Parts
  <2> QED
    BY <2>2 DEF TagsOf
<1> QED
  BY <1>2, <1>3, <1>4 DEF TagsOf

----------------------------------------------------------------------------
(* The operations under way.                                               *)

LEMMA PairsCount ==
    ASSUME NEW t, NEW n \in Nat
    PROVE  IsFiniteSet({<<t, i>> : i \in 1 .. n}) /\ Cardinality({<<t, i>> : i \in 1 .. n}) = n
<1> PICK S : S = {<<t, i>> : i \in 1 .. n}
  OBVIOUS
<1> PICK f : f = [i \in 1 .. n |-> <<t, i>>]
  OBVIOUS
<1>1. f \in [1 .. n -> S]
  OBVIOUS
<1>2. \A i, j \in 1 .. n : f[i] = f[j] => i = j
  OBVIOUS
<1>3. \A x \in S : \E i \in 1 .. n : f[i] = x
  OBVIOUS
<1>4. f \in Bijection(1 .. n, S)
  <2>1. f \in Injection(1 .. n, S)
    BY <1>1, <1>2 DEF Injection, IsInjective
  <2>2. f \in Surjection(1 .. n, S)
    BY <1>1, <1>3 DEF Surjection
  <2> QED
    BY <2>1, <2>2 DEF Bijection
<1>5. IsFiniteSet(1 .. n) /\ Cardinality(1 .. n) = n
  BY FS_Interval
<1>6. ExistsBijection(1 .. n, S)
  BY <1>4 DEF ExistsBijection
<1> QED
  BY <1>5, <1>6, FS_Bijection

LEMMA PutsFinite ==
    ASSUME NEW p \in [Threads -> ThreadType], NEW T \in SUBSET Threads
    PROVE  IsFiniteSet(Puts(p, T))
<1> PICK A : A = {u \in T : p[u].pc = "add"}
  OBVIOUS
<1> PICK F : F = {{<<t, i>> : i \in 1 .. p[t].count} : t \in A}
  OBVIOUS
<1>1. A \subseteq Threads /\ IsFiniteSet(A)
  BY PoolAssumption, FS_Subset
<1>2. \A B \in F : IsFiniteSet(B)
  <2> SUFFICES ASSUME NEW t \in A PROVE IsFiniteSet({<<t, i>> : i \in 1 .. p[t].count})
    OBVIOUS
  <2>1. p[t].count \in Nat
    BY <1>1 DEF ThreadType
  <2> QED
    BY <2>1, PairsCount
<1>3. IsFiniteSet(F)
  <2> PICK f : f = [t \in A |-> {<<t, i>> : i \in 1 .. p[t].count}]
    OBVIOUS
  <2>1. \A t \in A : f[t] = {<<t, i>> : i \in 1 .. p[t].count}
    OBVIOUS
  <2>2. \A B \in F : \E t \in A : f[t] = B
    BY <2>1, Zenon
  <2>4. ASSUME NEW t \in A PROVE f[t] \in F
    <3>1. {<<t, i>> : i \in 1 .. p[t].count} \in F
      OBVIOUS
    <3> QED
      BY <2>1, <3>1, Zenon
  <2>5. f \in [A -> F]
    BY <2>4
  <2>3. f \in Surjection(A, F)
    BY <2>2, <2>5 DEF Surjection
  <2> QED
    BY <1>1, <2>3, FS_Surjection
<1>4. Puts(p, T) = UNION F
  BY DEF Puts
<1> QED
  BY <1>2, <1>3, <1>4, FS_UNION

\* What the thread in state x adds to the difference.
Weight(x) == IF x.pc = "count" THEN 1 ELSE IF x.pc = "add" THEN -x.count ELSE 0

\* The difference without t, and with it.
LEMMA PendingSplit ==
    ASSUME NEW p \in [Threads -> ThreadType], NEW t \in Threads
    PROVE  LET others == Cardinality(Takers(p) \ {t}) - Cardinality(Puts(p, Threads \ {t}))
           IN  others \in Int /\ Weight(p[t]) \in Int /\ Pending(p) = others + Weight(p[t])
<1> PICK A : A = Takers(p)
  OBVIOUS
<1> PICK P : P = Puts(p, Threads)
  OBVIOUS
<1> PICK R : R = Puts(p, Threads \ {t})
  OBVIOUS
<1> PICK Q : Q = {<<t, i>> : i \in 1 .. p[t].count}
  OBVIOUS
<1>0. p[t].count \in Nat
  BY DEF ThreadType
<1>1. IsFiniteSet(A)
  <2>1. A \subseteq Threads
    BY DEF Takers
  <2> QED
    BY <2>1, PoolAssumption, FS_Subset
<1>2. IsFiniteSet(P) /\ IsFiniteSet(R)
  BY PutsFinite
<1>3. IsFiniteSet(Q) /\ Cardinality(Q) = p[t].count
  BY <1>0, PairsCount
<1>4. /\ Cardinality(A) \in Nat /\ Cardinality(P) \in Nat /\ Cardinality(R) \in Nat
      /\ Cardinality(A \ {t}) \in Nat
  <2>1. IsFiniteSet(A \ {t})
    BY <1>1, FS_RemoveElement
  <2> QED
    BY <1>1, <1>2, <2>1, FS_CardinalityType
<1>5. Cardinality(A) = Cardinality(A \ {t}) + (IF p[t].pc = "count" THEN 1 ELSE 0)
  <2>1. t \in A <=> p[t].pc = "count"
    BY DEF Takers
  <2>2. Cardinality(A \ {t}) = IF t \in A THEN Cardinality(A) - 1 ELSE Cardinality(A)
    BY <1>1, FS_RemoveElement
  <2> QED
    BY <1>4, <2>1, <2>2
<1>6. Cardinality(P) = Cardinality(R) + (IF p[t].pc = "add" THEN p[t].count ELSE 0)
  <2>1. CASE p[t].pc # "add"
    <3>1. P = R
      BY <2>1 DEF Puts
    <3> QED
      BY <2>1, <3>1, <1>4
  <2>2. CASE p[t].pc = "add"
    <3>1. P = R \cup Q
      BY <2>2 DEF Puts
    <3>2. R \cap Q = {}
      BY DEF Puts
    <3>3. Cardinality(R \cap Q) = 0
      BY <3>2, FS_EmptySet
    <3>4. Cardinality(R \cup Q) = Cardinality(R) + Cardinality(Q) - Cardinality(R \cap Q)
      BY <1>2, <1>3, FS_Union
    <3> QED
      BY <2>2, <3>1, <3>3, <3>4, <1>3, <1>4, <1>0
  <2> QED
    BY <2>1, <2>2
<1> QED
  BY <1>0, <1>4, <1>5, <1>6 DEF Pending, Weight

\* A step of t changes the difference by its own weight.
LEMMA PendingStep ==
    ASSUME NEW p \in [Threads -> ThreadType], NEW q \in [Threads -> ThreadType],
           NEW t \in Threads, \A u \in Threads \ {t} : q[u] = p[u]
    PROVE  /\ Pending(p) \in Int /\ Weight(p[t]) \in Int /\ Weight(q[t]) \in Int
           /\ Pending(q) = Pending(p) + Weight(q[t]) - Weight(p[t])
<1>1. Takers(q) \ {t} = Takers(p) \ {t}
  BY DEF Takers
<1>2. {u \in Threads \ {t} : q[u].pc = "add"} = {u \in Threads \ {t} : p[u].pc = "add"}
  OBVIOUS
<1>3. Puts(q, Threads \ {t}) = Puts(p, Threads \ {t})
  BY <1>2 DEF Puts
<1> PICK others : others = Cardinality(Takers(p) \ {t}) - Cardinality(Puts(p, Threads \ {t}))
  OBVIOUS
<1>4. others \in Int /\ Weight(p[t]) \in Int /\ Pending(p) = others + Weight(p[t])
  BY PendingSplit
<1>5. Weight(q[t]) \in Int /\ Pending(q) = others + Weight(q[t])
  BY <1>1, <1>3, PendingSplit
<1> QED
  BY <1>4, <1>5

\* The count follows when it moves with the stack and the operations.
LEMMA CountedStep ==
    ASSUME TypeInv, th' \in [Threads -> ThreadType], NEW t \in Threads,
           \A u \in Threads \ {t} : th'[u] = th[u],
           NEW size \in Nat, Counted(size), NEW size2 \in Nat, NEW d \in Int,
           available' = (available + d) % USIZE \/ (d = 0 /\ available' = available),
           size2 + Weight(th'[t]) - size - Weight(th[t]) = d
    PROVE  Counted(size2)'
<1>1. /\ Pending(th) \in Int /\ Weight(th[t]) \in Int /\ Weight(th'[t]) \in Int
      /\ Pending(th') = Pending(th) + Weight(th'[t]) - Weight(th[t])
  <2>1. th \in [Threads -> ThreadType]
    BY DEF TypeInv
  <2> QED
    BY <2>1, PendingStep
<1>2. size2 + Pending(th') = size + Pending(th) + d
  BY <1>1
<1>3. available' = (size + Pending(th) + d) % USIZE
  <2>1. available = (size + Pending(th)) % USIZE
    BY DEF Counted
  <2>2. USIZE \in Nat \ {0} /\ size + Pending(th) \in Int
    BY <1>1, PoolAssumption
  <2>3. CASE d = 0 /\ available' = available
    <3>1. size + Pending(th) + d = size + Pending(th)
      BY <2>2, <2>3
    <3> QED
      BY <2>1, <2>3, <3>1
  <2>4. CASE available' = (available + d) % USIZE
    BY <2>1, <2>2, <2>4, WrappedSum
  <2> QED
    BY <2>3, <2>4
<1> QED
  BY <1>2, <1>3 DEF Counted, Pending, Takers, Puts
----------------------------------------------------------------------------
(* Steps of the pool that move no slab.                                    *)

LEMMA LocalsFrame ==
    ASSUME Locals, NEW u \in Threads, th'[u] = th[u], arena'[u] = arena[u]
    PROVE  LocalsOf(u)'
  BY DEF Locals, LocalsOf, Returning

LEMMA BlocksFrame ==
    ASSUME NEW kind, NEW owner, Blocks(kind, owner), NEW kind2, NEW owner2, NEW u \in Threads,
           th'[u] = th[u], arena'[u] = arena[u], asked'[u] = asked[u], live'[u] = live[u],
           ops'[u] = ops[u], Part(kind, owner, "arena", u) \subseteq Part(kind2, owner2, "arena", u)
    PROVE  BlocksOf(kind2, owner2, u)'
<1>1. BlocksOf(kind, owner, u)
  BY DEF Blocks
<1>2. Slow(u)' <=> Slow(u)
  BY DEF Slow
<1>3. Resetting(u)' <=> Resetting(u)
  BY <1>2 DEF Resetting
<1>4. Part(kind2, owner2, "arena", u)' = Part(kind2, owner2, "arena", u)
  BY DEF Part, Slabs
<1> QED
  BY <1>1, <1>2, <1>3, <1>4 DEF BlocksOf, Separate, InPlace, Small, Apart, RequestsFit

\* A step of the pool leaves blocks alone.
LEMMA PoolBlocks ==
    ASSUME NEW kind, NEW owner, Blocks(kind, owner), NEW kind2, NEW owner2, NEW t \in Threads,
           \A u \in Threads \ {t} : th'[u] = th[u], UNCHANGED <<arena, asked, live, ops>>,
           th[t].pc # "idle", th'[t].pc # "idle", Slow(t)' <=> Slow(t),
           \A u \in Threads : \/ u = t /\ ~Slow(t)
                              \/ Part(kind, owner, "arena", u) \subseteq Part(kind2, owner2, "arena", u)
    PROVE  Blocks(kind2, owner2)'
<1>1. ASSUME NEW u \in Threads, u # t PROVE BlocksOf(kind2, owner2, u)'
  BY <1>1, BlocksFrame
<1>2. BlocksOf(kind2, owner2, t)'
  <2>1. BlocksOf(kind, owner, t)
    BY DEF Blocks
  <2>2. Resetting(t)' <=> Resetting(t)
    BY DEF Resetting
  <2>3. Part(kind2, owner2, "arena", t)' = Part(kind2, owner2, "arena", t)
    BY DEF Part, Slabs
  <2>4. \/ live[t] = {}
        \/ Part(kind, owner, "arena", t) \subseteq Part(kind2, owner2, "arena", t)
    BY <2>1 DEF BlocksOf, Resetting
  <2> QED
    BY <2>1, <2>2, <2>3, <2>4 DEF BlocksOf, Separate, InPlace, Small, Apart, RequestsFit
<1> QED
  BY <1>1, <1>2 DEF Blocks

LEMMA QuietPool ==
    ASSUME NEW kind, NEW owner, NEW rank, NEW size, Inv(kind, owner, rank, size),
           NEW t \in Threads, \A u \in Threads \ {t} : th'[u] = th[u],
           th' \in [Threads -> ThreadType], next' \in [Slabs -> Pointers],
           UNCHANGED <<head, total, chunks, arena, asked, live, ops>>,
           LocalsOf(t)', TagsOf(t)', Keeps(t), OwnLinks(kind, owner, t),
           \A s \in Slabs : kind[s] # "hand" /\ rank[s] > 1 => next'[s] = next[s],
           th[t].pc # "idle", th'[t].pc # "idle", Slow(t)' <=> Slow(t), Counted(size)'
    PROVE  Inv(kind, owner, rank, size)'
<1>1. TypeInv /\ Locals /\ Tags /\ Shape(kind, owner, rank, size) /\ Blocks(kind, owner)
  BY DEF Inv, Placed
<1>2. TypeInv'
  BY <1>1 DEF TypeInv, Slabs, Pointers
<1>3. Locals'
  <2>1. \A u \in Threads : u # t => LocalsOf(u)'
    BY <1>1, LocalsFrame
  <2> QED
    BY <2>1 DEF Locals
<1>4. Tags'
  <2>1. ASSUME NEW u \in Threads, u # t PROVE TagsOf(u)'
    <3>1. TagsOf(u)
      BY <1>1 DEF Tags
    <3> QED
      BY <1>1, <2>1, <3>1, TagsFrame
  <2> QED
    BY <2>1 DEF Tags
<1>5. Shape(kind, owner, rank, size)'
  <2>1. ASSUME NEW u \in Threads, u # t PROVE Keeps(u)
    BY <2>1 DEF Keeps, GivenBack, Growing
  <2>2. \A s \in Slabs : kind[s] = "stack" => next'[s] = next[s]
    BY DEF OwnLinks, Parts
  <2> QED
    BY <1>1, <2>1, <2>2, QuietShape
<1>6. Blocks(kind, owner)'
  BY <1>1, PoolBlocks
<1> QED
  BY <1>2, <1>3, <1>4, <1>5, <1>6 DEF Inv, Placed

\* The same for a step that writes no link and no counter.
LEMMA QuietMove ==
    ASSUME NEW kind, NEW owner, NEW rank, NEW size, Inv(kind, owner, rank, size),
           NEW t \in Threads, NEW x \in ThreadType, th' = [th EXCEPT ![t] = x],
           UNCHANGED <<head, next, available, total, chunks, arena, asked, live, ops>>,
           LocalsOf(t)', TagsOf(t)', Keeps(t), Slow(t)' <=> Slow(t),
           th[t].pc \notin {"idle", "count", "add"}, x.pc \notin {"idle", "count", "add"}
    PROVE  Inv(kind, owner, rank, size)'
<1>1. TypeInv /\ Shape(kind, owner, rank, size) /\ Counted(size)
  BY DEF Inv, Placed
<1>2. th \in [Threads -> ThreadType] /\ next \in [Slabs -> Pointers]
  BY <1>1 DEF TypeInv
<1>3. /\ th'[t] = x /\ th' \in [Threads -> ThreadType]
      /\ \A u \in Threads \ {t} : th'[u] = th[u]
  BY <1>2
<1>4. Counted(size)'
  <2>1. size \in Nat
    BY <1>1 DEF Shape, IsChain
  <2>2. Weight(th'[t]) = 0 /\ Weight(th[t]) = 0
    BY <1>3 DEF Weight
  <2>3. size + Weight(th'[t]) - size - Weight(th[t]) = 0
    BY <2>1, <2>2
  <2> QED
    BY <1>1, <1>3, <2>1, <2>3, CountedStep
<1>5. OwnLinks(kind, owner, t)
  BY DEF OwnLinks
<1> QED
  BY <1>2, <1>3, <1>4, <1>5, QuietPool

\* What a step of a thread starts from.
LEMMA ThreadFacts ==
    ASSUME NEW kind, NEW owner, NEW rank, NEW size, Inv(kind, owner, rank, size),
           NEW t \in Threads
    PROVE  /\ TypeInv /\ Shape(kind, owner, rank, size) /\ Counted(size) /\ size \in Nat
           /\ th \in [Threads -> ThreadType] /\ th[t] \in ThreadType
           /\ arena \in [Threads -> ArenaType] /\ arena[t] \in ArenaType
           /\ head.ptr \in Pointers /\ head.tag \in Nat /\ head = Tagged(head.ptr, head.tag)
           /\ next \in [Slabs -> Pointers]
           /\ LocalsOf(t) /\ TagsOf(t) /\ ThreadShape(kind, owner, rank, t)
<1>1. TypeInv /\ Locals /\ Tags /\ Shape(kind, owner, rank, size) /\ Counted(size)
  BY DEF Inv, Placed
<1>2. size \in Nat
  BY <1>1 DEF Shape, IsChain
<1> QED
  BY <1>1, <1>2 DEF TypeInv, Locals, Tags, Shape, Tagged

LEMMA OnHeadStep ==
    ASSUME NEW kind, NEW owner, NEW rank, NEW size, Inv(kind, owner, rank, size),
           NEW t \in Threads, th[t].pc \in {"acquire", "take"}, OnHead(t, head),
           UNCHANGED <<poolVars, arena, asked, live, ops>>
    PROVE  Inv(kind, owner, rank, size)'
<1>0. /\ th \in [Threads -> ThreadType] /\ th[t] \in ThreadType /\ LocalsOf(t)
      /\ head \in [ptr : Pointers, tag : Nat]
  BY ThreadFacts DEF TypeInv
<1> PICK place : place = CASE head.ptr # Null -> "next"
                           [] head.ptr = Null /\ AllowGrowth -> "lock"
                           [] OTHER -> "acquired"
  OBVIOUS
<1>1. place \in {"next", "lock", "acquired"} /\ (place = "next" => head.ptr # Null)
  OBVIOUS
<1> PICK x : x = [th[t] EXCEPT !.cur = head, !.pc = place]
  OBVIOUS
<1>2. /\ x \in ThreadType /\ x.pc = place /\ x.cur = head /\ x.slab = th[t].slab
      /\ th' = [th EXCEPT ![t] = x]
  BY <1>0, <1>1 DEF ThreadType, Labels, OnHead
<1>3. th'[t] = x
  BY <1>0, <1>2
<1>4. th[t].slab = Null /\ arena' = arena /\ head' = head
  BY <1>0 DEF LocalsOf, poolVars
<1>5. LocalsOf(t)'
  BY <1>1, <1>2, <1>3, <1>4 DEF LocalsOf, Returning, Putting
<1>6. TagsOf(t)'
  BY <1>0, <1>1, <1>2, <1>3, <1>4 DEF TagsOf
<1>7. Keeps(t)
  BY <1>1, <1>2, <1>3, <1>4 DEF Keeps, GivenBack, Growing, Putting
<1>8. Slow(t)' <=> Slow(t)
  BY <1>1, <1>2, <1>3, <1>4 DEF Slow, Putting
<1>9. UNCHANGED <<head, next, available, total, chunks, arena, asked, live, ops>>
  BY DEF poolVars
<1> QED
  BY <1>1, <1>2, <1>5, <1>6, <1>7, <1>8, <1>9, QuietMove

LEMMA AcquireLoadStep ==
    ASSUME NEW kind, NEW owner, NEW rank, NEW size, Inv(kind, owner, rank, size),
           NEW t \in Threads, AcquireLoad(t), UNCHANGED <<arena, asked, live, ops>>
    PROVE  Inv(kind, owner, rank, size)'
<1>1. th[t].pc \in {"acquire", "take"} /\ OnHead(t, head)
  BY DEF AcquireLoad, At
<1>2. UNCHANGED <<poolVars, arena, asked, live, ops>>
  BY DEF AcquireLoad
<1> QED
  BY <1>1, <1>2, OnHeadStep

LEMMA AcquireNextStep ==
    ASSUME NEW kind, NEW owner, NEW rank, NEW size, Inv(kind, owner, rank, size),
           NEW t \in Threads, AcquireNext(t), UNCHANGED <<arena, asked, live, ops>>
    PROVE  Inv(kind, owner, rank, size)'
<1>0. /\ th \in [Threads -> ThreadType] /\ th[t] \in ThreadType /\ LocalsOf(t) /\ TagsOf(t)
      /\ next \in [Slabs -> Pointers]
  BY ThreadFacts
<1>1. th[t].pc = "next" /\ th[t].slab = Null /\ th[t].cur.ptr # Null /\ th[t].cur.ptr \in Slabs
  BY <1>0 DEF AcquireNext, At, LocalsOf, TagsOf, ThreadType, Pointers
<1> PICK x : x = [th[t] EXCEPT !.pc = "take", !.nxt = next[th[t].cur.ptr]]
  OBVIOUS
<1>2. /\ x \in ThreadType /\ x.pc = "take" /\ x.cur = th[t].cur /\ x.slab = th[t].slab
      /\ x.nxt = next[th[t].cur.ptr] /\ th' = [th EXCEPT ![t] = x]
  BY <1>0, <1>1 DEF ThreadType, Labels, AcquireNext
<1>3. th'[t] = x
  BY <1>0, <1>2
<1>9. UNCHANGED <<head, next, available, total, chunks, arena, asked, live, ops>>
  BY DEF poolVars, AcquireNext
<1>5. LocalsOf(t)'
  BY <1>1, <1>2, <1>3 DEF LocalsOf, Returning, Putting
<1>6. TagsOf(t)'
  BY <1>0, <1>1, <1>2, <1>3, <1>9 DEF TagsOf
<1>7. Keeps(t)
  BY <1>1, <1>2, <1>3, <1>9 DEF Keeps, GivenBack, Growing, Putting
<1>8. Slow(t)' <=> Slow(t)
  BY <1>1, <1>2, <1>3 DEF Slow, Putting
<1> QED
  BY <1>1, <1>2, <1>5, <1>6, <1>7, <1>8, <1>9, QuietMove

\* release_slab_chain reads the head, first or after a failed CAS.
LEMMA ReadHeadStep ==
    ASSUME NEW kind, NEW owner, NEW rank, NEW size, Inv(kind, owner, rank, size),
           NEW t \in Threads, th[t].pc \in {"release", "put"},
           th' = [th EXCEPT ![t].pc = "link", ![t].cur = head],
           UNCHANGED <<poolVars, arena, asked, live, ops>>
    PROVE  Inv(kind, owner, rank, size)'
<1>0. /\ th \in [Threads -> ThreadType] /\ th[t] \in ThreadType /\ LocalsOf(t)
      /\ head \in [ptr : Pointers, tag : Nat]
  BY ThreadFacts DEF TypeInv
<1> PICK x : x = [th[t] EXCEPT !.pc = "link", !.cur = head]
  OBVIOUS
<1>2. /\ x \in ThreadType /\ x.pc = "link" /\ x.cur = head /\ x.slab = th[t].slab
      /\ x.first = th[t].first /\ x.last = th[t].last /\ x.count = th[t].count
      /\ x.then = th[t].then /\ th' = [th EXCEPT ![t] = x]
  BY <1>0 DEF ThreadType, Labels
<1>3. th'[t] = x
  BY <1>0, <1>2
<1>9. UNCHANGED <<head, next, available, total, chunks, arena, asked, live, ops>>
  BY DEF poolVars
<1>5. LocalsOf(t)'
  BY <1>0, <1>2, <1>3, <1>9 DEF LocalsOf, Returning, Putting
<1>6. TagsOf(t)'
  BY <1>0, <1>2, <1>3, <1>9 DEF TagsOf
<1>7. Keeps(t)
  BY <1>2, <1>3, <1>9 DEF Keeps, GivenBack, Growing, Putting
<1>8. Slow(t)' <=> Slow(t)
  BY <1>2, <1>3, ZenonT(60) DEF Slow, Putting
<1> QED
  BY <1>2, <1>5, <1>6, <1>7, <1>8, <1>9, QuietMove

LEMMA ReleaseLoadStep ==
    ASSUME NEW kind, NEW owner, NEW rank, NEW size, Inv(kind, owner, rank, size),
           NEW t \in Threads, ReleaseLoad(t), UNCHANGED <<arena, asked, live, ops>>
    PROVE  Inv(kind, owner, rank, size)'
<1>1. th[t].pc \in {"release", "put"} /\ th' = [th EXCEPT ![t].pc = "link", ![t].cur = head]
  BY DEF ReleaseLoad, At
<1>2. UNCHANGED <<poolVars, arena, asked, live, ops>>
  BY DEF ReleaseLoad
<1> QED
  BY <1>1, <1>2, ReadHeadStep

\* Growth up to the allocation, and its end.
LEMMA GrowMove ==
    ASSUME NEW kind, NEW owner, NEW rank, NEW size, Inv(kind, owner, rank, size),
           NEW t \in Threads, NEW x \in ThreadType, th' = [th EXCEPT ![t] = x],
           x.slab = th[t].slab, th[t].pc \in {"lock", "peek", "check", "grow", "unlock"},
           x.pc \in {"lock", "peek", "check", "grow", "unlock", "acquire", "acquired"},
           x.pc # "acquired" => x.slab = Null,
           x.pc = "unlock" => x.then \in {"acquire", "acquired"},
           UNCHANGED <<head, next, available, total, chunks, arena, asked, live, ops>>
    PROVE  Inv(kind, owner, rank, size)'
<1>1. th'[t] = x
  BY ThreadFacts
<1>2. LocalsOf(t)'
  BY <1>1 DEF LocalsOf, Returning, Putting
<1>3. TagsOf(t)'
  BY <1>1 DEF TagsOf
<1>4. Keeps(t)
  BY <1>1 DEF Keeps, GivenBack, Growing, Putting
<1>5. Slow(t)' <=> Slow(t)
  BY <1>1 DEF Slow, Putting
<1> QED
  BY <1>2, <1>3, <1>4, <1>5, QuietMove

LEMMA GrowLockStep ==
    ASSUME NEW kind, NEW owner, NEW rank, NEW size, Inv(kind, owner, rank, size),
           NEW t \in Threads, GrowLock(t) \/ GrowPeek(t), UNCHANGED <<arena, asked, live, ops>>
    PROVE  Inv(kind, owner, rank, size)'
<1>0. th \in [Threads -> ThreadType] /\ th[t] \in ThreadType /\ LocalsOf(t)
  BY ThreadFacts
<1>1. PICK place \in {"check", "peek", "acquire", "lock"} : th' = [th EXCEPT ![t].pc = place]
  BY DEF GrowLock, GrowPeek, Goto
<1>2. th[t].pc \in {"lock", "peek"}
  BY DEF GrowLock, GrowPeek, At
<1> PICK x : x = [th[t] EXCEPT !.pc = place]
  OBVIOUS
<1>3. x \in ThreadType /\ x.pc = place /\ x.slab = th[t].slab /\ th' = [th EXCEPT ![t] = x]
  BY <1>0, <1>1 DEF ThreadType, Labels
<1>4. th[t].slab = Null
  BY <1>0, <1>2 DEF LocalsOf
<1>5. UNCHANGED <<head, next, available, total, chunks, arena, asked, live, ops>>
  BY DEF GrowLock, GrowPeek, poolVars
<1>6. x.pc \in {"check", "peek", "acquire", "lock"} /\ x.slab = Null
  BY <1>1, <1>3, <1>4
<1> QED
  BY <1>2, <1>3, <1>5, <1>6, GrowMove

LEMMA GrowCheckStep ==
    ASSUME NEW kind, NEW owner, NEW rank, NEW size, Inv(kind, owner, rank, size),
           NEW t \in Threads, GrowCheck(t) \/ GrowFail(t), UNCHANGED <<arena, asked, live, ops>>
    PROVE  Inv(kind, owner, rank, size)'
<1>0. th \in [Threads -> ThreadType] /\ th[t] \in ThreadType /\ LocalsOf(t)
  BY ThreadFacts
<1>2. th[t].pc \in {"check", "grow"}
  BY DEF GrowCheck, GrowFail, At
<1>3. PICK x \in ThreadType : /\ x.pc \in {"grow", "unlock"} /\ x.slab = th[t].slab
                              /\ x.pc = "unlock" => x.then \in {"acquire", "acquired"}
                              /\ th' = [th EXCEPT ![t] = x]
  <2>1. CASE th' = [th EXCEPT ![t].pc = "grow"]
    <3> PICK x : x = [th[t] EXCEPT !.pc = "grow"]
      OBVIOUS
    <3>1. x \in ThreadType /\ x.pc = "grow" /\ x.slab = th[t].slab /\ th' = [th EXCEPT ![t] = x]
      BY <1>0, <2>1 DEF ThreadType, Labels
    <3> QED
      BY <3>1
  <2>2. ASSUME NEW place \in {"acquire", "acquired"},
               th' = [th EXCEPT ![t].pc = "unlock", ![t].then = place]
        PROVE  \E x \in ThreadType : /\ x.pc \in {"grow", "unlock"} /\ x.slab = th[t].slab
                                     /\ x.pc = "unlock" => x.then \in {"acquire", "acquired"}
                                     /\ th' = [th EXCEPT ![t] = x]
    <3> PICK x : x = [th[t] EXCEPT !.pc = "unlock", !.then = place]
      OBVIOUS
    <3>1. /\ x \in ThreadType /\ x.pc = "unlock" /\ x.then = place /\ x.slab = th[t].slab
          /\ th' = [th EXCEPT ![t] = x]
      BY <1>0, <2>2 DEF ThreadType, Labels
    <3> QED
      BY <3>1
  <2> QED
    BY <2>1, <2>2 DEF GrowCheck, GrowFail, Goto
<1>4. th[t].slab = Null
  BY <1>0, <1>2 DEF LocalsOf
<1>5. UNCHANGED <<head, next, available, total, chunks, arena, asked, live, ops>>
  BY DEF GrowCheck, GrowFail, poolVars
<1> QED
  BY <1>2, <1>3, <1>4, <1>5, GrowMove

LEMMA GrowUnlockStep ==
    ASSUME NEW kind, NEW owner, NEW rank, NEW size, Inv(kind, owner, rank, size),
           NEW t \in Threads, GrowUnlock(t), UNCHANGED <<arena, asked, live, ops>>
    PROVE  Inv(kind, owner, rank, size)'
<1>0. th \in [Threads -> ThreadType] /\ th[t] \in ThreadType /\ LocalsOf(t)
  BY ThreadFacts
<1>1. /\ th[t].pc = "unlock" /\ th[t].then \in {"acquire", "acquired"}
      /\ th[t].then # "acquired" => th[t].slab = Null
  BY <1>0 DEF GrowUnlock, At, LocalsOf
<1> PICK x : x = [th[t] EXCEPT !.pc = th[t].then]
  OBVIOUS
<1>3. x \in ThreadType /\ x.pc = th[t].then /\ x.slab = th[t].slab /\ th' = [th EXCEPT ![t] = x]
  BY <1>0, <1>1 DEF ThreadType, Labels, GrowUnlock, Goto
<1>5. UNCHANGED <<head, next, available, total, chunks, arena, asked, live, ops>>
  BY DEF GrowUnlock
<1> QED
  BY <1>1, <1>3, <1>5, GrowMove

LEMMA AcquireCountStep ==
    ASSUME NEW kind, NEW owner, NEW rank, NEW size, Inv(kind, owner, rank, size),
           NEW t \in Threads, AcquireCount(t), UNCHANGED <<arena, asked, live, ops>>
    PROVE  Inv(kind, owner, rank, size)'
<1>0. /\ th \in [Threads -> ThreadType] /\ th[t] \in ThreadType /\ LocalsOf(t) /\ TypeInv
      /\ Counted(size) /\ size \in Nat /\ next \in [Slabs -> Pointers]
  BY ThreadFacts
<1>1. th[t].pc = "count" /\ th[t].slab # Null
  BY <1>0 DEF AcquireCount, At, LocalsOf
<1> PICK x : x = [th[t] EXCEPT !.pc = "clear"]
  OBVIOUS
<1>2. x \in ThreadType /\ x.pc = "clear" /\ x.slab = th[t].slab /\ th' = [th EXCEPT ![t] = x]
  BY <1>0 DEF ThreadType, Labels, AcquireCount, Goto
<1>3. th'[t] = x /\ th' \in [Threads -> ThreadType] /\ \A u \in Threads \ {t} : th'[u] = th[u]
  BY <1>0, <1>2
<1>4. UNCHANGED <<head, next, total, chunks, arena, asked, live, ops>>
  BY DEF AcquireCount
<1>5. Counted(size)'
  <2>1. available' = (available + (-1)) % USIZE
    <3>1. available \in Int
      <4>1. Pending(th) \in Int
        BY <1>0, PendingStep
      <4>2. size + Pending(th) \in Int
        BY <1>0, <4>1
      <4> QED
        BY <4>2, PoolAssumption, <1>0 DEF Counted
    <3>2. available - 1 = available + (-1)
      BY <3>1
    <3> QED
      BY <3>2 DEF AcquireCount
  <2>2. size + Weight(th'[t]) - size - Weight(th[t]) = -1
    BY <1>0, <1>1, <1>2, <1>3 DEF Weight
  <2> QED
    BY <1>0, <1>3, <2>1, <2>2, CountedStep
<1>6. LocalsOf(t)' /\ TagsOf(t)'
  BY <1>1, <1>2, <1>3 DEF LocalsOf, TagsOf, Returning, Putting
<1>7. Keeps(t) /\ (Slow(t)' <=> Slow(t))
  BY <1>1, <1>2, <1>3, <1>4 DEF Keeps, GivenBack, Growing, Putting, Slow
<1>8. OwnLinks(kind, owner, t)
  BY <1>4 DEF OwnLinks
<1> QED
  BY <1>0, <1>1, <1>2, <1>3, <1>4, <1>5, <1>6, <1>7, <1>8, QuietPool

LEMMA AcquireClearStep ==
    ASSUME NEW kind, NEW owner, NEW rank, NEW size, Inv(kind, owner, rank, size),
           NEW t \in Threads, AcquireClear(t), UNCHANGED <<arena, asked, live, ops>>
    PROVE  Inv(kind, owner, rank, size)'
<1>0. /\ th \in [Threads -> ThreadType] /\ th[t] \in ThreadType /\ LocalsOf(t) /\ TypeInv
      /\ Counted(size) /\ size \in Nat /\ next \in [Slabs -> Pointers]
      /\ ThreadShape(kind, owner, rank, t)
  BY ThreadFacts
<1>1. th[t].pc = "clear" /\ th[t].slab # Null /\ th[t].slab \in Slabs
  BY <1>0 DEF AcquireClear, At, LocalsOf, ThreadType, Pointers
<1>a. kind[th[t].slab] = "hand" /\ owner[th[t].slab] = t
  BY <1>0, <1>1 DEF ThreadShape, Part
<1> PICK x : x = [th[t] EXCEPT !.pc = "acquired"]
  OBVIOUS
<1>2. x \in ThreadType /\ x.pc = "acquired" /\ x.slab = th[t].slab /\ th' = [th EXCEPT ![t] = x]
  BY <1>0 DEF ThreadType, Labels, AcquireClear, Goto
<1>3. th'[t] = x /\ th' \in [Threads -> ThreadType] /\ \A u \in Threads \ {t} : th'[u] = th[u]
  BY <1>0, <1>2
<1>4. UNCHANGED <<head, available, total, chunks, arena, asked, live, ops>>
  BY DEF AcquireClear
<1>b. /\ next' \in [Slabs -> Pointers]
      /\ \A s \in Slabs : s # th[t].slab => next'[s] = next[s]
  BY <1>0 DEF AcquireClear, Pointers
<1>5. Counted(size)'
  <2>1. size + Weight(th'[t]) - size - Weight(th[t]) = 0
    BY <1>0, <1>1, <1>2, <1>3 DEF Weight
  <2> QED
    BY <1>0, <1>3, <1>4, <2>1, CountedStep
<1>6. LocalsOf(t)' /\ TagsOf(t)'
  BY <1>1, <1>2, <1>3 DEF LocalsOf, TagsOf, Returning, Putting
<1>7. Keeps(t) /\ (Slow(t)' <=> Slow(t))
  BY <1>1, <1>2, <1>3, <1>4 DEF Keeps, GivenBack, Growing, Putting, Slow
<1>8. OwnLinks(kind, owner, t)
  BY <1>a, <1>b DEF OwnLinks, Parts
<1>9. \A s \in Slabs : kind[s] # "hand" /\ rank[s] > 1 => next'[s] = next[s]
  BY <1>a, <1>b
<1> QED
  BY <1>1, <1>2, <1>3, <1>4, <1>b, <1>5, <1>6, <1>7, <1>8, <1>9, QuietPool
----------------------------------------------------------------------------
(* Steps that push.                                                        *)

\* The chain a thread pushes: a chunk, or the slabs of its arena.
LEMMA PuttingChain ==
    ASSUME NEW kind, NEW owner, NEW rank, NEW t, LocalsOf(t), ThreadShape(kind, owner, rank, t),
           th[t].pc \in Putting
    PROVE  \E c \in {"arena", "chunk"} :
              /\ c = "chunk" <=> th[t].slab # Null
              /\ IsChain(next, Part(kind, owner, c, t), rank, th[t].first, th[t].count)
              /\ th[t].count > 0
              /\ th[t].last \in Part(kind, owner, c, t) /\ rank[th[t].last] = 1
<1>1. CASE th[t].slab # Null
  <2>1. Growing(t)
    BY <1>1 DEF Growing
  <2> QED
    BY <1>1, <2>1 DEF LocalsOf, ThreadShape
<1>2. CASE th[t].slab = Null
  <2>1. Returning(t) /\ ~GivenBack(t)
    BY <1>2 DEF Returning, GivenBack, Putting
  <2>2. /\ IsChain(next, Part(kind, owner, "arena", t), rank, th[t].first, th[t].count)
        /\ th[t].count > 0 /\ th[t].first # Null
    BY <2>1 DEF LocalsOf, ThreadShape, IsChain
  <2> QED
    BY <1>2, <2>1, <2>2 DEF LocalsOf, ThreadShape
<1> QED
  BY <1>1, <1>2

LEMMA ReleaseLinkStep ==
    ASSUME NEW kind, NEW owner, NEW rank, NEW size, Inv(kind, owner, rank, size),
           NEW t \in Threads, ReleaseLink(t), UNCHANGED <<arena, asked, live, ops>>
    PROVE  Inv(kind, owner, rank, size)'
<1>0. /\ th \in [Threads -> ThreadType] /\ th[t] \in ThreadType /\ LocalsOf(t) /\ TypeInv
      /\ Counted(size) /\ size \in Nat /\ next \in [Slabs -> Pointers]
      /\ ThreadShape(kind, owner, rank, t) /\ TagsOf(t)
  BY ThreadFacts
<1>1. th[t].pc = "link"
  BY DEF ReleaseLink, At
<1>a. /\ th[t].last \in Slabs /\ kind[th[t].last] \in {"arena", "chunk"}
      /\ owner[th[t].last] = t /\ rank[th[t].last] = 1
  <2>1. th[t].pc \in Putting
    BY <1>1 DEF Putting
  <2>2. PICK c \in {"arena", "chunk"} : th[t].last \in Part(kind, owner, c, t) /\ rank[th[t].last] = 1
    BY <1>0, <2>1, PuttingChain
  <2> QED
    BY <2>2 DEF Part
<1> PICK x : x = [th[t] EXCEPT !.pc = "put"]
  OBVIOUS
<1>2. /\ x \in ThreadType /\ x.pc = "put" /\ x.cur = th[t].cur /\ x.slab = th[t].slab
      /\ x.first = th[t].first /\ x.last = th[t].last /\ x.count = th[t].count
      /\ x.then = th[t].then /\ th' = [th EXCEPT ![t] = x]
  BY <1>0 DEF ThreadType, Labels, ReleaseLink, Goto
<1>3. th'[t] = x /\ th' \in [Threads -> ThreadType] /\ \A u \in Threads \ {t} : th'[u] = th[u]
  BY <1>0, <1>2
<1>4. UNCHANGED <<head, available, total, chunks, arena, asked, live, ops>>
  BY DEF ReleaseLink
<1>b. /\ next' \in [Slabs -> Pointers] /\ next'[th[t].last] = th[t].cur.ptr
      /\ \A s \in Slabs : s # th[t].last => next'[s] = next[s]
  <2>1. th[t].cur.ptr \in Pointers
    BY <1>0 DEF ThreadType
  <2> QED
    BY <1>0, <1>a, <2>1 DEF ReleaseLink
<1>5. Counted(size)'
  <2>1. size + Weight(th'[t]) - size - Weight(th[t]) = 0
    BY <1>0, <1>1, <1>2, <1>3 DEF Weight
  <2> QED
    BY <1>0, <1>3, <1>4, <2>1, CountedStep
<1>6. LocalsOf(t)' /\ TagsOf(t)'
  BY <1>0, <1>1, <1>2, <1>3, <1>4, <1>b DEF LocalsOf, TagsOf, Returning, Putting
<1>7. Keeps(t) /\ (Slow(t)' <=> Slow(t))
  BY <1>1, <1>2, <1>3, <1>4 DEF Keeps, GivenBack, Growing, Putting, Slow
<1>8. OwnLinks(kind, owner, t)
  BY <1>a, <1>b DEF OwnLinks, Parts
<1>9. \A s \in Slabs : kind[s] # "hand" /\ rank[s] > 1 => next'[s] = next[s]
  BY <1>a, <1>b
<1> QED
  BY <1>1, <1>2, <1>3, <1>4, <1>b, <1>5, <1>6, <1>7, <1>8, <1>9, QuietPool

LEMMA ReleaseCountStep ==
    ASSUME NEW kind, NEW owner, NEW rank, NEW size, Inv(kind, owner, rank, size),
           NEW t \in Threads, ReleaseCount(t), UNCHANGED <<arena, asked, live, ops>>
    PROVE  Inv(kind, owner, rank, size)'
<1>0. /\ th \in [Threads -> ThreadType] /\ th[t] \in ThreadType /\ LocalsOf(t) /\ TypeInv
      /\ Counted(size) /\ size \in Nat /\ next \in [Slabs -> Pointers]
  BY ThreadFacts
<1>1. th[t].pc = "add" /\ th[t].count \in Nat
  BY <1>0 DEF ReleaseCount, At, ThreadType
<1> PICK place : place = IF th[t].slab # Null THEN "unlock" ELSE "released"
  OBVIOUS
<1> PICK x : x = [th[t] EXCEPT !.pc = place]
  OBVIOUS
<1>2. /\ x \in ThreadType /\ x.pc = place /\ x.slab = th[t].slab /\ x.then = th[t].then
      /\ th' = [th EXCEPT ![t] = x]
  BY <1>0 DEF ThreadType, Labels, ReleaseCount, Goto
<1>3. th'[t] = x /\ th' \in [Threads -> ThreadType] /\ \A u \in Threads \ {t} : th'[u] = th[u]
  BY <1>0, <1>2
<1>4. UNCHANGED <<head, next, total, chunks, arena, asked, live, ops>>
  BY DEF ReleaseCount
<1>5. Counted(size)'
  <2>1. available' = (available + th[t].count) % USIZE
    BY DEF ReleaseCount
  <2>2. size + Weight(th'[t]) - size - Weight(th[t]) = th[t].count
    BY <1>0, <1>1, <1>2, <1>3 DEF Weight
  <2> QED
    BY <1>0, <1>1, <1>3, <2>1, <2>2, CountedStep
<1>6. LocalsOf(t)' /\ TagsOf(t)'
  BY <1>0, <1>1, <1>2, <1>3 DEF LocalsOf, TagsOf, Returning, Putting
<1>7. Keeps(t) /\ (Slow(t)' <=> Slow(t))
  BY <1>1, <1>2, <1>3, <1>4 DEF Keeps, GivenBack, Growing, Putting, Slow
<1>8. OwnLinks(kind, owner, t)
  BY <1>4 DEF OwnLinks
<1>9. th'[t].pc # "idle"
  BY <1>2, <1>3
<1> QED
  BY <1>0, <1>1, <1>3, <1>4, <1>5, <1>6, <1>7, <1>8, <1>9, QuietPool
----------------------------------------------------------------------------
(* Steps that move slabs.                                                  *)

\* t moves slabs from and to places of its own and the stack.
Moves(kind, owner, rank, kind2, owner2, rank2, t) ==
    \A s \in Slabs :
        \/ kind2[s] = kind[s] /\ owner2[s] = owner[s] /\ (kind[s] \in Parts => rank2[s] = rank[s])
        \/ (kind[s] \in Parts => owner[s] = t) /\ (kind2[s] \in Parts => owner2[s] = t)

LEMMA ThreadStep ==
    ASSUME NEW kind, NEW owner, NEW rank, NEW size, Inv(kind, owner, rank, size),
           NEW kind2, NEW owner2, NEW rank2, NEW size2,
           NEW t \in Threads, Moves(kind, owner, rank, kind2, owner2, rank2, t),
           \A u \in Threads \ {t} : /\ th'[u] = th[u] /\ arena'[u] = arena[u]
                                    /\ asked'[u] = asked[u] /\ live'[u] = live[u] /\ ops'[u] = ops[u],
           TypeInv', LocalsOf(t)', TagsOf(t)', Counted(size2)', BlocksOf(kind2, owner2, t)',
           OwnLinks(kind, owner, t), head' = head \/ head'.tag = head.tag + 1,
           \A s \in Slabs : IF s > total' THEN kind2[s] = "none"
                            ELSE kind2[s] = "stack" \/ (kind2[s] \in Parts /\ owner2[s] \in Threads),
           IsChain(next', Stack(kind2), rank2, head'.ptr, size2),
           \A s \in Stack(kind2) : rank2[s] = 1 => next'[s] = Null,
           ThreadShape(kind2, owner2, rank2, t)'
    PROVE  Inv(kind2, owner2, rank2, size2)'
<1>1. TypeInv /\ Locals /\ Tags /\ Shape(kind, owner, rank, size) /\ Blocks(kind, owner)
  BY DEF Inv, Placed
<1>2. ASSUME NEW u \in Threads, u # t
      PROVE  /\ \A c \in Parts : Part(kind2, owner2, c, u) = Part(kind, owner, c, u)
             /\ \A c \in Parts : \A s \in Part(kind, owner, c, u) : rank2[s] = rank[s]
             /\ \A c \in Parts : \A s \in Part(kind, owner, c, u) : next'[s] = next[s]
  <2>1. \A c \in Parts : \A s \in Slabs :
            kind2[s] = c /\ owner2[s] = u <=> kind[s] = c /\ owner[s] = u
    BY <1>2 DEF Moves
  <2>2. \A c \in Parts : Part(kind2, owner2, c, u) = Part(kind, owner, c, u)
    BY <2>1 DEF Part
  <2>3. \A c \in Parts : \A s \in Part(kind, owner, c, u) : rank2[s] = rank[s]
    BY <1>2 DEF Part, Moves
  <2>4. \A c \in Parts : \A s \in Part(kind, owner, c, u) : next'[s] = next[s]
    BY <1>2 DEF Part, OwnLinks, Parts
  <2> QED
    BY <2>2, <2>3, <2>4
<1>3. Locals'
  <2>1. \A u \in Threads : u # t => LocalsOf(u)'
    BY <1>1, LocalsFrame
  <2> QED
    BY <2>1 DEF Locals
<1>4. Tags'
  <2>1. ASSUME NEW u \in Threads, u # t PROVE TagsOf(u)'
    <3>1. TagsOf(u)
      BY <1>1 DEF Tags
    <3> QED
      BY <1>1, <2>1, <3>1, TagsFrame
  <2> QED
    BY <2>1 DEF Tags
<1>5. Shape(kind2, owner2, rank2, size2)'
  <2>1. ASSUME NEW u \in Threads, u # t PROVE ThreadShape(kind2, owner2, rank2, u)'
    <3>1. ThreadShape(kind, owner, rank, u)
      BY <1>1 DEF Shape
    <3>2. Keeps(u)
      BY <2>1 DEF Keeps, GivenBack, Growing
    <3>3. /\ \A c \in Parts : Part(kind2, owner2, c, u) = Part(kind, owner, c, u)
          /\ \A c \in Parts : \A s \in Part(kind, owner, c, u) : rank2[s] = rank[s]
          /\ \A c \in Parts : \A s \in Part(kind, owner, c, u) : next'[s] = next[s]
      BY <1>2, <2>1
    <3>4. \A c \in {"arena", "chunk"} : \A s \in Part(kind, owner, c, u) :
              rank[s] > 1 => next'[s] = next[s]
      BY <3>3 DEF Parts
    <3> QED
      BY <3>1, <3>2, <3>3, <3>4, ThreadFrame
  <2>2. Stack(kind2)' = Stack(kind2)
    BY DEF Stack, Slabs
  <2> QED
    BY <2>1, <2>2 DEF Shape
<1>6. Blocks(kind2, owner2)'
  <2>1. ASSUME NEW u \in Threads, u # t PROVE BlocksOf(kind2, owner2, u)'
    <3>1. Part(kind2, owner2, "arena", u) = Part(kind, owner, "arena", u)
      BY <1>2, <2>1 DEF Parts
    <3>2. Part(kind, owner, "arena", u) \subseteq Part(kind2, owner2, "arena", u)
      BY <3>1
    <3> QED
      BY <1>1, <2>1, <3>2, BlocksFrame
  <2> QED
    BY <2>1 DEF Blocks
<1> QED
  BY <1>3, <1>4, <1>5, <1>6 DEF Inv, Placed

\* acquire_slab takes the first slab of the stack: the head has not changed
\* since it was read, so the link read after it is the link of the slab.
LEMMA TakeStep ==
    ASSUME NEW kind, NEW owner, NEW rank, NEW size, Inv(kind, owner, rank, size),
           NEW t \in Threads, th[t].pc = "take", head = th[t].cur,
           head' = Tagged(th[t].nxt, th[t].cur.tag + 1),
           th' = [th EXCEPT ![t].pc = "count", ![t].slab = th[t].cur.ptr],
           UNCHANGED <<next, available, total, chunks, arena, asked, live, ops>>
    PROVE  IInv'
<1>0. /\ th \in [Threads -> ThreadType] /\ th[t] \in ThreadType /\ LocalsOf(t) /\ TypeInv
      /\ Counted(size) /\ size \in Nat /\ next \in [Slabs -> Pointers]
      /\ ThreadShape(kind, owner, rank, t) /\ TagsOf(t) /\ Shape(kind, owner, rank, size)
      /\ head \in [ptr : Pointers, tag : Nat]
  BY ThreadFacts DEF TypeInv
<1> PICK h : h = head.ptr
  OBVIOUS
<1>1. /\ h # Null /\ th[t].slab = Null /\ th[t].nxt = next[h] /\ th[t].cur.ptr = h
      /\ head.tag \in Nat /\ h \in Slabs
  BY <1>0 DEF TagsOf, LocalsOf, Pointers
<1>2. head'.ptr = next[h] /\ head'.tag = head.tag + 1 /\ head' \in [ptr : Pointers, tag : Nat]
  BY <1>0, <1>1 DEF Tagged
<1> PICK x : x = [th[t] EXCEPT !.pc = "count", !.slab = h]
  OBVIOUS
<1>3. /\ x \in ThreadType /\ x.pc = "count" /\ x.slab = h /\ th' = [th EXCEPT ![t] = x]
  BY <1>0, <1>1 DEF ThreadType, Labels, Pointers
<1>4. th'[t] = x /\ th' \in [Threads -> ThreadType] /\ \A u \in Threads \ {t} : th'[u] = th[u]
  BY <1>0, <1>3
<1> PICK kind2 : kind2 = [s \in Slabs |-> IF s = h THEN "hand" ELSE kind[s]]
  OBVIOUS
<1> PICK owner2 : owner2 = [s \in Slabs |-> IF s = h THEN t ELSE owner[s]]
  OBVIOUS
<1>5. /\ kind2[h] = "hand" /\ owner2[h] = t
      /\ \A s \in Slabs : s # h => kind2[s] = kind[s] /\ owner2[s] = owner[s]
  BY <1>1
<1>6. IsChain(next, Stack(kind), rank, h, size) /\ h \in Stack(kind) /\ size > 0 /\ kind[h] = "stack"
  BY <1>0, <1>1 DEF Shape, IsChain, Stack
<1>7. Stack(kind2) = Stack(kind) \ {h}
  BY <1>5 DEF Stack
<1>8. IsChain(next', Stack(kind2), rank, head'.ptr, size - 1)
  <2>1. size = 1 => next[h] = Null
    BY <1>0, <1>6 DEF Shape, IsChain
  <2>2. Null \notin Stack(kind)
    BY SlabsNumbered DEF Stack
  <2>3. IsChain(next, Stack(kind) \ {h}, rank, next[h], size - 1)
    BY <1>6, <2>1, <2>2, ChainPop
  <2> QED
    BY <1>2, <1>7, <2>3
<1>9. \A s \in Stack(kind2) : rank[s] = 1 => next'[s] = Null
  BY <1>0, <1>7 DEF Shape
<1>10. \A s \in Slabs : IF s > total' THEN kind2[s] = "none"
                        ELSE kind2[s] = "stack" \/ (kind2[s] \in Parts /\ owner2[s] \in Threads)
  <2>1. ~(h > total)
    BY <1>0, <1>1, <1>6 DEF Shape
  <2> QED
    BY <1>0, <1>5, <2>1 DEF Shape, Parts
<1>11. Part(kind2, owner2, "arena", t) = Part(kind, owner, "arena", t)
  BY <1>5, <1>6 DEF Part
<1>12. ThreadShape(kind2, owner2, rank, t)'
  <2>1. Part(kind2, owner2, "chunk", t) = Part(kind, owner, "chunk", t)
    BY <1>5, <1>6 DEF Part
  <2>2. Part(kind2, owner2, "hand", t) = {h}
    BY <1>0, <1>1, <1>5 DEF Part, ThreadShape
  <2>3. ~GivenBack(t) /\ ~GivenBack(t)' /\ ~Growing(t) /\ ~Growing(t)'
    BY <1>3, <1>4 DEF GivenBack, Growing, Putting
  <2> QED
    BY <1>0, <1>1, <1>3, <1>4, <1>11, <2>1, <2>2, <2>3 DEF ThreadShape
<1>13. LocalsOf(t)' /\ TagsOf(t)'
  BY <1>1, <1>3, <1>4 DEF LocalsOf, TagsOf, Returning, Putting
<1>14. OwnLinks(kind, owner, t) /\ Moves(kind, owner, rank, kind2, owner2, rank, t)
  BY <1>5, <1>6 DEF OwnLinks, Moves, Parts
<1>15. Counted(size - 1)'
  <2>1. size - 1 \in Nat
    BY <1>0, <1>6
  <2>2. size - 1 + Weight(th'[t]) - size - Weight(th[t]) = 0
    BY <1>0, <1>3, <1>4 DEF Weight
  <2> QED
    BY <1>0, <1>4, <2>1, <2>2, CountedStep
<1>16. BlocksOf(kind2, owner2, t)'
  <2>1. Blocks(kind, owner)
    BY DEF Inv, Placed
  <2>2. Slow(t) /\ Slow(t)'
    BY <1>3, <1>4 DEF Slow
  <2>3. ASSUME NEW u \in Threads PROVE Part(kind, owner, "arena", u) \subseteq Part(kind2, owner2, "arena", u)
    BY <1>5, <1>6 DEF Part
  <2>4. Blocks(kind2, owner2)'
    BY <1>3, <1>4, <2>1, <2>2, <2>3, PoolBlocks
  <2> QED
    BY <2>4 DEF Blocks
<1>17. TypeInv'
  BY <1>0, <1>2, <1>4 DEF TypeInv, Slabs, Pointers
<1>18. Inv(kind2, owner2, rank, size - 1)'
  BY <1>2, <1>4, <1>8, <1>9, <1>10, <1>12, <1>13, <1>14, <1>15, <1>16, <1>17, ThreadStep
<1> QED
  BY <1>18 DEF IInv

LEMMA AcquireCasStep ==
    ASSUME NEW kind, NEW owner, NEW rank, NEW size, Inv(kind, owner, rank, size),
           NEW t \in Threads, AcquireCas(t), UNCHANGED <<arena, asked, live, ops>>
    PROVE  IInv'
<1>1. th[t].pc = "take" /\ UNCHANGED <<next, available, total, chunks, lock>>
  BY DEF AcquireCas, At
<1>2. CASE /\ head = th[t].cur
           /\ head' = Tagged(th[t].nxt, th[t].cur.tag + 1)
           /\ th' = [th EXCEPT ![t].pc = "count", ![t].slab = th[t].cur.ptr]
  <2>1. UNCHANGED <<next, available, total, chunks, arena, asked, live, ops>>
    BY <1>1
  <2> QED
    BY <1>1, <1>2, <2>1, TakeStep
<1>3. CASE OnHead(t, head) /\ UNCHANGED head
  <2>1. UNCHANGED <<poolVars, arena, asked, live, ops>>
    BY <1>1, <1>3 DEF poolVars
  <2>2. Inv(kind, owner, rank, size)'
    BY <1>1, <1>3, <2>1, OnHeadStep
  <2> QED
    BY <2>2 DEF IInv
<1> QED
  BY <1>2, <1>3 DEF AcquireCas

\* release_slab_chain puts its chain before the stack: the head has not
\* changed since the last slab was linked to it.
LEMMA PutStep ==
    ASSUME NEW kind, NEW owner, NEW rank, NEW size, Inv(kind, owner, rank, size),
           NEW t \in Threads, th[t].pc = "put", head = th[t].cur,
           head' = Tagged(th[t].first, th[t].cur.tag + 1), th' = [th EXCEPT ![t].pc = "add"],
           UNCHANGED <<next, available, total, chunks, arena, asked, live, ops>>
    PROVE  IInv'
<1>0. /\ th \in [Threads -> ThreadType] /\ th[t] \in ThreadType /\ LocalsOf(t) /\ TypeInv
      /\ Counted(size) /\ size \in Nat /\ next \in [Slabs -> Pointers]
      /\ ThreadShape(kind, owner, rank, t) /\ TagsOf(t) /\ Shape(kind, owner, rank, size)
      /\ head \in [ptr : Pointers, tag : Nat]
  BY ThreadFacts DEF TypeInv
<1>1. PICK c \in {"arena", "chunk"} :
              /\ c = "chunk" <=> th[t].slab # Null
              /\ IsChain(next, Part(kind, owner, c, t), rank, th[t].first, th[t].count)
              /\ th[t].count > 0
              /\ th[t].last \in Part(kind, owner, c, t) /\ rank[th[t].last] = 1
  <2>1. th[t].pc \in Putting
    BY DEF Putting
  <2> QED
    BY <1>0, <2>1, PuttingChain
<1> PICK S : S = Part(kind, owner, c, t)
  OBVIOUS
<1> PICK n : n = th[t].count
  OBVIOUS
<1>2. /\ IsChain(next, S, rank, th[t].first, n) /\ n \in Nat /\ n > 0 /\ th[t].last \in S
      /\ rank[th[t].last] = 1 /\ next[th[t].last] = head.ptr /\ S \subseteq Slabs
  BY <1>0, <1>1 DEF TagsOf, IsChain, Part
<1>3. th[t].first \in S /\ th[t].first # Null
  BY <1>2 DEF IsChain
<1>4. /\ head'.ptr = th[t].first /\ head'.tag = head.tag + 1
      /\ head' \in [ptr : Pointers, tag : Nat]
  BY <1>0, <1>2, <1>3 DEF Tagged, Pointers
<1> PICK x : x = [th[t] EXCEPT !.pc = "add"]
  OBVIOUS
<1>5. /\ x \in ThreadType /\ x.pc = "add" /\ x.slab = th[t].slab /\ x.count = n
      /\ x.then = th[t].then /\ th' = [th EXCEPT ![t] = x]
  BY <1>0 DEF ThreadType, Labels
<1>6. th'[t] = x /\ th' \in [Threads -> ThreadType] /\ \A u \in Threads \ {t} : th'[u] = th[u]
  BY <1>0, <1>5
<1> PICK kind2 : kind2 = [s \in Slabs |-> IF s \in S THEN "stack" ELSE kind[s]]
  OBVIOUS
<1> PICK rank2 : rank2 = [s \in Slabs |-> IF s \in S THEN rank[s] + size ELSE rank[s]]
  OBVIOUS
<1>7. /\ \A s \in S : kind2[s] = "stack" /\ rank2[s] = rank[s] + size
      /\ \A s \in Slabs \ S : kind2[s] = kind[s] /\ rank2[s] = rank[s]
  BY <1>2
<1>8. \A s \in S : kind[s] = c /\ owner[s] = t
  BY DEF Part
<1>9. Stack(kind2) = S \cup Stack(kind) /\ S \cap Stack(kind) = {}
  BY <1>2, <1>7, <1>8 DEF Stack
<1>10. IsChain(next', Stack(kind2), rank2, head'.ptr, n + size)
  <2>1. IsChain(next, Stack(kind), rank, head.ptr, size) /\ Null \notin Stack(kind)
    BY <1>0, SlabsNumbered DEF Shape, Stack
  <2>2. \A s \in Stack(kind) : rank2[s] = rank[s]
    BY <1>7, <1>9 DEF Stack
  <2> PICK T : T = Stack(kind)
    OBVIOUS
  <2>4. \A s \in S : rank2[s] = rank[s] + size
    BY <1>7
  <2>5. /\ IsChain(next, T, rank, head.ptr, size) /\ Null \notin T /\ S \cap T = {}
        /\ \A s \in T : rank2[s] = rank[s]
    BY <1>9, <2>1, <2>2
  <2>6. IsChain(next, S \cup T, rank2, th[t].first, n + size)
    BY ONLY <1>2, <2>4, <2>5, ChainJoin
  <2>3. IsChain(next, S \cup Stack(kind), rank2, th[t].first, n + size)
    BY <2>6
  <2> QED
    BY <1>4, <1>9, <2>3
<1>11. \A s \in Stack(kind2) : rank2[s] = 1 => next'[s] = Null
  <2>1. ASSUME NEW s \in S, rank2[s] = 1 PROVE next[s] = Null
    <3>1. rank[s] \in 1 .. n /\ rank[s] + size = 1
      BY <1>2, <1>7, <2>1 DEF IsChain
    <3>2. rank[s] = 1 /\ size = 0
      BY <1>0, <3>1
    <3>3. s = th[t].last
      BY <1>2, <3>2 DEF IsChain
    <3>4. head.ptr = Null
      BY <1>0, <3>2 DEF Shape, IsChain
    <3> QED
      BY <1>2, <3>3, <3>4
  <2>2. ASSUME NEW s \in Stack(kind), rank2[s] = 1 PROVE next[s] = Null
    <3>1. rank[s] = 1
      BY <1>7, <1>9, <2>2 DEF Stack
    <3> QED
      BY <1>0, <3>1 DEF Shape
  <2> QED
    BY <1>9, <2>1, <2>2
<1>12. \A s \in Slabs : IF s > total' THEN kind2[s] = "none"
                        ELSE kind2[s] = "stack" \/ (kind2[s] \in Parts /\ owner[s] \in Threads)
  <2>1. ASSUME NEW s \in S PROVE ~(s > total)
    <3>1. s \in Slabs /\ kind[s] # "none"
      BY <1>2, <1>8
    <3> QED
      BY <1>0, <3>1 DEF Shape
  <2> QED
    BY <1>0, <1>2, <1>7, <2>1 DEF Shape
<1>13. \A d \in Parts \ {c} : Part(kind2, owner, d, t) = Part(kind, owner, d, t)
  BY <1>7, <1>8 DEF Part, Parts
<1>14. Part(kind2, owner, c, t) = {}
  BY <1>7, <1>2 DEF Part
<1>15. ThreadShape(kind2, owner, rank2, t)'
  <2>1. Part(kind2, owner, "hand", t) = {th'[t].slab} \ {Null}
    BY <1>0, <1>5, <1>6, <1>13 DEF Parts, ThreadShape
  <2>2. ~Growing(t)' /\ (GivenBack(t)' <=> th[t].slab = Null)
    BY <1>5, <1>6 DEF Growing, GivenBack, Putting
  <2>3. CASE c = "arena"
    <3>1. Part(kind2, owner, "chunk", t) = {}
      BY <1>0, <1>1, <1>13, <2>3 DEF ThreadShape, Growing, Parts
    <3> QED
      BY <1>1, <1>14, <2>1, <2>2, <2>3, <3>1 DEF ThreadShape
  <2>4. CASE c = "chunk"
    <3> PICK A : A = Part(kind, owner, "arena", t)
      OBVIOUS
    <3>1. Part(kind2, owner, "arena", t) = A
      BY <1>13, <2>4 DEF Parts
    <3>2. /\ IsChain(next, A, rank, arena[t].head, arena[t].count)
          /\ arena[t].head = Null => arena[t].tail = Null
          /\ arena[t].head # Null => arena[t].tail \in A /\ rank[arena[t].tail] = 1
      BY <1>0 DEF ThreadShape, GivenBack
    <3>3. \A s \in A : rank2[s] = rank[s]
      BY <1>7, <1>8, <2>4 DEF Part
    <3>4. IsChain(next', A, rank2, arena[t].head, arena[t].count)
      BY <3>2, <3>3, ChainFrame
    <3> QED
      BY <1>1, <1>14, <2>1, <2>2, <2>4, <3>1, <3>2, <3>3, <3>4 DEF ThreadShape
  <2> QED
    BY <2>3, <2>4
<1>16. LocalsOf(t)' /\ TagsOf(t)'
  BY <1>0, <1>5, <1>6 DEF LocalsOf, TagsOf, Returning, Putting
<1>17. OwnLinks(kind, owner, t) /\ Moves(kind, owner, rank, kind2, owner, rank2, t)
  <2>1. ASSUME NEW s \in Slabs
        PROVE  \/ kind2[s] = kind[s] /\ owner[s] = owner[s] /\ (kind[s] \in Parts => rank2[s] = rank[s])
               \/ (kind[s] \in Parts => owner[s] = t) /\ (kind2[s] \in Parts => owner[s] = t)
    BY <1>7, <1>8
  <2> QED
    BY <2>1 DEF OwnLinks, Moves
<1>18. Counted(n + size)'
  <2>1. n + size \in Nat
    BY <1>0, <1>2
  <2>2. n + size + Weight(th'[t]) - size - Weight(th[t]) = 0
    BY <1>0, <1>2, <1>5, <1>6 DEF Weight
  <2> QED
    BY <1>0, <1>6, <2>1, <2>2, CountedStep
<1>19. BlocksOf(kind2, owner, t)'
  <2>1. Blocks(kind, owner)
    BY DEF Inv, Placed
  <2>2. Slow(t)' <=> Slow(t)
    BY <1>5, <1>6 DEF Slow, Putting
  <2>3. ASSUME NEW u \in Threads
        PROVE  \/ u = t /\ ~Slow(t)
               \/ Part(kind, owner, "arena", u) \subseteq Part(kind2, owner, "arena", u)
    <3>1. CASE c = "chunk"
      BY <3>1, <1>7, <1>8 DEF Part
    <3>2. CASE c = "arena" /\ u = t
      BY <3>2, <1>1 DEF Slow, Putting
    <3>3. CASE u # t
      BY <3>3, <1>7, <1>8 DEF Part
    <3> QED
      BY <3>1, <3>2, <3>3
  <2>4. th[t].pc # "idle" /\ th'[t].pc # "idle"
    BY <1>5, <1>6
  <2>5. Blocks(kind2, owner)'
    BY <1>6, <2>1, <2>2, <2>3, <2>4, PoolBlocks
  <2> QED
    BY <2>5 DEF Blocks
<1>20. TypeInv'
  BY <1>0, <1>4, <1>6 DEF TypeInv, Slabs, Pointers
<1>21. Inv(kind2, owner, rank2, n + size)'
  BY <1>4, <1>6, <1>10, <1>11, <1>12, <1>15, <1>16, <1>17, <1>18, <1>19, <1>20, ThreadStep
<1> QED
  BY <1>21 DEF IInv

LEMMA ReleaseCasStep ==
    ASSUME NEW kind, NEW owner, NEW rank, NEW size, Inv(kind, owner, rank, size),
           NEW t \in Threads, ReleaseCas(t), UNCHANGED <<arena, asked, live, ops>>
    PROVE  IInv'
<1>1. th[t].pc = "put" /\ UNCHANGED <<next, available, total, chunks, lock>>
  BY DEF ReleaseCas, At
<1>2. CASE /\ head = th[t].cur
           /\ head' = Tagged(th[t].first, th[t].cur.tag + 1)
           /\ th' = [th EXCEPT ![t].pc = "add"]
  <2>1. UNCHANGED <<next, available, total, chunks, arena, asked, live, ops>>
    BY <1>1
  <2> QED
    BY <1>1, <1>2, <2>1, PutStep
<1>3. CASE /\ th' = [th EXCEPT ![t].pc = "link", ![t].cur = head]
           /\ UNCHANGED head
  <2>1. UNCHANGED <<poolVars, arena, asked, live, ops>>
    BY <1>1, <1>3 DEF poolVars
  <2>2. Inv(kind, owner, rank, size)'
    BY <1>1, <1>3, <2>1, ReadHeadStep
  <2> QED
    BY <2>2 DEF IInv
<1> QED
  BY <1>2, <1>3 DEF ReleaseCas, Goto

\* allocate_chunk_and_acquire keeps the first slab of the new chunk; the
\* others form the chain that it will push.
LEMMA GrowChunkStep ==
    ASSUME NEW kind, NEW owner, NEW rank, NEW size, Inv(kind, owner, rank, size),
           NEW t \in Threads, GrowChunk(t), UNCHANGED <<arena, asked, live, ops>>
    PROVE  IInv'
<1>0. /\ th \in [Threads -> ThreadType] /\ th[t] \in ThreadType /\ LocalsOf(t) /\ TypeInv
      /\ Counted(size) /\ size \in Nat /\ next \in [Slabs -> Pointers]
      /\ ThreadShape(kind, owner, rank, t) /\ Shape(kind, owner, rank, size)
  BY ThreadFacts
<1> PICK first : first = total + 1
  OBVIOUS
<1> PICK last : last = total + ChunkSlabs
  OBVIOUS
<1>1. /\ th[t].pc = "grow" /\ th[t].slab = Null /\ chunks < MaxChunks
      /\ chunks' = chunks + 1 /\ total' = last
      /\ UNCHANGED <<head, available>>
  BY <1>0 DEF GrowChunk, At, LocalsOf
<1>2. chunks \in 1 .. MaxChunks /\ total = InitialSlabs + (chunks - 1) * ChunkSlabs
  BY <1>0 DEF TypeInv
<1>3. /\ total \in Nat /\ last <= Top /\ ChunkSlabs \in Nat \ {0} /\ Top \in Nat /\ Slabs = 1 .. Top
      /\ last = InitialSlabs + (chunks + 1 - 1) * ChunkSlabs
  BY <1>1, <1>2, TotalBound, PoolAssumption, SlabsNumbered
<1>4. first \in Slabs /\ last \in Slabs /\ first <= last /\ first # Null /\ first \in Nat /\ last \in Nat
  BY <1>3 DEF Null
<1> PICK place : place = IF ChunkSlabs > 1 THEN "release" ELSE "unlock"
  OBVIOUS
<1> PICK x : x = [th[t] EXCEPT !.pc = place,
                               !.then = "acquired", !.slab = first, !.first = first + 1,
                               !.last = last, !.count = ChunkSlabs - 1]
  OBVIOUS
<1>5. /\ x \in ThreadType /\ x.pc = IF ChunkSlabs > 1 THEN "release" ELSE "unlock"
      /\ x.then = "acquired" /\ x.slab = first /\ x.first = first + 1 /\ x.last = last
      /\ x.count = ChunkSlabs - 1
  <2>1. /\ place \in Labels /\ "acquired" \in Labels /\ first \in Pointers
        /\ first + 1 \in Nat /\ ChunkSlabs - 1 \in Nat
    BY <1>3, <1>4 DEF Labels, Pointers
  <2>2. /\ x.pc = place /\ x.then = "acquired" /\ x.slab = first /\ x.first = first + 1
        /\ x.last = last /\ x.count = ChunkSlabs - 1
    BY <1>0 DEF ThreadType
  <2> HIDE DEF Labels
  <2>3. x \in ThreadType
    BY <1>0, <1>4, <2>1 DEF ThreadType
  <2> QED
    BY <2>2, <2>3
<1>6. th' = [th EXCEPT ![t] = x]
  BY <1>0 DEF GrowChunk
<1>7. th'[t] = x /\ th' \in [Threads -> ThreadType] /\ \A u \in Threads \ {t} : th'[u] = th[u]
  BY <1>0, <1>5, <1>6
<1> PICK C : C = first + 1 .. last
  OBVIOUS
<1>8. C \subseteq Slabs /\ first \notin C /\ \A s \in C : s \in Nat /\ s > total /\ s # Null
  BY <1>3, <1>4 DEF Null
<1>9. /\ next' \in [Slabs -> Pointers]
      /\ \A s \in C : next'[s] = IF s < last THEN s + 1 ELSE Null
      /\ \A s \in Slabs : s # first /\ s \notin C => next'[s] = next[s]
  <2> PICK p : p = Partition(next, first + 1, last)
    OBVIOUS
  <2>1. next' = [p EXCEPT ![first] = Null]
    BY DEF GrowChunk
  <2>2. p = [s \in Slabs |-> IF s \in C THEN IF s < last THEN s + 1 ELSE Null ELSE next[s]]
    BY DEF Partition
  <2>3. \A s \in C : s < last => s + 1 \in Slabs
    BY <1>3, <1>4, <1>8
  <2>4. p \in [Slabs -> Pointers]
    BY <1>0, <2>2, <2>3 DEF Pointers
  <2>5. next' \in [Slabs -> Pointers]
    BY <2>1, <2>4 DEF Pointers
  <2>6. \A s \in Slabs : s # first => next'[s] = p[s]
    BY <2>1, <2>4
  <2> QED
    BY <1>8, <2>2, <2>5, <2>6
<1> PICK kind2 : kind2 = [s \in Slabs |-> IF s = first THEN "hand" ELSE IF s \in C THEN "chunk" ELSE kind[s]]
  OBVIOUS
<1> PICK owner2 : owner2 = [s \in Slabs |-> IF s = first \/ s \in C THEN t ELSE owner[s]]
  OBVIOUS
<1> PICK rank2 : rank2 = [s \in Slabs |-> IF s \in C THEN last - s + 1 ELSE rank[s]]
  OBVIOUS
<1>10. /\ kind2[first] = "hand" /\ owner2[first] = t
       /\ \A s \in C : kind2[s] = "chunk" /\ owner2[s] = t /\ rank2[s] = last - s + 1
       /\ \A s \in Slabs : s # first /\ s \notin C =>
             kind2[s] = kind[s] /\ owner2[s] = owner[s] /\ rank2[s] = rank[s]
  BY <1>4, <1>8
<1>11. kind[first] = "none" /\ \A s \in C : kind[s] = "none"
  <2>1. \A s \in Slabs : s > total => kind[s] = "none"
    BY <1>0 DEF Shape
  <2>2. first > total
    BY <1>3
  <2> QED
    BY <1>4, <1>8, <2>1, <2>2
<1>12. Stack(kind2) = Stack(kind)
  BY <1>10, <1>11 DEF Stack
<1>13. \A s \in Stack(kind) : s # first /\ s \notin C /\ s \in Slabs
  BY <1>11 DEF Stack
<1>14. IsChain(next', Stack(kind2), rank2, head'.ptr, size)
  <2>1. IsChain(next, Stack(kind), rank, head.ptr, size)
    BY <1>0 DEF Shape
  <2>2. \A s \in Stack(kind) : rank2[s] = rank[s] /\ next'[s] = next[s]
    BY <1>9, <1>10, <1>13
  <2>3. IsChain(next', Stack(kind), rank2, head.ptr, size)
    BY <2>1, <2>2, ChainFrame, SMTT(60)
  <2> QED
    BY <1>1, <1>12, <2>3
<1>15. \A s \in Stack(kind2) : rank2[s] = 1 => next'[s] = Null
  BY <1>0, <1>9, <1>10, <1>12, <1>13 DEF Shape
<1>16. \A s \in Slabs : IF s > total' THEN kind2[s] = "none"
                        ELSE kind2[s] = "stack" \/ (kind2[s] \in Parts /\ owner2[s] \in Threads)
  <2>1. ASSUME NEW s \in Slabs, s > last PROVE kind2[s] = "none"
    <3>1. s # first /\ s \notin C /\ s > total
      BY <1>3, <1>4, <2>1
    <3> QED
      BY <1>0, <1>10, <3>1 DEF Shape
  <2>2. ASSUME NEW s \in Slabs, ~(s > last)
        PROVE  kind2[s] = "stack" \/ (kind2[s] \in Parts /\ owner2[s] \in Threads)
    <3>1. CASE s = first \/ s \in C
      BY <1>10, <3>1 DEF Parts
    <3>2. CASE s # first /\ s \notin C
      <4>1. ~(s > total)
        BY <1>3, <2>2, <3>2
      <4> QED
        BY <1>0, <1>10, <3>2, <4>1 DEF Shape
    <3> QED
      BY <3>1, <3>2
  <2> QED
    BY <1>1, <2>1, <2>2
<1>17. \A u \in Threads : Part(kind2, owner2, "arena", u) = Part(kind, owner, "arena", u)
  BY <1>10, <1>11 DEF Part
<1>18. ThreadShape(kind2, owner2, rank2, t)'
  <2>1. Part(kind2, owner2, "hand", t) = {first}
    <3>1. Part(kind, owner, "hand", t) = {}
      BY <1>0, <1>1 DEF ThreadShape
    <3> QED
      BY <1>4, <1>10, <3>1 DEF Part
  <2>2. Part(kind2, owner2, "chunk", t) = C
    <3>1. Part(kind, owner, "chunk", t) = {}
      BY <1>0, <1>1 DEF ThreadShape, Growing, Putting
    <3> QED
      BY <1>8, <1>10, <3>1 DEF Part
  <2>3. ~GivenBack(t) /\ ~GivenBack(t)'
    BY <1>1, <1>5, <1>7 DEF GivenBack
  <2>4. Growing(t)' <=> ChunkSlabs > 1
    BY <1>4, <1>5, <1>7 DEF Growing, Putting
  <2> PICK A : A = Part(kind, owner, "arena", t)
    OBVIOUS
  <2>5. /\ IsChain(next, A, rank, arena[t].head, arena[t].count)
        /\ arena[t].head = Null => arena[t].tail = Null
        /\ arena[t].head # Null => arena[t].tail \in A /\ rank[arena[t].tail] = 1
    BY <1>0, <2>3 DEF ThreadShape
  <2>6. \A s \in A : rank2[s] = rank[s] /\ next'[s] = next[s]
    BY <1>9, <1>10, <1>11 DEF Part
  <2>7. IsChain(next', A, rank2, arena[t].head, arena[t].count)
    BY <2>5, <2>6, ChainFrame
  <2>8. CASE ChunkSlabs > 1
    <3>0. last \in C /\ first + 1 \in C
      BY <1>3, <1>4, <2>8
    <3>1. last \in C /\ rank2[last] = 1 /\ first + 1 \in C
      BY <1>4, <1>10, <3>0
    <3>2. IsChain(next', C, rank2, first + 1, ChunkSlabs - 1)
      <4>1. ChunkSlabs - 1 \in Nat /\ ChunkSlabs - 1 > 0 /\ first + 1 # Null
        BY <1>3, <1>4, <2>8 DEF Null
      <4>2. rank2[first + 1] = ChunkSlabs - 1 /\ \A s \in C : rank2[s] \in 1 .. ChunkSlabs - 1
        BY <1>3, <1>4, <1>8, <1>10, <2>8, SMTT(60)
      <4>3. \A s, u \in C : rank2[s] = rank2[u] => s = u
        BY <1>3, <1>4, <1>8, <1>10, SMTT(60)
      <4>4. \A i \in 1 .. ChunkSlabs - 1 : \E s \in C : rank2[s] = i
        <5> SUFFICES ASSUME NEW i \in 1 .. ChunkSlabs - 1 PROVE \E s \in C : rank2[s] = i
          OBVIOUS
        <5>1. last - i + 1 \in C
          BY <1>3, <1>4
        <5>2. rank2[last - i + 1] = i
          BY <1>3, <1>4, <1>10, <5>1, SMTT(60)
        <5> QED
          BY <5>1, <5>2
      <4>5. ASSUME NEW s \in C, rank2[s] > 1
            PROVE  next'[s] \in C /\ rank2[next'[s]] = rank2[s] - 1
        <5>1. s < last /\ s + 1 \in C
          BY <1>3, <1>4, <1>8, <1>10, <4>5
        <5>2. next'[s] = s + 1
          BY <1>9, <5>1
        <5>3. rank2[s] = last - s + 1 /\ rank2[s + 1] = last - (s + 1) + 1
          BY <1>10, <5>1
        <5> QED
          BY <1>4, <1>8, <5>1, <5>2, <5>3
      <4> QED
        BY ONLY <3>1, <4>1, <4>2, <4>3, <4>4, <4>5 DEF IsChain
    <3>3. th'[t].slab = first /\ th'[t].first = first + 1 /\ th'[t].last = last /\ th'[t].count = ChunkSlabs - 1
      BY <1>5, <1>7
    <3>4. Part(kind2, owner2, "hand", t) = {th'[t].slab} \ {Null}
      BY <1>4, <2>1, <3>3
    <3> QED
      BY <1>17, <2>2, <2>3, <2>4, <2>5, <2>6, <2>7, <2>8, <3>1, <3>2, <3>3, <3>4, ZenonT(60) DEF ThreadShape
  <2>9. CASE ~(ChunkSlabs > 1)
    <3>1. C = {}
      BY <1>3, <2>9
    <3> QED
      BY <1>4, <1>5, <1>7, <1>17, <2>1, <2>2, <2>3, <2>4, <2>5, <2>6, <2>7, <2>9, <3>1 DEF ThreadShape
  <2> QED
    BY <2>8, <2>9
<1>19. LocalsOf(t)' /\ TagsOf(t)'
  BY <1>3, <1>4, <1>5, <1>7 DEF LocalsOf, TagsOf, Returning, Putting
<1>20. OwnLinks(kind, owner, t) /\ Moves(kind, owner, rank, kind2, owner2, rank2, t)
  BY <1>9, <1>10, <1>11 DEF OwnLinks, Moves, Parts
<1>21. Counted(size)'
  <2>1. size + Weight(th'[t]) - size - Weight(th[t]) = 0
    BY <1>0, <1>1, <1>5, <1>7 DEF Weight
  <2> QED
    BY <1>0, <1>1, <1>7, <2>1, CountedStep
<1>22. BlocksOf(kind2, owner2, t)'
  <2>1. Blocks(kind, owner)
    BY DEF Inv, Placed
  <2>2. Slow(t) /\ Slow(t)' /\ th[t].pc # "idle" /\ th'[t].pc # "idle"
    BY <1>1, <1>4, <1>5, <1>7 DEF Slow, Putting
  <2>3. \A u \in Threads : Part(kind, owner, "arena", u) \subseteq Part(kind2, owner2, "arena", u)
    BY <1>17
  <2>4. Blocks(kind2, owner2)'
    BY <1>7, <2>1, <2>2, <2>3, PoolBlocks
  <2> QED
    BY <2>4 DEF Blocks
<1>23. TypeInv'
  <2>1. chunks' \in 1 .. MaxChunks /\ total' = InitialSlabs + (chunks' - 1) * ChunkSlabs
    <3>1. chunks' \in 1 .. MaxChunks
      BY <1>1, <1>2, PoolAssumption
    <3>2. total' = InitialSlabs + (chunks' - 1) * ChunkSlabs
      <4>1. total' = last /\ last = InitialSlabs + (chunks + 1 - 1) * ChunkSlabs
        BY <1>1, <1>3
      <4>3. chunks \in Nat /\ chunks' = chunks + 1
        BY <1>1, <1>2, PoolAssumption
      <4>2. chunks' - 1 = chunks + 1 - 1
        BY ONLY <4>3
      <4> QED
        BY ONLY <4>1, <4>2
    <3> QED
      BY <3>1, <3>2
  <2> QED
    BY <1>0, <1>1, <1>7, <1>9, <2>1 DEF TypeInv, Slabs, Pointers
<1>24. /\ \A u \in Threads \ {t} : /\ th'[u] = th[u] /\ arena'[u] = arena[u]
                                  /\ asked'[u] = asked[u] /\ live'[u] = live[u] /\ ops'[u] = ops[u]
       /\ head' = head
  BY <1>1, <1>7
<1>25. Inv(kind2, owner2, rank2, size)'
  BY <1>14, <1>15, <1>16, <1>18, <1>19, <1>20, <1>21, <1>22, <1>23, <1>24, ThreadStep
<1> QED
  BY <1>25 DEF IInv

LEMMA PoolStepStep ==
    ASSUME NEW kind, NEW owner, NEW rank, NEW size, Inv(kind, owner, rank, size),
           NEW t \in Threads, PoolStep(t), UNCHANGED <<arena, asked, live, ops>>
    PROVE  IInv'
<1>1. Inv(kind, owner, rank, size)' => IInv'
  BY DEF IInv
<1>2. CASE AcquireLoad(t) \/ AcquireNext(t) \/ AcquireCount(t) \/ AcquireClear(t)
  BY <1>1, <1>2, AcquireLoadStep, AcquireNextStep, AcquireCountStep, AcquireClearStep
<1>3. CASE ReleaseLoad(t) \/ ReleaseLink(t) \/ ReleaseCount(t)
  BY <1>1, <1>3, ReleaseLoadStep, ReleaseLinkStep, ReleaseCountStep
<1>4. CASE GrowLock(t) \/ GrowPeek(t) \/ GrowCheck(t) \/ GrowFail(t) \/ GrowUnlock(t)
  BY <1>1, <1>4, GrowLockStep, GrowCheckStep, GrowUnlockStep
<1>5. CASE AcquireCas(t) \/ ReleaseCas(t) \/ GrowChunk(t)
  BY <1>5, AcquireCasStep, ReleaseCasStep, GrowChunkStep
<1> QED
  BY <1>2, <1>3, <1>4, <1>5 DEF PoolStep
----------------------------------------------------------------------------
(* Calls of the arena.                                                     *)

LEMMA RequestType ==
    ASSUME NEW r \in Requests
    PROVE  r.bytes \in Nat \ {0} /\ r.alignment \in Nat \ {0} /\ Alignment(r) \in Nat \ {0}
<1>1. r \in [bytes : Nat \ {0}, alignment : Nat \ {0}] /\ MIN_ALIGN \in Nat \ {0}
  BY ArenaAssumption
<1> QED
  BY <1>1 DEF Alignment

\* A block starts at or after the bump pointer, less than an alignment away.
LEMMA AlignedBound ==
    ASSUME NEW r \in Requests, NEW a \in Int
    PROVE  Aligned(a, r) \in Int /\ a <= Aligned(a, r) /\ Aligned(a, r) < a + Alignment(r)
<1> PICK d : d = Alignment(r)
  OBVIOUS
<1> PICK m : m = a + d - 1
  OBVIOUS
<1>1. d \in Nat \ {0} /\ m \in Int
  BY RequestType
<1> PICK q : q = m \div d
  OBVIOUS
<1>2. q \in Int /\ m % d \in 0 .. d - 1 /\ m = d * q + (m % d)
  BY ONLY <1>1, q = m \div d
<1>3. d * q >= a /\ d * q < a + d
  <2> PICK p : p = d * q
    OBVIOUS
  <2> PICK z : z = m % d
    OBVIOUS
  <2>1. p \in Int
    BY <1>1, <1>2
  <2>2. z \in 0 .. d - 1 /\ a + d - 1 = p + z
    BY ONLY <1>2, m = a + d - 1, p = d * q, z = m % d
  <2>3. \A i, e, k, l \in Int : l \in 0 .. e - 1 /\ i + e - 1 = k + l => k >= i /\ k < i + e
    OBVIOUS
  <2>4. d \in Int /\ z \in Int
    BY ONLY <1>1, <2>2
  <2>5. p >= a /\ p < a + d
    BY ONLY <2>1, <2>2, <2>3, <2>4, a \in Int
  <2> QED
    BY <2>5
<1>4. d * q = q * d /\ q * d \in Int
  <2>1. \A i, j \in Int : i * j = j * i /\ j * i \in Int
    OBVIOUS
  <2>2. d \in Int
    BY <1>1
  <2> QED
    BY ONLY <1>2, <2>1, <2>2
<1>5. Aligned(a, r) = q * d
  BY DEF Aligned
<1> QED
  BY <1>1, <1>3, <1>4, <1>5

\* The end of the header suits every request a slab can serve.
LEMMA HeaderAligned ==
    ASSUME NEW r \in Requests, Small(r)
    PROVE  Aligned(CACHELINE_SIZE, r) = CACHELINE_SIZE
<1> PICK d : d = Alignment(r)
  OBVIOUS
<1> PICK c : c = CACHELINE_SIZE
  OBVIOUS
<1>1. d \in Nat \ {0} /\ c \in Nat /\ c % d = 0
  BY RequestType, ArenaAssumption DEF Small
<1>2. PICK k \in Int : c = d * k
  <2>1. PICK p \in Int, m \in 0 .. d - 1 : c = d * p + m /\ c % d = m
    BY ONLY <1>1, Division
  <2> QED
    BY <1>1, <2>1
<1> PICK n : n = c + d - 1
  OBVIOUS
<1> PICK q : q = n \div d
  OBVIOUS
<1>3. n \in Nat /\ n = d * k + (d - 1) /\ d - 1 \in 0 .. d - 1
  BY <1>1, <1>2
<1>4. n % d = d - 1
  BY ONLY <1>1, <1>2, <1>3, RemainderUnique
<1>5. q \in Int /\ n = d * q + (n % d)
  BY ONLY <1>1, <1>3, q = n \div d
<1>6. q * d = c
  <2>1. \A i, j \in Int : i * j = j * i /\ j * i \in Int
    OBVIOUS
  <2>2. d \in Int
    BY <1>1
  <2>3. d * q \in Int /\ d * k \in Int /\ q * d = d * q
    BY ONLY <1>2, <1>5, <2>1, <2>2
  <2>4. d * q = d * k
    BY ONLY <1>3, <1>4, <1>5, <2>2, <2>3
  <2> QED
    BY ONLY <1>2, <2>3, <2>4
<1> QED
  BY <1>6 DEF Aligned

\* The places stay right in a call that moves no slab.
LEMMA QuietCall ==
    ASSUME NEW kind, NEW owner, NEW rank, NEW size, Inv(kind, owner, rank, size), NEW t \in Threads,
           \A u \in Threads \ {t} : /\ th'[u] = th[u] /\ arena'[u] = arena[u]
                                    /\ asked'[u] = asked[u] /\ live'[u] = live[u] /\ ops'[u] = ops[u],
           UNCHANGED <<head, next, available, total>>, TypeInv', LocalsOf(t)', TagsOf(t)',
           th[t].pc \notin {"count", "add"}, th'[t].pc \notin {"count", "add"},
           ThreadShape(kind, owner, rank, t)', BlocksOf(kind, owner, t)'
    PROVE  IInv'
<1>1. TypeInv /\ Shape(kind, owner, rank, size) /\ Counted(size) /\ size \in Nat
  BY ThreadFacts
<1>2. Moves(kind, owner, rank, kind, owner, rank, t) /\ OwnLinks(kind, owner, t)
  BY DEF Moves, OwnLinks
<1>3. Counted(size)'
  <2>1. size + Weight(th'[t]) - size - Weight(th[t]) = 0
    BY <1>1 DEF Weight
  <2>2. th' \in [Threads -> ThreadType]
    BY DEF TypeInv, ThreadType, Pointers, Slabs
  <2> QED
    BY <1>1, <2>1, <2>2, CountedStep
<1>4. /\ \A s \in Slabs : IF s > total' THEN kind[s] = "none"
                          ELSE kind[s] = "stack" \/ (kind[s] \in Parts /\ owner[s] \in Threads)
      /\ IsChain(next', Stack(kind), rank, head'.ptr, size)
      /\ \A s \in Stack(kind) : rank[s] = 1 => next'[s] = Null
  BY <1>1 DEF Shape
<1>5. Inv(kind, owner, rank, size)'
  BY <1>2, <1>3, <1>4, ThreadStep
<1> QED
  BY <1>5 DEF IInv

\* The arena of a thread outside reset's last step.
LEMMA ArenaChain ==
    ASSUME NEW kind, NEW owner, NEW rank, NEW t, ThreadShape(kind, owner, rank, t), ~GivenBack(t)
    PROVE  LET slabs == Part(kind, owner, "arena", t)
           IN  /\ IsChain(next, slabs, rank, arena[t].head, arena[t].count)
               /\ arena[t].head # Null => arena[t].head \in slabs /\ arena[t].count > 0
               /\ arena[t].head = Null => slabs = {} /\ arena[t].tail = Null /\ arena[t].count = 0
               /\ arena[t].head # Null => arena[t].tail \in slabs /\ rank[arena[t].tail] = 1
  BY DEF ThreadShape, IsChain

LEMMA AllocateFastStep ==
    ASSUME NEW kind, NEW owner, NEW rank, NEW size, Inv(kind, owner, rank, size),
           NEW t \in Threads, NEW r \in Requests, AllocateFast(t, r)
    PROVE  IInv'
<1>0. /\ TypeInv /\ LocalsOf(t) /\ TagsOf(t) /\ ThreadShape(kind, owner, rank, t)
      /\ BlocksOf(kind, owner, t) /\ arena[t] \in ArenaType /\ arena \in [Threads -> ArenaType]
      /\ live \in [Threads -> SUBSET BlockType] /\ ops \in [Threads -> Nat]
  BY ThreadFacts DEF Inv, Placed, Blocks, TypeInv
<1> PICK h : h = arena[t].head
  OBVIOUS
<1> PICK to : to = Bumped(t, r)
  OBVIOUS
<1> PICK b : b = Block(ops[t] + 1, h, arena[t].bump, r)
  OBVIOUS
<1>1. /\ th[t].pc = "idle" /\ h # Null /\ to <= SLAB_SIZE
      /\ ops' = [ops EXCEPT ![t] = @ + 1] /\ UNCHANGED <<poolVars, th, asked>>
      /\ arena' = [arena EXCEPT ![t].bump = to]
      /\ live' = [live EXCEPT ![t] = @ \cup {b}]
  BY DEF AllocateFast, Call, At, Fits
<1>2. /\ arena[t].bump \in Int /\ CACHELINE_SIZE \in Nat /\ SLAB_SIZE \in Nat /\ ADDRESSES \in Nat
      /\ r.bytes \in Nat \ {0} /\ Alignment(r) \in Nat
  BY <1>0, RequestType, ArenaAssumption DEF ArenaType
<1>3. h \in Slabs /\ h \in Part(kind, owner, "arena", t)
  <2>1. ~GivenBack(t)
    BY <1>1 DEF GivenBack
  <2>2. h \in Part(kind, owner, "arena", t)
    BY <1>0, <1>1, <2>1, ArenaChain
  <2> QED
    BY <2>2 DEF Part
<1> PICK from : from = Aligned(arena[t].bump, r)
  OBVIOUS
<1>4. /\ from \in Int /\ arena[t].bump <= from /\ from < arena[t].bump + Alignment(r)
      /\ to = IF Base[h] + from + r.bytes < ADDRESSES THEN from + r.bytes ELSE from + r.bytes - ADDRESSES
      /\ Base[h] \in Nat
  <2>1. /\ from \in Int /\ arena[t].bump <= from /\ from < arena[t].bump + Alignment(r)
    BY <1>2, AlignedBound
  <2>2. Base[h] \in Nat
    BY <1>3, ArenaAssumption
  <2>3. Base[h] + (from + r.bytes) = Base[h] + from + r.bytes
    BY <1>2, <2>1, <2>2
  <2>4. to = IF Base[h] + (from + r.bytes) < ADDRESSES THEN from + r.bytes ELSE from + r.bytes - ADDRESSES
    <3>1. to = BlockEnd(h, arena[t].bump, r)
      BY DEF Bumped
    <3> PICK e : e = Aligned(arena[t].bump, r) + r.bytes
      OBVIOUS
    <3>2. BlockEnd(h, arena[t].bump, r) = IF Base[h] + e < ADDRESSES THEN e ELSE e - ADDRESSES
      BY DEF BlockEnd
    <3>3. e = from + r.bytes
      OBVIOUS
    <3> QED
      BY <1>2, <2>1, <2>2, <3>1, <3>2, <3>3
  <2> QED
    BY <2>1, <2>2, <2>3, <2>4
<1>5. /\ to \in Int /\ b.id = ops[t] + 1 /\ b.slab = h /\ b.from = from /\ b.to = from + r.bytes
      /\ b.size = SLAB_SIZE
  BY <1>2, <1>4 DEF Block
<1>6. /\ arena'[t].head = h /\ arena'[t].tail = arena[t].tail /\ arena'[t].count = arena[t].count
      /\ arena'[t].bump = to /\ arena' \in [Threads -> ArenaType]
  BY <1>0, <1>1, <1>5 DEF ArenaType
<1>7. live'[t] = live[t] \cup {b} /\ ops'[t] = ops[t] + 1
  BY <1>0, <1>1
<1>8. \A u \in Threads \ {t} : /\ th'[u] = th[u] /\ arena'[u] = arena[u]
                              /\ asked'[u] = asked[u] /\ live'[u] = live[u] /\ ops'[u] = ops[u]
  BY <1>0, <1>1
<1>9. b \in BlockType /\ live' \in [Threads -> SUBSET BlockType] /\ ops' \in [Threads -> Nat]
  <2>1. b \in BlockType
    BY <1>0, <1>2, <1>3, <1>4 DEF BlockType, Block, Pointers
  <2> QED
    BY <1>0, <1>1, <2>1
<1>10. TypeInv'
  BY <1>0, <1>1, <1>6, <1>9 DEF TypeInv, poolVars, Slabs, Pointers
<1>11. LocalsOf(t)' /\ TagsOf(t)'
  BY <1>0, <1>1 DEF LocalsOf, TagsOf, Returning, Putting, poolVars
<1>12. ThreadShape(kind, owner, rank, t)'
  BY <1>0, <1>1, <1>6 DEF ThreadShape, GivenBack, Growing, Part, poolVars
<1>13. BlocksOf(kind, owner, t)'
  <2>1. ~Slow(t)' /\ ~Resetting(t)' /\ th'[t].pc = "idle"
    BY <1>1 DEF Slow, Resetting, Putting
  <2>2. ASSUME RequestsFit PROVE Separate(kind, owner, t)'
    <3>1. /\ CACHELINE_SIZE <= arena[t].bump /\ arena[t].bump <= SLAB_SIZE /\ Separate(kind, owner, t)
      BY <1>0, <1>1, <2>2 DEF BlocksOf, Separate
    <3>2. to = from + r.bytes
      <4>1. Base[h] + SLAB_SIZE + r.bytes + Alignment(r) < ADDRESSES
        BY <1>3, <2>2 DEF RequestsFit
      <4> QED
        BY <1>2, <1>4, <3>1, <4>1
    <3>3. ASSUME NEW x \in live'[t] PROVE InPlace(kind, owner, t, x)'
      <4>1. CASE x = b
        BY <1>0, <1>1, <1>2, <1>3, <1>4, <1>5, <1>6, <1>7, <2>1, <3>1, <3>2, <4>1
           DEF InPlace, Part, Slabs
      <4>2. CASE x \in live[t]
        <5>1. x \in BlockType /\ ops[t] \in Nat /\ InPlace(kind, owner, t, x)
          BY <1>0, <3>1, <4>2 DEF Separate
        <5>2. x.to \in Int /\ x.id \in Nat
          BY <5>1 DEF BlockType
        <5>3. x.id <= ops'[t]
          BY <1>7, <5>1, <5>2 DEF InPlace
        <5>4. x.slab = h /\ x.to <= arena[t].bump => x.to <= to
          BY <1>2, <1>4, <3>2, <5>2
        <5> QED
          BY <1>6, <2>1, <5>1, <5>3, <5>4 DEF InPlace, Part, Slabs
      <4> QED
        BY <1>7, <4>1, <4>2
    <3>4. ASSUME NEW x \in live'[t], NEW y \in live'[t], x.id # y.id PROVE Apart(x, y)
      <4>1. ASSUME NEW z \in live[t] PROVE z.slab # h \/ z.to <= from
        <5>1. z \in BlockType /\ (z.slab = h => z.to <= arena[t].bump)
          BY <1>0, <1>1, <3>1 DEF Separate, InPlace
        <5>2. z.to \in Int
          BY <5>1 DEF BlockType
        <5> QED
          BY <1>2, <1>4, <5>1, <5>2
      <4>2. CASE x \in live[t] /\ y \in live[t]
        BY <3>1, <3>4, <4>2 DEF Separate
      <4>3. CASE x = b /\ y \in live[t]
        BY <1>5, <4>1, <4>3 DEF Apart
      <4>4. CASE x \in live[t] /\ y = b
        BY <1>5, <4>1, <4>4 DEF Apart
      <4> QED
        BY <1>7, <3>4, <4>2, <4>3, <4>4
    <3>5. CACHELINE_SIZE <= arena'[t].bump /\ arena'[t].bump <= SLAB_SIZE
      BY <1>1, <1>2, <1>4, <1>6, <3>1, <3>2
    <3> QED
      BY <3>3, <3>4, <3>5 DEF Separate, Apart
  <2> QED
    BY <2>1, <2>2 DEF BlocksOf, RequestsFit
<1>14. UNCHANGED <<head, next, available, total>>
  BY <1>1 DEF poolVars
<1>15. th[t].pc \notin {"count", "add"} /\ th'[t].pc \notin {"count", "add"}
  BY <1>1
<1> QED
  BY <1>8, <1>10, <1>11, <1>12, <1>13, <1>14, <1>15, QuietCall

\* Calls that hand out no block of a slab: the places and the blocks of slabs
\* stay.
LEMMA AllocateOtherStep ==
    ASSUME NEW kind, NEW owner, NEW rank, NEW size, Inv(kind, owner, rank, size),
           NEW t \in Threads, NEW r \in Requests, AllocateSlow(t, r) \/ AllocateOversized(t, r)
    PROVE  IInv'
<1>0. /\ TypeInv /\ LocalsOf(t) /\ TagsOf(t) /\ ThreadShape(kind, owner, rank, t)
      /\ BlocksOf(kind, owner, t) /\ arena[t] \in ArenaType /\ arena \in [Threads -> ArenaType]
      /\ live \in [Threads -> SUBSET BlockType] /\ ops \in [Threads -> Nat]
      /\ th \in [Threads -> ThreadType] /\ th[t] \in ThreadType
      /\ asked \in [Threads -> Requests \cup {NoRequest}]
  BY ThreadFacts DEF Inv, Placed, Blocks, TypeInv
<1>1. /\ th[t].pc = "idle" /\ th[t].slab = Null /\ ops' = [ops EXCEPT ![t] = @ + 1]
      /\ UNCHANGED poolVars
  BY <1>0 DEF AllocateSlow, AllocateOversized, Call, At, LocalsOf
<1>2. /\ th'[t].pc \in {"idle", "acquire"} /\ th'[t].slab = Null
      /\ th' \in [Threads -> ThreadType] /\ \A u \in Threads \ {t} : th'[u] = th[u]
  <2>1. CASE th' = th
    BY <1>0, <1>1, <2>1
  <2>2. CASE th' = [th EXCEPT ![t].pc = "acquire"]
    <3> PICK x : x = [th[t] EXCEPT !.pc = "acquire"]
      OBVIOUS
    <3>1. x \in ThreadType /\ x.pc = "acquire" /\ x.slab = th[t].slab /\ th' = [th EXCEPT ![t] = x]
      BY <1>0, <2>2 DEF ThreadType, Labels
    <3> QED
      BY <1>0, <1>1, <3>1
  <2> QED
    BY <2>1, <2>2 DEF AllocateSlow, AllocateOversized, Goto
<1>3. /\ arena'[t].head = arena[t].head /\ arena'[t].tail = arena[t].tail
      /\ arena'[t].count = arena[t].count /\ arena'[t].bump = arena[t].bump
      /\ arena' \in [Threads -> ArenaType] /\ \A u \in Threads \ {t} : arena'[u] = arena[u]
  <2>1. CASE arena' = arena
    BY <1>0, <2>1
  <2>2. CASE arena' = [arena EXCEPT ![t].oversized = @ + 1]
    BY <1>0, <2>2 DEF ArenaType
  <2> QED
    BY <2>1, <2>2 DEF AllocateSlow, AllocateOversized
<1>4. /\ asked' \in [Threads -> Requests \cup {NoRequest}]
      /\ \A u \in Threads \ {t} : asked'[u] = asked[u]
      /\ th'[t].pc = "acquire" => asked'[t] \in Requests /\ Small(asked'[t])
  <2>1. CASE AllocateSlow(t, r)
    BY <1>0, <2>1 DEF AllocateSlow
  <2>2. CASE AllocateOversized(t, r)
    BY <1>0, <1>1, <2>2 DEF AllocateOversized
  <2> QED
    BY <2>1, <2>2
<1>5. ops' \in [Threads -> Nat] /\ ops'[t] = ops[t] + 1 /\ \A u \in Threads \ {t} : ops'[u] = ops[u]
  BY <1>0, <1>1
<1> PICK b : b = OversizedBlock(ops[t] + 1, r)
  OBVIOUS
<1> PICK from : from = Aligned(HEADER, r)
  OBVIOUS
<1>13. /\ from \in Int /\ HEADER <= from /\ from < HEADER + Alignment(r) /\ HEADER \in Nat
       /\ r.bytes \in Nat \ {0} /\ Alignment(r) \in Nat /\ ADDRESSES \in Nat \ {0}
  BY AlignedBound, RequestType, ArenaAssumption
<1> PICK total2 : total2 = r.bytes + HEADER + Alignment(r)
  OBVIOUS
<1>14. total2 \in Nat /\ total2 % ADDRESSES \in Int
  BY <1>13
<1>15. /\ b.id = ops[t] + 1 /\ b.slab = Null /\ b.from = from /\ b.to = from + r.bytes
       /\ b.size = total2 % ADDRESSES
  BY DEF OversizedBlock
<1>16. b \in BlockType
  BY <1>0, <1>13, <1>14 DEF OversizedBlock, BlockType, Pointers
<1>17. /\ live'[t] = live[t] \/ live'[t] = live[t] \cup {b}
       /\ live' \in [Threads -> SUBSET BlockType] /\ \A u \in Threads \ {t} : live'[u] = live[u]
  <2>1. CASE live' = live
    BY <1>0, <2>1
  <2>2. CASE live' = [live EXCEPT ![t] = @ \cup {b}]
    BY <1>0, <1>16, <2>2
  <2> QED
    BY <2>1, <2>2 DEF AllocateSlow, AllocateOversized
<1>6. TypeInv'
  BY <1>0, <1>1, <1>2, <1>3, <1>4, <1>5, <1>17 DEF TypeInv, poolVars, Slabs, Pointers
<1>7. LocalsOf(t)' /\ TagsOf(t)'
  BY <1>2 DEF LocalsOf, TagsOf, Returning, Putting
<1>8. ThreadShape(kind, owner, rank, t)'
  <2>1. ~GivenBack(t) /\ ~GivenBack(t)' /\ ~Growing(t) /\ ~Growing(t)'
    BY <1>1, <1>2 DEF GivenBack, Growing
  <2> QED
    BY <1>0, <1>1, <1>2, <1>3, <2>1 DEF ThreadShape, Part, poolVars
<1>9. BlocksOf(kind, owner, t)'
  <2>1. ~Resetting(t)' /\ (Slow(t)' <=> th'[t].pc = "acquire")
    BY <1>2 DEF Resetting, Slow, Putting
  <2>2. live'[t] # live[t] => th'[t].pc = "idle"
    BY <1>1 DEF AllocateSlow, AllocateOversized
  <2>3. ASSUME RequestsFit PROVE Separate(kind, owner, t)'
    <3>1. Separate(kind, owner, t)
      BY <1>0, <2>3 DEF BlocksOf
    <3>2. ASSUME NEW x \in live[t] PROVE InPlace(kind, owner, t, x)'
      <4>1. x \in BlockType /\ InPlace(kind, owner, t, x) /\ ops[t] \in Nat
        BY <1>0, <3>1 DEF Separate
      <4>2. x.id \in Nat /\ x.id <= ops[t]
        BY <4>1 DEF BlockType, InPlace
      <4>3. x.id <= ops'[t] /\ x.id < ops'[t]
        BY <1>5, <4>1, <4>2
      <4> QED
        BY <1>3, <4>1, <4>3 DEF InPlace, Part, Slabs
    <3>3. ASSUME live'[t] # live[t] PROVE InPlace(kind, owner, t, b)'
      <4>1. total2 < ADDRESSES
        BY <1>13, <2>3 DEF RequestsFit
      <4>2. total2 % ADDRESSES = total2
        BY <1>13, <1>14, <4>1
      <4>3. b.from < b.to /\ b.to <= b.size
        BY <1>13, <1>15, <4>2
      <4>4. b.id <= ops'[t] /\ th'[t].pc = "idle"
        BY <1>0, <1>5, <1>15, <2>2, <3>3
      <4> QED
        BY <1>13, <1>15, <4>3, <4>4 DEF InPlace
    <3>4. ASSUME NEW x \in live'[t] PROVE InPlace(kind, owner, t, x)'
      BY <1>17, <3>2, <3>3, <3>4
    <3>5. ASSUME NEW x \in live'[t], NEW y \in live'[t], x.id # y.id PROVE Apart(x, y)
      <4>1. CASE x \in live[t] /\ y \in live[t]
        BY <3>1, <3>5, <4>1 DEF Separate
      <4>2. CASE x = b \/ y = b
        BY <1>15, <4>2 DEF Apart
      <4> QED
        BY <1>17, <4>1, <4>2
    <3> QED
      BY <1>3, <3>1, <3>4, <3>5 DEF Separate, Apart
  <2> QED
    BY <1>0, <1>4, <2>1, <2>3 DEF BlocksOf, Small, RequestsFit
<1>10. UNCHANGED <<head, next, available, total>>
  BY <1>1 DEF poolVars
<1>11. th[t].pc \notin {"count", "add"} /\ th'[t].pc \notin {"count", "add"}
  BY <1>1, <1>2
<1>12. \A u \in Threads \ {t} : /\ th'[u] = th[u] /\ arena'[u] = arena[u]
                                /\ asked'[u] = asked[u] /\ live'[u] = live[u] /\ ops'[u] = ops[u]
  BY <1>2, <1>3, <1>4, <1>5, <1>17
<1> QED
  BY <1>6, <1>7, <1>8, <1>9, <1>10, <1>11, <1>12, QuietCall

LEMMA IdleType ==
    IdleThread \in ThreadType /\ IdleThread.pc = "idle" /\ IdleThread.slab = Null
  BY SlabsNumbered DEF IdleThread, ThreadType, Labels, Pointers, Tagged, Null

LEMMA AllocateFailsStep ==
    ASSUME NEW kind, NEW owner, NEW rank, NEW size, Inv(kind, owner, rank, size),
           NEW t \in Threads, AllocateFails(t)
    PROVE  IInv'
<1>0. /\ TypeInv /\ LocalsOf(t) /\ TagsOf(t) /\ ThreadShape(kind, owner, rank, t)
      /\ BlocksOf(kind, owner, t) /\ th \in [Threads -> ThreadType]
      /\ asked \in [Threads -> Requests \cup {NoRequest}]
      /\ live \in [Threads -> SUBSET BlockType] /\ ops \in [Threads -> Nat]
  BY ThreadFacts DEF Inv, Placed, Blocks, TypeInv
<1>1. /\ th[t].pc = "acquired" /\ th[t].slab = Null /\ UNCHANGED <<poolVars, arena, live, ops>>
      /\ th' = [th EXCEPT ![t] = IdleThread] /\ asked' = [asked EXCEPT ![t] = NoRequest]
  BY DEF AllocateFails, At
<1>2. /\ th'[t] = IdleThread /\ th' \in [Threads -> ThreadType]
      /\ asked' \in [Threads -> Requests \cup {NoRequest}]
      /\ \A u \in Threads \ {t} : th'[u] = th[u] /\ asked'[u] = asked[u]
  BY <1>0, <1>1, IdleType
<1>3. th'[t].pc = "idle" /\ th'[t].slab = Null
  BY <1>2, IdleType
<1>4. TypeInv'
  BY <1>0, <1>1, <1>2 DEF TypeInv, poolVars, Slabs, Pointers
<1>5. LocalsOf(t)' /\ TagsOf(t)'
  BY <1>3 DEF LocalsOf, TagsOf, Returning, Putting
<1>6. ThreadShape(kind, owner, rank, t)'
  <2>1. ~GivenBack(t) /\ ~GivenBack(t)' /\ ~Growing(t) /\ ~Growing(t)'
    BY <1>1, <1>3 DEF GivenBack, Growing
  <2> QED
    BY <1>0, <1>1, <1>3, <2>1 DEF ThreadShape, Part, poolVars
<1>7. BlocksOf(kind, owner, t)'
  <2>1. ~Resetting(t)' /\ ~Slow(t)'
    BY <1>3 DEF Resetting, Slow, Putting
  <2>2. Part(kind, owner, "arena", t)' = Part(kind, owner, "arena", t)
    BY DEF Part, Slabs
  <2> QED
    BY <1>0, <1>1, <1>3, <2>1, <2>2 DEF BlocksOf, Separate, InPlace, Apart, RequestsFit
<1>8. UNCHANGED <<head, next, available, total>>
  BY <1>1 DEF poolVars
<1>9. \A u \in Threads \ {t} : /\ th'[u] = th[u] /\ arena'[u] = arena[u]
                               /\ asked'[u] = asked[u] /\ live'[u] = live[u] /\ ops'[u] = ops[u]
  BY <1>1, <1>2
<1>10. th[t].pc \notin {"count", "add"} /\ th'[t].pc \notin {"count", "add"}
  BY <1>1, <1>3
<1> QED
  BY <1>4, <1>5, <1>6, <1>7, <1>8, <1>9, <1>10, QuietCall

LEMMA ResetStep ==
    ASSUME NEW kind, NEW owner, NEW rank, NEW size, Inv(kind, owner, rank, size),
           NEW t \in Threads, Reset(t)
    PROVE  IInv'
<1>0. /\ TypeInv /\ LocalsOf(t) /\ TagsOf(t) /\ ThreadShape(kind, owner, rank, t)
      /\ BlocksOf(kind, owner, t) /\ th \in [Threads -> ThreadType] /\ th[t] \in ThreadType
      /\ live \in [Threads -> SUBSET BlockType] /\ ops \in [Threads -> Nat]
      /\ arena[t] \in ArenaType
  BY ThreadFacts DEF Inv, Placed, Blocks, TypeInv
<1>1. /\ th[t].pc = "idle" /\ th[t].slab = Null /\ UNCHANGED <<poolVars, arena, asked>>
      /\ ops' = [ops EXCEPT ![t] = @ + 1] /\ live' = [live EXCEPT ![t] = {}]
  BY <1>0 DEF Reset, Call, At, LocalsOf
<1>2. ~GivenBack(t) /\ ~Growing(t)
  BY <1>1 DEF GivenBack, Growing, Putting
<1> PICK A : A = Part(kind, owner, "arena", t)
  OBVIOUS
<1>3. /\ IsChain(next, A, rank, arena[t].head, arena[t].count)
      /\ arena[t].head # Null => arena[t].head \in A /\ arena[t].count > 0
      /\ arena[t].head = Null => A = {} /\ arena[t].tail = Null /\ arena[t].count = 0
      /\ arena[t].head # Null => arena[t].tail \in A /\ rank[arena[t].tail] = 1
  BY <1>0, <1>2, ArenaChain
<1>4. PICK x \in ThreadType :
        /\ th' = [th EXCEPT ![t] = x] /\ x.slab = Null
        /\ \/ /\ arena[t].head # Null /\ x.pc = "release" /\ x.first = arena[t].head
              /\ x.last = arena[t].tail /\ x.count = arena[t].count
           \/ arena[t].head = Null /\ x.pc = "released"
  <2>1. CASE arena[t].head = Null
    <3> PICK x : x = [th[t] EXCEPT !.pc = "released"]
      OBVIOUS
    <3>1. x \in ThreadType /\ x.slab = Null /\ x.pc = "released" /\ th' = [th EXCEPT ![t] = x]
      BY <1>0, <1>1, <2>1 DEF ThreadType, Labels, Reset, Goto
    <3> QED
      BY <2>1, <3>1
  <2>2. CASE arena[t].head # Null
    <3> PICK x : x = [th[t] EXCEPT !.pc = "release", !.first = arena[t].head,
                                   !.last = arena[t].tail, !.count = arena[t].count]
      OBVIOUS
    <3>1. arena[t].head \in Nat /\ arena[t].tail \in Nat /\ arena[t].count \in Nat
      BY <1>0, SlabsNumbered DEF ArenaType
    <3>2. /\ x \in ThreadType /\ x.slab = Null /\ x.pc = "release" /\ x.first = arena[t].head
          /\ x.last = arena[t].tail /\ x.count = arena[t].count
      BY <1>0, <1>1, <3>1 DEF ThreadType, Labels
    <3>3. th' = [th EXCEPT ![t] = x]
      BY <1>0, <2>2 DEF Reset
    <3> QED
      BY <2>2, <3>2, <3>3
  <2> QED
    BY <2>1, <2>2
<1>5. th'[t] = x /\ th' \in [Threads -> ThreadType] /\ \A u \in Threads \ {t} : th'[u] = th[u]
  BY <1>0, <1>4
<1>6. /\ ops' \in [Threads -> Nat] /\ live' \in [Threads -> SUBSET BlockType] /\ live'[t] = {}
      /\ \A u \in Threads \ {t} : ops'[u] = ops[u] /\ live'[u] = live[u]
  BY <1>0, <1>1
<1>7. TypeInv'
  BY <1>0, <1>1, <1>5, <1>6 DEF TypeInv, poolVars, Slabs, Pointers
<1>8. LocalsOf(t)' /\ TagsOf(t)'
  BY <1>1, <1>3, <1>4, <1>5 DEF LocalsOf, TagsOf, Returning, Putting
<1>9. ThreadShape(kind, owner, rank, t)'
  <2>1. (GivenBack(t)' <=> arena[t].head = Null) /\ ~Growing(t)'
    BY <1>4, <1>5 DEF GivenBack, Growing, Putting
  <2> QED
    BY <1>0, <1>1, <1>2, <1>3, <1>4, <1>5, <2>1 DEF ThreadShape, Part, poolVars
<1>10. BlocksOf(kind, owner, t)'
  <2>1. ~Slow(t)'
    BY <1>4, <1>5 DEF Slow, Putting
  <2> QED
    BY <1>0, <1>1, <1>6, <2>1 DEF BlocksOf, Separate, RequestsFit
<1>11. UNCHANGED <<head, next, available, total>>
  BY <1>1 DEF poolVars
<1>12. \A u \in Threads \ {t} : /\ th'[u] = th[u] /\ arena'[u] = arena[u]
                                /\ asked'[u] = asked[u] /\ live'[u] = live[u] /\ ops'[u] = ops[u]
  BY <1>1, <1>5, <1>6
<1>13. th[t].pc \notin {"count", "add"} /\ th'[t].pc \notin {"count", "add"}
  BY <1>1, <1>4, <1>5
<1> QED
  BY <1>7, <1>8, <1>9, <1>10, <1>11, <1>12, <1>13, QuietCall

LEMMA ResetEndStep ==
    ASSUME NEW kind, NEW owner, NEW rank, NEW size, Inv(kind, owner, rank, size),
           NEW t \in Threads, ResetEnd(t)
    PROVE  IInv'
<1>0. /\ TypeInv /\ LocalsOf(t) /\ TagsOf(t) /\ ThreadShape(kind, owner, rank, t)
      /\ BlocksOf(kind, owner, t) /\ th \in [Threads -> ThreadType]
      /\ arena \in [Threads -> ArenaType]
  BY ThreadFacts DEF Inv, Placed, Blocks
<1>1. /\ th[t].pc = "released" /\ th[t].slab = Null /\ UNCHANGED <<poolVars, asked, live, ops>>
      /\ th' = [th EXCEPT ![t] = IdleThread] /\ arena' = [arena EXCEPT ![t] = EmptyArena]
  BY <1>0 DEF ResetEnd, At, LocalsOf
<1>2. /\ EmptyArena \in ArenaType /\ EmptyArena.head = Null /\ EmptyArena.tail = Null
      /\ EmptyArena.count = 0
  BY DEF EmptyArena, ArenaType, Pointers
<1>3. /\ th'[t] = IdleThread /\ th' \in [Threads -> ThreadType]
      /\ arena'[t] = EmptyArena /\ arena' \in [Threads -> ArenaType]
      /\ \A u \in Threads \ {t} : th'[u] = th[u] /\ arena'[u] = arena[u]
  BY <1>0, <1>1, <1>2, IdleType
<1>4. th'[t].pc = "idle" /\ th'[t].slab = Null
  BY <1>3, IdleType
<1>5. TypeInv'
  BY <1>0, <1>1, <1>3 DEF TypeInv, poolVars, Slabs, Pointers
<1>6. LocalsOf(t)' /\ TagsOf(t)'
  BY <1>4 DEF LocalsOf, TagsOf, Returning, Putting
<1>7. ThreadShape(kind, owner, rank, t)'
  <2>1. GivenBack(t) /\ ~GivenBack(t)' /\ ~Growing(t) /\ ~Growing(t)'
    BY <1>1, <1>4 DEF GivenBack, Growing, Putting
  <2>2. Part(kind, owner, "arena", t) = {}
    BY <1>0, <2>1 DEF ThreadShape
  <2>3. IsChain(next', {}, rank, Null, 0)
    BY DEF IsChain
  <2> QED
    BY <1>0, <1>1, <1>2, <1>3, <1>4, <2>1, <2>2, <2>3 DEF ThreadShape, Part, poolVars
<1>8. BlocksOf(kind, owner, t)'
  <2>1. ~Slow(t)' /\ Resetting(t)
    BY <1>1, <1>4 DEF Slow, Putting, Resetting
  <2>2. live'[t] = {}
    BY <1>0, <1>1, <2>1 DEF BlocksOf
  <2> QED
    BY <1>2, <1>3, <2>1, <2>2 DEF BlocksOf, Separate
<1>9. UNCHANGED <<head, next, available, total>>
  BY <1>1 DEF poolVars
<1>10. \A u \in Threads \ {t} : /\ th'[u] = th[u] /\ arena'[u] = arena[u]
                                /\ asked'[u] = asked[u] /\ live'[u] = live[u] /\ ops'[u] = ops[u]
  BY <1>1, <1>3
<1>11. th[t].pc \notin {"count", "add"} /\ th'[t].pc \notin {"count", "add"}
  BY <1>1, <1>4
<1> QED
  BY <1>5, <1>6, <1>7, <1>8, <1>9, <1>10, <1>11, QuietCall

\* allocate_slow puts the slab it has acquired before the chain of the arena.
LEMMA TakeSlabStep ==
    ASSUME NEW kind, NEW owner, NEW rank, NEW size, Inv(kind, owner, rank, size),
           NEW t \in Threads, TakeSlab(t)
    PROVE  IInv'
<1>0. /\ TypeInv /\ LocalsOf(t) /\ TagsOf(t) /\ ThreadShape(kind, owner, rank, t)
      /\ BlocksOf(kind, owner, t) /\ th \in [Threads -> ThreadType] /\ th[t] \in ThreadType
      /\ arena \in [Threads -> ArenaType] /\ arena[t] \in ArenaType
      /\ live \in [Threads -> SUBSET BlockType] /\ ops \in [Threads -> Nat]
      /\ asked \in [Threads -> Requests \cup {NoRequest}] /\ next \in [Slabs -> Pointers]
      /\ Shape(kind, owner, rank, size) /\ Counted(size) /\ size \in Nat
  BY ThreadFacts DEF Inv, Placed, Blocks, TypeInv
<1> PICK s : s = th[t].slab
  OBVIOUS
<1>1. /\ th[t].pc = "acquired" /\ s # Null /\ s \in Slabs
      /\ UNCHANGED <<head, available, total, chunks, lock, ops>>
      /\ next' = [next EXCEPT ![s] = arena[t].head]
      /\ th' = [th EXCEPT ![t] = IdleThread] /\ asked' = [asked EXCEPT ![t] = NoRequest]
  BY <1>0 DEF TakeSlab, At, ThreadType, Pointers
<1>2. /\ th'[t] = IdleThread /\ th' \in [Threads -> ThreadType]
      /\ asked' \in [Threads -> Requests \cup {NoRequest}]
      /\ \A u \in Threads \ {t} : th'[u] = th[u] /\ asked'[u] = asked[u]
  BY <1>0, <1>1, IdleType
<1>3. th'[t].pc = "idle" /\ th'[t].slab = Null
  BY <1>2, IdleType
<1>4. /\ next' \in [Slabs -> Pointers] /\ next'[s] = arena[t].head
      /\ \A u \in Slabs : u # s => next'[u] = next[u]
  BY <1>0, <1>1 DEF ArenaType
<1> PICK r : r = asked[t]
  OBVIOUS
<1> PICK to : to = CACHELINE_SIZE + r.bytes
  OBVIOUS
<1> PICK b : b = Block(ops[t], s, CACHELINE_SIZE, r)
  OBVIOUS
<1>5. /\ r \in Requests /\ Aligned(CACHELINE_SIZE, r) = CACHELINE_SIZE
      /\ to = BlockEnd(s, CACHELINE_SIZE, r)
      /\ to \in Nat /\ CACHELINE_SIZE \in Nat /\ CACHELINE_SIZE < to /\ to <= SLAB_SIZE
  <2>1. Slow(t)
    BY <1>1 DEF Slow
  <2>2. r \in Requests /\ Small(r)
    BY <1>0, <2>1 DEF BlocksOf
  <2>3. Aligned(CACHELINE_SIZE, r) = CACHELINE_SIZE
    BY <2>2, HeaderAligned
  <2>4. r.bytes \in Nat \ {0} /\ r.bytes <= SLAB_SIZE - CACHELINE_SIZE
    BY <2>2, RequestType DEF Small
  <2>5. to \in Nat /\ CACHELINE_SIZE \in Nat /\ CACHELINE_SIZE < to /\ to <= SLAB_SIZE
    BY <2>4, ArenaAssumption
  <2>6. Base[s] + to < ADDRESSES
    BY <1>1, <2>5, ArenaAssumption
  <2>7. to = BlockEnd(s, CACHELINE_SIZE, r)
    BY <2>3, <2>6 DEF BlockEnd
  <2> QED
    BY <2>2, <2>3, <2>5, <2>7
<1>27. /\ b.id = ops[t] /\ b.slab = s /\ b.from = CACHELINE_SIZE /\ b.to = to /\ b.size = SLAB_SIZE
       /\ b \in BlockType
  BY <1>0, <1>1, <1>5, ArenaAssumption DEF Block, BlockType, Pointers
<1> PICK tail : tail = IF arena[t].tail = Null THEN s ELSE arena[t].tail
  OBVIOUS
<1>6. /\ arena' = [arena EXCEPT ![t].head = s, ![t].tail = tail, ![t].count = arena[t].count + 1,
                                ![t].bump = to]
      /\ live' = [live EXCEPT ![t] = @ \cup {b}]
  BY <1>0, <1>5 DEF TakeSlab
<1>7. /\ arena'[t].head = s /\ arena'[t].tail = tail /\ arena'[t].count = arena[t].count + 1
      /\ arena'[t].bump = to /\ arena' \in [Threads -> ArenaType]
      /\ \A u \in Threads \ {t} : arena'[u] = arena[u]
  <2>1. tail \in Pointers /\ s \in Pointers /\ arena[t].count + 1 \in Nat
    BY <1>0, <1>1 DEF ArenaType, Pointers
  <2> PICK y : y = [arena[t] EXCEPT !.head = s, !.tail = tail, !.count = arena[t].count + 1, !.bump = to]
    OBVIOUS
  <2>2. /\ y \in ArenaType /\ y.head = s /\ y.tail = tail /\ y.count = arena[t].count + 1 /\ y.bump = to
    <3>1. to \in Int
      BY <1>5
    <3> QED
      BY <1>0, <2>1, <3>1 DEF ArenaType
  <2>3. arena' = [arena EXCEPT ![t] = y]
    BY <1>0, <1>6
  <2> QED
    BY <1>0, <2>2, <2>3
<1>8. /\ live'[t] = live[t] \cup {b} /\ b \in BlockType /\ live' \in [Threads -> SUBSET BlockType]
      /\ \A u \in Threads \ {t} : live'[u] = live[u]
  BY <1>0, <1>6, <1>27
<1>9. kind[s] = "hand" /\ owner[s] = t
  BY <1>0, <1>1 DEF ThreadShape, Part
<1>10. ~GivenBack(t) /\ ~GivenBack(t)' /\ ~Growing(t) /\ ~Growing(t)'
  BY <1>1, <1>3 DEF GivenBack, Growing, Putting
<1> PICK A : A = Part(kind, owner, "arena", t)
  OBVIOUS
<1>11. /\ IsChain(next, A, rank, arena[t].head, arena[t].count) /\ arena[t].count \in Nat
       /\ arena[t].head = Null => A = {} /\ arena[t].tail = Null /\ arena[t].count = 0
       /\ arena[t].head # Null => arena[t].tail \in A /\ rank[arena[t].tail] = 1
  <2>1. arena[t].count \in Nat
    BY <1>0 DEF ArenaType
  <2> QED
    BY <1>0, <1>10, <2>1, ArenaChain
<1>12. s \notin A /\ A \subseteq Slabs /\ Null \notin A
  BY <1>9, SlabsNumbered DEF Part
<1> PICK kind2 : kind2 = [u \in Slabs |-> IF u = s THEN "arena" ELSE kind[u]]
  OBVIOUS
<1> PICK rank2 : rank2 = [u \in Slabs |-> IF u = s THEN arena[t].count + 1 ELSE rank[u]]
  OBVIOUS
<1>13. /\ kind2[s] = "arena" /\ rank2[s] = arena[t].count + 1
       /\ \A u \in Slabs : u # s => kind2[u] = kind[u] /\ rank2[u] = rank[u]
  BY <1>1
<1>14. /\ Part(kind2, owner, "arena", t) = A \cup {s}
       /\ Part(kind2, owner, "chunk", t) = Part(kind, owner, "chunk", t)
       /\ Part(kind2, owner, "hand", t) = {}
  BY <1>0, <1>1, <1>9, <1>13 DEF Part, ThreadShape
<1>15. ThreadShape(kind2, owner, rank2, t)'
  <2>1. IsChain(next', A \cup {s}, rank2, s, arena[t].count + 1)
    <3>1. \A u \in A : rank2[u] = rank[u] /\ next'[u] = next[u]
      BY <1>4, <1>12, <1>13
    <3> QED
      BY <1>1, <1>4, <1>11, <1>12, <1>13, <3>1, ChainPush, ZenonT(60)
  <2>2. tail \in A \cup {s} /\ rank2[tail] = 1
    BY <1>11, <1>12, <1>13
  <2>3. Part(kind, owner, "chunk", t) = {}
    BY <1>0, <1>10 DEF ThreadShape
  <2> QED
    BY <1>1, <1>3, <1>7, <1>10, <1>14, <2>1, <2>2, <2>3 DEF ThreadShape
<1>16. Stack(kind2) = Stack(kind) /\ s \notin Stack(kind)
  BY <1>9, <1>13 DEF Stack
<1>17. IsChain(next', Stack(kind2), rank2, head'.ptr, size)
  <2>1. IsChain(next, Stack(kind), rank, head.ptr, size)
    BY <1>0 DEF Shape
  <2>2. \A u \in Stack(kind) : rank2[u] = rank[u] /\ next'[u] = next[u]
    BY <1>4, <1>13, <1>16 DEF Stack
  <2>3. IsChain(next', Stack(kind), rank2, head.ptr, size)
    BY <2>1, <2>2, ChainFrame
  <2> QED
    BY <1>1, <1>16, <2>3
<1>18. \A u \in Stack(kind2) : rank2[u] = 1 => next'[u] = Null
  <2>1. \A u \in Stack(kind) : rank2[u] = rank[u] /\ next'[u] = next[u]
    BY <1>4, <1>13, <1>16 DEF Stack
  <2> QED
    BY <1>0, <1>16, <2>1 DEF Shape
<1>19. \A u \in Slabs : IF u > total' THEN kind2[u] = "none"
                        ELSE kind2[u] = "stack" \/ (kind2[u] \in Parts /\ owner[u] \in Threads)
  <2>1. ~(s > total)
    BY <1>0, <1>1, <1>9 DEF Shape
  <2> QED
    BY <1>0, <1>1, <1>9, <1>13, <2>1 DEF Shape, Parts
<1>20. LocalsOf(t)' /\ TagsOf(t)'
  BY <1>3 DEF LocalsOf, TagsOf, Returning, Putting
<1>21. OwnLinks(kind, owner, t) /\ Moves(kind, owner, rank, kind2, owner, rank2, t)
  BY <1>4, <1>9, <1>13 DEF OwnLinks, Moves, Parts
<1>22. Counted(size)'
  <2>1. size + Weight(th'[t]) - size - Weight(th[t]) = 0
    BY <1>0, <1>1, <1>3 DEF Weight
  <2> QED
    BY <1>0, <1>1, <1>2, <2>1, CountedStep
<1>23. TypeInv'
  BY <1>0, <1>1, <1>2, <1>4, <1>7, <1>8 DEF TypeInv, Slabs, Pointers
<1>24. BlocksOf(kind2, owner, t)'
  <2>1. ~Slow(t)' /\ ~Resetting(t)'
    BY <1>3 DEF Slow, Resetting, Putting
  <2>2. ASSUME RequestsFit PROVE Separate(kind2, owner, t)'
    <3>1. Separate(kind, owner, t)
      BY <1>0, <2>2 DEF BlocksOf
    <3>2. ASSUME NEW z \in live[t] PROVE InPlace(kind, owner, t, z) /\ z.slab # s
      BY <1>1, <1>12, <3>1 DEF Separate, InPlace
    <3>3. ASSUME NEW z \in live'[t] PROVE InPlace(kind2, owner, t, z)'
      <4>1. Part(kind2, owner, "arena", t)' = A \cup {s}
        BY <1>14 DEF Part, Slabs
      <4>2. ops' = ops
        BY <1>1
      <4>3. CASE z = b
        BY <1>0, <1>3, <1>5, <1>7, <1>27, <4>1, <4>2, <4>3 DEF InPlace
      <4>4. CASE z \in live[t]
        <5>1. z.slab # s /\ InPlace(kind, owner, t, z)
          BY <3>2, <4>4
        <5>2. z.slab \in A \/ (z.slab = Null /\ HEADER <= z.from)
          BY <5>1 DEF InPlace
        <5> QED
          BY <1>3, <1>7, <4>1, <4>2, <5>1, <5>2 DEF InPlace
      <4> QED
        BY <1>8, <4>3, <4>4
    <3>4. ASSUME NEW z \in live'[t], NEW y \in live'[t], z.id # y.id PROVE Apart(z, y)
      <4>1. CASE z \in live[t] /\ y \in live[t]
        BY <3>1, <3>4, <4>1 DEF Separate
      <4>2. CASE z = b /\ y \in live[t]
        BY <1>27, <3>2, <4>2 DEF Apart
      <4>3. CASE z \in live[t] /\ y = b
        BY <1>27, <3>2, <4>3 DEF Apart
      <4> QED
        BY <1>8, <3>4, <4>1, <4>2, <4>3
    <3>5. CACHELINE_SIZE <= arena'[t].bump /\ arena'[t].bump <= SLAB_SIZE
      BY <1>5, <1>7, ArenaAssumption
    <3> QED
      BY <3>3, <3>4, <3>5 DEF Separate, Apart
  <2> QED
    BY <2>1, <2>2 DEF BlocksOf, RequestsFit
<1>25. /\ \A u \in Threads \ {t} : /\ th'[u] = th[u] /\ arena'[u] = arena[u]
                                  /\ asked'[u] = asked[u] /\ live'[u] = live[u] /\ ops'[u] = ops[u]
       /\ head' = head
  BY <1>1, <1>2, <1>7, <1>8
<1>26. Inv(kind2, owner, rank2, size)'
  BY <1>15, <1>17, <1>18, <1>19, <1>20, <1>21, <1>22, <1>23, <1>24, <1>25, ThreadStep
<1> QED
  BY <1>26 DEF IInv
----------------------------------------------------------------------------
(* The invariant is inductive.                                             *)

LEMMA InitInv == Init => IInv
<1> SUFFICES ASSUME Init PROVE IInv
  OBVIOUS
<1> USE DEF Init, PoolInit
<1>0. /\ Top \in Nat /\ Slabs = 1 .. Top /\ InitialSlabs \in Nat /\ InitialSlabs <= Top
      /\ MaxChunks \in Nat /\ 1 \in 1 .. MaxChunks /\ InitialSlabs = InitialSlabs + (1 - 1) * ChunkSlabs
  <2>1. MaxChunks \in Nat \ {0} /\ ChunkSlabs \in Nat /\ InitialSlabs \in Nat
    BY PoolAssumption
  <2>2. 1 \in 1 .. MaxChunks /\ InitialSlabs = InitialSlabs + (1 - 1) * ChunkSlabs
    BY <2>1
  <2>3. chunks \in 1 .. MaxChunks /\ total = InitialSlabs + (chunks - 1) * ChunkSlabs
    BY <2>2
  <2>4. total <= Top
    BY <2>3, TotalBound
  <2> QED
    BY <2>1, <2>2, <2>4, SlabsNumbered
<1>1. next = [s \in Slabs |-> IF s \in 1 .. InitialSlabs THEN IF s < InitialSlabs THEN s + 1 ELSE Null
                                                         ELSE Null]
  BY DEF Partition
<1>2. next \in [Slabs -> Pointers]
  BY <1>0, <1>1 DEF Pointers
<1>3. head \in [ptr : Pointers, tag : Nat] /\ head.ptr = IF InitialSlabs > 0 THEN 1 ELSE Null
  BY <1>0 DEF Tagged, Pointers
<1>4. \A t \in Threads : /\ th[t] = IdleThread /\ th[t].pc = "idle" /\ th[t].slab = Null
                         /\ arena[t] = EmptyArena /\ arena[t].head = Null /\ arena[t].tail = Null
                         /\ arena[t].count = 0 /\ live[t] = {}
  BY IdleType DEF EmptyArena
<1>5. TypeInv
  <2>1. th \in [Threads -> ThreadType]
    BY IdleType
  <2>2. arena \in [Threads -> ArenaType]
    BY DEF EmptyArena, ArenaType, Pointers
  <2>3. /\ asked \in [Threads -> Requests \cup {NoRequest}] /\ live \in [Threads -> SUBSET BlockType]
        /\ ops \in [Threads -> Nat]
    OBVIOUS
  <2> QED
    BY <1>0, <1>2, <1>3, <2>1, <2>2, <2>3 DEF TypeInv
<1>6. Locals /\ Tags
  BY <1>4 DEF Locals, LocalsOf, Tags, TagsOf, Returning, Putting
<1> PICK kind : kind = [s \in Slabs |-> IF s <= InitialSlabs THEN "stack" ELSE "none"]
  OBVIOUS
<1> PICK rank : rank = [s \in Slabs |-> InitialSlabs - s + 1]
  OBVIOUS
<1>7. \A s \in Slabs : (s <= InitialSlabs => kind[s] = "stack") /\ (s > InitialSlabs => kind[s] = "none")
  BY <1>0
<1>8. Stack(kind) = 1 .. InitialSlabs
  BY <1>0, <1>7 DEF Stack
<1>9. \A c \in Parts, t \in Threads : Part(kind, kind, c, t) = {}
  BY <1>0, <1>7 DEF Part, Parts
<1>10. Shape(kind, kind, rank, InitialSlabs)
  <2>1. ASSUME NEW s \in Stack(kind), rank[s] = 1 PROVE next[s] = Null
    <3>1. s \in Slabs /\ s \in 1 .. InitialSlabs
      BY <1>0, <1>8
    <3>2. s = InitialSlabs
      BY <1>0, <2>1, <3>1
    <3>3. ~(s < InitialSlabs)
      BY <1>0, <3>2
    <3>4. next[s] = IF s \in 1 .. InitialSlabs THEN IF s < InitialSlabs THEN s + 1 ELSE Null ELSE Null
      BY <1>1, <3>1
    <3> QED
      BY <3>3, <3>4
  <2>2. IsChain(next, Stack(kind), rank, head.ptr, InitialSlabs)
    <3>1. \A s \in 1 .. InitialSlabs : rank[s] = InitialSlabs - s + 1 /\ s \in Slabs
      BY <1>0
    <3>2. InitialSlabs \in Nat /\ (InitialSlabs = 0 <=> head.ptr = Null)
      BY <1>0, <1>3 DEF Null
    <3>3. InitialSlabs > 0 => head.ptr \in 1 .. InitialSlabs /\ rank[head.ptr] = InitialSlabs
      BY <1>0, <1>3, <3>1
    <3>4. \A s \in 1 .. InitialSlabs : rank[s] \in 1 .. InitialSlabs
      BY <1>0, <3>1
    <3>5. \A s, u \in 1 .. InitialSlabs : rank[s] = rank[u] => s = u
      BY <1>0, <3>1
    <3>6. ASSUME NEW i \in 1 .. InitialSlabs PROVE \E s \in 1 .. InitialSlabs : rank[s] = i
      <4>1. InitialSlabs - i + 1 \in 1 .. InitialSlabs
        BY <1>0
      <4>2. rank[InitialSlabs - i + 1] = i
        BY <1>0, <3>1, <4>1
      <4> QED
        BY <4>1, <4>2
    <3>7. ASSUME NEW s \in 1 .. InitialSlabs, rank[s] > 1
          PROVE  next[s] \in 1 .. InitialSlabs /\ rank[next[s]] = rank[s] - 1
      <4>1. s \in Slabs /\ s < InitialSlabs /\ s + 1 \in 1 .. InitialSlabs
        BY <1>0, <3>1, <3>7
      <4>2. next[s] = s + 1
        BY <1>1, <4>1
      <4> QED
        BY <1>0, <3>1, <4>1, <4>2
    <3> QED
      BY <1>8, <3>2, <3>3, <3>4, <3>5, <3>6, <3>7, ZenonT(60) DEF IsChain
  <2>3. ASSUME NEW t \in Threads PROVE ThreadShape(kind, kind, rank, t)
    <3>1. ~GivenBack(t) /\ ~Growing(t)
      BY <1>4 DEF GivenBack, Growing, Putting
    <3>2. IsChain(next, {}, rank, Null, 0)
      BY DEF IsChain
    <3>3. \A c \in Parts : Part(kind, kind, c, t) = {}
      BY <1>9
    <3> QED
      BY <1>4, <3>1, <3>2, <3>3 DEF ThreadShape, Parts
  <2>4. \A s \in Slabs : IF s > total THEN kind[s] = "none"
                         ELSE kind[s] = "stack" \/ (kind[s] \in Parts /\ kind[s] \in Threads)
    BY <1>0, <1>7
  <2> QED
    BY <2>1, <2>2, <2>3, <2>4 DEF Shape
<1>11. Counted(InitialSlabs)
  <2>1. Takers(th) = {} /\ Puts(th, Threads) = {}
    BY <1>4 DEF Takers, Puts
  <2>2. Pending(th) = 0
    <3>1. Cardinality({}) = 0
      BY FS_EmptySet
    <3>2. Pending(th) = Cardinality({}) - Cardinality({})
      BY <2>1 DEF Pending
    <3> QED
      BY <3>1, <3>2
  <2>3. InitialSlabs + Pending(th) = InitialSlabs
    BY <1>0, <2>2
  <2> QED
    BY <2>3 DEF Counted
<1>12. Blocks(kind, kind)
  BY <1>4 DEF Blocks, BlocksOf, Separate, Slow, Resetting, Putting
<1>13. Inv(kind, kind, rank, InitialSlabs)
  BY <1>5, <1>6, <1>10, <1>11, <1>12 DEF Inv, Placed
<1> QED
  BY <1>13 DEF IInv

LEMMA StutterInv == IInv /\ UNCHANGED vars => IInv'
<1> SUFFICES ASSUME NEW kind, NEW owner, NEW rank, NEW size, Inv(kind, owner, rank, size),
                    UNCHANGED vars
             PROVE  Inv(kind, owner, rank, size)'
  BY DEF IInv
<1>0. /\ UNCHANGED <<head, next, available, total, chunks, th, arena, asked, live, ops>>
      /\ TypeInv /\ Locals /\ Tags /\ Shape(kind, owner, rank, size) /\ Counted(size) /\ Blocks(kind, owner)
  BY DEF vars, poolVars, Inv, Placed
<1>1. TypeInv'
  BY <1>0 DEF TypeInv, Slabs, Pointers
<1>2. Locals' /\ Tags'
  BY <1>0 DEF Locals, LocalsOf, Tags, TagsOf, Returning
<1>3. Shape(kind, owner, rank, size)'
  <2>1. \A u \in Threads : Keeps(u)
    BY <1>0 DEF Keeps, GivenBack, Growing
  <2> QED
    BY <1>0, <2>1, QuietShape
<1>4. Counted(size)'
  BY <1>0 DEF Counted
<1>5. Blocks(kind, owner)'
  <2>1. \A u \in Threads : BlocksOf(kind, owner, u)'
    BY <1>0, BlocksFrame
  <2> QED
    BY <2>1 DEF Blocks
<1> QED
  BY <1>1, <1>2, <1>3, <1>4, <1>5 DEF Inv, Placed

LEMMA NextInv == IInv /\ [Next]_vars => IInv'
<1> SUFFICES ASSUME IInv, Next PROVE IInv'
  BY StutterInv
<1> PICK kind, owner, rank, size : Inv(kind, owner, rank, size)
  BY DEF IInv
<1>1. PICK t \in Threads :
        \/ Inside(t) \/ Reset(t)
        \/ \E r \in Requests : AllocateFast(t, r) \/ AllocateSlow(t, r) \/ AllocateOversized(t, r)
  BY DEF Next
<1>2. CASE PoolStep(t) /\ UNCHANGED <<arena, asked, live, ops>>
  BY <1>2, PoolStepStep
<1>3. CASE TakeSlab(t) \/ AllocateFails(t) \/ ResetEnd(t) \/ Reset(t)
  BY <1>3, TakeSlabStep, AllocateFailsStep, ResetEndStep, ResetStep
<1>4. CASE \E r \in Requests : AllocateFast(t, r) \/ AllocateSlow(t, r) \/ AllocateOversized(t, r)
  BY <1>4, AllocateFastStep, AllocateOtherStep
<1> QED
  BY <1>1, <1>2, <1>3, <1>4 DEF Inside

\* Every slab can be given a place in every reachable state.
THEOREM PlacesInvariant == Spec => []IInv
  BY InitInv, NextInv, PTL DEF Spec
----------------------------------------------------------------------------
(* What the walks of the properties see.                                   *)

LEMMA FreeSlabs ==
    ASSUME NEW kind, NEW owner, NEW rank, NEW size, Inv(kind, owner, rank, size)
    PROVE  Free = Stack(kind) /\ Cardinality(Free) = size
<1>1. /\ IsChain(next, Stack(kind), rank, head.ptr, size)
      /\ \A s \in Stack(kind) : rank[s] = 1 => next[s] = Null
  BY DEF Inv, Placed, Shape
<1>2. IsFiniteSet(Stack(kind)) /\ Cardinality(Stack(kind)) = size
  BY <1>1, ChainCount
<1>3. size <= Cardinality(Slabs) /\ Cardinality(Slabs) \in Nat
  <2>1. Stack(kind) \subseteq Slabs
    BY DEF Stack
  <2> QED
    BY <1>2, <2>1, FS_Subset, SlabsNumbered
<1>4. Null \notin Stack(kind)
  BY SlabsNumbered DEF Stack
<1>5. Free = Stack(kind)
  BY <1>1, <1>3, <1>4, ChainVisits DEF Free
<1> QED
  BY <1>2, <1>5

LEMMA HeldSlabs ==
    ASSUME NEW kind, NEW owner, NEW rank, NEW size, Inv(kind, owner, rank, size), NEW t \in Threads
    PROVE  Held(t) = {s \in Slabs : kind[s] \in Parts /\ owner[s] = t}
<1>1. ThreadShape(kind, owner, rank, t)
  BY ThreadFacts
<1> PICK A : A = Part(kind, owner, "arena", t)
  OBVIOUS
<1> PICK C : C = Part(kind, owner, "chunk", t)
  OBVIOUS
<1>2. Null \notin A /\ Null \notin C
  BY SlabsNumbered DEF Part
<1>3. (IF GivenBack(t) THEN {} ELSE Chain(arena[t].head, arena[t].count)) = A
  <2>1. CASE GivenBack(t)
    BY <1>1, <2>1 DEF ThreadShape
  <2>2. CASE ~GivenBack(t)
    <3>1. IsChain(next, A, rank, arena[t].head, arena[t].count)
      BY <1>1, <2>2 DEF ThreadShape
    <3>2. arena[t].count \in Nat
      BY <3>1 DEF IsChain
    <3>3. Chain(arena[t].head, arena[t].count) = A
      BY <1>2, <3>1, <3>2, ChainVisits
    <3> QED
      BY <2>2, <3>3
  <2> QED
    BY <2>1, <2>2
<1>4. (IF th[t].slab # Null /\ th[t].pc \in {"release", "link", "put"}
       THEN Chain(th[t].first, th[t].count) ELSE {}) = C
  <2>1. CASE Growing(t)
    <3>1. IsChain(next, C, rank, th[t].first, th[t].count)
      BY <1>1, <2>1 DEF ThreadShape
    <3>2. th[t].count \in Nat
      BY <3>1 DEF IsChain
    <3>3. Chain(th[t].first, th[t].count) = C
      BY <1>2, <3>1, <3>2, ChainVisits
    <3> QED
      BY <2>1, <3>3 DEF Growing, Putting
  <2>2. CASE ~Growing(t)
    BY <1>1, <2>2 DEF ThreadShape, Growing, Putting
  <2> QED
    BY <2>1, <2>2
<1>5. {th[t].slab} \ {Null} = Part(kind, owner, "hand", t)
  BY <1>1 DEF ThreadShape
<1>6. Held(t) = A \cup Part(kind, owner, "hand", t) \cup C
  BY <1>3, <1>4, <1>5 DEF Held
<1> QED
  BY <1>6 DEF Part, Parts

\* Every slab of the pool is on the stack or with one thread, for any number
\* of threads, slabs and chunks: acquire_slab, release_slab_chain and
\* allocate_slow neither hand a slab out twice nor lose one.
THEOREM OneOwnerHolds == Spec => []OneOwner
<1>1. IInv => OneOwner
  <2> SUFFICES ASSUME NEW kind, NEW owner, NEW rank, NEW size, Inv(kind, owner, rank, size)
               PROVE  OneOwner
    BY DEF IInv
  <2>1. Free = Stack(kind)
    BY FreeSlabs
  <2>2. \A t \in Threads : Held(t) = {s \in Slabs : kind[s] \in Parts /\ owner[s] = t}
    BY HeldSlabs
  <2>3. Slabs = 1 .. Top /\ Top \in Nat /\ total \in Nat /\ total <= Top
    BY SlabsNumbered, TotalBound DEF Inv, TypeInv
  <2>4. \A s \in Slabs : IF s > total THEN kind[s] = "none"
                         ELSE kind[s] = "stack" \/ (kind[s] \in Parts /\ owner[s] \in Threads)
    BY DEF Inv, Placed, Shape
  <2>5. \A t \in Threads : Held(t) \cap Free = {}
    BY <2>1, <2>2 DEF Stack, Parts
  <2>6. \A t, u \in Threads : t # u => Held(t) \cap Held(u) = {}
    BY <2>2
  <2>7. Free \cup UNION {Held(t) : t \in Threads} = 1 .. total
    <3>1. ASSUME NEW s \in 1 .. total PROVE s \in Free \cup UNION {Held(t) : t \in Threads}
      <4>1. s \in Slabs /\ ~(s > total)
        BY <2>3
      <4>2. CASE kind[s] = "stack"
        BY <2>1, <4>1, <4>2 DEF Stack
      <4>3. CASE kind[s] \in Parts /\ owner[s] \in Threads
        BY <2>2, <4>1, <4>3
      <4> QED
        BY <2>4, <4>1, <4>2, <4>3
    <3>2. ASSUME NEW s \in Free PROVE s \in 1 .. total
      BY <2>1, <2>3, <2>4 DEF Stack
    <3>3. ASSUME NEW t \in Threads, NEW s \in Held(t) PROVE s \in 1 .. total
      BY <2>2, <2>3, <2>4 DEF Parts
    <3> QED
      BY <3>1, <3>2, <3>3
  <2> QED
    BY <2>5, <2>6, <2>7 DEF OneOwner
<1> QED
  BY <1>1, PlacesInvariant, PTL

\* The count of free slabs differs from their number only by the operations
\* between their CAS and their fetch_sub or fetch_add, also when it wraps
\* around.
THEOREM AvailableExactHolds == Spec => []AvailableExact
<1>1. IInv => AvailableExact
  <2> SUFFICES ASSUME NEW kind, NEW owner, NEW rank, NEW size, Inv(kind, owner, rank, size)
               PROVE  AvailableExact
    BY DEF IInv
  <2>1. Cardinality(Free) = size /\ size \in Nat
    BY FreeSlabs DEF Inv, Placed, Shape, IsChain
  <2>2. available = (size + Pending(th)) % USIZE
    BY DEF Inv, Placed, Counted
  <2> PICK a : a = Cardinality(Takers(th))
    OBVIOUS
  <2> PICK b : b = Cardinality(Puts(th, Threads))
    OBVIOUS
  <2>3. a \in Nat /\ b \in Nat
    <3>1. th \in [Threads -> ThreadType]
      BY DEF Inv, TypeInv
    <3>2. Takers(th) \subseteq Threads
      BY DEF Takers
    <3>3. IsFiniteSet(Takers(th)) /\ IsFiniteSet(Puts(th, Threads))
      BY <3>1, <3>2, PoolAssumption, FS_Subset, PutsFinite
    <3> QED
      BY <3>3, FS_CardinalityType
  <2>4. size + Pending(th) = size + a - b
    BY <2>1, <2>3 DEF Pending
  <2>5. available = (Cardinality(Free) + a - b) % USIZE
    BY <2>1, <2>2, <2>4
  <2> QED
    BY <2>5 DEF AvailableExact, Takers, Puts
<1> QED
  BY <1>1, PlacesInvariant, PTL

\* Blocks that arenas have handed out do not overlap, slabs and memory of
\* their own alike, for any sizes and alignments asked for, provided that no
\* size makes the addresses of SlabArena::allocate wrap around.
THEOREM BlocksDisjointHolds == ASSUME RequestsFit PROVE Spec => []BlocksDisjoint
<1>1. IInv => BlocksDisjoint
  <2> SUFFICES ASSUME NEW kind, NEW owner, NEW rank, NEW size, Inv(kind, owner, rank, size),
                      NEW t \in Threads, NEW u \in Threads, NEW x \in live[t], NEW y \in live[u]
               PROVE  /\ \/ x.slab \in Held(t) /\ CACHELINE_SIZE <= x.from
                         \/ x.slab = Null /\ HEADER <= x.from
                      /\ x.from < x.to /\ x.to <= x.size
                      /\ (t # u \/ x.id # y.id) =>
                             x.slab # y.slab \/ x.slab = Null \/ x.to <= y.from \/ y.to <= x.from
    BY DEF IInv, BlocksDisjoint
  <2>1. Separate(kind, owner, t) /\ Separate(kind, owner, u)
    BY DEF Inv, Placed, Blocks, BlocksOf
  <2>2. InPlace(kind, owner, t, x) /\ InPlace(kind, owner, u, y)
    BY <2>1 DEF Separate
  <2>3. x.slab \in Part(kind, owner, "arena", t) => x.slab \in Held(t)
    BY HeldSlabs DEF Part, Parts
  <2>4. t # u => x.slab # y.slab \/ x.slab = Null
    BY <2>2 DEF InPlace, Part
  <2>5. t = u /\ x.id # y.id => Apart(x, y)
    BY <2>1 DEF Separate
  <2> QED
    BY <2>2, <2>3, <2>4, <2>5 DEF Apart, InPlace
<1> QED
  BY <1>1, PlacesInvariant, PTL
=============================================================================
