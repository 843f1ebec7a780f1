------------------------- MODULE ChaseLevDequeProof -------------------------
(***************************************************************************)
(* Proofs about ChaseLevDeque, for any number of thieves, any first        *)
(* capacity and any number of pushes that does not wrap the indices: no    *)
(* task is handed out twice, none is stranded, and the deque implements    *)
(* StealDeque.                                                             *)
(***************************************************************************)
EXTENDS ChaseLevDeque, FiniteSetTheorems, SequenceTheorems, TLAPS

LOCAL INSTANCE FiniteSetsExt

USE DequeAssumption

\* The 32-bit indices do not wrap: fewer than WIDTH tasks are pushed.
NoWrap == MaxTasks < WIDTH

----------------------------------------------------------------------------
(* Arithmetic of indices and slots.                                        *)

\* An index that does not wrap is its own remainder, and a whole turn of
\* the counter changes nothing.
LEMMA Remainder ==
    ASSUME NEW m \in Nat, m < WIDTH
    PROVE  m % WIDTH = m /\ (m + WIDTH) % WIDTH = m
<1>1. m % WIDTH = m
  OBVIOUS
<1> DEFINE q == m + WIDTH
           b == q \div WIDTH
           r == q % WIDTH
<1>2. q \in Nat
  OBVIOUS
<1>3. b \in Int /\ q = WIDTH * b + r /\ r \in 0..WIDTH-1
  <2> HIDE DEF q
  <2> QED
    BY <1>2
<1> HIDE DEF b, r
<1>4. ~ b >= 2
  <2>1. b >= 2 => WIDTH * b >= WIDTH * 2
    BY <1>3
  <2> QED
    BY <1>3, <2>1
<1>5. ~ b <= 0
  <2>1. b <= 0 => WIDTH * b <= 0
    BY <1>3
  <2> QED
    BY <1>3, <2>1
<1>6. WIDTH * b = WIDTH
  BY <1>3, <1>4, <1>5
<1>7. r = m
  BY <1>3, <1>6
<1> QED
  BY <1>1, <1>7 DEF r

\* The index arithmetic of the code, away from the wrap.
LEMMA ExactIndex ==
    ASSUME NEW i \in Nat, i < WIDTH
    PROVE  /\ \A k \in Nat : i + k < WIDTH => Inc(i, k) = i + k
           /\ i > 0 => Dec(i) = i - 1
           /\ \A t \in Nat : t <= i => Distance(i, t) = i - t
<1>1. \A k \in Nat : i + k < WIDTH => Inc(i, k) = i + k
  BY Remainder DEF Inc
<1>2. i > 0 => Dec(i) = i - 1
  <2> SUFFICES ASSUME i > 0 PROVE Dec(i) = i - 1
    OBVIOUS
  <2>1. i - 1 \in Nat /\ i - 1 < WIDTH /\ i + WIDTH - 1 = (i - 1) + WIDTH
    OBVIOUS
  <2> QED
    BY <2>1, Remainder DEF Dec
<1>3. ASSUME NEW t \in Nat, t <= i PROVE Distance(i, t) = i - t
  <2>1. i - t \in Nat /\ i - t < WIDTH /\ i + WIDTH - t = (i - t) + WIDTH
    BY <1>3
  <2> QED
    BY <2>1, Remainder DEF Distance
<1> QED
  BY <1>1, <1>2, <1>3

\* Indices less than a capacity apart have slots of their own.
LEMMA SlotsDiffer ==
    ASSUME NEW c \in Nat \ {0}, NEW i \in Nat, NEW j \in Nat, i < j, j < i + c
    PROVE  i % c # j % c
<1> SUFFICES ASSUME i % c = j % c PROVE FALSE
  OBVIOUS
<1> DEFINE a == i \div c
           b == j \div c
           r == i % c
<1>1. a \in Nat /\ b \in Nat /\ r \in 0..c-1 /\ i = c * a + r /\ j = c * b + r
  OBVIOUS
<1> HIDE DEF a, b, r
<1>2. j - i = c * (b - a)
  BY <1>1
<1>3. b - a >= 1
  BY <1>1, <1>2
<1>4. c * (b - a) >= c
  BY <1>1, <1>3
<1> QED
  BY <1>2, <1>4

----------------------------------------------------------------------------
(* The inductive invariant.                                                *)

Rings == UNION {[0..c-1 -> Nat] : c \in Nat \ {0}}

PushLabels == {"pushStore", "pushGrown", "pushPublish"}
PopLabels == {"popReload", "popCas", "popRestore"}
ThiefLabels == {"idle", "bottom", "buffer", "task", "cas"}

TypeInv ==
    /\ top \in Nat /\ bottom \in Nat
    /\ bufs \in Seq(Rings) /\ Len(bufs) > 0
    /\ pushed \in 0..MaxTasks
    /\ taken \in [Tasks -> Nat]
    /\ own \in [pc : {"idle", "popStore"} \cup PushLabels \cup PopLabels, b : Nat, t : Nat]
    /\ thief \in [Thieves -> [pc : ThiefLabels, t : Nat, n : Nat, i : Nat, buf : Nat, task : Nat]]

\* Where the tasks end: while popBottom has lowered bottom and not yet
\* decided, the task below it is still in the deque.
End == IF own.pc \in PopLabels THEN own.b + 1 ELSE bottom

Item(i) == load(Buffer, i)

\* What the owner knows at each point of pushBottom and popBottom.
Indices ==
    /\ top <= End /\ End <= pushed /\ End - top <= capacity(Buffer)
    /\ own.pc \in PushLabels =>
          /\ own.b = bottom /\ own.t <= top /\ pushed < MaxTasks
          /\ own.b - own.t <= capacity(Buffer)
    /\ own.pc \in {"pushGrown", "pushPublish"} => own.b - own.t < capacity(Buffer)
    /\ own.pc = "popStore" => bottom = own.b + 1
    /\ own.pc \in PopLabels => bottom = own.b
    /\ own.pc = "popCas" => own.t = own.b /\ own.b <= top
    /\ own.pc = "popRestore" => top = own.b + 1

\* The tasks that nobody has received are those between top and End, in the
\* order of their pushes.
Contents ==
    /\ \A i \in Nat : top <= i /\ i < End => Item(i) \in Remaining
    /\ \A k \in Remaining : \E i \in Nat : top <= i /\ i < End /\ Item(i) = k
    /\ \A i, j \in Nat : top <= i /\ i < j /\ j < End => Item(i) < Item(j)

\* Every task was handed out at most once, after its push; the one being
\* pushed is in its slot before it is published.
Handed ==
    /\ \A k \in Tasks : taken[k] <= 1
    /\ \A k \in Tasks : k > pushed => taken[k] = 0
    /\ own.pc = "pushPublish" => Item(own.b) = pushed + 1

\* A thief whose compare-and-swap can still succeed: the task is there, and
\* the buffer it loaded, or the task it read from it, is as good as the
\* current one.
Thieving ==
    \A p \in Thieves :
        LET th == thief[p] IN
        /\ th.pc # "idle" => th.t <= top
        /\ th.pc \in {"buffer", "task", "cas"} /\ th.t = top => top < End
        /\ th.pc = "task" => th.buf \in 1..Len(bufs)
        /\ th.pc = "task" /\ th.t = top => load(bufs[th.buf], top) = Item(top)
        /\ th.pc = "cas" /\ th.t = top => th.task = Item(top)

IInv == TypeInv /\ Indices /\ Contents /\ Handed /\ Thieving

----------------------------------------------------------------------------
(* Ring buffers.                                                           *)

\* The capacity of a ring buffer is the size of its domain.
LEMMA Capacity ==
    ASSUME NEW c \in Nat \ {0}, NEW buf \in [0..c-1 -> Nat]
    PROVE  capacity(buf) = c
  BY FS_Interval DEF capacity

\* Every ring buffer has a capacity and holds tasks.
LEMMA RingType ==
    ASSUME NEW buf \in Rings
    PROVE  /\ capacity(buf) \in Nat \ {0}
           /\ buf \in [0..capacity(buf)-1 -> Nat]
           /\ \A i \in Nat : i % capacity(buf) \in 0..capacity(buf)-1 /\ load(buf, i) \in Nat
<1>1. PICK c \in Nat \ {0} : buf \in [0..c-1 -> Nat]
  BY DEF Rings
<1>2. capacity(buf) = c
  BY <1>1, Capacity
<1>3. \A i \in Nat : i % c \in 0..c-1
  OBVIOUS
<1> QED
  BY <1>1, <1>2, <1>3 DEF load

\* A store changes its own index and none less than a capacity away.
LEMMA StoreRing ==
    ASSUME NEW buf \in Rings, NEW i \in Nat, NEW x \in Nat
    PROVE  /\ store(buf, i, x) \in Rings
           /\ capacity(store(buf, i, x)) = capacity(buf)
           /\ load(store(buf, i, x), i) = x
           /\ \A j \in Nat : j < i /\ i < j + capacity(buf) =>
                 load(store(buf, i, x), j) = load(buf, j)
<1> DEFINE c == capacity(buf)
           new == store(buf, i, x)
<1>1. c \in Nat \ {0} /\ buf \in [0..c-1 -> Nat] /\ i % c \in 0..c-1
  BY RingType
<1>2. new = [buf EXCEPT ![i % c] = x]
  BY DEF store
<1>3. new \in [0..c-1 -> Nat]
  BY <1>1, <1>2
<1>4. capacity(new) = c
  BY <1>1, <1>3, Capacity
<1>5. new \in Rings
  BY <1>1, <1>3 DEF Rings
<1>6. new[i % c] = x /\ \A k \in 0..c-1 : k # i % c => new[k] = buf[k]
  BY <1>1, <1>2
<1> HIDE DEF c, new
<1>7. \A j \in Nat : j < i /\ i < j + c => j % c # i % c /\ j % c \in 0..c-1
  <2> SUFFICES ASSUME NEW j \in Nat, j < i, i < j + c
               PROVE  j % c # i % c /\ j % c \in 0..c-1
    OBVIOUS
  <2>1. j % c # i % c
    BY <1>1, SlotsDiffer
  <2> QED
    BY <1>1, <2>1
<1>8. load(new, i) = x
  BY <1>4, <1>6 DEF load
<1>9. \A j \in Nat : j < i /\ i < j + c => load(new, j) = load(buf, j)
  BY <1>4, <1>6, <1>7 DEF load, c
<1> QED
  BY <1>4, <1>5, <1>8, <1>9 DEF c, new

\* The largest element of a singleton.
LEMMA MaxSingleton ==
    ASSUME NEW k \in Nat
    PROVE  Max({k}) = k
  BY DEF Max

\* grow copies every task from t to b - 1.
LEMMA GrownRing ==
    ASSUME NEW buf \in Rings, NEW t \in Nat, NEW b \in Nat,
           t <= b, b < WIDTH, b - t <= capacity(buf)
    PROVE  /\ Grown(buf, t, b) \in Rings
           /\ capacity(Grown(buf, t, b)) = 2 * capacity(buf)
           /\ \A i \in Nat : t <= i /\ i < b => load(Grown(buf, t, b), i) = load(buf, i)
<1> DEFINE c == capacity(buf)
           cap == 2 * c
           Copied(s) == {k \in 0..Distance(b, t)-1 : Inc(t, k) % cap = s}
           new == Grown(buf, t, b)
<1>0. c \in Nat \ {0}
  BY RingType
<1>1. c \in Nat \ {0} /\ cap \in Nat \ {0}
  <2> HIDE DEF c
  <2> QED
    BY <1>0
<1>2. new = [s \in 0..cap-1 |-> IF Copied(s) = {} THEN Null ELSE load(buf, Inc(t, Max(Copied(s))))]
  BY DEF Grown
<1>3. Distance(b, t) = b - t /\ \A k \in 0..b-t-1 : Inc(t, k) = t + k
  BY ExactIndex
<1>4. \A i \in Nat : t <= i /\ i < b => Copied(i % cap) = {i - t}
  <2> SUFFICES ASSUME NEW i \in Nat, t <= i, i < b PROVE Copied(i % cap) = {i - t}
    OBVIOUS
  <2>1. i - t \in 0..b-t-1 /\ Inc(t, i - t) = i
    BY <1>3
  <2>2. ASSUME NEW k \in 0..b-t-1, Inc(t, k) % cap = i % cap PROVE k = i - t
    <3>1. Inc(t, k) = t + k /\ t + k \in Nat
      BY <1>3
    <3>2. t + k < i + cap /\ i < t + k + cap
      BY <1>1
    <3>3. t + k = i
      <4> HIDE DEF cap
      <4>1. ~ t + k < i
        BY <1>1, <2>2, <3>1, <3>2, SlotsDiffer
      <4>2. ~ i < t + k
        BY <1>1, <2>2, <3>1, <3>2, SlotsDiffer
      <4> QED
        BY <3>1, <4>1, <4>2
    <3> QED
      BY <3>3
  <2> QED
    BY <1>3, <2>1, <2>2
<1>5. \A s \in 0..cap-1 : new[s] \in Nat
  <2> SUFFICES ASSUME NEW s \in 0..cap-1, Copied(s) # {}
               PROVE  load(buf, Inc(t, Max(Copied(s)))) \in Nat
    BY <1>2 DEF Null
  <2>1. PICK k \in 0..b-t-1 : Inc(t, k) % cap = s
    BY <1>3
  <2>2. t + k \in Nat /\ t <= t + k /\ t + k < b /\ (t + k) % cap = s
    BY <1>3, <2>1
  <2>3. Copied(s) = {k}
    <3>1. Copied((t + k) % cap) = {t + k - t}
      BY <2>2, <1>4
    <3> QED
      BY <2>2, <3>1
  <2>4. load(buf, Inc(t, Max(Copied(s)))) = load(buf, t + k)
    BY <1>3, <2>3, MaxSingleton
  <2> QED
    BY <2>2, <2>4, RingType
<1>6. new \in [0..cap-1 -> Nat]
  BY <1>2, <1>5
<1>7. new \in Rings /\ capacity(new) = cap
  BY <1>1, <1>6, Capacity DEF Rings
<1>8. ASSUME NEW i \in Nat, t <= i, i < b PROVE load(new, i) = load(buf, i)
  <2>1. Copied(i % cap) = {i - t} /\ i - t \in 0..b-t-1 /\ Inc(t, i - t) = i
    <3>1. i - t \in 0..b-t-1 /\ t + (i - t) = i
      BY <1>8
    <3> QED
      BY <1>3, <1>4, <1>8, <3>1
  <2>2. i % cap \in 0..cap-1
    <3> HIDE DEF cap
    <3> QED
      BY <1>1
  <2>3. new[i % cap] = load(buf, Inc(t, Max({i - t})))
    <3> HIDE DEF cap
    <3> QED
      BY <1>2, <2>1, <2>2
  <2>4. Max({i - t}) = i - t
    BY <2>1, MaxSingleton
  <2>5. load(new, i) = new[i % cap]
    BY <1>7 DEF load
  <2> QED
    BY <2>1, <2>3, <2>4, <2>5
<1> QED
  BY <1>7, <1>8

----------------------------------------------------------------------------
(* Consequences of the invariant.                                          *)

\* Types and bounds that most steps need.
LEMMA Basics ==
    ASSUME NoWrap, IInv
    PROVE  /\ top \in Nat /\ bottom \in Nat /\ End \in Nat /\ pushed \in Nat
           /\ top <= End /\ bottom <= End /\ End <= pushed /\ pushed < WIDTH
           /\ own.b \in Nat /\ own.t \in Nat
           /\ bufs \in Seq(Rings) /\ Len(bufs) \in 1..Len(bufs)
           /\ Buffer \in Rings /\ capacity(Buffer) \in Nat \ {0}
           /\ taken \in [Tasks -> Nat]
           /\ Remaining \subseteq 1..pushed /\ 1..pushed \subseteq Tasks
           /\ \A i \in Nat : Item(i) \in Nat
<1>1. /\ top \in Nat /\ bottom \in Nat /\ pushed \in Nat /\ pushed <= MaxTasks
      /\ own.b \in Nat /\ own.t \in Nat
      /\ bufs \in Seq(Rings) /\ Len(bufs) \in 1..Len(bufs) /\ taken \in [Tasks -> Nat]
  BY DEF IInv, TypeInv
<1>2. End \in Nat /\ bottom <= End /\ top <= End /\ End <= pushed
  BY <1>1 DEF IInv, Indices, End
<1>3. Buffer \in Rings
  BY <1>1 DEF Buffer
<1>4. capacity(Buffer) \in Nat \ {0} /\ \A i \in Nat : Item(i) \in Nat
  BY <1>3, RingType DEF Item
<1>5. Remaining \subseteq 1..pushed /\ 1..pushed \subseteq Tasks
  BY <1>1 DEF Remaining, Tasks
<1>6. pushed < WIDTH
  BY <1>1 DEF NoWrap
<1> QED
  BY <1>1, <1>2, <1>3, <1>4, <1>5, <1>6

\* Steps that move no task keep the contents.
LEMMA KeepContents ==
    ASSUME Contents, UNCHANGED <<top, bufs, pushed, taken>>, End' = End
    PROVE  Contents'
<1>1. Remaining' = Remaining /\ \A i : Item(i)' = Item(i)
  BY DEF Remaining, Item, Buffer
<1> QED
  BY <1>1 DEF Contents

\* Steps that move no task leave the thieves as good as they were.
LEMMA KeepThieving ==
    ASSUME Thieving, UNCHANGED <<top, bufs, thief>>, End' = End
    PROVE  Thieving'
<1>1. \A i : Item(i)' = Item(i)
  BY DEF Item, Buffer
<1> QED
  BY <1>1 DEF Thieving

\* What a caller's receipt of one task changes.
LEMMA ReturnOne ==
    ASSUME NoWrap, IInv, NEW x \in Remaining, Return({x}), pushed' = pushed
    PROVE  /\ Remaining' = Remaining \ {x}
           /\ taken' \in [Tasks -> Nat]
           /\ \A k \in Tasks : taken'[k] <= 1
           /\ \A k \in Tasks : k > pushed => taken'[k] = 0
<1>1. /\ taken \in [Tasks -> Nat] /\ x \in 1..pushed /\ 1..pushed \subseteq Tasks
      /\ taken[x] = 0 /\ pushed \in Nat
  BY Basics DEF Remaining
<1>2. taken' = [k \in Tasks |-> IF k = x THEN taken[k] + 1 ELSE taken[k]]
  BY DEF Return
<1>3. taken' \in [Tasks -> Nat]
  BY <1>1, <1>2
<1>4. taken'[x] = 1 /\ \A k \in Tasks : k # x => taken'[k] = taken[k]
  BY <1>1, <1>2
<1>5. Remaining' = Remaining \ {x}
  BY <1>1, <1>4 DEF Remaining
<1>6. \A k \in Tasks : taken'[k] <= 1
  BY <1>1, <1>4 DEF IInv, Handed
<1>7. \A k \in Tasks : k > pushed => taken'[k] = 0
  BY <1>1, <1>4 DEF IInv, Handed, Tasks
<1> QED
  BY <1>3, <1>5, <1>6, <1>7

\* The task at top is the oldest, the one at End - 1 the latest.
LEMMA Extremes ==
    ASSUME NoWrap, IInv, top < End
    PROVE  /\ Item(top) \in Remaining /\ Item(End - 1) \in Remaining
           /\ \A k \in Remaining : Item(top) <= k /\ k <= Item(End - 1)
<1>a. top \in Nat /\ End \in Nat /\ \A i \in Nat : Item(i) \in Nat
  BY Basics
<1>0. top \in Nat /\ End \in Nat /\ End - 1 \in Nat /\ \A i \in Nat : Item(i) \in Nat
  BY <1>a
<1>1. Item(top) \in Remaining /\ Item(End - 1) \in Remaining
  BY <1>0 DEF IInv, Contents
<1>2. ASSUME NEW k \in Remaining PROVE Item(top) <= k /\ k <= Item(End - 1)
  <2>1. PICK i \in Nat : top <= i /\ i < End /\ Item(i) = k
    BY DEF IInv, Contents
  <2>2. top = i \/ Item(top) < Item(i)
    BY <1>0, <2>1 DEF IInv, Contents
  <2>3. i = End - 1 \/ Item(i) < Item(End - 1)
    BY <1>0, <2>1 DEF IInv, Contents
  <2> QED
    BY <1>0, <2>1, <2>2, <2>3
<1> QED
  BY <1>1, <1>2

\* Taking the task at top: by a thief, or by the owner when it is the last.
LEMMA TakeFirst ==
    ASSUME NoWrap, IInv, top < End, Return({Item(top)}), top' = top + 1,
           bufs' = bufs, pushed' = pushed, End' = End
    PROVE  Contents' /\ Remaining' = Remaining \ {Item(top)}
<1>0. /\ top \in Nat /\ End \in Nat /\ \A i \in Nat : Item(i) \in Nat
  BY Basics
<1>1. Item(top) \in Remaining
  BY Extremes
<1>2. Remaining' = Remaining \ {Item(top)} /\ \A i : Item(i)' = Item(i)
  BY <1>1, ReturnOne DEF Item, Buffer
<1>3. ASSUME NEW i \in Nat, top + 1 <= i, i < End PROVE Item(i) \in Remaining \ {Item(top)}
  <2>1. Item(top) < Item(i) /\ Item(i) \in Remaining
    BY <1>0, <1>3 DEF IInv, Contents
  <2> QED
    BY <1>0, <2>1
<1>4. ASSUME NEW k \in Remaining \ {Item(top)}
      PROVE  \E i \in Nat : top + 1 <= i /\ i < End /\ Item(i) = k
  <2>1. PICK i \in Nat : top <= i /\ i < End /\ Item(i) = k
    BY DEF IInv, Contents
  <2>2. top + 1 <= i
    BY <1>0, <1>4, <2>1
  <2> QED
    BY <2>1, <2>2
<1>5. \A i, j \in Nat : top + 1 <= i /\ i < j /\ j < End => Item(i) < Item(j)
  BY <1>0 DEF IInv, Contents
<1> QED
  BY <1>2, <1>3, <1>4, <1>5 DEF Contents

\* Taking the task at the other end, by the owner.
LEMMA TakeLast ==
    ASSUME NoWrap, IInv, top < End, Return({Item(End - 1)}), End' = End - 1,
           top' = top, bufs' = bufs, pushed' = pushed
    PROVE  Contents' /\ Remaining' = Remaining \ {Item(End - 1)}
<1>a. top \in Nat /\ End \in Nat /\ \A i \in Nat : Item(i) \in Nat
  BY Basics
<1>0. top \in Nat /\ End \in Nat /\ End - 1 \in Nat /\ \A i \in Nat : Item(i) \in Nat
  BY <1>a
<1>1. Item(End - 1) \in Remaining
  BY Extremes
<1>2. Remaining' = Remaining \ {Item(End - 1)} /\ \A i : Item(i)' = Item(i)
  BY <1>1, ReturnOne DEF Item, Buffer
<1>3. ASSUME NEW i \in Nat, top <= i, i < End - 1 PROVE Item(i) \in Remaining \ {Item(End - 1)}
  <2>1. Item(i) < Item(End - 1) /\ Item(i) \in Remaining
    BY <1>0, <1>3 DEF IInv, Contents
  <2> QED
    BY <1>0, <2>1
<1>4. ASSUME NEW k \in Remaining \ {Item(End - 1)}
      PROVE  \E i \in Nat : top <= i /\ i < End - 1 /\ Item(i) = k
  <2>1. PICK i \in Nat : top <= i /\ i < End /\ Item(i) = k
    BY DEF IInv, Contents
  <2>2. i < End - 1
    BY <1>0, <1>4, <2>1
  <2> QED
    BY <2>1, <2>2
<1>5. \A i, j \in Nat : top <= i /\ i < j /\ j < End - 1 => Item(i) < Item(j)
  BY <1>0 DEF IInv, Contents
<1> QED
  BY <1>2, <1>3, <1>4, <1>5 DEF Contents

----------------------------------------------------------------------------
(* Preservation.                                                           *)

\* The empty deque.
LEMMA InvInit == Init => IInv
<1> SUFFICES ASSUME Init PROVE IInv
  OBVIOUS
<1>1. RingBuffer(CAPACITY) \in [0..CAPACITY-1 -> Nat]
  BY DEF RingBuffer, Null
<1>2. RingBuffer(CAPACITY) \in Rings /\ capacity(RingBuffer(CAPACITY)) = CAPACITY
  BY <1>1, Capacity DEF Rings
<1>3. bufs \in Seq(Rings) /\ Len(bufs) = 1 /\ Buffer = RingBuffer(CAPACITY)
  BY <1>2 DEF Init, Buffer
<1>4. TypeInv
  BY <1>3 DEF Init, TypeInv, IdleOwner, IdleThief, ThiefLabels, Null
<1>5. End = 0 /\ Remaining = {}
  BY DEF Init, End, IdleOwner, PopLabels, Remaining
<1>6. Indices
  BY <1>2, <1>3, <1>5 DEF Init, Indices, IdleOwner, PushLabels, PopLabels
<1>7. Contents
  BY <1>5 DEF Init, Contents
<1>8. Handed
  BY DEF Init, Handed, IdleOwner
<1>9. Thieving
  BY DEF Init, Thieving, IdleThief
<1> QED
  BY <1>4, <1>6, <1>7, <1>8, <1>9 DEF IInv

\* pushBottom loads the indices.
LEMMA InvPushLoad ==
    ASSUME NoWrap, IInv, PushLoad
    PROVE  IInv'
<1>0. /\ own.pc = "idle" /\ UNCHANGED <<top, bottom, bufs, pushed, taken, thief>>
      /\ pushed < MaxTasks
  BY DEF PushLoad
<1>1. top \in Nat /\ bottom \in Nat /\ top <= bottom
  BY <1>0, Basics DEF End, PopLabels
<1>2. own' = [pc |-> "pushStore", b |-> bottom, t |-> top]
  BY <1>1 DEF PushLoad
<1>3. End' = End
  BY <1>0, <1>2 DEF End, PopLabels
<1>4. TypeInv'
  BY <1>0, <1>1, <1>2 DEF IInv, TypeInv, PushLabels
<1>5. Indices'
  BY <1>0, <1>1, <1>2, <1>3 DEF IInv, Indices, PushLabels, PopLabels, End, Buffer
<1>6. Contents' /\ Thieving'
  BY <1>0, <1>3, KeepContents, KeepThieving DEF IInv
<1>7. Handed'
  BY <1>0, <1>2 DEF IInv, Handed
<1> QED
  BY <1>4, <1>5, <1>6, <1>7 DEF IInv

\* The steps of popBottom that take nothing.
LEMMA InvPopMove ==
    ASSUME NoWrap, IInv, PopLoad \/ PopStore \/ PopContend \/ PopEmpty \/ PopRestore
    PROVE  IInv'
<1>0. UNCHANGED <<top, bufs, pushed, taken, thief>>
  BY DEF PopLoad, PopStore, PopContend, PopEmpty, PopRestore
<1>1. /\ top \in Nat /\ bottom \in Nat /\ pushed \in Nat /\ own.b \in Nat /\ own.t \in Nat
      /\ top <= End /\ bottom <= End /\ End <= pushed /\ pushed < WIDTH
  BY Basics
<1>2. own \in [pc : {"idle", "popStore"} \cup PushLabels \cup PopLabels, b : Nat, t : Nat]
  BY DEF IInv, TypeInv
<1>3. /\ bottom' \in Nat /\ own' \in [pc : {"idle", "popStore"} \cup PopLabels, b : Nat, t : Nat]
      /\ End' = End /\ Indices'
  <2> USE DEF Indices, PushLabels, PopLabels, End, Buffer
  <2>1. CASE PopLoad
    <3>1. Dec(bottom) = bottom - 1 /\ bottom > top /\ own.pc = "idle"
      BY <1>1, <2>1, ExactIndex DEF PopLoad
    <3>2. own' = [pc |-> "popStore", b |-> bottom - 1, t |-> top] /\ bottom' = bottom
      BY <2>1, <3>1 DEF PopLoad
    <3> QED
      BY <1>0, <1>1, <3>1, <3>2 DEF IInv
  <2>2. CASE PopStore
    <3>1. own.pc = "popStore" /\ bottom' = own.b /\ own' = [own EXCEPT !.pc = "popReload"]
      BY <2>2 DEF PopStore
    <3> QED
      BY <1>0, <1>1, <1>2, <3>1 DEF IInv
  <2>3. CASE PopContend
    <3>1. /\ own.pc = "popReload" /\ bottom' = bottom /\ top = own.b
          /\ own' = [own EXCEPT !.pc = "popCas", !.t = top]
      BY <2>3 DEF PopContend
    <3>2. /\ own' \in [pc : {"idle", "popStore"} \cup PopLabels, b : Nat, t : Nat]
          /\ own'.pc = "popCas" /\ own'.b = own.b /\ own'.t = top
      BY <1>1, <1>2, <3>1
    <3> QED
      BY <1>0, <1>1, <3>1, <3>2 DEF IInv
  <2>4. CASE PopEmpty
    <3>1. /\ own.pc = "popReload" /\ bottom' = bottom /\ top > own.b
          /\ own' = [own EXCEPT !.pc = "popRestore"]
      BY <2>4 DEF PopEmpty
    <3>2. /\ own' \in [pc : {"idle", "popStore"} \cup PopLabels, b : Nat, t : Nat]
          /\ own'.pc = "popRestore" /\ own'.b = own.b
      BY <1>2, <3>1
    <3> QED
      BY <1>0, <1>1, <3>1, <3>2 DEF IInv
  <2>5. CASE PopRestore
    <3>1. own.pc = "popRestore" /\ own' = IdleOwner
      BY <2>5 DEF PopRestore
    <3>2. own.b + 1 <= pushed
      BY <1>1, <3>1
    <3>3. bottom' = own.b + 1
      BY <1>1, <2>5, <3>2, ExactIndex DEF PopRestore
    <3> QED
      BY <1>0, <1>1, <1>2, <3>1, <3>3 DEF IInv, IdleOwner
  <2> QED
    BY <2>1, <2>2, <2>3, <2>4, <2>5
<1>4. TypeInv'
  BY <1>0, <1>3 DEF IInv, TypeInv
<1>5. Contents' /\ Thieving'
  BY <1>0, <1>3, KeepContents, KeepThieving DEF IInv
<1>6. Handed'
  BY <1>0, <1>3 DEF IInv, Handed, PopLabels
<1> QED
  BY <1>3, <1>4, <1>5, <1>6 DEF IInv

\* A step that changes buffers, and no slot between top and End.
LEMMA KeepItems ==
    ASSUME NoWrap, IInv, UNCHANGED <<top, pushed, taken, thief>>, End' = End,
           \A i \in Nat : top <= i /\ i < End => Item(i)' = Item(i),
           Len(bufs') \in Nat, Len(bufs) <= Len(bufs'),
           top < End => \A k \in 1..Len(bufs) : load(bufs'[k], top) = load(bufs[k], top)
    PROVE  Contents' /\ Thieving'
<1>0. top \in Nat /\ End \in Nat /\ Len(bufs) \in Nat
  BY Basics
<1>1. Remaining' = Remaining
  BY DEF Remaining
<1>2. Contents'
  <2>1. \A i \in Nat : top <= i /\ i < End => Item(i)' \in Remaining
    BY DEF IInv, Contents
  <2>2. \A k \in Remaining : \E i \in Nat : top <= i /\ i < End /\ Item(i)' = k
    BY DEF IInv, Contents
  <2>3. \A i, j \in Nat : top <= i /\ i < j /\ j < End => Item(i)' < Item(j)'
    BY <1>0 DEF IInv, Contents
  <2> QED
    BY <1>1, <2>1, <2>2, <2>3 DEF Contents
<1>3. Thieving'
  <2> SUFFICES ASSUME NEW p \in Thieves
               PROVE  LET th == thief[p] IN
                      /\ th.pc # "idle" => th.t <= top
                      /\ th.pc \in {"buffer", "task", "cas"} /\ th.t = top => top < End
                      /\ th.pc = "task" => th.buf \in 1..Len(bufs')
                      /\ th.pc = "task" /\ th.t = top => load(bufs'[th.buf], top) = Item(top)'
                      /\ th.pc = "cas" /\ th.t = top => th.task = Item(top)'
    BY DEF Thieving
  <2>1. /\ thief[p].pc # "idle" => thief[p].t <= top
        /\ thief[p].pc \in {"buffer", "task", "cas"} /\ thief[p].t = top => top < End
        /\ thief[p].pc = "task" => thief[p].buf \in 1..Len(bufs)
        /\ thief[p].pc = "task" /\ thief[p].t = top => load(bufs[thief[p].buf], top) = Item(top)
        /\ thief[p].pc = "cas" /\ thief[p].t = top => thief[p].task = Item(top)
    BY DEF IInv, Thieving
  <2>2. 1..Len(bufs) \subseteq 1..Len(bufs')
    BY <1>0
  <2>3. top < End => Item(top)' = Item(top)
    BY <1>0
  <2> QED
    BY <2>1, <2>2, <2>3
<1> QED
  BY <1>2, <1>3

\* pushBottom grows the buffer.
LEMMA InvPushGrow ==
    ASSUME NoWrap, IInv, PushGrow
    PROVE  IInv'
<1> DEFINE new == Grown(Buffer, own.t, own.b)
<1>0. /\ own.pc = "pushStore" /\ bufs' = Append(bufs, new)
      /\ own' = [own EXCEPT !.pc = "pushGrown"]
      /\ UNCHANGED <<top, bottom, pushed, taken, thief>>
  BY DEF PushGrow
<1>1. /\ top \in Nat /\ bottom \in Nat /\ pushed \in Nat /\ own.b \in Nat /\ own.t \in Nat
      /\ top <= End /\ End <= pushed /\ pushed < WIDTH /\ End \in Nat
      /\ bufs \in Seq(Rings) /\ Buffer \in Rings /\ capacity(Buffer) \in Nat \ {0}
  BY Basics
<1>2. /\ own.b = bottom /\ own.t <= top /\ own.b - own.t <= capacity(Buffer) /\ End = bottom
      /\ pushed < MaxTasks /\ End - top <= capacity(Buffer)
  BY <1>0 DEF IInv, Indices, PushLabels, PopLabels, End
<1>3. /\ own' \in [pc : PushLabels, b : Nat, t : Nat]
      /\ own'.pc = "pushGrown" /\ own'.b = own.b /\ own'.t = own.t
  BY <1>0 DEF IInv, TypeInv, PushLabels
<1>4. /\ new \in Rings /\ capacity(new) = 2 * capacity(Buffer)
      /\ \A i \in Nat : own.t <= i /\ i < own.b => load(new, i) = load(Buffer, i)
  <2>1. own.t <= own.b /\ own.b < WIDTH
    BY <1>1, <1>2
  <2> QED
    BY <1>1, <1>2, <2>1, GrownRing
<1> HIDE DEF new
<1>5. /\ bufs' \in Seq(Rings) /\ Len(bufs') = Len(bufs) + 1 /\ Buffer' = new /\ Len(bufs) \in Nat
      /\ \A k \in 1..Len(bufs) : bufs'[k] = bufs[k]
  BY <1>0, <1>1, <1>4 DEF Buffer
<1>6. End' = End
  BY <1>0, <1>2, <1>3 DEF End, PopLabels
<1>7. \A i \in Nat : top <= i /\ i < End => Item(i)' = Item(i)
  <2>1. \A i \in Nat : top <= i /\ i < End => load(new, i) = load(Buffer, i)
    BY <1>1, <1>2, <1>4
  <2> QED
    BY <1>5, <2>1 DEF Item
<1>8. TypeInv'
  BY <1>0, <1>3, <1>5 DEF IInv, TypeInv
<1>9. Indices'
  <2>1. capacity(Buffer') = 2 * capacity(Buffer)
    BY <1>4, <1>5
  <2>2. End - top <= capacity(Buffer') /\ own.b - own.t < capacity(Buffer')
    BY <1>1, <1>2, <2>1
  <2>3. own.b - own.t <= capacity(Buffer')
    BY <1>1, <2>2, <2>1
  <2> QED
    BY <1>0, <1>1, <1>2, <1>3, <1>6, <2>2, <2>3 DEF Indices, PushLabels, PopLabels
<1>10. Contents' /\ Thieving'
  BY <1>0, <1>5, <1>6, <1>7, KeepItems
<1>11. Handed'
  BY <1>0, <1>3 DEF IInv, Handed
<1> QED
  BY <1>8, <1>9, <1>10, <1>11 DEF IInv

\* pushBottom stores the task.
LEMMA InvPushStore ==
    ASSUME NoWrap, IInv, PushStore
    PROVE  IInv'
<1> DEFINE new == store(Buffer, own.b, pushed + 1)
<1>0. /\ own.pc \in {"pushStore", "pushGrown"} /\ own' = [own EXCEPT !.pc = "pushPublish"]
      /\ bufs' = [bufs EXCEPT ![Len(bufs)] = new]
      /\ UNCHANGED <<top, bottom, pushed, taken, thief>>
  BY DEF PushStore, HasRoom, Buffer
<1>1. /\ top \in Nat /\ bottom \in Nat /\ pushed \in Nat /\ own.b \in Nat /\ own.t \in Nat
      /\ top <= End /\ End <= pushed /\ pushed < WIDTH /\ End \in Nat
      /\ bufs \in Seq(Rings) /\ Buffer \in Rings /\ capacity(Buffer) \in Nat \ {0}
      /\ Len(bufs) \in 1..Len(bufs)
  BY Basics
<1>2. /\ own.b = bottom /\ own.t <= top /\ End = bottom
      /\ pushed < MaxTasks /\ End - top <= capacity(Buffer)
  BY <1>0 DEF IInv, Indices, PushLabels, PopLabels, End
<1>3. own.b - own.t < capacity(Buffer)
  <2>1. CASE own.pc = "pushGrown"
    BY <2>1 DEF IInv, Indices
  <2>2. CASE own.pc = "pushStore"
    <3>1. Distance(own.b, own.t) < capacity(Buffer)
      BY <2>2 DEF PushStore, HasRoom
    <3>2. own.b \in Nat /\ own.t \in Nat /\ own.b < WIDTH /\ own.t <= own.b
      BY <1>1, <1>2
    <3>3. Distance(own.b, own.t) = own.b - own.t
      BY <3>2, ExactIndex
    <3> QED
      BY <3>1, <3>3
  <2> QED
    BY <1>0, <2>1, <2>2
<1>4. /\ own' \in [pc : PushLabels, b : Nat, t : Nat]
      /\ own'.pc = "pushPublish" /\ own'.b = own.b /\ own'.t = own.t
  BY <1>0 DEF IInv, TypeInv, PushLabels
<1>5. /\ new \in Rings /\ capacity(new) = capacity(Buffer)
      /\ load(new, own.b) = pushed + 1
      /\ \A j \in Nat : j < own.b /\ own.b < j + capacity(Buffer) => load(new, j) = load(Buffer, j)
  <2>1. pushed + 1 \in Nat /\ Buffer \in Rings /\ own.b \in Nat
    BY <1>1
  <2> QED
    BY <2>1, StoreRing, SMTT(30)
<1> HIDE DEF new
<1>6. /\ bufs' \in Seq(Rings) /\ Len(bufs') = Len(bufs) /\ bufs'[Len(bufs)] = new
      /\ \A k \in 1..Len(bufs) : k # Len(bufs) => bufs'[k] = bufs[k]
  BY <1>0, <1>1, <1>5, ExceptSeq
<1>7. Buffer' = new /\ End' = End
  BY <1>0, <1>2, <1>4, <1>6 DEF Buffer, End, PopLabels
<1>8. \A i \in Nat : top <= i /\ i < End => load(new, i) = load(Buffer, i)
  BY <1>1, <1>2, <1>3, <1>5
<1>9. \A i \in Nat : top <= i /\ i < End => Item(i)' = Item(i)
  BY <1>7, <1>8 DEF Item
<1>10. top < End => \A k \in 1..Len(bufs) : load(bufs'[k], top) = load(bufs[k], top)
  BY <1>1, <1>6, <1>8 DEF Buffer
<1>11. TypeInv'
  BY <1>0, <1>1, <1>4, <1>6 DEF IInv, TypeInv
<1>12. Indices'
  <2>1. capacity(Buffer') = capacity(Buffer)
    BY <1>5, <1>7
  <2> QED
    BY <1>0, <1>1, <1>2, <1>3, <1>4, <1>7, <2>1 DEF Indices, PushLabels, PopLabels
<1>13. Contents' /\ Thieving'
  BY <1>0, <1>1, <1>6, <1>7, <1>9, <1>10, KeepItems
<1>14. Handed'
  <2>1. Item(own.b)' = pushed + 1
    BY <1>4, <1>5, <1>7 DEF Item
  <2> QED
    BY <1>0, <1>4, <2>1 DEF IInv, Handed
<1> QED
  BY <1>11, <1>12, <1>13, <1>14 DEF IInv

\* pushBottom publishes the task.
LEMMA PublishAdds ==
    ASSUME NoWrap, IInv, PushPublish
    PROVE  /\ bottom' = bottom + 1 /\ End = bottom /\ End' = bottom + 1
           /\ Remaining' = Remaining \cup {pushed + 1}
           /\ Item(bottom) = pushed + 1 /\ pushed < MaxTasks
           /\ bottom + 1 - top <= capacity(Buffer)
<1>0. own.pc = "pushPublish" /\ own' = IdleOwner /\ pushed' = pushed + 1 /\ taken' = taken
  BY DEF PushPublish
<1>1. /\ top \in Nat /\ bottom \in Nat /\ pushed \in Nat /\ own.b \in Nat /\ own.t \in Nat
      /\ top <= End /\ End <= pushed /\ capacity(Buffer) \in Nat \ {0}
  BY Basics
<1>2. /\ own.b = bottom /\ own.t <= top /\ own.b - own.t < capacity(Buffer)
      /\ pushed < MaxTasks /\ End = bottom
  BY <1>0 DEF IInv, Indices, PushLabels, PopLabels, End
<1>3. bottom' = bottom + 1
  <2>1. own.b < WIDTH /\ own.b + 1 < WIDTH /\ own.b \in Nat
    BY <1>1, <1>2 DEF NoWrap
  <2>2. Inc(own.b, 1) = own.b + 1
    BY <2>1, ExactIndex
  <2> QED
    BY <1>2, <2>2 DEF PushPublish
<1>4. End' = bottom + 1
  BY <1>0, <1>3 DEF End, IdleOwner, PopLabels
<1>5. pushed + 1 \in Tasks /\ taken[pushed + 1] = 0
  BY <1>1, <1>2 DEF IInv, Handed, Tasks
<1>6. Remaining' = Remaining \cup {pushed + 1}
  BY <1>0, <1>1, <1>5 DEF Remaining
<1>7. Item(bottom) = pushed + 1
  BY <1>0, <1>2 DEF IInv, Handed
<1>8. bottom + 1 - top <= capacity(Buffer)
  BY <1>1, <1>2
<1> QED
  BY <1>2, <1>3, <1>4, <1>6, <1>7, <1>8

\* Publishing keeps the invariant.
LEMMA InvPushPublish ==
    ASSUME NoWrap, IInv, PushPublish
    PROVE  IInv'
<1>0. own.pc = "pushPublish" /\ own' = IdleOwner /\ pushed' = pushed + 1
      /\ UNCHANGED <<top, bufs, taken, thief>>
  BY DEF PushPublish
<1>1. /\ top \in Nat /\ bottom \in Nat /\ pushed \in Nat /\ Remaining \subseteq 1..pushed
      /\ top <= End /\ End <= pushed /\ End \in Nat /\ \A i \in Nat : Item(i) \in Nat
  BY Basics
<1>2. /\ bottom' = bottom + 1 /\ End = bottom /\ End' = bottom + 1
      /\ Remaining' = Remaining \cup {pushed + 1}
      /\ Item(bottom) = pushed + 1 /\ pushed < MaxTasks
      /\ bottom + 1 - top <= capacity(Buffer)
  BY PublishAdds
<1>3. Buffer' = Buffer /\ \A i : Item(i)' = Item(i)
  BY <1>0 DEF Item, Buffer
<1>4. TypeInv'
  <2>1. bottom' \in Nat /\ pushed' \in 0..MaxTasks
    BY <1>0, <1>1, <1>2
  <2> QED
    BY <1>0, <2>1 DEF IInv, TypeInv, IdleOwner
<1>5. Indices'
  BY <1>0, <1>1, <1>2, <1>3 DEF Indices, IdleOwner, PushLabels, PopLabels
<1>6. Contents'
  <2>1. \A i \in Nat : top <= i /\ i < bottom => Item(i) \in Remaining /\ Item(i) < pushed + 1
    <3>1. \A i \in Nat : top <= i /\ i < bottom => Item(i) \in Remaining
      BY <1>2 DEF IInv, Contents
    <3>2. \A k \in Remaining : k < pushed + 1
      BY <1>1
    <3> QED
      BY <3>1, <3>2
  <2>2. \A i \in Nat : top <= i /\ i < bottom + 1 => Item(i) \in Remaining \cup {pushed + 1}
    BY <1>1, <1>2, <2>1
  <2>3. \A k \in Remaining \cup {pushed + 1} :
           \E i \in Nat : top <= i /\ i < bottom + 1 /\ Item(i) = k
    <3>1. ASSUME NEW k \in Remaining
          PROVE  \E i \in Nat : top <= i /\ i < bottom + 1 /\ Item(i) = k
      <4>1. PICK i \in Nat : top <= i /\ i < End /\ Item(i) = k
        BY DEF IInv, Contents
      <4> QED
        BY <1>1, <1>2, <4>1
    <3> QED
      BY <1>1, <1>2, <3>1
  <2>4. \A i, j \in Nat : top <= i /\ i < j /\ j < bottom + 1 => Item(i) < Item(j)
    <3> SUFFICES ASSUME NEW i \in Nat, NEW j \in Nat, top <= i, i < j, j < bottom + 1
                 PROVE  Item(i) < Item(j)
      OBVIOUS
    <3>1. CASE j = bottom
      BY <3>1, <1>2, <2>1
    <3>2. CASE j < bottom
      BY <3>2, <1>2 DEF IInv, Contents
    <3> QED
      BY <1>1, <3>1, <3>2
  <2> QED
    BY <1>0, <1>2, <1>3, <2>2, <2>3, <2>4 DEF Contents
<1>7. Handed'
  BY <1>0, <1>1 DEF IInv, Handed, IdleOwner, Tasks
<1>8. Thieving'
  <2>1. top < End => top < End'
    BY <1>1, <1>2
  <2> QED
    BY <1>0, <1>3, <2>1 DEF IInv, Thieving
<1> QED
  BY <1>4, <1>5, <1>6, <1>7, <1>8 DEF IInv

\* popBottom takes the latest task unopposed.
LEMMA PopTakes ==
    ASSUME NoWrap, IInv, PopTake
    PROVE  /\ top < End /\ Return({Item(End - 1)}) /\ End' = End - 1 /\ End = own.b + 1
           /\ UNCHANGED <<top, bottom, bufs, pushed, thief>>
           /\ top < bottom /\ End' = bottom
<1>1. /\ own.pc = "popReload" /\ top < own.b /\ Return({Item(own.b)}) /\ own' = IdleOwner
      /\ UNCHANGED <<top, bottom, bufs, pushed, thief>>
  BY DEF PopTake, Item
<1>2. own.b \in Nat /\ top \in Nat
  BY Basics
<1>3. bottom = own.b /\ End = own.b + 1 /\ End' = bottom
  BY <1>1 DEF IInv, Indices, End, PopLabels, IdleOwner
<1>4. End - 1 = own.b /\ top < End /\ End' = End - 1 /\ top < bottom
  BY <1>1, <1>2, <1>3
<1>5. Return({Item(End - 1)})
  BY <1>1, <1>4
<1> QED
  BY <1>1, <1>3, <1>4, <1>5

\* An unopposed pop keeps the invariant.
LEMMA InvPopTake ==
    ASSUME NoWrap, IInv, PopTake
    PROVE  IInv'
<1>0. own' = IdleOwner
  BY DEF PopTake
<1>1. /\ top < End /\ Return({Item(End - 1)}) /\ End' = End - 1 /\ End = own.b + 1
      /\ UNCHANGED <<top, bottom, bufs, pushed, thief>>
      /\ top < bottom /\ End' = bottom
  BY PopTakes
<1>2. /\ top \in Nat /\ bottom \in Nat /\ pushed \in Nat /\ End \in Nat /\ End <= pushed
      /\ capacity(Buffer) \in Nat \ {0}
  BY Basics
<1>3. Contents'
  BY <1>1, TakeLast
<1>4. Item(End - 1) \in Remaining
  BY <1>1, Extremes
<1>5. /\ taken' \in [Tasks -> Nat] /\ \A k \in Tasks : taken'[k] <= 1
      /\ \A k \in Tasks : k > pushed => taken'[k] = 0
  BY <1>1, <1>4, ReturnOne
<1>6. TypeInv'
  BY <1>0, <1>1, <1>5 DEF IInv, TypeInv, IdleOwner
<1>7. Indices'
  <2>1. End - top <= capacity(Buffer) /\ Buffer' = Buffer
    BY <1>1 DEF IInv, Indices, Buffer
  <2>2. End' <= pushed /\ End' - top <= capacity(Buffer) /\ top <= End'
    BY <1>1, <1>2, <2>1
  <2> QED
    BY <1>0, <1>1, <2>1, <2>2 DEF Indices, IdleOwner, PushLabels, PopLabels
<1>8. Handed'
  BY <1>0, <1>1, <1>5 DEF Handed, IdleOwner
<1>9. Thieving'
  <2>1. \A i : Item(i)' = Item(i)
    BY <1>1 DEF Item, Buffer
  <2> QED
    BY <1>1, <2>1 DEF IInv, Thieving
<1> QED
  BY <1>3, <1>6, <1>7, <1>8, <1>9 DEF IInv

\* Once top has moved on, no thief that loaded it before can succeed.
LEMMA MovedOn ==
    ASSUME NoWrap, IInv, top' = top + 1, bufs' = bufs,
           \A p \in Thieves : thief'[p] = thief[p] \/ thief'[p] = IdleThief
    PROVE  Thieving'
<1>0. top \in Nat
  BY Basics
<1> SUFFICES ASSUME NEW p \in Thieves, thief'[p] = thief[p]
             PROVE  /\ thief[p].pc # "idle" => thief[p].t <= top + 1 /\ thief[p].t # top + 1
                    /\ thief[p].pc = "task" => thief[p].buf \in 1..Len(bufs)
  BY <1>0 DEF Thieving, IdleThief
<1>1. thief[p].t \in Nat
  BY DEF IInv, TypeInv
<1>2. /\ thief[p].pc # "idle" => thief[p].t <= top
      /\ thief[p].pc = "task" => thief[p].buf \in 1..Len(bufs)
  BY DEF IInv, Thieving
<1> QED
  BY <1>0, <1>1, <1>2

\* The compare-and-swap of popBottom that succeeds takes the only task.
LEMMA PopCasTakes ==
    ASSUME NoWrap, IInv, PopCas, top = own.t
    PROVE  /\ own.pc = "popCas" /\ own.b = top /\ End = top + 1 /\ End' = End
           /\ Return({Item(top)}) /\ top' = top + 1
           /\ UNCHANGED <<bottom, bufs, pushed, thief>>
           /\ own'.pc = "popRestore" /\ own'.b = own.b
           /\ own' \in [pc : PopLabels, b : Nat, t : Nat]
<1>0. /\ top \in Nat /\ own.b \in Nat /\ own.t \in Nat /\ End <= pushed /\ pushed < WIDTH
      /\ pushed \in Nat /\ End \in Nat
  BY Basics
<1>1. own.pc = "popCas" /\ UNCHANGED <<bottom, bufs, pushed, thief>>
      /\ own' = [own EXCEPT !.pc = "popRestore"]
  BY DEF PopCas
<1>2. own.t = own.b /\ End = own.b + 1
  BY <1>1 DEF IInv, Indices, End, PopLabels
<1>3. /\ own'.pc = "popRestore" /\ own'.b = own.b
      /\ own' \in [pc : PopLabels, b : Nat, t : Nat]
  BY <1>1 DEF IInv, TypeInv, PopLabels
<1>4. End' = End
  BY <1>2, <1>3 DEF End, PopLabels
<1>5. Return({Item(top)}) /\ top' = Inc(top, 1)
  BY <1>2 DEF PopCas, Item
<1>6. top < WIDTH /\ top + 1 < WIDTH
  BY <1>0, <1>2
<1>7. top' = top + 1
  BY <1>0, <1>5, <1>6, ExactIndex
<1> QED
  BY <1>1, <1>2, <1>3, <1>4, <1>5, <1>7

\* The compare-and-swap of popBottom keeps the invariant.
LEMMA InvPopCas ==
    ASSUME NoWrap, IInv, PopCas
    PROVE  IInv'
<1>0. /\ top \in Nat /\ own.b \in Nat /\ own.t \in Nat /\ End <= pushed /\ pushed \in Nat
      /\ top <= End /\ End \in Nat /\ capacity(Buffer) \in Nat \ {0}
  BY Basics
<1>1. CASE top = own.t
  <2>1. /\ own.pc = "popCas" /\ own.b = top /\ End = top + 1 /\ End' = End
        /\ Return({Item(top)}) /\ top' = top + 1
        /\ UNCHANGED <<bottom, bufs, pushed, thief>>
        /\ own'.pc = "popRestore" /\ own'.b = own.b
        /\ own' \in [pc : PopLabels, b : Nat, t : Nat]
    BY <1>1, PopCasTakes
  <2>2. top < End
    BY <1>0, <2>1
  <2>3. Contents'
    BY <2>1, <2>2, TakeFirst
  <2>4. Item(top) \in Remaining
    BY <2>2, Extremes
  <2>5. /\ taken' \in [Tasks -> Nat] /\ \A k \in Tasks : taken'[k] <= 1
        /\ \A k \in Tasks : k > pushed => taken'[k] = 0
    BY <2>1, <2>4, ReturnOne
  <2>6. TypeInv'
    <3>1. top' \in Nat
      BY <1>0, <2>1
    <3> QED
      BY <2>1, <2>5, <3>1 DEF IInv, TypeInv
  <2>7. Indices'
    <3>1. bottom = own.b /\ Buffer' = Buffer
      BY <2>1 DEF IInv, Indices, PopLabels, Buffer
    <3>2. top' <= End' /\ End' <= pushed /\ End' - top' <= capacity(Buffer)
      BY <1>0, <2>1
    <3> QED
      BY <2>1, <3>1, <3>2 DEF Indices, PushLabels, PopLabels
  <2>8. Handed'
    BY <2>1, <2>5 DEF Handed
  <2>9. Thieving'
    BY <2>1, MovedOn
  <2> QED
    BY <2>3, <2>6, <2>7, <2>8, <2>9 DEF IInv
<1>2. CASE top # own.t
  <2>1. /\ own.pc = "popCas" /\ UNCHANGED <<top, bottom, bufs, pushed, taken, thief>>
        /\ own' = [own EXCEPT !.pc = "popRestore"]
    BY <1>2 DEF PopCas
  <2>2. /\ own'.pc = "popRestore" /\ own'.b = own.b
        /\ own' \in [pc : PopLabels, b : Nat, t : Nat]
    BY <2>1 DEF IInv, TypeInv, PopLabels
  <2>3. own.t = own.b /\ End = own.b + 1 /\ own.b <= top /\ bottom = own.b
        /\ End - top <= capacity(Buffer)
    BY <2>1 DEF IInv, Indices, End, PopLabels
  <2>4. top = own.b + 1 /\ End' = End
    BY <1>0, <1>2, <2>2, <2>3 DEF End, PopLabels
  <2>5. TypeInv'
    BY <2>1, <2>2 DEF IInv, TypeInv
  <2>6. Indices'
    BY <1>0, <2>1, <2>2, <2>3, <2>4 DEF Indices, PushLabels, PopLabels, Buffer
  <2>7. Contents' /\ Thieving'
    BY <2>1, <2>4, KeepContents, KeepThieving DEF IInv
  <2>8. Handed'
    BY <2>1, <2>2 DEF IInv, Handed
  <2> QED
    BY <2>5, <2>6, <2>7, <2>8 DEF IInv
<1> QED
  BY <1>1, <1>2

\* A step of a thief that moves no index: the rest of the deque stays.
LEMMA ThiefMoves ==
    ASSUME NoWrap, IInv, UNCHANGED <<top, bottom, bufs, pushed, taken, own>>,
           thief' \in [Thieves -> [pc : ThiefLabels, t : Nat, n : Nat, i : Nat, buf : Nat, task : Nat]]
    PROVE  TypeInv' /\ Indices' /\ Contents' /\ Handed' /\ End' = End /\ \A i : Item(i)' = Item(i)
<1>1. End' = End /\ Buffer' = Buffer /\ \A i : Item(i)' = Item(i)
  BY DEF End, Buffer, Item
<1>2. Contents'
  BY <1>1, KeepContents DEF IInv
<1>3. TypeInv'
  BY DEF IInv, TypeInv
<1>4. Indices'
  BY <1>1 DEF IInv, Indices
<1>5. Handed'
  BY <1>1 DEF IInv, Handed
<1> QED
  BY <1>1, <1>2, <1>3, <1>4, <1>5

\* The loads of stealTop.
LEMMA InvStealLoad ==
    ASSUME NoWrap, IInv, NEW p \in Thieves,
           \/ StealLoadTop(p) \/ StealLoadBottom(p) \/ StealLoadBuffer(p) \/ StealLoadTask(p)
    PROVE  IInv'
<1> DEFINE Th == [pc : ThiefLabels, t : Nat, n : Nat, i : Nat, buf : Nat, task : Nat]
<1>0. /\ top \in Nat /\ End \in Nat /\ bottom \in Nat /\ bottom <= End
      /\ Len(bufs) \in 1..Len(bufs) /\ Len(bufs) \in Nat
      /\ \A i \in Nat : Item(i) \in Nat
  BY Basics
<1>1. UNCHANGED <<top, bottom, bufs, pushed, taken, own>>
  BY DEF StealLoadTop, StealLoadBottom, StealLoadBuffer, StealLoadTask
<1>2. thief \in [Thieves -> Th] /\ thief[p] \in Th /\ bufs \in Seq(Rings)
  BY DEF IInv, TypeInv
<1>3. /\ thief[p].pc # "idle" => thief[p].t <= top
      /\ thief[p].pc \in {"buffer", "task", "cas"} /\ thief[p].t = top => top < End
      /\ thief[p].pc = "task" => thief[p].buf \in 1..Len(bufs)
      /\ thief[p].pc = "task" /\ thief[p].t = top => load(bufs[thief[p].buf], top) = Item(top)
  BY DEF IInv, Thieving
<1>4. /\ thief' = [thief EXCEPT ![p] = thief'[p]] /\ thief'[p] \in Th
      /\ thief'[p].pc # "idle" => thief'[p].t <= top
      /\ thief'[p].pc \in {"buffer", "task", "cas"} /\ thief'[p].t = top => top < End
      /\ thief'[p].pc = "task" => thief'[p].buf \in 1..Len(bufs)
      /\ thief'[p].pc = "task" /\ thief'[p].t = top => load(bufs[thief'[p].buf], top) = Item(top)
      /\ thief'[p].pc = "cas" /\ thief'[p].t = top => thief'[p].task = Item(top)
  <2>1. CASE StealLoadTop(p)
    <3>1. thief' = [thief EXCEPT ![p] = [@ EXCEPT !.pc = "bottom", !.t = top]]
      BY <1>2, <2>1 DEF StealLoadTop
    <3>2. /\ thief'[p] \in Th /\ thief'[p].pc = "bottom" /\ thief'[p].t = top
          /\ thief' = [thief EXCEPT ![p] = thief'[p]]
      BY <1>0, <1>2, <3>1 DEF ThiefLabels
    <3>3. top <= top
      BY <1>0
    <3> HIDE DEF Th
    <3> QED
      BY <3>2, <3>3
  <2>2. CASE StealLoadBottom(p)
    <3>1. thief[p].pc = "bottom"
      BY <2>2 DEF StealLoadBottom
    <3>2. CASE thief[p].t >= bottom
      <4>1. thief' = [thief EXCEPT ![p] = IdleThief]
        BY <2>2, <3>2 DEF StealLoadBottom
      <4> QED
        BY <1>2, <4>1 DEF IdleThief, ThiefLabels, Null
    <3>3. CASE ~ thief[p].t >= bottom
      <4>1. thief' = [thief EXCEPT ![p] = [@ EXCEPT !.pc = "buffer"]]
        BY <2>2, <3>3 DEF StealLoadBottom
      <4>2. /\ thief'[p] \in Th /\ thief'[p].pc = "buffer" /\ thief'[p].t = thief[p].t
            /\ thief' = [thief EXCEPT ![p] = thief'[p]]
        BY <1>2, <4>1 DEF ThiefLabels
      <4>3. thief[p].t <= top /\ thief[p].t \in Nat
        BY <1>2, <1>3, <3>1
      <4>4. thief[p].t = top => top < End
        BY <1>0, <3>3, <4>3
      <4> HIDE DEF Th
      <4> QED
        BY <4>2, <4>3, <4>4
    <3> QED
      BY <3>2, <3>3
  <2>3. CASE StealLoadBuffer(p)
    <3>1. thief' = [thief EXCEPT ![p] = [@ EXCEPT !.pc = "task", !.buf = Len(bufs)]]
      BY <1>2, <2>3 DEF StealLoadBuffer
    <3>2. /\ thief'[p] \in Th /\ thief'[p].pc = "task" /\ thief'[p].t = thief[p].t
          /\ thief'[p].buf = Len(bufs) /\ thief' = [thief EXCEPT ![p] = thief'[p]]
      BY <1>0, <1>2, <3>1 DEF ThiefLabels
    <3> QED
      BY <1>0, <1>3, <2>3, <3>2 DEF Item, Buffer, StealLoadBuffer
  <2>4. CASE StealLoadTask(p)
    <3>0. thief[p].pc = "task"
      BY <2>4 DEF StealLoadTask
    <3>1. thief' = [thief EXCEPT ![p] = [@ EXCEPT !.pc = "cas",
                                              !.task = load(bufs[thief[p].buf], thief[p].t)]]
      BY <1>2, <2>4 DEF StealLoadTask
    <3>2. load(bufs[thief[p].buf], thief[p].t) \in Nat
      <4>1. bufs[thief[p].buf] \in Rings /\ thief[p].t \in Nat
        BY <1>2, <1>3, <3>0
      <4> QED
        BY <4>1, RingType
    <3>3. /\ thief'[p] \in Th /\ thief'[p].pc = "cas" /\ thief'[p].t = thief[p].t
          /\ thief'[p].task = load(bufs[thief[p].buf], thief[p].t)
          /\ thief' = [thief EXCEPT ![p] = thief'[p]]
      BY <1>2, <3>1, <3>2 DEF ThiefLabels
    <3> QED
      BY <1>3, <3>0, <3>3
  <2> QED
    BY <2>1, <2>2, <2>3, <2>4
<1>5. thief' \in [Thieves -> Th] /\ \A q \in Thieves \ {p} : thief'[q] = thief[q]
  BY <1>2, <1>4
<1>6. TypeInv' /\ Indices' /\ Contents' /\ Handed' /\ End' = End /\ \A i : Item(i)' = Item(i)
  BY <1>1, <1>5, ThiefMoves
<1>7. Thieving'
  BY <1>1, <1>4, <1>5, <1>6 DEF IInv, Thieving
<1> QED
  BY <1>6, <1>7 DEF IInv

\* A thief whose compare-and-swap succeeds takes the task at top.
LEMMA StealTakes ==
    ASSUME NoWrap, IInv, NEW p \in Thieves, StealCas(p), top = thief[p].t
    PROVE  /\ top < End /\ End' = End /\ Return({Item(top)}) /\ top' = top + 1
           /\ UNCHANGED <<bottom, bufs, pushed, own>>
<1>0. /\ top \in Nat /\ End \in Nat /\ pushed \in Nat /\ End <= pushed /\ pushed < WIDTH
  BY Basics
<1>1. thief[p].pc = "cas" /\ UNCHANGED <<bottom, bufs, pushed, own>>
  BY DEF StealCas
<1>2. top < End /\ thief[p].task = Item(top)
  BY <1>1 DEF IInv, Thieving
<1>3. End' = End
  BY <1>1 DEF End
<1>4. top' = Inc(top, 1) /\ Return({Item(top)})
  BY <1>2 DEF StealCas
<1>5. top < WIDTH /\ top + 1 < WIDTH
  BY <1>0, <1>2
<1>6. top' = top + 1
  BY <1>0, <1>4, <1>5, ExactIndex
<1> QED
  BY <1>1, <1>2, <1>3, <1>4, <1>6

\* The compare-and-swap of stealTop keeps the invariant.
LEMMA InvStealCas ==
    ASSUME NoWrap, IInv, NEW p \in Thieves, StealCas(p)
    PROVE  IInv'
<1> DEFINE Th == [pc : ThiefLabels, t : Nat, n : Nat, i : Nat, buf : Nat, task : Nat]
<1>0. /\ top \in Nat /\ End \in Nat /\ pushed \in Nat /\ End <= pushed
      /\ own.b \in Nat /\ own.t \in Nat /\ capacity(Buffer) \in Nat \ {0}
  BY Basics
<1>1. thief' = [thief EXCEPT ![p] = IdleThief] /\ thief \in [Thieves -> Th]
  BY DEF StealCas, IInv, TypeInv
<1>2. IdleThief \in Th
  BY DEF IdleThief, ThiefLabels, Null
<1>3. /\ thief' \in [Thieves -> Th] /\ thief'[p] = IdleThief
      /\ \A q \in Thieves \ {p} : thief'[q] = thief[q]
  <2> HIDE DEF Th
  <2> QED
    BY <1>1, <1>2
<1>4. CASE top = thief[p].t
  <2>1. /\ top < End /\ End' = End /\ Return({Item(top)}) /\ top' = top + 1
        /\ UNCHANGED <<bottom, bufs, pushed, own>>
    BY <1>4, StealTakes
  <2>2. Contents'
    BY <2>1, TakeFirst
  <2>3. Item(top) \in Remaining
    BY <2>1, Extremes
  <2>4. /\ taken' \in [Tasks -> Nat] /\ \A k \in Tasks : taken'[k] <= 1
        /\ \A k \in Tasks : k > pushed => taken'[k] = 0
    BY <2>1, <2>3, ReturnOne
  <2>5. Buffer' = Buffer /\ \A i : Item(i)' = Item(i)
    BY <2>1 DEF Buffer, Item
  <2>6. TypeInv'
    <3>1. top' \in Nat
      BY <1>0, <2>1
    <3> QED
      BY <1>3, <2>1, <2>4, <3>1 DEF IInv, TypeInv
  <2>7. Indices'
    <3>1. End - top <= capacity(Buffer)
      BY DEF IInv, Indices
    <3>2. top' <= End' /\ End' <= pushed /\ End' - top' <= capacity(Buffer)
      BY <1>0, <2>1, <3>1
    <3>3. own.pc # "popRestore"
      BY <1>0, <2>1 DEF IInv, Indices, End, PopLabels
    <3> QED
      BY <1>0, <2>1, <2>5, <3>2, <3>3 DEF IInv, Indices
  <2>8. Handed'
    BY <2>1, <2>4, <2>5 DEF IInv, Handed
  <2>9. Thieving'
    BY <1>3, <2>1, MovedOn
  <2> QED
    BY <2>2, <2>6, <2>7, <2>8, <2>9 DEF IInv
<1>5. CASE top # thief[p].t
  <2>1. UNCHANGED <<top, bottom, bufs, pushed, taken, own>>
    BY <1>5 DEF StealCas
  <2>2. TypeInv' /\ Indices' /\ Contents' /\ Handed' /\ End' = End /\ \A i : Item(i)' = Item(i)
    BY <1>3, <2>1, ThiefMoves
  <2>3. Thieving'
    BY <1>3, <2>1, <2>2 DEF IInv, Thieving, IdleThief
  <2> QED
    BY <2>2, <2>3 DEF IInv
<1> QED
  BY <1>4, <1>5

\* Every step keeps the invariant.
LEMMA InvStep == NoWrap /\ IInv /\ [Next]_vars => IInv'
<1> SUFFICES ASSUME NoWrap, IInv, [Next]_vars PROVE IInv'
  OBVIOUS
<1>1. CASE OwnerStep
  BY <1>1, InvPushLoad, InvPushGrow, InvPushStore, InvPushPublish, InvPopMove, InvPopTake, InvPopCas
  DEF OwnerStep
<1>2. ASSUME NEW p \in Thieves, SingleStep(p) PROVE IInv'
  BY <1>2, InvStealLoad, InvStealCas DEF SingleStep
<1>3. CASE UNCHANGED vars
  <2>1. UNCHANGED <<top, bottom, bufs, pushed, taken, own>> /\ thief' = thief
    BY <1>3 DEF vars
  <2>2. TypeInv' /\ Indices' /\ Contents' /\ Handed' /\ End' = End
    BY <2>1, ThiefMoves DEF IInv, TypeInv
  <2>3. Thieving'
    BY <2>1, <2>2, KeepThieving DEF IInv
  <2> QED
    BY <2>2, <2>3 DEF IInv
<1> QED
  BY <1>1, <1>2, <1>3 DEF Next

\* The invariant holds in every state, as long as the indices do not wrap.
LEMMA Invariant ==
    ASSUME NoWrap
    PROVE  Spec => []IInv
<1>1. IInv /\ [Next]_vars => IInv'
  BY InvStep
<1> QED
  BY <1>1, InvInit, PTL DEF Spec

----------------------------------------------------------------------------
(* The theorems.                                                           *)

\* No task is handed out twice, to the owner and a thief or to two thieves
\* (popBottom and stealTop).
THEOREM TasksTakenOnce ==
    ASSUME NoWrap
    PROVE  Spec => []TakenOnce
<1>1. IInv => TakenOnce
  BY DEF IInv, Handed, TakenOnce
<1> QED
  BY <1>1, Invariant, PTL

\* The deque reports that it is empty only when every task pushed has been
\* handed out.
THEOREM EmptyIsEmpty ==
    ASSUME NoWrap
    PROVE  Spec => []EmptyMeansNothingLeft
<1>1. IInv => EmptyMeansNothingLeft
  <2> SUFFICES ASSUME IInv, own.pc = "idle", bottom <= top PROVE Remaining = {}
    BY DEF EmptyMeansNothingLeft
  <2>1. End = bottom /\ top \in Nat /\ bottom \in Nat
    BY Basics DEF End, PopLabels
  <2> QED
    BY <2>1 DEF IInv, Contents
<1> QED
  BY <1>1, Invariant, PTL

\* When every call has returned, a task nobody received is in the current
\* buffer, between top and bottom.
THEOREM NothingStranded ==
    ASSUME NoWrap
    PROVE  Spec => []QuietNothingLost
<1>1. IInv => QuietNothingLost
  <2> SUFFICES ASSUME IInv, own.pc = "idle", NEW k \in Remaining
               PROVE  \E i \in Index : top <= i /\ i < bottom /\ load(Buffer, i) = k
    BY DEF QuietNothingLost, Quiet
  <2>1. End = bottom /\ End <= pushed /\ pushed < WIDTH /\ pushed \in Nat /\ End \in Nat
    BY Basics DEF End, PopLabels
  <2>2. PICK i \in Nat : top <= i /\ i < End /\ Item(i) = k
    BY DEF IInv, Contents
  <2>3. i \in Index
    BY <2>1, <2>2 DEF Index
  <2> QED
    BY <2>1, <2>2, <2>3 DEF Item
<1> QED
  BY <1>1, Invariant, PTL

----------------------------------------------------------------------------
(* Refinement.                                                             *)

\* The smallest and the largest element of a set of numbers that has one.
LEMMA MinMax ==
    ASSUME NEW S \in SUBSET Nat, NEW x \in S
    PROVE  /\ (\A y \in S : x <= y) => Abstract!Min(S) = x
           /\ (\A y \in S : y <= x) => Abstract!Max(S) = x
<1>1. ASSUME \A y \in S : x <= y PROVE Abstract!Min(S) = x
  <2>1. Abstract!Min(S) \in S /\ \A y \in S : Abstract!Min(S) <= y
    BY <1>1 DEF Abstract!Min
  <2> DEFINE m == Abstract!Min(S)
  <2>2. m \in Nat /\ x \in Nat /\ m <= x /\ x <= m
    BY <1>1, <2>1
  <2> HIDE DEF m
  <2>3. m = x
    BY <2>2
  <2> QED
    BY <2>3 DEF m
<1>2. ASSUME \A y \in S : y <= x PROVE Abstract!Max(S) = x
  <2>0. \A y \in S : x >= y
    BY <1>2
  <2>1. Abstract!Max(S) \in S /\ \A y \in S : Abstract!Max(S) >= y
    BY <2>0 DEF Abstract!Max
  <2> DEFINE m == Abstract!Max(S)
  <2>2. m \in Nat /\ x \in Nat /\ m >= x /\ m <= x
    BY <1>2, <2>1
  <2> HIDE DEF m
  <2>3. m = x
    BY <2>2
  <2> QED
    BY <2>3 DEF m
<1> QED
  BY <1>1, <1>2

\* Publishing is the push, a successful pop or steal is the removal at its
\* end, and every other step stutters.
LEMMA RefinesStep ==
    NoWrap /\ IInv /\ [Next]_vars => [Abstract!Next]_<<pushed, Remaining>>
<1> SUFFICES ASSUME NoWrap, IInv, [Next]_vars
             PROVE  \/ Abstract!Push \/ Abstract!PopBottom \/ Abstract!StealTop
                    \/ pushed' = pushed /\ Remaining' = Remaining
  BY DEF Abstract!Next
<1>0. Remaining \in SUBSET Nat /\ pushed \in Nat /\ top \in Nat /\ End \in Nat
  BY Basics
<1>1. ASSUME UNCHANGED <<pushed, taken>>
      PROVE  pushed' = pushed /\ Remaining' = Remaining
  BY <1>1 DEF Remaining
<1>2. ASSUME top < End PROVE /\ Remaining # {}
                             /\ Abstract!Min(Remaining) = Item(top)
                             /\ Abstract!Max(Remaining) = Item(End - 1)
  BY <1>0, <1>2, Extremes, MinMax
<1>3. CASE PushPublish
  BY <1>3, PublishAdds DEF PushPublish, Abstract!Push
<1>4. CASE PopTake
  <2>1. /\ top < End /\ Return({Item(End - 1)}) /\ End' = End - 1
        /\ UNCHANGED <<top, bottom, bufs, pushed, thief>>
    BY <1>4, PopTakes
  <2>2. Remaining' = Remaining \ {Item(End - 1)}
    BY <2>1, TakeLast
  <2> QED
    BY <1>2, <2>1, <2>2 DEF Abstract!PopBottom
<1>5. CASE PopCas /\ top = own.t
  <2>1. /\ own.pc = "popCas" /\ own.b = top /\ End = top + 1 /\ End' = End
        /\ Return({Item(top)}) /\ top' = top + 1
        /\ UNCHANGED <<bottom, bufs, pushed, thief>>
    BY <1>5, PopCasTakes
  <2>2. top < End
    BY <1>0, <2>1
  <2>3. Remaining' = Remaining \ {Item(top)}
    BY <2>1, <2>2, TakeFirst
  <2> QED
    BY <1>2, <2>1, <2>2, <2>3 DEF Abstract!StealTop
<1>6. ASSUME NEW p \in Thieves, StealCas(p), top = thief[p].t
      PROVE  Abstract!StealTop
  <2>1. /\ top < End /\ End' = End /\ Return({Item(top)}) /\ top' = top + 1
        /\ UNCHANGED <<bottom, bufs, pushed, own>>
    BY <1>6, StealTakes
  <2>2. Remaining' = Remaining \ {Item(top)}
    BY <2>1, TakeFirst
  <2> QED
    BY <1>2, <2>1, <2>2 DEF Abstract!StealTop
<1>7. ASSUME NEW p \in Thieves, SingleStep(p)
      PROVE  Abstract!StealTop \/ (pushed' = pushed /\ Remaining' = Remaining)
  <2>1. CASE StealCas(p)
    BY <2>1, <1>1, <1>6 DEF StealCas
  <2>2. CASE \/ StealLoadTop(p) \/ StealLoadBottom(p) \/ StealLoadBuffer(p) \/ StealLoadTask(p)
    BY <2>2, <1>1 DEF StealLoadTop, StealLoadBottom, StealLoadBuffer, StealLoadTask
  <2> QED
    BY <1>7, <2>1, <2>2 DEF SingleStep
<1>8. CASE OwnerStep
  <2>1. CASE PopCas
    BY <2>1, <1>1, <1>5 DEF PopCas
  <2>2. CASE \/ PushLoad \/ PushGrow \/ PushStore \/ PopLoad \/ PopStore
             \/ PopContend \/ PopEmpty \/ PopRestore
    BY <2>2, <1>1 DEF PushLoad, PushGrow, PushStore, PopLoad, PopStore, PopContend, PopEmpty,
                      PopRestore
  <2> QED
    BY <1>3, <1>4, <1>8, <2>1, <2>2 DEF OwnerStep
<1>9. CASE UNCHANGED vars
  BY <1>9, <1>1 DEF vars
<1> QED
  BY <1>7, <1>8, <1>9 DEF Next

\* With single thieves the deque implements the abstract one: popBottom
\* removes the latest task and stealTop the oldest, each at one instant.
THEOREM DequeRefinesStealDeque ==
    ASSUME NoWrap
    PROVE  Spec => ImplementsStealDeque
<1>1. Init => Abstract!Init
  BY DEF Init, Abstract!Init, Remaining
<1>2. IInv /\ [Next]_vars => [Abstract!Next]_<<pushed, Remaining>>
  BY RefinesStep
<1> QED
  BY <1>1, <1>2, Invariant, PTL DEF Spec, ImplementsStealDeque, Abstract!Spec
=============================================================================
