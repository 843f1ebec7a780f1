------------------------ MODULE TimelineReactorProof ------------------------
(***************************************************************************)
(* Proofs about TimelineReactor, for any graph in which a task has at most *)
(* one wait and no wait lies behind another, and for any number of threads *)
(* that push, poll and look for timeouts: no task runs before its signal,  *)
(* the counts are exact, and a timeout is reported.                        *)
(***************************************************************************)
EXTENDS TimelineReactor, FiniteSetTheorems, TLAPS

\* A task that waits has one wait: two timeouts of one task would count it
\* off twice.
OneWait == \A v, w \in Waits : TaskOf[v] = TaskOf[w] => v = w

\* The tasks that a timeout may reach.
Doomed ==
    {t \in Tasks : \A S \in SUBSET Tasks :
        (\A w \in Waits : TaskOf[w] \in S) /\ (\A u \in S : Successors[u] \subseteq S)
            => t \in S}

\* No wait lies behind another: a task that has timed out is finished, and
\* the run may be over, while the thread that skips the successors of its
\* predecessor still has to take a dependency from it.
WaitsApart == \A t \in Doomed : \A u \in Successors[t] : WaitsOf(u) = {}

----------------------------------------------------------------------------
(* The inductive invariant.                                                *)

Labels == {"idle", "check", "load", "visit", "cas", "claimed", "deliver", "flag", "cancel",
           "skip", "advance"}
ThreadType ==
    [pc : Labels, mode : {"none", "notify", "poll", "timeout"}, handle : Handles \cup {None},
     value : Nat, now : Nat, curr : Waits \cup {None}, skip : SUBSET Edges]

Phases == {"idle", "register", "push", "count", "help", "reset", "resetCount"}

TypeInv ==
    /\ completed \in [Handles -> Nat] /\ clock \in Nat
    /\ head \in Waits \cup {None} /\ next \in [Waits -> Waits \cup {None}]
    /\ satisfied \in [Waits -> BOOLEAN] /\ count \in Int /\ hasTimeout \in BOOLEAN
    /\ inDegree \in [Tasks -> [low : Int, up : Int]]
    /\ state \in [Tasks -> {"Pending", "Completed", "Skipped", "Timeout"}]
    /\ pending \in Int /\ queued \subseteq Tasks /\ toRegister \subseteq Waits
    /\ phase \in Phases /\ arming \in Waits \cup {None} /\ expired \subseteq Waits
    /\ th \in [Threads -> ThreadType]

\* A thread that goes on to the next node is at one, and knows what it walks
\* the list for.
OnNode ==
    \A p \in Threads :
        /\ th[p].pc \in {"cas", "skip", "advance"} => th[p].curr \in Waits
        /\ th[p].pc # "idle" => th[p].mode # "none"

\* A run is under way.
Open == phase \in {"register", "push", "count", "help"}

\* p has won a wait and not yet told its task.
Carries(p) == th[p].pc \in {"claimed", "deliver", "flag", "cancel"}
CarriedBy(p, w) == Carries(p) /\ th[p].curr = w

\* A wait that is being armed is no longer among those to register.
Arming ==
    /\ phase = "push" => arming \in Waits \ toRegister
    /\ phase # "push" => arming = None

\* Nodes of an earlier run that a thread can still reach are resolved, until
\* they are registered again.
OldResolved ==
    \A w \in Waits :
        /\ w = head \/ (\E v \in Waits : next[v] = w) \/ (\E p \in Threads : th[p].curr = w)
        /\ ~Open \/ w \in toRegister
        => satisfied[w]

\* A wait is won by one thread, and its task waits meanwhile.
Carried ==
    \A p \in Threads : Carries(p) =>
        /\ Open /\ th[p].curr \in Waits /\ th[p].curr \notin toRegister
        /\ satisfied[th[p].curr] /\ state[TaskOf[th[p].curr]] = "Pending"
        /\ \A q \in Threads : q # p /\ Carries(q) => th[q].curr # th[p].curr

\* The edges a thread has still to skip lead from a task that is dead, in a
\* run under way, and are its own.
Skipping ==
    \A p \in Threads : th[p].skip # {} =>
        /\ Open /\ th[p].pc = "skip"
        /\ \A e \in th[p].skip : state[e[1]] \in {"Timeout", "Skipped"}
        /\ \A q \in Threads : q # p => th[q].skip \cap th[p].skip = {}

\* The wait w still counts as a dependency of its task.
WaitOpen(w) == w \in toRegister \/ ~satisfied[w] \/ \E p \in Threads : CarriedBy(p, w)

OpenWaits(t) == {w \in WaitsOf(t) : WaitOpen(w) \/ state[t] = "Timeout"}
OpenEdges(t) ==
    {u \in Predecessors(t) : state[u] = "Pending" \/ \E p \in Threads : <<u, t>> \in th[p].skip}

\* The dependencies a task still waits for.
Degrees ==
    Open => \A t \in Tasks :
        inDegree[t].low = Cardinality(OpenWaits(t)) + Cardinality(OpenEdges(t))

\* What the state of a task means in a run.
States ==
    /\ queued # {} => Open
    /\ Open => \A t \in Tasks :
          /\ t \in queued => state[t] = "Pending" /\ inDegree[t].low = 0
          /\ state[t] \in {"Completed", "Skipped"} => inDegree[t].low = 0
          /\ state[t] = "Timeout" => WaitsOf(t) # {} /\ \A w \in WaitsOf(t) : ~WaitOpen(w)
          /\ state[t] \in {"Skipped", "Timeout"} => t \in Doomed
          /\ phase # "help" /\ initialInDegree(t) = 0 => state[t] = "Pending" /\ t \notin queued

Unfinished == {t \in Tasks : state[t] = "Pending"}
Tally == Open => pending = Cardinality(Unfinished)

Signalled(w) == completed[Handle[w]] >= Value[w]
Answered(w) == Signalled(w) /\ w \notin expired

\* What a thread was told of a timeline, the waits it is about to claim and
\* those it has won, are reached; so are the waits that were delivered.  A
\* wait that is still to be won has not timed out in this run.
Reached ==
    /\ \A p \in Threads :
          /\ th[p].mode = "notify" =>
                th[p].handle \in Handles /\ th[p].value <= completed[th[p].handle]
          /\ th[p].pc = "deliver" => th[p].mode # "timeout"
          /\ th[p].pc = "cas" /\ th[p].mode # "timeout" => Signalled(th[p].curr)
          /\ th[p].pc \in {"claimed", "deliver"} /\ th[p].mode # "timeout"
                => Answered(th[p].curr)
    /\ Open => \A w \in Waits :
          /\ ~WaitOpen(w) /\ state[TaskOf[w]] # "Timeout" => Answered(w)
          /\ w \in toRegister \/ ~satisfied[w] => w \notin expired

\* The flag is up from the first timeout of the run on.
Flagged ==
    Open => (hasTimeout <=> \/ \E t \in Tasks : state[t] = "Timeout"
                            \/ \E p \in Threads : th[p].pc = "cancel")

Waiting == {w \in Waits \ toRegister : ~satisfied[w]}
Claims == {p \in Threads : th[p].pc = "claimed"}

\* The list, and m_pendingCount: a wait counts from its arming on.
Listed ==
    /\ Open => /\ ListFrom(head) = Waits \ (toRegister \cup {arming})
               /\ count = Cardinality(Waiting) + Cardinality(Claims)
                          - (IF phase \in {"push", "count"} THEN 1 ELSE 0)
    /\ phase = "help" => toRegister = {}
    /\ phase \in {"reset", "idle"} => count = 0
    /\ phase = "reset" => \A w \in Waits : satisfied[w]
    /\ phase \in {"resetCount", "idle"} => head = None

IInv ==
    /\ TypeInv /\ OnNode /\ Arming /\ OldResolved /\ Carried /\ Skipping /\ Degrees /\ States
    /\ Tally /\ Reached /\ Flagged /\ Listed /\ RunsAfterSignal /\ TimeoutReported

----------------------------------------------------------------------------
(* Facts about the graph and the threads.                                  *)

\* What the constants say.
LEMMA Constants ==
    /\ None \notin Waits
    /\ \A w \in Waits : TaskOf[w] \in Tasks /\ Handle[w] \in Handles /\ Value[w] \in Nat
    /\ \A t \in Tasks : Successors[t] \subseteq Tasks
    /\ \A t \in Tasks : WaitsOf(t) \subseteq Waits /\ Predecessors(t) \subseteq Tasks
BY ReactorAssumption DEF WaitsOf, Predecessors

\* The sets that are counted are finite.
LEMMA Finite ==
    /\ \A S \in SUBSET Tasks : IsFiniteSet(S) /\ Cardinality(S) \in Nat
    /\ \A S \in SUBSET Waits : IsFiniteSet(S) /\ Cardinality(S) \in Nat
    /\ \A S \in SUBSET Threads : IsFiniteSet(S) /\ Cardinality(S) \in Nat
<1>1. IsFiniteSet(Threads)
  BY ReactorAssumption, FS_Union DEF Threads
<1> QED
  BY <1>1, ReactorAssumption, FS_Subset, FS_CardinalityType

\* A set of cardinality 0 is empty.
LEMMA NoneLeft ==
    ASSUME NEW S, IsFiniteSet(S)
    PROVE  Cardinality(S) = 0 <=> S = {}
BY FS_EmptySet

\* Tasks that wait are doomed, and so is what follows a doomed task.
LEMMA DoomedClosed ==
    /\ \A w \in Waits : TaskOf[w] \in Doomed
    /\ \A t \in Doomed : t \in Tasks /\ Successors[t] \subseteq Doomed
<1>1. \A w \in Waits : TaskOf[w] \in Doomed
  BY Constants DEF Doomed
<1>2. ASSUME NEW t \in Doomed, NEW u \in Successors[t] PROVE u \in Doomed
  <2>1. t \in Tasks /\ u \in Tasks
    BY <1>2, Constants DEF Doomed
  <2>2. ASSUME NEW S \in SUBSET Tasks, \A w \in Waits : TaskOf[w] \in S,
               \A x \in S : Successors[x] \subseteq S
        PROVE  u \in S
    BY <1>2, <2>2 DEF Doomed
  <2> QED
    BY <2>1, <2>2 DEF Doomed
<1> QED
  BY <1>1, <1>2 DEF Doomed

\* What a step of one thread leaves alone.
Others(p) == \A q \in Threads : q # p => th'[q] = th[q]

\* A thread goes to another label and keeps the rest.
LEMMA GotoFacts ==
    ASSUME TypeInv, NEW p \in Threads, NEW l \in Labels, Goto(p, l)
    PROVE  /\ th' \in [Threads -> ThreadType] /\ Others(p)
           /\ th'[p].pc = l /\ th'[p].mode = th[p].mode /\ th'[p].handle = th[p].handle
           /\ th'[p].value = th[p].value /\ th'[p].curr = th[p].curr
           /\ th'[p].skip = th[p].skip
BY DEF Goto, TypeInv, ThreadType, Others

\* A thread that carries nothing and skips nothing.
Free(p) == ~Carries(p) /\ th[p].skip = {}

\* A thread outside the steps that resolve a wait is free.
LEMMA FreeLabels ==
    ASSUME TypeInv, Skipping, NEW p \in Threads,
           th[p].pc \in {"idle", "check", "load", "visit", "cas", "advance"}
    PROVE  Free(p)
BY DEF Skipping, Free, Carries, TypeInv

----------------------------------------------------------------------------
(* Steps that resolve no wait.                                             *)

\* A walk that changes only where a free thread is.
LEMMA Wander ==
    ASSUME IInv, NEW p \in Threads, Free(p), Free(p)', Others(p),
           th' \in [Threads -> ThreadType],
           UNCHANGED <<completed, clock, reactor, graph, run, expired>>,
           th'[p].curr \in {None, th[p].curr, head} \cup {next[w] : w \in Waits},
           th'[p].pc \in {"cas", "skip", "advance"} => th'[p].curr \in Waits,
           th'[p].pc = "cas" /\ th'[p].mode # "timeout" => Signalled(th'[p].curr),
           th'[p].pc # "idle" => th'[p].mode # "none",
           th'[p].mode = "notify" =>
               th'[p].handle \in Handles /\ th'[p].value <= completed[th'[p].handle]
    PROVE  IInv'
<1> USE DEF reactor, graph, run
<1>1. TypeInv' /\ OnNode' /\ Arming'
  BY DEF IInv, TypeInv, OnNode, Arming, Others
<1>2. \A q \in Threads : /\ Carries(q)' <=> Carries(q)
                         /\ Carries(q) => th'[q] = th[q]
                         /\ th'[q].skip = th[q].skip
  BY DEF Free, Carries, Others
<1>3. \A w \in Waits : WaitOpen(w)' <=> WaitOpen(w)
  BY <1>2 DEF WaitOpen, CarriedBy
<1>4. OldResolved'
  <2>1. ASSUME NEW w \in Waits,
               w = head \/ (\E v \in Waits : next[v] = w) \/ (\E q \in Threads : th'[q].curr = w)
        PROVE  w = head \/ (\E v \in Waits : next[v] = w) \/ (\E q \in Threads : th[q].curr = w)
    BY <2>1, Constants DEF Others
  <2> QED
    BY <2>1 DEF IInv, OldResolved, Open
<1>5. Carried'
  BY <1>2 DEF IInv, Carried, Open
<1>6. Skipping'
  <2>1. \A q \in Threads : th[q].skip # {} => th'[q] = th[q]
    BY DEF Free, Others
  <2> QED
    BY <1>2, <2>1 DEF IInv, Skipping, Open
<1>7. Degrees'
  <2>1. ASSUME NEW t \in Tasks PROVE OpenWaits(t)' = OpenWaits(t) /\ OpenEdges(t)' = OpenEdges(t)
    BY <1>2, <1>3, Constants DEF OpenWaits, OpenEdges
  <2> QED
    BY <2>1 DEF IInv, Degrees, Open
<1>8. States' /\ Tally'
  BY <1>3, Constants DEF IInv, States, Tally, Unfinished, Open
<1>9. Reached'
  <2>1. ASSUME NEW q \in Threads
        PROVE  /\ th'[q].mode = "notify" =>
                     th'[q].handle \in Handles /\ th'[q].value <= completed[th'[q].handle]
               /\ th'[q].pc = "deliver" => th'[q].mode # "timeout"
               /\ th'[q].pc = "cas" /\ th'[q].mode # "timeout" => Signalled(th'[q].curr)
               /\ th'[q].pc \in {"claimed", "deliver"} /\ th'[q].mode # "timeout"
                     => Answered(th'[q].curr)
    BY DEF IInv, Reached, Free, Carries, Others
  <2> QED
    BY <1>3, <2>1 DEF IInv, Reached, Answered, Signalled, Open
<1>10. Flagged'
  BY DEF IInv, Flagged, Free, Carries, Others, Open
<1>11. Listed'
  <2>1. Claims' = Claims /\ Waiting' = Waiting /\ ListFrom(head)' = ListFrom(head)
    BY DEF Claims, Waiting, ListFrom, Free, Carries, Others
  <2> QED
    BY <2>1 DEF IInv, Listed, Open
<1>12. RunsAfterSignal' /\ TimeoutReported'
  BY DEF IInv, RunsAfterSignal, TimeoutReported
<1> QED
  BY <1>1, <1>4, <1>5, <1>6, <1>7, <1>8, <1>9, <1>10, <1>11, <1>12 DEF IInv

\* The calls of notifyTimelineAdvanced and pollTimelineFallback, and the
\* steps of a walk between two nodes.
LEMMA WalkInv ==
    ASSUME IInv, NEW p \in Threads,
           \/ \E h \in Handles : NotifyCall(p, h)
           \/ PollCall(p) \/ CheckPending(p) \/ LoadHead(p) \/ Visit(p) \/ PassOver(p)
           \/ LoseClaim(p) \/ SkipEnd(p) \/ AdvanceNode(p) \/ WalkEnd(p)
    PROVE  IInv'
<1> USE DEF Labels
<1>1. TypeInv /\ Skipping
  BY DEF IInv
<1>2. th[p] \in ThreadType /\ completed \in [Handles -> Nat] /\ clock \in Nat
  BY <1>1 DEF TypeInv
<1>3. ASSUME NEW r, NEW l \in {"idle", "check"}, NEW m \in {"none", "notify", "poll", "timeout"},
             NEW h \in Handles \cup {None}, NEW v \in Nat,
             r = [pc |-> l, mode |-> m, handle |-> h, value |-> v, now |-> 0, curr |-> None,
                  skip |-> {}]
      PROVE  /\ r \in ThreadType /\ r.pc = l /\ r.mode = m /\ r.handle = h /\ r.value = v
             /\ r.curr = None /\ r.skip = {}
  BY <1>3 DEF ThreadType
<1>4. /\ th[p].mode = "notify" =>
            th[p].handle \in Handles /\ th[p].value <= completed[th[p].handle]
      /\ th[p].pc # "idle" => th[p].mode # "none"
  BY DEF IInv, Reached, OnNode
<1>5. ASSUME NEW h \in Handles, NotifyCall(p, h) PROVE IInv'
  <2>1. th'[p] = [Idle EXCEPT !.pc = "check", !.mode = "notify", !.handle = h,
                              !.value = completed[h]] /\ Others(p)
    BY <1>1, <1>5 DEF NotifyCall, TypeInv, Others
  <2>2. /\ th'[p] \in ThreadType /\ th'[p].pc = "check" /\ th'[p].skip = {}
        /\ th'[p].curr = None /\ th'[p].handle = h /\ th'[p].value = completed[h]
        /\ th'[p].mode = "notify"
    <3>1. th'[p] = [pc |-> "check", mode |-> "notify", handle |-> h, value |-> completed[h],
                    now |-> 0, curr |-> None, skip |-> {}]
      BY <2>1 DEF Idle
    <3> QED
      BY <1>2, <1>3, <1>5, <3>1
  <2>3. th' \in [Threads -> ThreadType]
    BY <1>1, <1>5, <2>1, <2>2 DEF NotifyCall, TypeInv
  <2>4. Free(p) /\ Free(p)'
    BY <1>1, <1>5, <2>2, FreeLabels DEF NotifyCall, Free, Carries
  <2>5. th'[p].value <= completed[th'[p].handle]
    BY <1>2, <1>5, <2>2
  <2> QED
    BY <1>5, <2>1, <2>2, <2>3, <2>4, <2>5, Wander DEF NotifyCall
<1>6. CASE PollCall(p)
  <2>1. th'[p] \in {Idle, [Idle EXCEPT !.pc = "check", !.mode = "poll"],
                    [Idle EXCEPT !.pc = "check", !.mode = "timeout"]} /\ Others(p)
    BY <1>1, <1>6 DEF PollCall, TypeInv, Others
  <2>2. PICK l \in {"idle", "check"}, m \in {"none", "poll", "timeout"} :
            /\ th'[p] = [pc |-> l, mode |-> m, handle |-> None, value |-> 0, now |-> 0,
                         curr |-> None, skip |-> {}]
            /\ l # "idle" => m # "none"
    BY <2>1 DEF Idle
  <2>3. /\ th'[p] \in ThreadType /\ th'[p].pc = l /\ th'[p].mode = m
        /\ th'[p].curr = None /\ th'[p].skip = {}
    BY <1>3, <2>2
  <2>4. th' \in [Threads -> ThreadType]
    BY <1>1, <1>6, <2>1, <2>3 DEF PollCall, TypeInv
  <2>5. Free(p) /\ Free(p)'
    BY <1>1, <1>6, <2>3, FreeLabels DEF PollCall, Free, Carries
  <2> QED
    BY <1>6, <2>1, <2>2, <2>3, <2>4, <2>5, Wander DEF PollCall
<1>7. /\ AfterWalk(p) \in ThreadType /\ AfterWalk(p).pc \in {"idle", "check"}
      /\ AfterWalk(p).mode # "notify" /\ AfterWalk(p).curr = None /\ AfterWalk(p).skip = {}
      /\ AfterWalk(p).pc # "idle" => AfterWalk(p).mode # "none"
  <2>1. PICK l \in {"idle", "check"}, m \in {"none", "poll", "timeout"} :
            /\ AfterWalk(p) = [pc |-> l, mode |-> m, handle |-> None, value |-> 0, now |-> 0,
                               curr |-> None, skip |-> {}]
            /\ l # "idle" => m # "none"
    BY DEF AfterWalk, Idle
  <2> QED
    BY <1>3, <2>1
<1>8. CASE CheckPending(p)
  <2>1. Others(p) /\ \/ th'[p] = AfterWalk(p)
                     \/ \E c \in Nat : th'[p] = [th[p] EXCEPT !.pc = "load", !.now = c]
    BY <1>1, <1>2, <1>8 DEF CheckPending, TypeInv, Others
  <2>2. th'[p] \in ThreadType
    BY <1>2, <1>7, <2>1 DEF ThreadType
  <2>3. th' \in [Threads -> ThreadType]
    BY <1>1, <1>8, <2>1, <2>2 DEF CheckPending, TypeInv
  <2>4. Free(p)
    BY <1>1, <1>8, FreeLabels DEF CheckPending
  <2>5. CASE th'[p] = AfterWalk(p)
    <3>1. Free(p)'
      BY <1>7, <2>5 DEF Free, Carries
    <3> QED
      BY <1>7, <1>8, <2>1, <2>3, <2>4, <2>5, <3>1, Wander DEF CheckPending
  <2>6. ASSUME NEW c \in Nat, th'[p] = [th[p] EXCEPT !.pc = "load", !.now = c] PROVE IInv'
    <3>1. th'[p].pc = "load" /\ th'[p].skip = th[p].skip /\ th'[p].curr = th[p].curr
          /\ th'[p].mode = th[p].mode /\ th'[p].handle = th[p].handle
          /\ th'[p].value = th[p].value
      BY <1>2, <2>6 DEF ThreadType
    <3>2. Free(p)'
      BY <2>4, <3>1 DEF Free, Carries
    <3>3. th'[p].mode # "none"
      BY <1>4, <1>8, <3>1 DEF CheckPending
    <3> QED
      BY <1>4, <1>8, <2>1, <2>3, <2>4, <3>1, <3>2, <3>3, Wander DEF CheckPending
  <2> QED
    BY <2>1, <2>5, <2>6
<1>9. CASE LoadHead(p)
  <2>1. th' = [th EXCEPT ![p].pc = "visit", ![p].curr = head] /\ head \in Waits \cup {None}
        /\ th \in [Threads -> ThreadType]
    BY <1>1, <1>9 DEF LoadHead, TypeInv
  <2>2. th'[p] = [th[p] EXCEPT !.pc = "visit", !.curr = head] /\ Others(p)
    BY <2>1 DEF Others
  <2>3. /\ th'[p].pc = "visit" /\ th'[p].curr = head /\ th'[p].skip = th[p].skip
        /\ th'[p].mode = th[p].mode /\ th'[p].handle = th[p].handle
        /\ th'[p].value = th[p].value /\ th'[p] \in ThreadType
    BY <1>2, <2>1, <2>2 DEF ThreadType
  <2>4. th' \in [Threads -> ThreadType]
    BY <2>1, <2>3
  <2>5. Free(p) /\ Free(p)'
    BY <1>1, <1>9, <2>3, FreeLabels DEF LoadHead, Free, Carries
  <2> QED
    BY <1>4, <1>9, <2>2, <2>3, <2>4, <2>5, Wander DEF LoadHead
<1>10. CASE PassOver(p)
  <2>1. Goto(p, "advance") /\ Free(p)
    BY <1>1, <1>10, FreeLabels DEF PassOver
  <2>2. Free(p)'
    BY <1>1, <2>1, GotoFacts DEF Free, Carries
  <2> QED
    BY <1>1, <1>2, <1>4, <1>10, <2>1, <2>2, GotoFacts, Wander DEF PassOver, ThreadType
<1>11. CASE SkipEnd(p)
  <2>1. Goto(p, "advance") /\ Free(p)
    BY <1>11 DEF SkipEnd, Free, Carries
  <2>2. Free(p)'
    BY <1>1, <2>1, GotoFacts DEF Free, Carries
  <2> QED
    BY <1>1, <1>4, <1>11, <2>1, <2>2, GotoFacts, Wander DEF SkipEnd, IInv, OnNode
<1>12. CASE AdvanceNode(p)
  <2>1. CASE th[p].curr \in Waits
    <3>1. /\ th' \in [Threads -> ThreadType] /\ Others(p)
          /\ th'[p].pc = "visit" /\ th'[p].curr = next[th[p].curr]
          /\ th'[p].skip = th[p].skip /\ th'[p].mode = th[p].mode
          /\ th'[p].handle = th[p].handle /\ th'[p].value = th[p].value
      BY <1>1, <1>12, <2>1, ZenonT(30) DEF AdvanceNode, TypeInv, ThreadType, Others
    <3>2. Free(p) /\ Free(p)'
      BY <1>1, <1>12, <3>1, FreeLabels DEF AdvanceNode, Free, Carries
    <3> QED
      BY <1>4, <1>12, <2>1, <3>1, <3>2, Wander DEF AdvanceNode
  <2> QED
    BY <1>12, <2>1 DEF AdvanceNode, IInv, OnNode
<1>13. CASE WalkEnd(p)
  <2>1. th'[p] = AfterWalk(p) /\ Others(p)
    BY <1>1, <1>13 DEF WalkEnd, TypeInv, Others
  <2>2. th' \in [Threads -> ThreadType]
    BY <1>1, <1>7, <1>13, <2>1 DEF WalkEnd, TypeInv
  <2>3. Free(p) /\ Free(p)'
    BY <1>1, <1>7, <1>13, <2>1, FreeLabels DEF WalkEnd, Free, Carries
  <2> QED
    BY <1>7, <1>13, <2>1, <2>2, <2>3, Wander DEF WalkEnd
<1>14. CASE Visit(p)
  <2> PICK w : w = th[p].curr
    OBVIOUS
  <2>1. th[p].pc = "visit" /\ w \in Waits /\ Eligible(p, w) /\ Goto(p, "cas") /\ Free(p)
    BY <1>1, <1>2, <1>14, FreeLabels DEF Visit, ThreadType
  <2>2. th[p].mode # "timeout" => Signalled(w)
    <3>1. th[p].mode \in {"notify", "poll", "timeout"}
      BY <1>2, <1>4, <2>1 DEF ThreadType
    <3>2. CASE th[p].mode = "notify"
      <4>1. Handle[w] = th[p].handle /\ Value[w] <= th[p].value
        BY <2>1, <3>2 DEF Eligible
      <4>2. th[p].value \in Nat /\ Value[w] \in Nat /\ completed[th[p].handle] \in Nat
        BY <1>2, <1>4, <2>1, <3>2, Constants DEF ThreadType
      <4> QED
        BY <1>4, <3>2, <4>1, <4>2 DEF Signalled
    <3>3. CASE th[p].mode = "poll"
      BY <2>1, <3>3 DEF Eligible, Signalled
    <3> QED
      BY <3>1, <3>2, <3>3
  <2>3. /\ th' \in [Threads -> ThreadType] /\ Others(p)
        /\ th'[p].pc = "cas" /\ th'[p].mode = th[p].mode /\ th'[p].handle = th[p].handle
        /\ th'[p].value = th[p].value /\ th'[p].curr = w /\ th'[p].skip = th[p].skip
    BY <1>1, <2>1, GotoFacts
  <2>4. Free(p)'
    BY <2>1, <2>3 DEF Free, Carries
  <2> QED
    BY <1>4, <1>14, <2>1, <2>2, <2>3, <2>4, Wander DEF Visit
<1>15. CASE LoseClaim(p)
  <2>1. Goto(p, "advance") /\ Free(p) /\ th[p].curr \in Waits
    BY <1>1, <1>15, FreeLabels DEF LoseClaim, IInv, OnNode
  <2>2. Free(p)'
    BY <1>1, <2>1, GotoFacts DEF Free, Carries
  <2> QED
    BY <1>1, <1>4, <1>15, <2>1, <2>2, GotoFacts, Wander DEF LoseClaim
<1> QED
  BY <1>5, <1>6, <1>8, <1>9, <1>10, <1>11, <1>12, <1>13, <1>14, <1>15

----------------------------------------------------------------------------
(* The GPU, the clock and the caller.                                      *)

\* A task that has an open dependency has a positive count.
LEMMA Owing ==
    ASSUME TypeInv, Degrees, Open, NEW t \in Tasks
    PROVE  /\ IsFiniteSet(OpenWaits(t)) /\ Cardinality(OpenWaits(t)) \in Nat
           /\ IsFiniteSet(OpenEdges(t)) /\ Cardinality(OpenEdges(t)) \in Nat
           /\ inDegree[t].low = Cardinality(OpenWaits(t)) + Cardinality(OpenEdges(t))
           /\ inDegree[t].low = 0 => OpenWaits(t) = {} /\ OpenEdges(t) = {}
           /\ inDegree[t].low = 1 => OpenWaits(t) = {} \/ OpenEdges(t) = {}
<1>1. OpenWaits(t) \in SUBSET Waits /\ OpenEdges(t) \in SUBSET Tasks
  BY Constants DEF OpenWaits, OpenEdges
<1>2. /\ IsFiniteSet(OpenWaits(t)) /\ Cardinality(OpenWaits(t)) \in Nat
      /\ IsFiniteSet(OpenEdges(t)) /\ Cardinality(OpenEdges(t)) \in Nat
  BY <1>1, Finite
<1>3. /\ Cardinality(OpenWaits(t)) = 0 <=> OpenWaits(t) = {}
      /\ Cardinality(OpenEdges(t)) = 0 <=> OpenEdges(t) = {}
  BY <1>2, NoneLeft
<1>4. inDegree[t].low = Cardinality(OpenWaits(t)) + Cardinality(OpenEdges(t))
  BY DEF Degrees
<1> QED
  BY <1>2, <1>3, <1>4

\* A wait that is open keeps its task pending.
LEMMA OpenWaitPending ==
    ASSUME IInv, Open, NEW w \in Waits, WaitOpen(w)
    PROVE  state[TaskOf[w]] = "Pending"
<1> DEFINE t == TaskOf[w]
<1>1. t \in Tasks /\ w \in WaitsOf(t)
  BY Constants DEF WaitsOf
<1>2. w \in OpenWaits(t)
  BY <1>1 DEF OpenWaits
<1>3. inDegree[t].low # 0
  BY <1>1, <1>2, Owing DEF IInv
<1> QED
  BY <1>1, <1>3 DEF IInv, States, TypeInv

\* The edges of a task that died lead to tasks that wait for them.
LEMMA OpenEdgePending ==
    ASSUME WaitsApart, IInv, NEW p \in Threads, NEW e \in th[p].skip
    PROVE  /\ Open /\ e[1] \in Tasks /\ e[2] \in Tasks /\ e = <<e[1], e[2]>>
           /\ e[1] \in Predecessors(e[2]) /\ e[1] \in OpenEdges(e[2])
           /\ state[e[1]] # "Pending" /\ state[e[2]] = "Pending"
           /\ WaitsOf(e[2]) = {} /\ e[2] \in Doomed
<1>1. Open /\ state[e[1]] \in {"Timeout", "Skipped"}
  BY DEF IInv, Skipping
<1>2. th[p] \in ThreadType
  BY DEF IInv, TypeInv
<1>3. th[p].skip \in SUBSET Edges
  BY <1>2 DEF ThreadType
<1>4. PICK u \in Tasks : \E t \in Successors[u] : e = <<u, t>>
  BY <1>3 DEF Edges, EdgesOf
<1> PICK t \in Successors[u] : e = <<u, t>>
  BY <1>4
<1>5. e[1] = u /\ e[2] = t /\ t \in Tasks
  BY <1>4, Constants
<1>6. u \in Predecessors(t) /\ u \in OpenEdges(t)
  BY <1>4, <1>5 DEF Predecessors, OpenEdges
<1>7. u \in Doomed
  BY <1>1, <1>4, <1>5 DEF IInv, States
<1>8. WaitsOf(t) = {} /\ t \in Doomed
  BY <1>4, <1>7, DoomedClosed DEF WaitsApart
<1>9. inDegree[t].low # 0
  BY <1>1, <1>5, <1>6, Owing DEF IInv
<1>10. state[t] = "Pending"
  BY <1>1, <1>5, <1>8, <1>9 DEF IInv, States, TypeInv
<1> QED
  BY <1>1, <1>4, <1>5, <1>6, <1>8, <1>10

\* When every task of a run is finished nothing of the run is under way.
LEMMA Quiet ==
    ASSUME WaitsApart, IInv, Open, pending = 0
    PROVE  /\ queued = {} /\ Unfinished = {}
           /\ \A p \in Threads : Free(p)
           /\ \A w \in Waits : ~WaitOpen(w)
<1>1. Unfinished = {}
  <2>1. Unfinished \in SUBSET Tasks
    BY DEF Unfinished
  <2>2. IsFiniteSet(Unfinished) /\ Cardinality(Unfinished) = 0
    BY <2>1, Finite DEF IInv, Tally
  <2> QED
    BY <2>2, NoneLeft
<1>2. \A t \in Tasks : state[t] # "Pending"
  BY <1>1 DEF Unfinished
<1>3. \A w \in Waits : ~WaitOpen(w)
  BY <1>2, OpenWaitPending, Constants
<1>4. queued = {}
  BY <1>2 DEF IInv, States, TypeInv
<1>5. \A p \in Threads : ~Carries(p)
  BY <1>2, Constants DEF IInv, Carried
<1>6. \A p \in Threads : th[p].skip = {}
  BY <1>2, OpenEdgePending
<1> QED
  BY <1>1, <1>3, <1>4, <1>5, <1>6 DEF Free

\* Outside a run every thread is free.
LEMMA Resting ==
    ASSUME IInv, ~Open
    PROVE  queued = {} /\ \A p \in Threads : Free(p)
BY DEF IInv, States, Carried, Skipping, Free

\* A list without a first node is empty.
LEMMA EmptyList == ListFrom(None) = {}
<1>1. ASSUME NEW x \in ListFrom(None) PROVE FALSE
  <2>1. {} \in SUBSET Waits /\ \A y \in {} : next[y] \in Waits => next[y] \in {}
    OBVIOUS
  <2>2. x \in {}
    BY <1>1, <2>1, Constants DEF ListFrom
  <2> QED
    BY <2>2
<1> QED
  BY <1>1

\* Time passes, or the GPU advances: nothing that was reached is lost.
LEMMA EnvironmentInv ==
    ASSUME IInv, Tick \/ \E h \in Handles : Advance(h)
    PROVE  IInv'
<1> USE DEF reactor, graph, run
<1>1. UNCHANGED <<reactor, graph, run, th, expired>> /\ clock' \in Nat
  BY DEF Tick, Advance, IInv, TypeInv
<1>2. completed' \in [Handles -> Nat] /\ \A h \in Handles : completed'[h] >= completed[h]
  <2>1. CASE Tick
    BY <2>1 DEF Tick, IInv, TypeInv
  <2>2. ASSUME NEW h \in Handles, Advance(h)
        PROVE  completed' \in [Handles -> Nat] /\ \A g \in Handles : completed'[g] >= completed[g]
    BY <2>2 DEF Advance, IInv, TypeInv
  <2> QED
    BY <2>1, <2>2
<1>3. TypeInv' /\ OnNode' /\ Arming' /\ OldResolved' /\ Carried' /\ Skipping'
  BY <1>1, <1>2 DEF IInv, TypeInv, OnNode, Arming, OldResolved, Carried, Carries, Skipping, Open
<1>4. Degrees' /\ States' /\ Tally' /\ Flagged' /\ TimeoutReported'
  BY <1>1 DEF IInv, Degrees, OpenWaits, OpenEdges, WaitOpen, CarriedBy, Carries, States, Tally,
     Unfinished, Flagged, TimeoutReported, Open
<1>5. Listed'
  BY <1>1 DEF IInv, Listed, ListFrom, Waiting, Claims, Open
<1>6. \A w \in Waits : (Signalled(w) => Signalled(w)') /\ (Answered(w) => Answered(w)')
  BY <1>1, <1>2, Constants DEF Answered, Signalled, IInv, TypeInv
<1>7. RunsAfterSignal'
  BY <1>1, <1>6, Constants DEF IInv, RunsAfterSignal, Answered, Signalled
<1>8. Reached'
  <2>1. \A w \in Waits : WaitOpen(w)' <=> WaitOpen(w)
    BY <1>1 DEF WaitOpen, CarriedBy, Carries
  <2>2. ASSUME NEW p \in Threads, th[p].mode = "notify"
        PROVE  th[p].handle \in Handles /\ th[p].value <= completed'[th[p].handle]
    <3>1. th[p].handle \in Handles /\ th[p].value <= completed[th[p].handle]
      BY <2>2 DEF IInv, Reached
    <3>2. th[p].value \in Nat
      BY DEF IInv, TypeInv, ThreadType
    <3> QED
      BY <1>2, <3>1, <3>2 DEF IInv, TypeInv
  <2>3. ASSUME NEW p \in Threads, th[p].pc \in {"claimed", "deliver"}, th[p].mode # "timeout"
        PROVE  Answered(th[p].curr)'
    <3>1. th[p].curr \in Waits /\ Answered(th[p].curr)
      BY <2>3 DEF IInv, Carried, Carries, Reached
    <3> QED
      BY <1>1, <1>6, <3>1 DEF Answered, Signalled
  <2>4. ASSUME NEW p \in Threads, th[p].pc = "cas", th[p].mode # "timeout"
        PROVE  Signalled(th[p].curr)'
    <3>1. th[p].curr \in Waits /\ Signalled(th[p].curr)
      BY <2>4 DEF IInv, OnNode, Reached
    <3> QED
      BY <1>1, <1>6, <3>1 DEF Signalled
  <2> QED
    BY <1>1, <1>6, <2>1, <2>2, <2>3, <2>4 DEF IInv, Reached, Open
<1> QED
  BY <1>3, <1>4, <1>5, <1>7, <1>8 DEF IInv

\* prepareRun starts from a list that holds nothing open.
LEMMA PrepareInv == ASSUME IInv, prepareRun PROVE IInv'
<1>1. ~Open /\ phase = "idle" /\ Open' /\ phase' = "register"
  BY DEF prepareRun, Open
<1>2. queued = {} /\ \A p \in Threads : Free(p)
  BY <1>1, Resting
<1>3. \A p \in Threads : /\ th'[p].pc = th[p].pc /\ th'[p].mode = th[p].mode
                         /\ th'[p].handle = th[p].handle /\ th'[p].value = th[p].value
                         /\ th'[p].curr = th[p].curr /\ th'[p].skip = th[p].skip
                         /\ th'[p] \in ThreadType
  BY SMTT(30) DEF prepareRun, IInv, TypeInv, ThreadType
<1>4. \A p \in Threads : ~Carries(p)' /\ th'[p].skip = {}
  BY <1>2, <1>3 DEF Free, Carries
<1>5. \A t \in Tasks : initialInDegree(t) \in Nat
  BY Constants, Finite DEF initialInDegree
<1>6. TypeInv'
  <2>1. inDegree' \in [Tasks -> [low : Int, up : Int]]
    BY <1>5 DEF prepareRun
  <2>2. pending' \in Int
    BY Finite DEF prepareRun
  <2>3. th' \in [Threads -> ThreadType]
    BY <1>3 DEF prepareRun
  <2> QED
    BY <2>1, <2>2, <2>3 DEF prepareRun, IInv, TypeInv, Phases
<1>7. OnNode' /\ Arming' /\ OldResolved'
  <2>1. OnNode' /\ Arming'
    BY <1>1, <1>3 DEF prepareRun, IInv, OnNode, Arming
  <2>2. head' = head /\ next' = next /\ satisfied' = satisfied
    BY DEF prepareRun
  <2>3. ASSUME NEW w \in Waits,
               w = head' \/ (\E v \in Waits : next'[v] = w) \/ (\E p \in Threads : th'[p].curr = w)
        PROVE  satisfied'[w]
    <3>1. w = head \/ (\E v \in Waits : next[v] = w) \/ (\E p \in Threads : th[p].curr = w)
      BY <1>3, <2>2, <2>3
    <3> QED
      BY <1>1, <2>2, <3>1 DEF IInv, OldResolved
  <2> QED
    BY <2>1, <2>3 DEF OldResolved
<1>8. Carried' /\ Skipping'
  BY <1>4 DEF Carried, Skipping
<1>9. \A w \in Waits : WaitOpen(w)'
  BY DEF prepareRun, WaitOpen
<1>10. Degrees'
  <2>1. ASSUME NEW t \in Tasks
        PROVE  OpenWaits(t)' = WaitsOf(t) /\ OpenEdges(t)' = Predecessors(t)
    BY <1>9, Constants DEF prepareRun, OpenWaits, OpenEdges
  <2> QED
    BY <2>1 DEF prepareRun, Degrees, initialInDegree
<1>11. States'
  BY <1>2 DEF prepareRun, States
<1>12. Tally'
  <2>1. Unfinished' = Tasks
    BY DEF prepareRun, Unfinished
  <2> QED
    BY <2>1 DEF prepareRun, Tally
<1>13. Reached'
  <2>1. \A p \in Threads : th'[p].pc \notin {"claimed", "deliver"}
    BY <1>4 DEF Carries
  <2>2. expired' = {} /\ completed' = completed
    BY DEF prepareRun
  <2>3. ASSUME NEW p \in Threads
        PROVE  /\ th'[p].mode = "notify" =>
                     th'[p].handle \in Handles /\ th'[p].value <= completed[th'[p].handle]
               /\ th'[p].pc = "cas" /\ th'[p].mode # "timeout" => Signalled(th'[p].curr)
    BY <1>3 DEF IInv, Reached
  <2> QED
    BY <1>9, <2>1, <2>2, <2>3 DEF Reached, Signalled
<1>14. Flagged'
  <2>1. \A p \in Threads : th'[p].pc # "cancel"
    BY <1>4 DEF Carries
  <2> QED
    BY <2>1 DEF prepareRun, Flagged
<1>15. Listed'
  <2>1. ListFrom(head)' = {}
    <3>1. head' = None /\ next' = next
      BY <1>1 DEF prepareRun, IInv, Listed
    <3>2. ListFrom(head)' = ListFrom(None)
      BY <3>1 DEF ListFrom
    <3> QED
      BY <3>2, EmptyList
  <2>2. Waiting' = {} /\ Claims' = {}
    BY <1>4 DEF prepareRun, Waiting, Claims, Carries
  <2>3. count' = 0 /\ toRegister' = Waits
    BY <1>1 DEF prepareRun, IInv, Listed
  <2> QED
    BY <1>1, <2>1, <2>2, <2>3, FS_EmptySet DEF Listed
<1>16. RunsAfterSignal' /\ TimeoutReported'
  BY <1>1, <1>2 DEF prepareRun, RunsAfterSignal, TimeoutReported
<1> QED
  BY <1>6, <1>7, <1>8, <1>10, <1>11, <1>12, <1>13, <1>14, <1>15, <1>16 DEF IInv

\* A node in front of the list: the list is the old one and the node.
LEMMA PushList ==
    ASSUME TypeInv, NEW w \in Waits, w \notin ListFrom(head),
           head' = w, next' = [next EXCEPT ![w] = head]
    PROVE  ListFrom(head)' = ListFrom(head) \cup {w}
<1> DEFINE L == ListFrom(head)
           Within(S) == (w \in Waits => w \in S)
                        /\ \A y \in S : next'[y] \in Waits => next'[y] \in S
<1>1. L \subseteq Waits /\ w \notin L
  BY DEF ListFrom
<1>2. (head \in Waits => head \in L) /\ \A y \in L : next[y] \in Waits => next[y] \in L
  BY DEF ListFrom
<1>3. next'[w] = head /\ \A y \in Waits : y # w => next'[y] = next[y]
  BY DEF TypeInv
<1>4. ListFrom(head)' = {x \in Waits : \A S \in SUBSET Waits : Within(S) => x \in S}
  BY DEF ListFrom
<1>5. Within(L \cup {w})
  BY <1>1, <1>2, <1>3
<1>6. ASSUME NEW S \in SUBSET Waits, Within(S), NEW x \in L PROVE x \in S
  <2> DEFINE T == S \cap L
  <2>1. T \in SUBSET Waits
    OBVIOUS
  <2>2. head \in Waits => head \in T
    BY <1>2, <1>3, <1>6
  <2>3. \A y \in T : next[y] \in Waits => next[y] \in T
    BY <1>1, <1>2, <1>3, <1>6
  <2>4. x \in T
    BY <1>6, <2>1, <2>2, <2>3 DEF ListFrom
  <2> QED
    BY <2>4
<1>7. L \cup {w} \in SUBSET Waits
  BY <1>1
<1> HIDE DEF L
<1>8. ListFrom(head)' \subseteq L \cup {w}
  BY <1>4, <1>5, <1>7
<1>9. L \cup {w} \subseteq ListFrom(head)'
  BY <1>4, <1>6, <1>7
<1> QED
  BY <1>8, <1>9 DEF L

\* A wait is armed: it was open, and it still is.
LEMMA ArmInv ==
    ASSUME IInv, NEW w \in Waits, RegisterArm(w)
    PROVE  IInv'
<1> USE DEF graph
<1>1. /\ phase = "register" /\ phase' = "push" /\ Open /\ Open' /\ w \in toRegister
      /\ arming = None /\ arming' = w
      /\ UNCHANGED <<completed, clock, head, next, count, hasTimeout, inDegree, state, pending,
                     queued, status, th, expired>>
      /\ satisfied' = [satisfied EXCEPT ![w] = FALSE] /\ toRegister' = toRegister \ {w}
  BY DEF RegisterArm, Open, IInv, Arming
<1>2. TypeInv' /\ OnNode' /\ Arming'
  BY <1>1 DEF IInv, TypeInv, OnNode, Arming, Phases
<1>3. satisfied \in [Waits -> BOOLEAN] /\ toRegister \subseteq Waits
  BY DEF IInv, TypeInv
<1>4. ~satisfied'[w] /\ \A v \in Waits : v # w => satisfied'[v] = satisfied[v]
  BY <1>1, <1>3
<1>5. \A v \in Waits : WaitOpen(v)' <=> WaitOpen(v)
  BY <1>1, <1>4 DEF WaitOpen, CarriedBy, Carries
<1>6. OldResolved'
  BY <1>1, <1>3, <1>4 DEF IInv, OldResolved
<1>7. Carried'
  BY <1>1, <1>4 DEF IInv, Carried, Carries
<1>8. Skipping' /\ Tally' /\ Flagged'
  BY <1>1 DEF IInv, Skipping, Tally, Unfinished, Flagged
<1>9. Degrees'
  <2>1. ASSUME NEW t \in Tasks PROVE OpenWaits(t)' = OpenWaits(t) /\ OpenEdges(t)' = OpenEdges(t)
    BY <1>1, <1>5, Constants DEF OpenWaits, OpenEdges
  <2> QED
    BY <1>1, <2>1 DEF IInv, Degrees
<1>10. States'
  BY <1>1, <1>5, Constants DEF IInv, States
<1>11. Reached'
  <2>1. ASSUME NEW v \in Waits
        PROVE  /\ ~WaitOpen(v)' /\ state[TaskOf[v]] # "Timeout" => Answered(v)
               /\ v \in toRegister' \/ ~satisfied'[v] => v \notin expired
    BY <1>1, <1>4, <1>5 DEF IInv, Reached
  <2> QED
    BY <1>1, <2>1 DEF IInv, Reached, Answered, Signalled
<1>12. Listed'
  <2>1. count = Cardinality(Waiting) + Cardinality(Claims)
    <3>1. Cardinality(Waiting) \in Nat /\ Cardinality(Claims) \in Nat
      BY Finite DEF Waiting, Claims
    <3>2. count = Cardinality(Waiting) + Cardinality(Claims) - 0
      BY <1>1 DEF IInv, Listed
    <3> QED
      BY <3>1, <3>2
  <2>2. ListFrom(head)' = ListFrom(head)
    BY <1>1 DEF ListFrom
  <2>3. ListFrom(head)' = Waits \ (toRegister' \cup {arming'})
    BY <1>1, <2>2, Constants DEF IInv, Listed
  <2>4. Waiting' = Waiting \cup {w} /\ w \notin Waiting /\ Claims' = Claims
    BY <1>1, <1>4 DEF Waiting, Claims
  <2>5. Waiting \in SUBSET Waits /\ Claims \in SUBSET Threads
    BY DEF Waiting, Claims
  <2>6. Cardinality(Waiting') = Cardinality(Waiting) + 1 /\ Cardinality(Waiting) \in Nat
        /\ Cardinality(Claims) \in Nat
    BY <2>4, <2>5, Finite, FS_AddElement
  <2>7. count' = Cardinality(Waiting') + Cardinality(Claims') - 1
    BY <1>1, <2>1, <2>4, <2>6
  <2> QED
    BY <1>1, <2>3, <2>7 DEF Listed
<1>13. RunsAfterSignal' /\ TimeoutReported'
  BY <1>1 DEF IInv, RunsAfterSignal, TimeoutReported
<1> QED
  BY <1>2, <1>6, <1>7, <1>8, <1>9, <1>10, <1>11, <1>12, <1>13 DEF IInv

\* registerWait links a node that is not in the list yet.
LEMMA PushInv == ASSUME IInv, RegisterPush PROVE IInv'
<1> USE DEF graph
<1> PICK w : w = arming
  OBVIOUS
<1>1. /\ phase = "push" /\ phase' = "count" /\ Open /\ Open'
      /\ w \in Waits /\ w \notin toRegister /\ arming' = None
      /\ UNCHANGED <<completed, clock, satisfied, count, hasTimeout, inDegree, state, pending,
                     queued, toRegister, status, th, expired>>
      /\ head' = w /\ next' = [next EXCEPT ![w] = head]
  BY DEF RegisterPush, Open, IInv, Arming
<1>2. TypeInv' /\ OnNode' /\ Arming'
  BY <1>1 DEF IInv, TypeInv, OnNode, Arming, Phases
<1>3. next'[w] = head /\ \A v \in Waits : v # w => next'[v] = next[v]
  BY <1>1 DEF IInv, TypeInv
<1>4. \A v \in Waits : WaitOpen(v)' <=> WaitOpen(v)
  BY <1>1 DEF WaitOpen, CarriedBy, Carries
<1>5. OldResolved'
  <2>1. ASSUME NEW v \in Waits, v \in toRegister,
               v = head' \/ (\E u \in Waits : next'[u] = v) \/ (\E p \in Threads : th'[p].curr = v)
        PROVE  satisfied[v]
    <3>1. v = head \/ (\E u \in Waits : next[u] = v) \/ (\E p \in Threads : th[p].curr = v)
      BY <1>1, <1>3, <2>1
    <3> QED
      BY <2>1, <3>1 DEF IInv, OldResolved
  <2> QED
    BY <1>1, <2>1 DEF OldResolved
<1>6. Carried' /\ Skipping' /\ Tally' /\ Flagged'
  BY <1>1 DEF IInv, Carried, Carries, Skipping, Tally, Unfinished, Flagged
<1>7. Degrees'
  <2>1. ASSUME NEW t \in Tasks PROVE OpenWaits(t)' = OpenWaits(t) /\ OpenEdges(t)' = OpenEdges(t)
    BY <1>1, <1>4, Constants DEF OpenWaits, OpenEdges
  <2> QED
    BY <1>1, <2>1 DEF IInv, Degrees
<1>8. States'
  BY <1>1, <1>4, Constants DEF IInv, States
<1>9. Reached'
  BY <1>1, <1>4 DEF IInv, Reached, Answered, Signalled
<1>10. Listed'
  <2>1. ListFrom(head) = Waits \ (toRegister \cup {w})
    BY <1>1 DEF IInv, Listed
  <2>2. ListFrom(head)' = ListFrom(head) \cup {w}
    BY <1>1, <2>1, PushList DEF IInv
  <2>3. ListFrom(head)' = Waits \ (toRegister' \cup {arming'})
    BY <1>1, <2>1, <2>2, Constants
  <2>4. Waiting' = Waiting /\ Claims' = Claims
    BY <1>1 DEF Waiting, Claims
  <2>5. count' = Cardinality(Waiting') + Cardinality(Claims') - 1
    BY <1>1, <2>4 DEF IInv, Listed
  <2> QED
    BY <1>1, <2>3, <2>5 DEF Listed
<1>11. RunsAfterSignal' /\ TimeoutReported'
  BY <1>1 DEF IInv, RunsAfterSignal, TimeoutReported
<1> QED
  BY <1>2, <1>5, <1>6, <1>7, <1>8, <1>9, <1>10, <1>11 DEF IInv

\* registerWait counts the node it has linked, and the tasks without
\* dependencies are scheduled when every wait is registered.
LEMMA RegisteredInv ==
    ASSUME IInv, RegisterCount \/ ScheduleRoots
    PROVE  IInv'
<1> USE DEF reactor, graph
<1>1. /\ Open /\ Open' /\ phase # "help" /\ phase # "reset" /\ phase' # "reset"
      /\ phase # "push" /\ phase' # "push"
      /\ UNCHANGED <<completed, clock, head, next, satisfied, hasTimeout, inDegree, state,
                     pending, toRegister, arming, status, th, expired>>
  BY DEF RegisterCount, ScheduleRoots, Open
<1>2. count' \in Int /\ queued' \subseteq Tasks /\ phase' \in Phases
  BY DEF RegisterCount, ScheduleRoots, IInv, TypeInv, Phases
<1>3. TypeInv' /\ OnNode' /\ Arming' /\ OldResolved' /\ Carried' /\ Skipping'
  BY <1>1, <1>2 DEF IInv, TypeInv, OnNode, Arming, OldResolved, Carried, Carries, Skipping
<1>4. Degrees' /\ Tally' /\ Flagged' /\ TimeoutReported'
  BY <1>1 DEF IInv, Degrees, OpenWaits, OpenEdges, WaitOpen, CarriedBy, Carries, Tally,
     Unfinished, Flagged, TimeoutReported
<1>5. \A w \in Waits : WaitOpen(w)' <=> WaitOpen(w)
  BY <1>1 DEF WaitOpen, CarriedBy, Carries
<1>6. Reached'
  BY <1>1, <1>5 DEF IInv, Reached, Answered, Signalled
<1>7. Cardinality(Waiting) \in Nat /\ Cardinality(Claims) \in Nat /\ Waiting' = Waiting
      /\ Claims' = Claims /\ ListFrom(head)' = ListFrom(head)
  BY <1>1, Finite DEF Waiting, Claims, ListFrom
<1>8. ListFrom(head)' = Waits \ (toRegister' \cup {arming'})
  BY <1>1, <1>7 DEF IInv, Listed
<1>9. CASE RegisterCount
  <2>1. phase = "count" /\ phase' = "register" /\ count' = count + 1 /\ queued' = queued
    BY <1>9 DEF RegisterCount
  <2>2. count = Cardinality(Waiting) + Cardinality(Claims) - 1
    BY <1>1, <2>1 DEF IInv, Listed
  <2>3. count' = Cardinality(Waiting') + Cardinality(Claims') - 0
    BY <1>7, <2>1, <2>2
  <2>4. Listed'
    BY <1>8, <2>1, <2>3 DEF Listed
  <2>5. States' /\ RunsAfterSignal'
    BY <1>1, <1>5, <2>1, Constants DEF IInv, States, RunsAfterSignal
  <2> QED
    BY <1>3, <1>4, <1>6, <2>4, <2>5 DEF IInv
<1>10. CASE ScheduleRoots
  <2>1. /\ phase = "register" /\ phase' = "help" /\ count' = count /\ toRegister = {}
        /\ queued' = queued \cup {t \in Tasks : initialInDegree(t) = 0}
    BY <1>10 DEF ScheduleRoots
  <2>2. Listed'
    <3>1. count' = Cardinality(Waiting') + Cardinality(Claims') - 0
      BY <1>1, <1>7, <2>1 DEF IInv, Listed
    <3> QED
      BY <1>1, <1>8, <2>1, <3>1 DEF Listed
  <2>3. ASSUME NEW t \in Tasks, initialInDegree(t) = 0
        PROVE  WaitsOf(t) = {} /\ inDegree[t].low = 0 /\ state[t] = "Pending"
    <3>1. /\ IsFiniteSet(WaitsOf(t)) /\ Cardinality(WaitsOf(t)) \in Nat
          /\ IsFiniteSet(Predecessors(t)) /\ Cardinality(Predecessors(t)) \in Nat
      BY Constants, Finite
    <3>2. WaitsOf(t) = {} /\ Predecessors(t) = {}
      BY <2>3, <3>1, NoneLeft DEF initialInDegree
    <3>3. OpenWaits(t) = {} /\ OpenEdges(t) = {}
      BY <3>2 DEF OpenWaits, OpenEdges
    <3>4. inDegree[t].low = 0
      BY <1>1, <3>3, FS_EmptySet DEF IInv, Degrees
    <3> QED
      BY <1>1, <2>3, <3>2, <3>4 DEF IInv, States
  <2>4. States'
    BY <1>1, <1>5, <2>1, <2>3, Constants DEF IInv, States
  <2>5. RunsAfterSignal'
    BY <1>1, <2>1, <2>3 DEF IInv, RunsAfterSignal
  <2> QED
    BY <1>3, <1>4, <1>6, <2>2, <2>4, <2>5 DEF IInv
<1> QED
  BY <1>9, <1>10

\* When runAndWait returns every wait of the run is resolved, and the reset
\* of the list drops nothing.
LEMMA ReturnInv ==
    ASSUME WaitsApart, IInv, Return \/ ResetHead \/ ResetCount
    PROVE  IInv'
<1> USE DEF reactor, graph
<1>1. /\ ~Open' /\ UNCHANGED <<completed, clock, next, satisfied, inDegree, state, pending,
                               queued, toRegister, arming, th, expired>>
      /\ head' \in {head, None} /\ count' \in {count, 0} /\ hasTimeout' \in {hasTimeout, FALSE}
      /\ phase' \in Phases
  BY DEF Return, ResetHead, ResetCount, Open, Phases
<1>2. /\ queued = {} /\ \A p \in Threads : Free(p)
      /\ phase = "help" => \A w \in Waits : ~WaitOpen(w)
  <2>1. CASE Open
    <3>1. pending = 0
      BY <2>1 DEF Return, ResetHead, ResetCount, Open
    <3> QED
      BY <2>1, <3>1, Quiet
  <2>2. CASE ~Open
    BY <2>2, Resting DEF Open
  <2> QED
    BY <2>1, <2>2
<1>3. TypeInv' /\ OnNode' /\ Arming'
  <2>1. head' \in Waits \cup {None} /\ count' \in Int
    BY <1>1 DEF IInv, TypeInv
  <2>2. hasTimeout' \in BOOLEAN
    <3>1. hasTimeout \in BOOLEAN
      BY DEF IInv, TypeInv
    <3> QED
      BY <1>1, <3>1, Zenon
  <2>3. OnNode' /\ Arming'
    BY <1>1 DEF IInv, OnNode, Arming, Return, ResetHead, ResetCount
  <2> QED
    BY <1>1, <2>1, <2>2, <2>3 DEF IInv, TypeInv
<1>4. phase = "help" => \A w \in Waits : satisfied[w]
  BY <1>2 DEF WaitOpen
<1>5. OldResolved'
  <2>1. ASSUME NEW w \in Waits,
               w = head' \/ (\E v \in Waits : next'[v] = w) \/ (\E p \in Threads : th'[p].curr = w)
        PROVE  satisfied'[w]
    <3>1. w = head \/ (\E v \in Waits : next[v] = w) \/ (\E p \in Threads : th[p].curr = w)
      BY <1>1, <2>1, Constants
    <3>2. ~Open \/ phase = "help"
      BY DEF Return, ResetHead, ResetCount, Open
    <3> QED
      BY <1>1, <1>4, <3>1, <3>2 DEF IInv, OldResolved
  <2> QED
    BY <2>1 DEF OldResolved
<1>6. Carried' /\ Skipping'
  BY <1>1, <1>2 DEF Carried, Skipping, Free, Carries
<1>7. Degrees' /\ States' /\ Tally' /\ Flagged'
  BY <1>1, <1>2 DEF Degrees, States, Tally, Flagged
<1>8. Reached'
  BY <1>1 DEF IInv, Reached, Answered, Signalled
<1>9. RunsAfterSignal'
  BY <1>1 DEF IInv, RunsAfterSignal
<1>10. CASE Return
  <2>1. /\ phase = "help" /\ phase' = "reset" /\ count' = count /\ toRegister = {} /\ Open
        /\ status' = IF hasTimeout THEN "GpuTimeout" ELSE "Success"
    BY <1>10 DEF Return, IInv, Listed, Open
  <2>2. Waiting = {} /\ Claims = {}
    BY <1>2, <1>4, <2>1 DEF Waiting, Claims, Free, Carries
  <2>3. count = Cardinality({}) + Cardinality({}) - 0
    BY <2>1, <2>2 DEF IInv, Listed
  <2>4. count' = 0
    BY <2>1, <2>3, FS_EmptySet
  <2>5. Listed'
    BY <1>1, <1>4, <2>1, <2>4 DEF Listed
  <2>6. hasTimeout <=> \E t \in Tasks : state[t] = "Timeout"
    BY <1>2, <2>1 DEF IInv, Flagged, Free, Carries
  <2>7. TimeoutReported'
    BY <1>1, <2>1, <2>6 DEF TimeoutReported
  <2> QED
    BY <1>3, <1>5, <1>6, <1>7, <1>8, <1>9, <2>5, <2>7 DEF IInv
<1>11. CASE ResetHead
  <2>1. phase' = "resetCount" /\ head' = None
    BY <1>11 DEF ResetHead
  <2>2. Listed' /\ TimeoutReported'
    BY <1>1, <2>1 DEF Listed, TimeoutReported
  <2> QED
    BY <1>3, <1>5, <1>6, <1>7, <1>8, <1>9, <2>2 DEF IInv
<1>12. CASE ResetCount
  <2>1. phase = "resetCount" /\ phase' = "idle" /\ head' = head /\ count' = 0
    BY <1>12 DEF ResetCount
  <2>2. Listed' /\ TimeoutReported'
    BY <1>1, <2>1 DEF IInv, Listed, TimeoutReported
  <2> QED
    BY <1>3, <1>5, <1>6, <1>7, <1>8, <1>9, <2>2 DEF IInv
<1> QED
  BY <1>10, <1>11, <1>12

----------------------------------------------------------------------------
(* The tasks, and the waits that are resolved.                             *)

\* A task that runs delivers a dependency to each of its successors, and
\* a successor becomes ready only when all its waits are reached.
LEMMA ExecuteInv ==
    ASSUME WaitsApart, IInv, NEW t \in Tasks, ExecuteTask(t)
    PROVE  IInv'
<1> USE DEF reactor, run
<1>1. /\ t \in queued /\ state' = [state EXCEPT ![t] = "Completed"]
      /\ inDegree' = Activated(Successors[t])
      /\ queued' = (queued \ {t}) \cup Unblocked(Successors[t]) /\ pending' = pending - 1
      /\ UNCHANGED <<completed, clock, head, next, satisfied, count, hasTimeout, phase,
                     toRegister, arming, status, th, expired>>
  BY DEF ExecuteTask
<1>2. Open /\ Open' /\ state[t] = "Pending" /\ inDegree[t].low = 0
  BY <1>1 DEF IInv, States, Open
<1>3. OpenWaits(t) = {} /\ OpenEdges(t) = {}
  BY <1>2, Owing DEF IInv
<1>4. state'[t] = "Completed" /\ \A x \in Tasks : x # t => state'[x] = state[x]
  BY <1>1 DEF IInv, TypeInv
<1>5. \A s \in Successors[t] : s \in Tasks /\ t \in OpenEdges(s) /\ s # t
  BY <1>2, <1>3, Constants DEF OpenEdges, Predecessors
<1>6. /\ inDegree' \in [Tasks -> [low : Int, up : Int]]
      /\ \A s \in Tasks : inDegree'[s].low =
            IF s \in Successors[t] THEN inDegree[s].low - 1 ELSE inDegree[s].low
  BY <1>1 DEF Activated, IInv, TypeInv
<1>7. Unblocked(Successors[t]) = {s \in Successors[t] : inDegree[s].low = 1}
  BY DEF Unblocked
<1>8. TypeInv' /\ OnNode' /\ Arming' /\ OldResolved'
  <2>1. queued' \subseteq Tasks /\ pending' \in Int
    BY <1>1, <1>5, <1>7 DEF IInv, TypeInv
  <2>2. state' \in [Tasks -> {"Pending", "Completed", "Skipped", "Timeout"}]
    BY <1>1 DEF IInv, TypeInv
  <2>3. TypeInv'
    BY <1>1, <1>6, <2>1, <2>2 DEF IInv, TypeInv
  <2> QED
    BY <1>1, <1>2, <2>3 DEF IInv, OnNode, Arming, OldResolved
<1>9. \A w \in Waits : WaitOpen(w)' <=> WaitOpen(w)
  BY <1>1 DEF WaitOpen, CarriedBy, Carries
<1>10. Carried'
  <2>1. ASSUME NEW p \in Threads, Carries(p) PROVE state'[TaskOf[th[p].curr]] = "Pending"
    <3>1. th[p].curr \in Waits /\ state[TaskOf[th[p].curr]] = "Pending"
      BY <2>1 DEF IInv, Carried
    <3>2. WaitOpen(th[p].curr)
      BY <2>1 DEF WaitOpen, CarriedBy
    <3>3. TaskOf[th[p].curr] # t
      BY <1>3, <3>1, <3>2 DEF OpenWaits, WaitsOf
    <3> QED
      BY <1>4, <3>1, <3>3, Constants
  <2> QED
    BY <1>1, <1>2, <2>1 DEF IInv, Carried, Carries
<1>11. Skipping'
  <2>1. ASSUME NEW p \in Threads, NEW e \in th[p].skip
        PROVE  state'[e[1]] \in {"Timeout", "Skipped"}
    <3>1. e[1] \in Tasks /\ state[e[1]] \in {"Timeout", "Skipped"}
      BY OpenEdgePending DEF IInv, Skipping
    <3> QED
      BY <1>2, <1>4, <3>1
  <2> QED
    BY <1>1, <1>2, <2>1 DEF IInv, Skipping
<1>12. \A s \in Tasks : OpenWaits(s)' = OpenWaits(s)
  BY <1>2, <1>4, <1>9, Constants DEF OpenWaits
<1>13. \A s \in Tasks : OpenEdges(s)' = OpenEdges(s) \ {t}
  <2>1. \A s \in Tasks, p \in Threads : <<t, s>> \notin th[p].skip
    BY <1>2 DEF IInv, Skipping
  <2> QED
    BY <1>1, <1>2, <1>4, <2>1, Constants DEF OpenEdges
<1>14. Degrees'
  <2>1. ASSUME NEW s \in Tasks
        PROVE  inDegree'[s].low = Cardinality(OpenWaits(s)') + Cardinality(OpenEdges(s)')
    <3>1. /\ IsFiniteSet(OpenEdges(s)) /\ Cardinality(OpenEdges(s)) \in Nat
          /\ Cardinality(OpenWaits(s)) \in Nat
          /\ inDegree[s].low = Cardinality(OpenWaits(s)) + Cardinality(OpenEdges(s))
      BY <1>2, Owing DEF IInv
    <3>2. CASE s \in Successors[t]
      <4>1. Cardinality(OpenEdges(s) \ {t}) = Cardinality(OpenEdges(s)) - 1
        BY <1>5, <3>1, <3>2, FS_RemoveElement
      <4>2. inDegree'[s].low = inDegree[s].low - 1
        BY <1>6, <3>2
      <4>3. Cardinality(OpenEdges(s)') = Cardinality(OpenEdges(s)) - 1
        BY <1>13, <4>1
      <4> QED
        BY <1>12, <3>1, <4>2, <4>3
    <3>3. CASE s \notin Successors[t]
      <4>1. OpenEdges(s) \ {t} = OpenEdges(s)
        BY <3>3 DEF OpenEdges, Predecessors
      <4> QED
        BY <1>6, <1>12, <1>13, <3>1, <3>3, <4>1
    <3> QED
      BY <3>2, <3>3
  <2> QED
    BY <2>1 DEF Degrees
<1>15. ASSUME NEW s \in Successors[t]
       PROVE  /\ inDegree[s].low # 0 /\ s \notin queued /\ initialInDegree(s) # 0
              /\ inDegree[s].low = 1 => state[s] = "Pending" /\ OpenWaits(s) = {}
  <2>1. s \in Tasks /\ t \in OpenEdges(s) /\ t \in Predecessors(s)
    BY <1>5 DEF OpenEdges
  <2>2. inDegree[s].low # 0 /\ (inDegree[s].low = 1 => OpenWaits(s) = {})
    BY <1>2, <2>1, Owing DEF IInv
  <2>3. initialInDegree(s) # 0
    <3>1. /\ IsFiniteSet(Predecessors(s)) /\ Cardinality(Predecessors(s)) \in Nat
          /\ Cardinality(WaitsOf(s)) \in Nat
      BY <2>1, Constants, Finite
    <3>2. Cardinality(Predecessors(s)) # 0
      BY <2>1, <3>1, NoneLeft
    <3> QED
      BY <3>1, <3>2 DEF initialInDegree
  <2>4. s \notin queued
    BY <1>2, <2>1, <2>2 DEF IInv, States
  <2>5. ASSUME inDegree[s].low = 1 PROVE state[s] = "Pending"
    <3>1. state[s] # "Timeout"
      BY <1>2, <2>1, <2>2, <2>5 DEF IInv, States, OpenWaits
    <3> QED
      BY <1>2, <2>1, <2>2, <3>1 DEF IInv, States, TypeInv
  <2> QED
    BY <2>2, <2>3, <2>4, <2>5
<1>16. States'
  <2>1. \A s \in queued' : (s \in queued /\ s # t) \/ (s \in Successors[t] /\ inDegree[s].low = 1)
    BY <1>1, <1>7
  <2>2. ASSUME NEW s \in queued' PROVE state'[s] = "Pending" /\ inDegree'[s].low = 0
    <3>1. CASE s \in queued /\ s # t
      <4>1. s \in Tasks /\ state[s] = "Pending" /\ inDegree[s].low = 0
        BY <1>2, <3>1 DEF IInv, States, TypeInv
      <4> QED
        BY <1>4, <1>6, <1>15, <3>1, <4>1
    <3>2. CASE s \in Successors[t] /\ inDegree[s].low = 1
      BY <1>4, <1>5, <1>6, <1>15, <3>2
    <3> QED
      BY <2>1, <3>1, <3>2
  <2>3. ASSUME NEW s \in Tasks, state'[s] \in {"Completed", "Skipped"} PROVE inDegree'[s].low = 0
    <3>1. inDegree[s].low = 0
      BY <1>2, <1>4, <2>3 DEF IInv, States
    <3> QED
      BY <1>6, <1>15, <3>1
  <2>4. ASSUME NEW s \in Tasks, state'[s] \in {"Skipped", "Timeout"}
        PROVE  /\ s \in Doomed
               /\ state'[s] = "Timeout" => WaitsOf(s) # {} /\ \A w \in WaitsOf(s) : ~WaitOpen(w)'
    <3>1. s # t /\ state[s] = state'[s]
      BY <1>4, <2>4
    <3> QED
      BY <1>2, <1>9, <2>4, <3>1, Constants DEF IInv, States
  <2>5. ASSUME NEW s \in Tasks, phase' # "help", initialInDegree(s) = 0
        PROVE  state'[s] = "Pending" /\ s \notin queued'
    <3>1. state[s] = "Pending" /\ s \notin queued
      BY <1>1, <1>2, <2>5 DEF IInv, States
    <3> QED
      BY <1>1, <1>4, <1>15, <2>1, <2>5, <3>1
  <2> QED
    BY <1>2, <2>2, <2>3, <2>4, <2>5 DEF States
<1>17. Tally'
  <2>1. Unfinished' = Unfinished \ {t} /\ t \in Unfinished /\ Unfinished \in SUBSET Tasks
    BY <1>2, <1>4 DEF Unfinished
  <2>2. Cardinality(Unfinished') = Cardinality(Unfinished) - 1
    BY <2>1, Finite, FS_RemoveElement
  <2> QED
    BY <1>1, <1>2, <2>2 DEF IInv, Tally
<1>18. Reached'
  <2>1. \A w \in Waits : state'[TaskOf[w]] # "Timeout" => state[TaskOf[w]] # "Timeout"
    BY <1>2, <1>4, Constants
  <2> QED
    BY <1>1, <1>2, <1>9, <2>1 DEF IInv, Reached, Answered, Signalled
<1>19. Flagged'
  <2>1. \A s \in Tasks : state'[s] = "Timeout" <=> state[s] = "Timeout"
    BY <1>2, <1>4
  <2> QED
    BY <1>1, <1>2, <2>1 DEF IInv, Flagged
<1>20. Listed' /\ TimeoutReported'
  <2>1. Claims' = Claims /\ Waiting' = Waiting /\ ListFrom(head)' = ListFrom(head)
    BY <1>1 DEF Claims, Waiting, ListFrom
  <2> QED
    BY <1>1, <1>2, <2>1 DEF IInv, Listed, TimeoutReported, Open
<1>21. RunsAfterSignal'
  <2>1. ASSUME NEW s \in Tasks, s \in queued' \/ state'[s] = "Completed", NEW w \in WaitsOf(s)
        PROVE  Answered(w)
    <3>1. CASE s \in queued \/ state[s] = "Completed"
      BY <3>1 DEF IInv, RunsAfterSignal, Answered, Signalled
    <3>2. CASE s \in Successors[t] /\ inDegree[s].low = 1
      <4>1. w \in Waits /\ TaskOf[w] = s /\ OpenWaits(s) = {} /\ state[s] = "Pending"
        BY <1>15, <3>2 DEF WaitsOf
      <4>2. ~WaitOpen(w)
        BY <4>1 DEF OpenWaits
      <4> QED
        BY <1>2, <4>1, <4>2 DEF IInv, Reached
    <3> QED
      BY <1>1, <1>4, <1>7, <2>1, <3>1, <3>2
  <2> QED
    BY <1>1, <2>1 DEF RunsAfterSignal, Answered, Signalled
<1> QED
  BY <1>8, <1>10, <1>11, <1>14, <1>16, <1>17, <1>18, <1>19, <1>20, <1>21 DEF IInv

\* The compare-and-swap: the wait passes from the list to the thread that
\* won it, and its task goes on waiting.
LEMMA ClaimInv ==
    ASSUME IInv, NEW p \in Threads, Claim(p)
    PROVE  IInv'
<1> PICK w : w = th[p].curr
  OBVIOUS
<1> USE DEF graph, run
<1>1. /\ th[p].pc = "cas" /\ ~satisfied[w]
      /\ satisfied' = [satisfied EXCEPT ![w] = TRUE] /\ Goto(p, "claimed")
      /\ expired' = IF th[p].mode = "timeout" THEN expired \cup {w} ELSE expired
      /\ UNCHANGED <<completed, clock, head, next, count, hasTimeout, inDegree, state, pending,
                     queued, phase, toRegister, arming, status>>
  BY DEF Claim
<1>2. TypeInv /\ th[p] \in ThreadType /\ satisfied \in [Waits -> BOOLEAN]
  BY DEF IInv, TypeInv
<1>3. w \in Waits
  BY <1>1 DEF IInv, OnNode
<1>4. /\ th' \in [Threads -> ThreadType] /\ Others(p)
      /\ th'[p].pc = "claimed" /\ th'[p].mode = th[p].mode /\ th'[p].handle = th[p].handle
      /\ th'[p].value = th[p].value /\ th'[p].curr = w /\ th'[p].skip = th[p].skip
  BY <1>1, <1>2, GotoFacts DEF Labels
<1>5. Free(p)
  BY <1>1, FreeLabels DEF IInv
<1>6. Open /\ Open' /\ w \notin toRegister
  BY <1>1, <1>3 DEF IInv, OldResolved, Open
<1>7. WaitOpen(w) /\ state[TaskOf[w]] = "Pending"
  BY <1>1, <1>3, <1>6, OpenWaitPending DEF WaitOpen
<1>8. satisfied'[w] /\ \A v \in Waits : v # w => satisfied'[v] = satisfied[v]
  BY <1>1, <1>2, <1>3
<1>9. ~Carries(p) /\ Carries(p)' /\ \A q \in Threads : q # p => (Carries(q)' <=> Carries(q))
  BY <1>4, <1>5 DEF Free, Carries, Others
<1>10. \A v \in Waits : WaitOpen(v)' <=> WaitOpen(v)
  <2>1. WaitOpen(w)'
    BY <1>4, <1>9 DEF WaitOpen, CarriedBy
  <2>2. ASSUME NEW v \in Waits, v # w PROVE WaitOpen(v)' <=> WaitOpen(v)
    <3>1. ASSUME NEW q \in Threads PROVE CarriedBy(q, v)' <=> CarriedBy(q, v)
      BY <1>4, <1>9, <2>2 DEF CarriedBy, Others
    <3> QED
      BY <1>1, <1>8, <2>2, <3>1 DEF WaitOpen
  <2> QED
    BY <1>7, <2>1, <2>2
<1>11. TypeInv' /\ OnNode' /\ Arming'
  <2>1. satisfied' \in [Waits -> BOOLEAN]
    BY <1>1, <1>2
  <2>2. TypeInv'
    BY <1>1, <1>2, <1>4, <2>1 DEF TypeInv
  <2>3. OnNode' /\ Arming'
    BY <1>1, <1>4 DEF IInv, OnNode, Arming, Others
  <2> QED
    BY <2>2, <2>3
<1>12. OldResolved'
  <2>1. ASSUME NEW v \in Waits, satisfied[v] PROVE satisfied'[v]
    BY <1>8, <2>1
  <2>2. \A q \in Threads : th'[q].curr = th[q].curr
    BY <1>4 DEF Others
  <2> QED
    BY <1>1, <1>6, <2>1, <2>2 DEF IInv, OldResolved
<1>13. Carried'
  <2>1. ASSUME NEW q \in Threads, q # p, Carries(q)
        PROVE  /\ th'[q].curr \in Waits /\ th'[q].curr \notin toRegister /\ th'[q].curr # w
               /\ satisfied'[th'[q].curr] /\ state[TaskOf[th'[q].curr]] = "Pending"
    BY <1>1, <1>4, <1>8, <2>1 DEF IInv, Carried, Others
  <2>2. ASSUME NEW q \in Threads, q # p, Carries(q), NEW r \in Threads, r # p, r # q, Carries(r)
        PROVE  th'[r].curr # th'[q].curr
    BY <1>4, <2>2 DEF IInv, Carried, Others
  <2>3. ASSUME NEW q \in Threads, Carries(q)'
        PROVE  /\ th'[q].curr \in Waits /\ th'[q].curr \notin toRegister
               /\ satisfied'[th'[q].curr] /\ state[TaskOf[th'[q].curr]] = "Pending"
               /\ \A r \in Threads : r # q /\ Carries(r)' => th'[r].curr # th'[q].curr
    BY <1>3, <1>4, <1>6, <1>7, <1>8, <1>9, <2>1, <2>2, <2>3
  <2> QED
    BY <1>1, <1>6, <2>3 DEF Carried
<1>14. Skipping'
  BY <1>1, <1>4, <1>5, <1>6 DEF IInv, Skipping, Free, Others
<1>15. \A q \in Threads : th'[q].skip = th[q].skip
  BY <1>4 DEF Others
<1>16. Degrees'
  <2>1. ASSUME NEW t \in Tasks PROVE OpenWaits(t)' = OpenWaits(t) /\ OpenEdges(t)' = OpenEdges(t)
    BY <1>1, <1>10, <1>15, Constants DEF OpenWaits, OpenEdges
  <2> QED
    BY <1>1, <1>6, <2>1 DEF IInv, Degrees
<1>17. States' /\ Tally'
  BY <1>1, <1>6, <1>10, Constants DEF IInv, States, Tally, Unfinished
<1>18. Reached'
  <2> DEFINE Kept(v) == Signalled(v) /\ v \notin expired'
  <2>1. /\ th[p].mode # "timeout" => Kept(w)
        /\ \A v \in Waits : v # w => (Kept(v) <=> Answered(v))
    BY <1>1, <1>3, <1>6 DEF IInv, Reached, Answered
  <2> HIDE DEF Kept
  <2>2. ASSUME NEW q \in Threads
        PROVE  /\ th'[q].mode = "notify" =>
                     th'[q].handle \in Handles /\ th'[q].value <= completed[th'[q].handle]
               /\ th'[q].pc = "deliver" => th'[q].mode # "timeout"
               /\ th'[q].pc = "cas" /\ th'[q].mode # "timeout" => Signalled(th'[q].curr)
               /\ th'[q].pc \in {"claimed", "deliver"} /\ th'[q].mode # "timeout"
                     => Kept(th'[q].curr)
    <3>1. CASE q = p
      BY <1>1, <1>4, <2>1, <3>1 DEF IInv, Reached
    <3>2. CASE q # p
      <4>1. th'[q] = th[q]
        BY <1>4, <3>2 DEF Others
      <4>2. ASSUME Carries(q) PROVE th[q].curr \in Waits /\ th[q].curr # w
        BY <1>1, <4>2 DEF IInv, Carried
      <4> QED
        BY <2>1, <4>1, <4>2 DEF IInv, Reached, Carries
    <3> QED
      BY <3>1, <3>2
  <2>3. ASSUME NEW v \in Waits
        PROVE  /\ ~WaitOpen(v)' /\ state[TaskOf[v]] # "Timeout" => Kept(v)
               /\ v \in toRegister \/ ~satisfied'[v] => v \notin expired'
    <3>1. CASE v = w
      BY <1>6, <1>7, <1>8, <1>10, <3>1
    <3>2. CASE v # w
      BY <1>1, <1>6, <1>8, <1>10, <2>1, <3>2 DEF IInv, Reached
    <3> QED
      BY <3>1, <3>2
  <2> QED
    BY <1>1, <2>2, <2>3 DEF Reached, Answered, Signalled, Kept
<1>19. Flagged'
  <2>1. \A q \in Threads : th'[q].pc = "cancel" <=> th[q].pc = "cancel"
    BY <1>1, <1>4 DEF Others
  <2> QED
    BY <1>1, <1>6, <2>1 DEF IInv, Flagged
<1>20. Listed'
  <2>1. Waiting' = Waiting \ {w} /\ w \in Waiting /\ Waiting \in SUBSET Waits
    BY <1>1, <1>3, <1>6, <1>8 DEF Waiting
  <2>2. Claims' = Claims \cup {p} /\ p \notin Claims /\ Claims \in SUBSET Threads
    BY <1>1, <1>4 DEF Claims, Others
  <2>3. /\ Cardinality(Waiting') = Cardinality(Waiting) - 1 /\ Cardinality(Waiting) \in Nat
        /\ Cardinality(Claims') = Cardinality(Claims) + 1 /\ Cardinality(Claims) \in Nat
    <3>1. IsFiniteSet(Waiting) /\ Cardinality(Waiting) \in Nat
      BY <2>1, Finite
    <3>2. IsFiniteSet(Claims) /\ Cardinality(Claims) \in Nat
      BY <2>2, Finite
    <3>3. Cardinality(Waiting') = Cardinality(Waiting) - 1
      BY <2>1, <3>1, FS_RemoveElement
    <3>4. Cardinality(Claims') = Cardinality(Claims) + 1
      BY <2>2, <3>2, FS_AddElement
    <3> QED
      BY <3>1, <3>2, <3>3, <3>4
  <2>4. Cardinality(Waiting') + Cardinality(Claims') = Cardinality(Waiting) + Cardinality(Claims)
    BY <2>3
  <2>5. ListFrom(head)' = ListFrom(head)
    BY <1>1 DEF ListFrom
  <2>6. count' = Cardinality(Waiting') + Cardinality(Claims')
                 - (IF phase' \in {"push", "count"} THEN 1 ELSE 0)
    <3>1. PICK k \in Int : k = IF phase \in {"push", "count"} THEN 1 ELSE 0
      OBVIOUS
    <3>2. count = Cardinality(Waiting) + Cardinality(Claims) - k
      BY <1>6, <3>1 DEF IInv, Listed
    <3>3. phase' = phase /\ count' = count
      BY <1>1
    <3>4. count' = Cardinality(Waiting') + Cardinality(Claims') - k
      BY <2>3, <2>4, <3>2, <3>3
    <3> QED
      BY <3>1, <3>3, <3>4
  <2> QED
    BY <1>1, <1>6, <2>5, <2>6 DEF IInv, Listed, Open
<1>21. RunsAfterSignal' /\ TimeoutReported'
  <2>1. ASSUME NEW t \in Tasks, t \in queued \/ state[t] = "Completed", NEW v \in WaitsOf(t)
        PROVE  completed[Handle[v]] >= Value[v] /\ v \notin expired'
    <3>1. completed[Handle[v]] >= Value[v] /\ v \notin expired /\ v \in Waits
      BY <2>1 DEF IInv, RunsAfterSignal, WaitsOf
    <3>2. ASSUME v = w PROVE FALSE
      <4>1. TaskOf[w] = t /\ w \in OpenWaits(t)
        BY <1>7, <2>1, <3>1, <3>2 DEF OpenWaits, WaitsOf
      <4>2. inDegree[t].low # 0
        BY <1>6, <4>1, Owing DEF IInv
      <4> QED
        BY <1>6, <2>1, <4>2 DEF IInv, States
    <3> QED
      BY <1>1, <3>1, <3>2
  <2> QED
    BY <1>1, <2>1 DEF IInv, RunsAfterSignal, TimeoutReported
<1> QED
  BY <1>11, <1>12, <1>13, <1>14, <1>16, <1>17, <1>18, <1>19, <1>20, <1>21 DEF IInv

\* The winner counts the wait off, and raises the flag before it cancels.
LEMMA CountOffInv ==
    ASSUME IInv, NEW p \in Threads, CountOff(p) \/ FlagTimeout(p)
    PROVE  IInv'
<1> USE DEF graph, run
<1>1. /\ Carries(p) /\ UNCHANGED <<completed, clock, head, next, satisfied, inDegree, state,
                                   pending, queued, phase, toRegister, arming, status, expired>>
  BY DEF CountOff, FlagTimeout, Carries
<1>2. Open /\ Open' /\ th[p].skip = {} /\ TypeInv
  BY <1>1 DEF IInv, Carried, Open, Skipping, Carries
<1>3. PICK l \in {"deliver", "flag", "cancel"} :
        /\ Goto(p, l)
        /\ l = "deliver" => th[p].mode # "timeout" /\ th[p].pc = "claimed"
        /\ l = "cancel" <=> FlagTimeout(p)
  BY DEF CountOff, FlagTimeout
<1>4. /\ th' \in [Threads -> ThreadType] /\ Others(p)
      /\ th'[p].pc = l /\ th'[p].mode = th[p].mode /\ th'[p].handle = th[p].handle
      /\ th'[p].value = th[p].value /\ th'[p].curr = th[p].curr /\ th'[p].skip = th[p].skip
  BY <1>2, <1>3, GotoFacts DEF Labels
<1>5. count' \in Int /\ hasTimeout' \in BOOLEAN
  <2>1. count \in Int /\ hasTimeout \in BOOLEAN
    BY DEF IInv, TypeInv
  <2>2. CASE CountOff(p)
    BY <2>1, <2>2 DEF CountOff
  <2>3. CASE FlagTimeout(p)
    BY <2>1, <2>3 DEF FlagTimeout
  <2> QED
    BY <2>2, <2>3
<1>6. \A q \in Threads : /\ Carries(q)' <=> Carries(q)
                         /\ th'[q].curr = th[q].curr /\ th'[q].skip = th[q].skip
  BY <1>1, <1>4 DEF Carries, Others
<1>7. \A w \in Waits : WaitOpen(w)' <=> WaitOpen(w)
  BY <1>1, <1>6 DEF WaitOpen, CarriedBy
<1>8. TypeInv' /\ OnNode' /\ Arming' /\ OldResolved'
  <2>1. TypeInv'
    BY <1>1, <1>4, <1>5 DEF IInv, TypeInv
  <2>2. OnNode' /\ Arming'
    BY <1>1, <1>4 DEF IInv, OnNode, Arming, Others, Carries
  <2> QED
    BY <1>1, <1>2, <1>6, <2>1, <2>2 DEF IInv, OldResolved
<1>9. Carried'
  BY <1>1, <1>2, <1>6 DEF IInv, Carried
<1>10. Skipping'
  <2>1. \A q \in Threads : th[q].skip # {} => th'[q] = th[q]
    BY <1>2, <1>4 DEF Others
  <2> QED
    BY <1>1, <1>2, <1>6, <2>1 DEF IInv, Skipping
<1>11. Degrees'
  <2>1. ASSUME NEW t \in Tasks PROVE OpenWaits(t)' = OpenWaits(t) /\ OpenEdges(t)' = OpenEdges(t)
    BY <1>1, <1>6, <1>7, Constants DEF OpenWaits, OpenEdges
  <2> QED
    BY <1>1, <1>2, <2>1 DEF IInv, Degrees
<1>12. States' /\ Tally'
  BY <1>1, <1>2, <1>7, Constants DEF IInv, States, Tally, Unfinished
<1>13. Reached'
  <2>1. ASSUME NEW q \in Threads
        PROVE  /\ th'[q].mode = "notify" =>
                     th'[q].handle \in Handles /\ th'[q].value <= completed[th'[q].handle]
               /\ th'[q].pc = "deliver" => th'[q].mode # "timeout"
               /\ th'[q].pc = "cas" /\ th'[q].mode # "timeout" => Signalled(th'[q].curr)
               /\ th'[q].pc \in {"claimed", "deliver"} /\ th'[q].mode # "timeout"
                     => Answered(th'[q].curr)
    <3>1. CASE q = p
      BY <1>3, <1>4, <3>1 DEF IInv, Reached
    <3>2. CASE q # p
      BY <1>4, <3>2 DEF IInv, Reached, Others
    <3> QED
      BY <3>1, <3>2
  <2> QED
    BY <1>1, <1>2, <1>7, <2>1 DEF IInv, Reached, Answered, Signalled
<1>14. Listed' /\ Flagged'
  <2>1. Waiting' = Waiting /\ ListFrom(head)' = ListFrom(head) /\ Cardinality(Waiting) \in Nat
    BY <1>1, Finite DEF Waiting, ListFrom
  <2>2. CASE CountOff(p)
    <3>1. th[p].pc = "claimed" /\ count' = count - 1 /\ hasTimeout' = hasTimeout /\ l # "cancel"
      BY <1>3, <2>2 DEF CountOff, FlagTimeout
    <3>2. Claims' = Claims \ {p} /\ p \in Claims /\ Claims \in SUBSET Threads
      BY <1>4, <3>1 DEF Claims, Others
    <3>3. Cardinality(Claims') = Cardinality(Claims) - 1 /\ Cardinality(Claims) \in Nat
      BY <3>2, Finite, FS_RemoveElement
    <3>4. count' = Cardinality(Waiting') + Cardinality(Claims')
                   - (IF phase' \in {"push", "count"} THEN 1 ELSE 0)
      BY <1>1, <1>2, <2>1, <3>1, <3>3 DEF IInv, Listed
    <3>5. Listed'
      BY <1>1, <1>2, <2>1, <3>4 DEF IInv, Listed, Open
    <3>6. \A q \in Threads : th'[q].pc = "cancel" <=> th[q].pc = "cancel"
      BY <1>3, <1>4, <3>1 DEF Others
    <3> QED
      BY <1>1, <1>2, <3>1, <3>5, <3>6 DEF IInv, Flagged
  <2>3. CASE FlagTimeout(p)
    <3>1. th[p].pc = "flag" /\ count' = count /\ hasTimeout' = TRUE /\ l = "cancel"
      BY <1>3, <2>3 DEF FlagTimeout
    <3>2. Claims' = Claims
      BY <1>4, <3>1 DEF Claims, Others
    <3>3. Flagged'
      BY <1>4, <3>1 DEF Flagged
    <3> QED
      BY <1>1, <1>2, <2>1, <3>1, <3>2, <3>3 DEF IInv, Listed, Open
  <2> QED
    BY <2>2, <2>3
<1>15. RunsAfterSignal' /\ TimeoutReported'
  BY <1>1, <1>2 DEF IInv, RunsAfterSignal, TimeoutReported, Open
<1> QED
  BY <1>8, <1>9, <1>10, <1>11, <1>12, <1>13, <1>14, <1>15 DEF IInv

\* What a thread that carries a wait knows of it.
LEMMA CarriedFacts ==
    ASSUME OneWait, IInv, NEW p \in Threads, Carries(p), NEW w, w = th[p].curr, NEW t, t = TaskOf[w]
    PROVE  /\ Open /\ w \in Waits /\ w \notin toRegister /\ satisfied[w] /\ WaitOpen(w)
           /\ t \in Tasks /\ t \in Doomed /\ state[t] = "Pending" /\ WaitsOf(t) = {w}
           /\ OpenWaits(t) = {w} /\ inDegree[t].low # 0 /\ t \notin queued
           /\ initialInDegree(t) # 0
           /\ \A q \in Threads : q # p => ~CarriedBy(q, w)
           /\ th[p].skip = {}
<1>1. Open /\ w \in Waits /\ w \notin toRegister /\ satisfied[w] /\ state[t] = "Pending"
  BY DEF IInv, Carried
<1>2. WaitOpen(w) /\ \A q \in Threads : q # p => ~CarriedBy(q, w)
  BY DEF IInv, Carried, WaitOpen, CarriedBy
<1>3. t \in Tasks /\ t \in Doomed
  BY <1>1, Constants, DoomedClosed
<1>4. WaitsOf(t) = {w}
  BY <1>1 DEF OneWait, WaitsOf
<1>5. OpenWaits(t) = {w}
  BY <1>2, <1>4 DEF OpenWaits
<1>6. inDegree[t].low # 0
  BY <1>1, <1>3, <1>5, Owing DEF IInv
<1>7. t \notin queued
  BY <1>1, <1>3, <1>6 DEF IInv, States
<1>8. initialInDegree(t) # 0
  <2>1. IsFiniteSet(WaitsOf(t)) /\ Cardinality(WaitsOf(t)) \in Nat
        /\ Cardinality(Predecessors(t)) \in Nat
    BY <1>3, Constants, Finite
  <2>2. Cardinality(WaitsOf(t)) # 0
    BY <1>4, <2>1, NoneLeft
  <2> QED
    BY <2>1, <2>2 DEF initialInDegree
<1>9. th[p].skip = {}
  BY DEF IInv, Skipping, Carries
<1> QED
  BY <1>1, <1>2, <1>3, <1>4, <1>5, <1>6, <1>7, <1>8, <1>9

\* decrementActive for a wait that was reached.
LEMMA DeliverInv ==
    ASSUME OneWait, IInv, NEW p \in Threads, Deliver(p)
    PROVE  IInv'
<1> PICK w : w = th[p].curr
  OBVIOUS
<1> PICK t : t = TaskOf[w]
  OBVIOUS
<1> USE DEF reactor, run
<1>1. /\ th[p].pc = "deliver" /\ inDegree' = Activated({t})
      /\ queued' = queued \cup Unblocked({t}) /\ Goto(p, "advance")
      /\ UNCHANGED <<completed, clock, head, next, satisfied, count, hasTimeout, state, pending,
                     phase, toRegister, arming, status, expired>>
  BY DEF Deliver
<1>2. Carries(p) /\ TypeInv
  BY <1>1 DEF Carries, IInv
<1>3. /\ Open /\ w \in Waits /\ w \notin toRegister /\ satisfied[w] /\ WaitOpen(w)
      /\ t \in Tasks /\ state[t] = "Pending" /\ WaitsOf(t) = {w} /\ OpenWaits(t) = {w}
      /\ inDegree[t].low # 0 /\ t \notin queued /\ initialInDegree(t) # 0
      /\ \A q \in Threads : q # p => ~CarriedBy(q, w)
      /\ th[p].skip = {}
  BY <1>2, CarriedFacts
<1>4. /\ th' \in [Threads -> ThreadType] /\ Others(p)
      /\ th'[p].pc = "advance" /\ th'[p].mode = th[p].mode /\ th'[p].handle = th[p].handle
      /\ th'[p].value = th[p].value /\ th'[p].curr = w /\ th'[p].skip = th[p].skip
  BY <1>1, <1>2, GotoFacts DEF Labels
<1>5. ~Carries(p)' /\ \A q \in Threads : q # p => (Carries(q)' <=> Carries(q))
  BY <1>4 DEF Carries, Others
<1>6. Open'
  BY <1>1, <1>3 DEF Open
<1>7. ~WaitOpen(w)'
  BY <1>1, <1>3, <1>4, <1>5 DEF WaitOpen, CarriedBy, Others
<1>8. ASSUME NEW v \in Waits, v # w PROVE WaitOpen(v)' <=> WaitOpen(v)
  <2>1. ASSUME NEW q \in Threads PROVE CarriedBy(q, v)' <=> CarriedBy(q, v)
    BY <1>4, <1>5, <1>8 DEF CarriedBy, Others
  <2> QED
    BY <1>1, <2>1 DEF WaitOpen
<1>9. /\ inDegree' \in [Tasks -> [low : Int, up : Int]] /\ inDegree'[t].low = inDegree[t].low - 1
      /\ \A s \in Tasks : s # t => inDegree'[s] = inDegree[s]
  BY <1>1, <1>2, <1>3 DEF Activated, TypeInv
<1>10. queued' \subseteq queued \cup {t} /\ (t \in queued' => inDegree[t].low = 1)
  BY <1>1, <1>3 DEF Unblocked
<1>11. TypeInv' /\ OnNode' /\ Arming'
  <2>1. queued' \subseteq Tasks
    BY <1>2, <1>3, <1>10 DEF TypeInv
  <2>2. TypeInv'
    BY <1>1, <1>2, <1>4, <1>9, <2>1 DEF TypeInv
  <2>3. OnNode' /\ Arming'
    BY <1>1, <1>3, <1>4 DEF IInv, OnNode, Arming, Others
  <2> QED
    BY <2>2, <2>3
<1>12. OldResolved'
  <2>1. \A q \in Threads : th'[q].curr = th[q].curr
    BY <1>4 DEF Others
  <2> QED
    BY <1>1, <1>3, <1>6, <2>1 DEF IInv, OldResolved
<1>13. Carried'
  <2>1. \A q \in Threads : Carries(q)' => Carries(q) /\ th'[q] = th[q]
    BY <1>4, <1>5 DEF Others
  <2> QED
    BY <1>1, <1>6, <2>1 DEF IInv, Carried
<1>14. \A q \in Threads : th'[q].skip = th[q].skip
  BY <1>4 DEF Others
<1>15. Skipping'
  BY <1>1, <1>3, <1>4, <1>6, <1>14 DEF IInv, Skipping, Others
<1>16. \A s \in Tasks : OpenEdges(s)' = OpenEdges(s)
  BY <1>1, <1>14 DEF OpenEdges
<1>17. OpenWaits(t)' = {}
  BY <1>1, <1>3, <1>7 DEF OpenWaits
<1>18. \A s \in Tasks : s # t => OpenWaits(s)' = OpenWaits(s)
  BY <1>1, <1>3, <1>8 DEF OpenWaits, WaitsOf
<1>19. Degrees'
  <2>1. inDegree'[t].low = Cardinality(OpenWaits(t)') + Cardinality(OpenEdges(t)')
    <3>1. /\ Cardinality(OpenEdges(t)) \in Nat
          /\ inDegree[t].low = Cardinality({w}) + Cardinality(OpenEdges(t))
      BY <1>2, <1>3, Owing DEF IInv
    <3>2. Cardinality({w}) = 1 /\ Cardinality({}) = 0
      BY FS_Singleton, FS_EmptySet
    <3>3. inDegree'[t].low = 0 + Cardinality(OpenEdges(t))
      BY <1>9, <3>1, <3>2
    <3> QED
      BY <1>3, <1>16, <1>17, <3>2, <3>3
  <2>2. ASSUME NEW s \in Tasks, s # t
        PROVE  inDegree'[s].low = Cardinality(OpenWaits(s)') + Cardinality(OpenEdges(s)')
    <3>1. inDegree[s].low = Cardinality(OpenWaits(s)) + Cardinality(OpenEdges(s))
      BY <1>3 DEF IInv, Degrees
    <3> QED
      BY <1>9, <1>16, <1>18, <2>2, <3>1
  <2> QED
    BY <2>1, <2>2 DEF Degrees
<1>20. States'
  <2>1. ASSUME NEW s \in queued' PROVE state[s] = "Pending" /\ inDegree'[s].low = 0
    <3>1. CASE s = t
      BY <1>3, <1>9, <1>10, <2>1, <3>1
    <3>2. CASE s # t
      <4>1. s \in queued /\ s \in Tasks
        BY <1>2, <1>10, <2>1, <3>2 DEF TypeInv
      <4> QED
        BY <1>3, <1>9, <3>2, <4>1 DEF IInv, States
    <3> QED
      BY <3>1, <3>2
  <2>2. ASSUME NEW s \in Tasks, s # t
        PROVE  /\ state[s] \in {"Completed", "Skipped"} => inDegree'[s].low = 0
               /\ state[s] = "Timeout" => WaitsOf(s) # {} /\ \A v \in WaitsOf(s) : ~WaitOpen(v)'
    <3>1. \A v \in WaitsOf(s) : v \in Waits /\ v # w
      BY <1>3, <2>2 DEF WaitsOf
    <3> QED
      BY <1>3, <1>8, <1>9, <2>2, <3>1 DEF IInv, States
  <2>3. ASSUME NEW s \in Tasks
        PROVE  /\ state[s] \in {"Skipped", "Timeout"} => s \in Doomed
               /\ phase # "help" /\ initialInDegree(s) = 0 => state[s] = "Pending" /\ s \notin queued'
    BY <1>3, <1>10 DEF IInv, States
  <2> QED
    BY <1>1, <1>3, <1>6, <2>1, <2>2, <2>3 DEF States
<1>21. Tally' /\ TimeoutReported'
  BY <1>1, <1>3 DEF IInv, Tally, Unfinished, TimeoutReported, Open
<1>22. Answered(w)
  BY <1>1 DEF IInv, Reached
<1>23. Reached'
  <2>1. ASSUME NEW q \in Threads
        PROVE  /\ th'[q].mode = "notify" =>
                     th'[q].handle \in Handles /\ th'[q].value <= completed[th'[q].handle]
               /\ th'[q].pc = "deliver" => th'[q].mode # "timeout"
               /\ th'[q].pc = "cas" /\ th'[q].mode # "timeout" => Signalled(th'[q].curr)
               /\ th'[q].pc \in {"claimed", "deliver"} /\ th'[q].mode # "timeout"
                     => Answered(th'[q].curr)
    <3>1. CASE q = p
      BY <1>4, <3>1 DEF IInv, Reached
    <3>2. CASE q # p
      BY <1>4, <3>2 DEF IInv, Reached, Others
    <3> QED
      BY <3>1, <3>2
  <2>2. ASSUME NEW v \in Waits, ~WaitOpen(v)', state[TaskOf[v]] # "Timeout" PROVE Answered(v)
    <3>1. CASE v = w
      BY <1>22, <3>1
    <3>2. CASE v # w
      BY <1>3, <1>8, <2>2, <3>2 DEF IInv, Reached
    <3> QED
      BY <3>1, <3>2
  <2>3. \A v \in Waits : v \in toRegister \/ ~satisfied[v] => v \notin expired
    BY <1>3 DEF IInv, Reached
  <2> QED
    BY <1>1, <2>1, <2>2, <2>3 DEF Reached, Answered, Signalled
<1>24. Flagged' /\ Listed'
  <2>1. \A q \in Threads : th'[q].pc = "cancel" <=> th[q].pc = "cancel"
    BY <1>1, <1>4 DEF Others
  <2>2. Flagged'
    BY <1>1, <1>3, <2>1 DEF IInv, Flagged
  <2>3. Claims' = Claims /\ Waiting' = Waiting /\ ListFrom(head)' = ListFrom(head)
    BY <1>1, <1>4 DEF Claims, Waiting, ListFrom, Others
  <2> QED
    BY <1>1, <1>3, <2>2, <2>3 DEF IInv, Listed, Open
<1>25. RunsAfterSignal'
  <2>1. ASSUME NEW s \in Tasks, s \in queued' \/ state[s] = "Completed", NEW v \in WaitsOf(s)
        PROVE  Answered(v)
    <3>1. CASE s = t
      BY <1>3, <1>22, <2>1, <3>1
    <3>2. CASE s # t
      BY <1>10, <2>1, <3>2 DEF IInv, RunsAfterSignal, Answered, Signalled
    <3> QED
      BY <3>1, <3>2
  <2> QED
    BY <1>1, <2>1 DEF RunsAfterSignal, Answered, Signalled
<1> QED
  BY <1>11, <1>12, <1>13, <1>15, <1>19, <1>20, <1>21, <1>23, <1>24, <1>25 DEF IInv

\* handleGpuTimeout: the task keeps the dependency that will never come, and
\* its successors keep theirs until the thread has skipped them.
LEMMA TimeoutInv ==
    ASSUME OneWait, WaitsApart, IInv, NEW p \in Threads, handleGpuTimeout(p)
    PROVE  IInv'
<1> PICK w : w = th[p].curr
  OBVIOUS
<1> PICK t : t = TaskOf[w]
  OBVIOUS
<1> USE DEF reactor, run
<1>1. /\ th[p].pc = "cancel" /\ state' = [state EXCEPT ![t] = "Timeout"] /\ pending' = pending - 1
      /\ th' = [th EXCEPT ![p].pc = "skip", ![p].skip = EdgesOf(t)]
      /\ UNCHANGED <<completed, clock, head, next, satisfied, count, hasTimeout, inDegree, queued,
                     phase, toRegister, arming, status, expired>>
  BY DEF handleGpuTimeout
<1>2. Carries(p) /\ TypeInv
  BY <1>1 DEF Carries, IInv
<1>3. /\ Open /\ w \in Waits /\ w \notin toRegister /\ satisfied[w] /\ WaitOpen(w)
      /\ t \in Tasks /\ t \in Doomed /\ state[t] = "Pending" /\ WaitsOf(t) = {w}
      /\ OpenWaits(t) = {w} /\ t \notin queued /\ initialInDegree(t) # 0
      /\ \A q \in Threads : q # p => ~CarriedBy(q, w)
      /\ th[p].skip = {}
  BY <1>2, CarriedFacts
<1>4. EdgesOf(t) \in SUBSET Edges
  BY <1>3 DEF Edges
<1>5. /\ th' \in [Threads -> ThreadType] /\ Others(p)
      /\ th'[p].pc = "skip" /\ th'[p].mode = th[p].mode /\ th'[p].handle = th[p].handle
      /\ th'[p].value = th[p].value /\ th'[p].curr = w /\ th'[p].skip = EdgesOf(t)
  <2>1. th \in [Threads -> ThreadType] /\ th[p] \in ThreadType
    BY <1>2 DEF TypeInv
  <2>2. th'[p] = [th[p] EXCEPT !.pc = "skip", !.skip = EdgesOf(t)] /\ Others(p)
    BY <1>1, <2>1 DEF Others
  <2>3. /\ th'[p].pc = "skip" /\ th'[p].mode = th[p].mode /\ th'[p].handle = th[p].handle
        /\ th'[p].value = th[p].value /\ th'[p].curr = w /\ th'[p].skip = EdgesOf(t)
        /\ th'[p] \in ThreadType
    BY <1>4, <2>1, <2>2 DEF ThreadType, Labels
  <2>4. th' \in [Threads -> ThreadType]
    BY <1>1, <2>1, <2>3
  <2> QED
    BY <2>2, <2>3, <2>4
<1>6. ~Carries(p)' /\ \A q \in Threads : q # p => (Carries(q)' <=> Carries(q))
  BY <1>5 DEF Carries, Others
<1>7. Open'
  BY <1>1, <1>3 DEF Open
<1>8. ~WaitOpen(w)'
  BY <1>1, <1>3, <1>5, <1>6 DEF WaitOpen, CarriedBy, Others
<1>9. ASSUME NEW v \in Waits, v # w PROVE WaitOpen(v)' <=> WaitOpen(v)
  <2>1. ASSUME NEW q \in Threads PROVE CarriedBy(q, v)' <=> CarriedBy(q, v)
    BY <1>5, <1>6, <1>9 DEF CarriedBy, Others
  <2> QED
    BY <1>1, <2>1 DEF WaitOpen
<1>10. state'[t] = "Timeout" /\ \A s \in Tasks : s # t => state'[s] = state[s]
  BY <1>1, <1>2, <1>3 DEF TypeInv
<1>11. TypeInv' /\ OnNode' /\ Arming'
  <2>1. state' \in [Tasks -> {"Pending", "Completed", "Skipped", "Timeout"}] /\ pending' \in Int
    <3>1. /\ state \in [Tasks -> {"Pending", "Completed", "Skipped", "Timeout"}]
          /\ pending \in Int
      BY <1>2 DEF TypeInv
    <3>2. state' = [state EXCEPT ![t] = "Timeout"] /\ pending' = pending - 1
      BY <1>1
    <3>3. state' \in [Tasks -> {"Pending", "Completed", "Skipped", "Timeout"}]
      BY <3>1, <3>2
    <3>4. pending' \in Int
      BY <3>1, <3>2
    <3> QED
      BY <3>3, <3>4
  <2>2. TypeInv'
    BY <1>1, <1>2, <1>5, <2>1 DEF TypeInv
  <2>3. OnNode' /\ Arming'
    BY <1>1, <1>3, <1>5 DEF IInv, OnNode, Arming, Others
  <2> QED
    BY <2>2, <2>3
<1>12. OldResolved'
  <2>1. \A q \in Threads : th'[q].curr = th[q].curr
    BY <1>5 DEF Others
  <2> QED
    BY <1>1, <1>3, <1>7, <2>1 DEF IInv, OldResolved
<1>13. Carried'
  <2>1. \A q \in Threads : Carries(q)' => q # p /\ Carries(q) /\ th'[q] = th[q]
    BY <1>5, <1>6 DEF Others
  <2>2. ASSUME NEW q \in Threads, q # p, Carries(q) PROVE state'[TaskOf[th[q].curr]] = "Pending"
    <3>1. th[q].curr \in Waits /\ th[q].curr # w /\ state[TaskOf[th[q].curr]] = "Pending"
      BY <1>2, <2>2 DEF IInv, Carried
    <3>2. TaskOf[th[q].curr] # t /\ TaskOf[th[q].curr] \in Tasks
      BY <1>3, <3>1, Constants DEF OneWait
    <3> QED
      BY <1>10, <3>1, <3>2
  <2>3. ASSUME NEW q \in Threads, Carries(q)'
        PROVE  /\ th'[q].curr \in Waits /\ th'[q].curr \notin toRegister
               /\ satisfied[th'[q].curr] /\ state'[TaskOf[th'[q].curr]] = "Pending"
               /\ \A r \in Threads : r # q /\ Carries(r)' => th'[r].curr # th'[q].curr
    BY <2>1, <2>2, <2>3 DEF IInv, Carried
  <2> QED
    BY <1>1, <1>7, <2>3 DEF Carried
<1>14. \A e \in EdgesOf(t) : e[1] = t
  BY DEF EdgesOf
<1>15. ASSUME NEW q \in Threads, NEW e \in th[q].skip
       PROVE  q # p /\ e \notin EdgesOf(t) /\ state'[e[1]] \in {"Timeout", "Skipped"}
  <2>1. e[1] \in Tasks /\ state[e[1]] \in {"Timeout", "Skipped"}
    BY <1>15, OpenEdgePending DEF IInv, Skipping
  <2> QED
    BY <1>3, <1>10, <1>14, <1>15, <2>1
<1>16. Skipping'
  <2>1. ASSUME NEW q \in Threads, th'[q].skip # {}
        PROVE  /\ th'[q].pc = "skip" /\ \A e \in th'[q].skip : state'[e[1]] \in {"Timeout", "Skipped"}
               /\ \A r \in Threads : r # q => th'[r].skip \cap th'[q].skip = {}
    <3>1. CASE q = p
      BY <1>5, <1>10, <1>14, <1>15, <3>1 DEF Others
    <3>2. CASE q # p
      <4>1. th'[q] = th[q] /\ th[q].skip # {}
        BY <1>5, <2>1, <3>2 DEF Others
      <4>2. th[q].pc = "skip" /\ \A r \in Threads : r # q => th[r].skip \cap th[q].skip = {}
        BY <4>1 DEF IInv, Skipping
      <4> QED
        BY <1>5, <1>15, <3>2, <4>1, <4>2 DEF Others
    <3> QED
      BY <3>1, <3>2
  <2> QED
    BY <1>7, <2>1 DEF Skipping
<1>17. ASSUME NEW s \in Tasks PROVE OpenEdges(s)' = OpenEdges(s)
  <2>1. ASSUME NEW u \in Predecessors(s), u # t
        PROVE  (\E q \in Threads : <<u, s>> \in th'[q].skip) <=> \E q \in Threads : <<u, s>> \in th[q].skip
    <3>1. <<u, s>> \notin EdgesOf(t)
      BY <2>1, <1>14
    <3> QED
      BY <1>3, <1>5, <3>1 DEF Others
  <2>2. t \in Predecessors(s) => <<t, s>> \in th'[p].skip
    BY <1>5 DEF Predecessors, EdgesOf
  <2>3. \A u \in Predecessors(s) : u \in Tasks
    BY DEF Predecessors
  <2> QED
    BY <1>3, <1>10, <2>1, <2>2, <2>3 DEF OpenEdges
<1>18. \A s \in Tasks : OpenWaits(s)' = OpenWaits(s)
  <2>1. OpenWaits(t)' = {w}
    BY <1>3, <1>10 DEF OpenWaits
  <2>2. ASSUME NEW s \in Tasks, s # t PROVE OpenWaits(s)' = OpenWaits(s)
    BY <1>3, <1>9, <1>10, <2>2 DEF OpenWaits, WaitsOf
  <2> QED
    BY <1>3, <2>1, <2>2
<1>19. Degrees'
  BY <1>1, <1>3, <1>17, <1>18 DEF IInv, Degrees
<1>20. States'
  <2>1. ASSUME NEW s \in Tasks, s # t, state'[s] = "Timeout"
        PROVE  WaitsOf(s) # {} /\ \A v \in WaitsOf(s) : ~WaitOpen(v)'
    <3>1. \A v \in WaitsOf(s) : v \in Waits /\ v # w
      BY <1>3, <2>1 DEF WaitsOf
    <3> QED
      BY <1>3, <1>9, <1>10, <2>1, <3>1 DEF IInv, States
  <2>2. WaitsOf(t) # {} /\ \A v \in WaitsOf(t) : ~WaitOpen(v)'
    BY <1>3, <1>8
  <2>3. ASSUME NEW s \in Tasks
        PROVE  /\ s \in queued => state'[s] = "Pending" /\ inDegree[s].low = 0
               /\ state'[s] \in {"Completed", "Skipped"} => inDegree[s].low = 0
               /\ state'[s] \in {"Skipped", "Timeout"} => s \in Doomed
               /\ phase # "help" /\ initialInDegree(s) = 0 => state'[s] = "Pending" /\ s \notin queued
    BY <1>3, <1>10 DEF IInv, States
  <2> QED
    BY <1>1, <1>7, <2>1, <2>2, <2>3 DEF States
<1>21. Tally'
  <2>1. Unfinished' = Unfinished \ {t} /\ t \in Unfinished /\ Unfinished \in SUBSET Tasks
    BY <1>3, <1>10 DEF Unfinished
  <2>2. Cardinality(Unfinished') = Cardinality(Unfinished) - 1
    BY <2>1, Finite, FS_RemoveElement
  <2> QED
    BY <1>1, <1>3, <2>2 DEF IInv, Tally
<1>22. Reached'
  <2>1. ASSUME NEW q \in Threads
        PROVE  /\ th'[q].mode = "notify" =>
                     th'[q].handle \in Handles /\ th'[q].value <= completed[th'[q].handle]
               /\ th'[q].pc = "deliver" => th'[q].mode # "timeout"
               /\ th'[q].pc = "cas" /\ th'[q].mode # "timeout" => Signalled(th'[q].curr)
               /\ th'[q].pc \in {"claimed", "deliver"} /\ th'[q].mode # "timeout"
                     => Answered(th'[q].curr)
    <3>1. CASE q = p
      BY <1>5, <3>1 DEF IInv, Reached
    <3>2. CASE q # p
      BY <1>5, <3>2 DEF IInv, Reached, Others
    <3> QED
      BY <3>1, <3>2
  <2>2. ASSUME NEW v \in Waits, ~WaitOpen(v)', state'[TaskOf[v]] # "Timeout" PROVE Answered(v)
    <3>1. v # w /\ TaskOf[v] # t /\ state[TaskOf[v]] # "Timeout"
      BY <1>10, <2>2, Constants
    <3> QED
      BY <1>3, <1>9, <2>2, <3>1 DEF IInv, Reached
  <2>3. \A v \in Waits : v \in toRegister \/ ~satisfied[v] => v \notin expired
    BY <1>3 DEF IInv, Reached
  <2> QED
    BY <1>1, <2>1, <2>2, <2>3 DEF Reached, Answered, Signalled
<1>23. Flagged'
  <2>1. hasTimeout
    BY <1>1, <1>3 DEF IInv, Flagged
  <2> QED
    BY <1>1, <1>3, <1>10, <2>1 DEF Flagged
<1>24. Listed' /\ TimeoutReported'
  <2>1. Claims' = Claims /\ Waiting' = Waiting /\ ListFrom(head)' = ListFrom(head)
    BY <1>1, <1>5 DEF Claims, Waiting, ListFrom, Others
  <2> QED
    BY <1>1, <1>3, <2>1 DEF IInv, Listed, TimeoutReported, Open
<1>25. RunsAfterSignal'
  <2>1. \A s \in Tasks : state'[s] = "Completed" => state[s] = "Completed"
    BY <1>10
  <2> QED
    BY <1>1, <2>1 DEF IInv, RunsAfterSignal
<1> QED
  BY <1>11, <1>12, <1>13, <1>16, <1>19, <1>20, <1>21, <1>22, <1>23, <1>24, <1>25 DEF IInv

\* decrementSkipped and cascadeSkip: an edge that leads from a dead task is
\* taken from the target; a target that dies hands on its own edges.
LEMMA SkipInv ==
    ASSUME WaitsApart, IInv, NEW p \in Threads, NEW e, SkipOne(p, e)
    PROVE  IInv'
<1> PICK u : u = e[1]
  OBVIOUS
<1> PICK t : t = e[2]
  OBVIOUS
<1> DEFINE last == inDegree[t].low = 1
           dead == last /\ inDegree[t].up = 0
<1> USE DEF reactor, run
<1>1. /\ th[p].pc = "skip" /\ e \in th[p].skip
      /\ inDegree' = [inDegree EXCEPT ![t].low = @ - 1]
      /\ state' = IF dead THEN [state EXCEPT ![t] = "Skipped"] ELSE state
      /\ pending' = IF dead THEN pending - 1 ELSE pending
      /\ queued' = IF last /\ ~dead THEN queued \cup {t} ELSE queued
      /\ th' = [th EXCEPT ![p].skip = (@ \ {e}) \cup (IF dead THEN EdgesOf(t) ELSE {})]
      /\ UNCHANGED <<completed, clock, head, next, satisfied, count, hasTimeout, phase,
                     toRegister, arming, status, expired>>
  BY DEF SkipOne
<1>2. /\ Open /\ u \in Tasks /\ t \in Tasks /\ e = <<u, t>> /\ u \in Predecessors(t)
      /\ u \in OpenEdges(t) /\ state[u] # "Pending" /\ state[t] = "Pending"
      /\ WaitsOf(t) = {} /\ t \in Doomed /\ u # t
  BY <1>1, OpenEdgePending
<1>3. TypeInv /\ th \in [Threads -> ThreadType] /\ th[p] \in ThreadType
  BY DEF IInv, TypeInv
<1>4. Open'
  BY <1>1, <1>2 DEF Open
<1> PICK d \in BOOLEAN : d <=> dead
  OBVIOUS
<1> PICK l \in BOOLEAN : l <=> last
  OBVIOUS
<1> PICK S : S = (th[p].skip \ {e}) \cup (IF d THEN EdgesOf(t) ELSE {})
  OBVIOUS
<1>5. (d => l) /\ (l <=> inDegree[t].low = 1)
  OBVIOUS
<1>6. /\ state' = IF d THEN [state EXCEPT ![t] = "Skipped"] ELSE state
      /\ pending' = IF d THEN pending - 1 ELSE pending
      /\ queued' = IF l /\ ~d THEN queued \cup {t} ELSE queued
      /\ th' = [th EXCEPT ![p].skip = S]
  <2>1. CASE d
    BY <1>1, <2>1
  <2>2. CASE ~d
    BY <1>1, <2>2
  <2> QED
    BY <2>1, <2>2
<1> HIDE DEF last, dead
<1>7. S \in SUBSET Edges
  BY <1>2, <1>3 DEF ThreadType, Edges
<1>8. /\ th' \in [Threads -> ThreadType] /\ Others(p)
      /\ th'[p].pc = "skip" /\ th'[p].mode = th[p].mode /\ th'[p].handle = th[p].handle
      /\ th'[p].value = th[p].value /\ th'[p].curr = th[p].curr /\ th'[p].skip = S
  <2>1. th'[p] = [th[p] EXCEPT !.skip = S] /\ Others(p)
    BY <1>3, <1>6 DEF Others
  <2>2. /\ th'[p].pc = "skip" /\ th'[p].mode = th[p].mode /\ th'[p].handle = th[p].handle
        /\ th'[p].value = th[p].value /\ th'[p].curr = th[p].curr /\ th'[p].skip = S
        /\ th'[p] \in ThreadType
    BY <1>1, <1>3, <1>7, <2>1 DEF ThreadType
  <2>3. th' \in [Threads -> ThreadType]
    BY <1>3, <1>6, <2>2
  <2> QED
    BY <2>1, <2>2, <2>3
<1>9. \A q \in Threads : th'[q].pc = th[q].pc /\ th'[q].curr = th[q].curr
                         /\ (Carries(q)' <=> Carries(q))
  BY <1>1, <1>8 DEF Others, Carries
<1>10. \A w \in Waits : WaitOpen(w)' <=> WaitOpen(w)
  BY <1>1, <1>9 DEF WaitOpen, CarriedBy
<1>11. /\ state' \in [Tasks -> {"Pending", "Completed", "Skipped", "Timeout"}]
       /\ state'[t] = (IF d THEN "Skipped" ELSE "Pending")
       /\ \A s \in Tasks : s # t => state'[s] = state[s]
  <2>1. state \in [Tasks -> {"Pending", "Completed", "Skipped", "Timeout"}]
    BY <1>3 DEF TypeInv
  <2> QED
    BY <1>2, <1>6, <2>1
<1>12. /\ inDegree' \in [Tasks -> [low : Int, up : Int]] /\ inDegree[t].low \in Int
       /\ inDegree'[t].low = inDegree[t].low - 1
       /\ \A s \in Tasks : s # t => inDegree'[s] = inDegree[s]
  <2>1. inDegree \in [Tasks -> [low : Int, up : Int]]
    BY <1>3 DEF TypeInv
  <2> QED
    BY <1>1, <1>2, <2>1
<1>13. TypeInv' /\ OnNode' /\ Arming'
  <2>1. pending' \in Int /\ queued' \subseteq Tasks
    BY <1>2, <1>3, <1>6 DEF TypeInv
  <2>2. TypeInv'
    BY <1>1, <1>3, <1>8, <1>11, <1>12, <2>1 DEF TypeInv
  <2>3. OnNode' /\ Arming'
    BY <1>1, <1>8, <1>9 DEF IInv, OnNode, Arming, Others
  <2> QED
    BY <2>2, <2>3
<1>14. OldResolved'
  BY <1>1, <1>2, <1>4, <1>9 DEF IInv, OldResolved
<1>15. Carried'
  <2>1. ASSUME NEW q \in Threads, Carries(q) PROVE state'[TaskOf[th[q].curr]] = "Pending"
    <3>1. th[q].curr \in Waits /\ state[TaskOf[th[q].curr]] = "Pending"
      BY <2>1 DEF IInv, Carried
    <3>2. TaskOf[th[q].curr] # t /\ TaskOf[th[q].curr] \in Tasks
      BY <1>2, <3>1, Constants DEF WaitsOf
    <3> QED
      BY <1>11, <3>1, <3>2
  <2> QED
    BY <1>1, <1>4, <1>9, <2>1 DEF IInv, Carried
<1>16. \A x \in EdgesOf(t) : x[1] = t
  BY DEF EdgesOf
<1>17. ASSUME NEW q \in Threads, NEW x \in th[q].skip
       PROVE  x[1] # t /\ x \notin EdgesOf(t) /\ state'[x[1]] \in {"Timeout", "Skipped"}
  <2>1. x[1] \in Tasks /\ state[x[1]] \in {"Timeout", "Skipped"}
    BY <1>17, OpenEdgePending DEF IInv, Skipping
  <2> QED
    BY <1>2, <1>11, <1>16, <2>1
<1>18. \A q \in Threads : q # p => th[q].skip \cap th[p].skip = {}
  BY <1>1 DEF IInv, Skipping
<1>19. Skipping'
  <2>1. \A x \in S : x \in th[p].skip \/ (d /\ x \in EdgesOf(t))
    OBVIOUS
  <2>2. \A x \in S : state'[x[1]] \in {"Timeout", "Skipped"}
    BY <1>11, <1>16, <1>17, <2>1
  <2>3. \A q \in Threads : q # p => th[q].skip \cap S = {}
    BY <1>17, <1>18, <2>1
  <2>4. ASSUME NEW q \in Threads, th'[q].skip # {}
        PROVE  /\ th'[q].pc = "skip" /\ \A x \in th'[q].skip : state'[x[1]] \in {"Timeout", "Skipped"}
               /\ \A r \in Threads : r # q => th'[r].skip \cap th'[q].skip = {}
    <3>1. CASE q = p
      BY <1>8, <2>2, <2>3, <3>1 DEF Others
    <3>2. CASE q # p
      <4>1. th'[q] = th[q] /\ th[q].skip # {}
        BY <1>8, <2>4, <3>2 DEF Others
      <4>2. th[q].pc = "skip" /\ \A r \in Threads : r # q => th[r].skip \cap th[q].skip = {}
        BY <4>1 DEF IInv, Skipping
      <4> QED
        BY <1>8, <1>17, <2>3, <3>2, <4>1, <4>2 DEF Others
    <3> QED
      BY <3>1, <3>2
  <2> QED
    BY <1>4, <2>4 DEF Skipping
<1>20. ASSUME NEW s \in Tasks, NEW v \in Tasks, v # t, <<v, s>> # e
       PROVE  (\E q \in Threads : <<v, s>> \in th'[q].skip) <=> \E q \in Threads : <<v, s>> \in th[q].skip
  <2>1. <<v, s>> \notin EdgesOf(t)
    BY <1>16, <1>20
  <2>2. <<v, s>> \in S <=> <<v, s>> \in th[p].skip
    BY <1>20, <2>1
  <2> QED
    BY <1>8, <2>2 DEF Others
<1>21. \A q \in Threads : e \notin th'[q].skip
  <2>1. e \notin S
    BY <1>2, <1>16
  <2> QED
    BY <1>1, <1>8, <1>18, <2>1 DEF Others
<1>22. ASSUME d PROVE t \notin Predecessors(t)
  <2>1. OpenEdges(t) = {u}
    <3>1. IsFiniteSet(OpenEdges(t)) /\ Cardinality(OpenEdges(t)) \in Nat
          /\ inDegree[t].low = Cardinality(OpenWaits(t)) + Cardinality(OpenEdges(t))
          /\ Cardinality(OpenWaits(t)) \in Nat
      BY <1>2, Owing DEF IInv
    <3>2. Cardinality(OpenEdges(t) \ {u}) = Cardinality(OpenEdges(t)) - 1
          /\ IsFiniteSet(OpenEdges(t) \ {u})
      BY <1>2, <3>1, FS_RemoveElement
    <3>3. Cardinality(OpenEdges(t) \ {u}) \in Nat
      BY <3>2, FS_CardinalityType
    <3>4. Cardinality(OpenEdges(t) \ {u}) = 0
      BY <1>5, <1>22, <3>1, <3>2, <3>3
    <3>5. OpenEdges(t) \ {u} = {}
      BY <3>2, <3>4, NoneLeft
    <3> QED
      BY <1>2, <3>5
  <2> QED
    BY <1>2, <2>1 DEF OpenEdges
<1>23. OpenEdges(t)' = OpenEdges(t) \ {u}
  <2>1. \A v \in Predecessors(t) : v \in Tasks
    BY DEF Predecessors
  <2>2. u \notin OpenEdges(t)'
    BY <1>2, <1>11, <1>21 DEF OpenEdges
  <2>3. ASSUME NEW v \in Predecessors(t), v # u, v # t
        PROVE  v \in OpenEdges(t)' <=> v \in OpenEdges(t)
    <3>1. <<v, t>> # e /\ v \in Tasks
      BY <1>2, <2>1, <2>3
    <3> QED
      BY <1>2, <1>11, <1>20, <2>3, <3>1 DEF OpenEdges
  <2>4. ASSUME t \in Predecessors(t) PROVE t \in OpenEdges(t)' /\ t \in OpenEdges(t)
    BY <1>2, <1>11, <1>22, <2>4 DEF OpenEdges
  <2> QED
    BY <1>2, <2>2, <2>3, <2>4 DEF OpenEdges
<1>24. ASSUME NEW s \in Tasks, s # t PROVE OpenEdges(s)' = OpenEdges(s)
  <2>1. \A v \in Predecessors(s) : v \in Tasks /\ <<v, s>> # e
    BY <1>2, <1>24 DEF Predecessors
  <2>2. ASSUME t \in Predecessors(s) PROVE t \in OpenEdges(s)' /\ t \in OpenEdges(s)
    <3>1. t \in OpenEdges(s)
      BY <1>2, <2>2 DEF OpenEdges
    <3>2. d => <<t, s>> \in th'[p].skip
      BY <1>8, <2>2 DEF Predecessors, EdgesOf
    <3> QED
      BY <1>11, <2>2, <3>1, <3>2 DEF OpenEdges
  <2>3. ASSUME NEW v \in Predecessors(s), v # t PROVE v \in OpenEdges(s)' <=> v \in OpenEdges(s)
    BY <1>11, <1>20, <1>24, <2>1, <2>3 DEF OpenEdges
  <2> QED
    BY <2>2, <2>3 DEF OpenEdges
<1>25. \A s \in Tasks : OpenWaits(s)' = OpenWaits(s)
  BY <1>2, <1>10, <1>11, Constants DEF OpenWaits
<1>26. /\ Cardinality(OpenWaits(t)) = 0 /\ inDegree[t].low = Cardinality(OpenEdges(t))
       /\ inDegree[t].low # 0
       /\ inDegree'[t].low = Cardinality(OpenWaits(t)') + Cardinality(OpenEdges(t)')
  <2>1. OpenWaits(t) = {}
    BY <1>2 DEF OpenWaits
  <2>2. IsFiniteSet(OpenEdges(t)) /\ Cardinality(OpenEdges(t)) \in Nat
        /\ inDegree[t].low = Cardinality(OpenWaits(t)) + Cardinality(OpenEdges(t))
        /\ inDegree[t].low # 0
    BY <1>2, Owing DEF IInv
  <2>3. Cardinality(OpenWaits(t)) = 0
    BY <2>1, FS_EmptySet
  <2>4. Cardinality(OpenEdges(t)') = Cardinality(OpenEdges(t)) - 1
    BY <1>2, <1>23, <2>2, FS_RemoveElement
  <2> QED
    BY <1>2, <1>12, <1>25, <2>2, <2>3, <2>4
<1>27. Degrees'
  <2>1. ASSUME NEW s \in Tasks, s # t
        PROVE  inDegree'[s].low = Cardinality(OpenWaits(s)') + Cardinality(OpenEdges(s)')
    <3>1. inDegree[s].low = Cardinality(OpenWaits(s)) + Cardinality(OpenEdges(s))
      BY <1>2 DEF IInv, Degrees
    <3> QED
      BY <1>12, <1>24, <1>25, <2>1, <3>1
  <2> QED
    BY <1>26, <2>1 DEF Degrees
<1>28. t \notin queued /\ initialInDegree(t) # 0
  <2>1. t \notin queued
    BY <1>2, <1>26 DEF IInv, States
  <2>2. /\ IsFiniteSet(Predecessors(t)) /\ Cardinality(Predecessors(t)) \in Nat
        /\ Cardinality(WaitsOf(t)) \in Nat
    BY <1>2, Constants, Finite
  <2>3. Cardinality(Predecessors(t)) # 0
    BY <1>2, <2>2, NoneLeft
  <2> QED
    BY <2>1, <2>2, <2>3 DEF initialInDegree
<1>29. States'
  <2>1. queued' \subseteq queued \cup {t} /\ (t \in queued' => l /\ ~d)
    BY <1>6, <1>28
  <2>2. l => inDegree'[t].low = 0
    BY <1>5, <1>12
  <2>3. /\ t \in queued' => state'[t] = "Pending" /\ inDegree'[t].low = 0
        /\ state'[t] \in {"Completed", "Skipped"} => inDegree'[t].low = 0
        /\ state'[t] # "Timeout" /\ t \in Doomed /\ initialInDegree(t) # 0
    BY <1>2, <1>5, <1>11, <1>28, <2>1, <2>2
  <2>4. ASSUME NEW s \in Tasks, s # t
        PROVE  /\ s \in queued' => state'[s] = "Pending" /\ inDegree'[s].low = 0
               /\ state'[s] \in {"Completed", "Skipped"} => inDegree'[s].low = 0
               /\ state'[s] = "Timeout" => WaitsOf(s) # {} /\ \A w \in WaitsOf(s) : ~WaitOpen(w)'
               /\ state'[s] \in {"Skipped", "Timeout"} => s \in Doomed
               /\ phase' # "help" /\ initialInDegree(s) = 0
                     => state'[s] = "Pending" /\ s \notin queued'
    <3>1. state'[s] = state[s] /\ inDegree'[s] = inDegree[s] /\ (s \in queued' => s \in queued)
          /\ phase' = phase
      BY <1>1, <1>11, <1>12, <2>1, <2>4
    <3>2. \A w \in WaitsOf(s) : WaitOpen(w)' <=> WaitOpen(w)
      BY <1>10, Constants
    <3> QED
      BY <1>2, <3>1, <3>2 DEF IInv, States
  <2> QED
    BY <1>4, <2>3, <2>4 DEF States
<1>30. Tally'
  <2>1. pending = Cardinality(Unfinished) /\ Unfinished \in SUBSET Tasks /\ t \in Unfinished
    BY <1>2 DEF IInv, Tally, Unfinished
  <2>2. CASE d
    <3>1. Unfinished' = Unfinished \ {t}
      BY <1>2, <1>11, <2>2 DEF Unfinished
    <3>2. Cardinality(Unfinished') = Cardinality(Unfinished) - 1
      BY <2>1, <3>1, Finite, FS_RemoveElement
    <3> QED
      BY <1>6, <2>1, <2>2, <3>2 DEF Tally
  <2>3. CASE ~d
    <3>1. Unfinished' = Unfinished
      BY <1>6, <2>3 DEF Unfinished
    <3> QED
      BY <1>6, <2>1, <2>3, <3>1 DEF Tally
  <2> QED
    BY <2>2, <2>3
<1>31. \A s \in Tasks : /\ state'[s] = "Timeout" <=> state[s] = "Timeout"
                        /\ state'[s] = "Completed" => state[s] = "Completed"
  BY <1>2, <1>11
<1>32. Reached'
  <2>1. ASSUME NEW q \in Threads
        PROVE  /\ th'[q].mode = "notify" =>
                     th'[q].handle \in Handles /\ th'[q].value <= completed[th'[q].handle]
               /\ th'[q].pc = "deliver" => th'[q].mode # "timeout"
               /\ th'[q].pc = "cas" /\ th'[q].mode # "timeout" => Signalled(th'[q].curr)
               /\ th'[q].pc \in {"claimed", "deliver"} /\ th'[q].mode # "timeout"
                     => Answered(th'[q].curr)
    <3>1. CASE q = p
      BY <1>8, <3>1 DEF IInv, Reached
    <3>2. CASE q # p
      BY <1>8, <3>2 DEF IInv, Reached, Others
    <3> QED
      BY <3>1, <3>2
  <2>2. ASSUME NEW v \in Waits, ~WaitOpen(v)', state'[TaskOf[v]] # "Timeout" PROVE Answered(v)
    BY <1>2, <1>10, <1>31, <2>2, Constants DEF IInv, Reached
  <2>3. \A v \in Waits : v \in toRegister \/ ~satisfied[v] => v \notin expired
    BY <1>2 DEF IInv, Reached
  <2> QED
    BY <1>1, <2>1, <2>2, <2>3 DEF Reached, Answered, Signalled
<1>33. Flagged'
  BY <1>1, <1>2, <1>9, <1>31 DEF IInv, Flagged
<1>34. Listed' /\ TimeoutReported'
  <2>1. Claims' = Claims /\ Waiting' = Waiting /\ ListFrom(head)' = ListFrom(head)
    BY <1>1, <1>9 DEF Claims, Waiting, ListFrom
  <2> QED
    BY <1>1, <1>2, <2>1 DEF IInv, Listed, TimeoutReported, Open
<1>35. RunsAfterSignal'
  <2>1. \A s \in Tasks : s # t => (s \in queued' => s \in queued)
    BY <1>6
  <2> QED
    BY <1>1, <1>2, <1>31, <2>1 DEF IInv, RunsAfterSignal
<1> QED
  BY <1>13, <1>14, <1>15, <1>19, <1>27, <1>29, <1>30, <1>32, <1>33, <1>34, <1>35 DEF IInv

----------------------------------------------------------------------------
(* The theorems.                                                           *)

LEMMA InitInv == ASSUME Init PROVE IInv
<1>1. \A p \in Threads : th[p] = Idle
  BY DEF Init
<1>2. \A p \in Threads : /\ th[p] \in ThreadType /\ th[p].pc = "idle" /\ th[p].mode = "none"
                         /\ th[p].curr = None /\ th[p].skip = {}
  BY <1>1 DEF Idle, ThreadType, Labels
<1>3. ~Open /\ queued = {} /\ phase = "idle" /\ head = None /\ count = 0
  BY DEF Init, Open
<1>4. \A t \in Tasks : initialInDegree(t) \in Nat
  BY Constants, Finite DEF initialInDegree
<1>5. TypeInv
  <2>1. inDegree \in [Tasks -> [low : Int, up : Int]]
    BY <1>4 DEF Init
  <2>2. th \in [Threads -> ThreadType]
    BY <1>2 DEF Init
  <2>3. /\ completed \in [Handles -> Nat] /\ clock \in Nat /\ head \in Waits \cup {None}
        /\ next \in [Waits -> Waits \cup {None}] /\ count \in Int /\ pending \in Int
        /\ queued \subseteq Tasks /\ toRegister \subseteq Waits /\ phase \in Phases
        /\ arming \in Waits \cup {None} /\ expired \subseteq Waits
    BY DEF Init, Phases
  <2>4. satisfied \in [Waits -> BOOLEAN] /\ hasTimeout \in BOOLEAN
    BY DEF Init
  <2>5. state \in [Tasks -> {"Pending", "Completed", "Skipped", "Timeout"}]
    BY DEF Init
  <2> QED
    BY <2>1, <2>2, <2>3, <2>4, <2>5 DEF TypeInv
<1>6. OldResolved
  <2>1. \A w \in Waits : next[w] = None
    BY DEF Init
  <2> QED
    BY <1>2, <1>3, <2>1, Constants DEF OldResolved
<1>7. OnNode /\ Arming /\ Carried /\ Skipping /\ Reached
  BY <1>2, <1>3 DEF Init, OnNode, Arming, Carried, Carries, Skipping, Reached
<1>8. Degrees /\ States /\ Tally /\ Flagged /\ Listed
  BY <1>3 DEF Degrees, States, Tally, Flagged, Listed
<1>9. RunsAfterSignal /\ TimeoutReported
  BY <1>3 DEF Init, RunsAfterSignal, TimeoutReported
<1> QED
  BY <1>5, <1>6, <1>7, <1>8, <1>9 DEF IInv

\* Every step keeps the invariant.
LEMMA StepInv ==
    ASSUME OneWait, WaitsApart, IInv, [Next]_vars
    PROVE  IInv'
<1>1. CASE UNCHANGED vars
  <2>1. UNCHANGED <<completed, clock, head, next, satisfied, count, hasTimeout, inDegree, state,
                    pending, queued, phase, toRegister, arming, status, th, expired>>
    BY <1>1 DEF vars, reactor, graph, run
  <2>2. TypeInv' /\ OnNode' /\ Arming' /\ OldResolved' /\ Carried' /\ Skipping'
    BY <2>1 DEF IInv, TypeInv, OnNode, Arming, OldResolved, Carried, Carries, Skipping, Open
  <2>3. Degrees' /\ States' /\ Tally' /\ Flagged' /\ TimeoutReported' /\ RunsAfterSignal'
    BY <2>1 DEF IInv, Degrees, OpenWaits, OpenEdges, WaitOpen, CarriedBy, Carries, States,
       Tally, Unfinished, Flagged, TimeoutReported, RunsAfterSignal, Open
  <2>4. Listed' /\ Reached'
    BY <2>1 DEF IInv, Listed, ListFrom, Waiting, Claims, Open, Reached, Answered, Signalled, WaitOpen,
       CarriedBy, Carries
  <2> QED
    BY <2>2, <2>3, <2>4 DEF IInv
<1>2. CASE Tick \/ \E h \in Handles : Advance(h)
  BY <1>2, EnvironmentInv
<1>3. CASE prepareRun
  BY <1>3, PrepareInv
<1>4. CASE CallerStep
  BY <1>4, ArmInv, PushInv, RegisteredInv, ReturnInv DEF CallerStep
<1>5. ASSUME NEW t \in Tasks, ExecuteTask(t) PROVE IInv'
  BY <1>5, ExecuteInv
<1>6. ASSUME NEW n \in Notifiers, NEW h \in Handles, NotifyCall(n, h) PROVE IInv'
  BY <1>6, WalkInv DEF Threads
<1>7. ASSUME NEW p \in Pollers, PollCall(p) PROVE IInv'
  BY <1>7, WalkInv DEF Threads
<1>8. ASSUME NEW p \in Threads, WalkStep(p) PROVE IInv'
  <2>1. CASE \/ CheckPending(p) \/ LoadHead(p) \/ Visit(p) \/ PassOver(p)
             \/ LoseClaim(p) \/ SkipEnd(p) \/ AdvanceNode(p) \/ WalkEnd(p)
    BY <2>1, WalkInv
  <2>2. CASE Claim(p)
    BY <2>2, ClaimInv
  <2>3. CASE CountOff(p) \/ FlagTimeout(p)
    BY <2>3, CountOffInv
  <2>4. CASE Deliver(p)
    BY <2>4, DeliverInv
  <2>5. CASE handleGpuTimeout(p)
    BY <2>5, TimeoutInv
  <2>6. ASSUME NEW e \in Edges, SkipOne(p, e) PROVE IInv'
    BY <2>6, SkipInv
  <2> QED
    BY <1>8, <2>1, <2>2, <2>3, <2>4, <2>5, <2>6 DEF WalkStep
<1> QED
  BY <1>1, <1>2, <1>3, <1>4, <1>5, <1>6, <1>7, <1>8 DEF Next

\* The invariant holds in every graph whose waits are apart.
LEMMA ReactorInv == ASSUME OneWait, WaitsApart PROVE Spec => []IInv
<1>1. Init => IInv
  BY InitInv
<1>2. IInv /\ [Next]_vars => IInv'
  BY StepInv
<1> QED
  BY <1>1, <1>2, PTL DEF Spec

\* No task runs before the GPU has reached what it waits for, and no task
\* runs that timed out, for any number of pushing and polling threads.
THEOREM NoRunBeforeSignal == ASSUME OneWait, WaitsApart PROVE Spec => []RunsAfterSignal
<1>1. IInv => RunsAfterSignal
  BY DEF IInv
<1> QED
  BY <1>1, ReactorInv, PTL

\* runAndWait reports a timeout exactly when a task of the run timed out.
THEOREM TimeoutsReported == ASSUME OneWait, WaitsApart PROVE Spec => []TimeoutReported
<1>1. IInv => TimeoutReported
  BY DEF IInv
<1> QED
  BY <1>1, ReactorInv, PTL

\* isCompleted: when the count of a run is 0 all its tasks are finished.
THEOREM CompletedIsDone == ASSUME OneWait, WaitsApart PROVE Spec => []CompletedMeansDone
<1>1. IInv => CompletedMeansDone
  <2> SUFFICES ASSUME IInv, phase = "help", pending = 0
               PROVE  queued = {} /\ \A t \in Tasks : state[t] \in Finished
    BY DEF CompletedMeansDone
  <2>1. Open
    BY DEF Open
  <2>2. queued = {} /\ Unfinished = {}
    BY <2>1, Quiet
  <2>3. \A t \in Tasks : state[t] \in {"Pending", "Completed", "Skipped", "Timeout"}
    BY DEF IInv, TypeInv
  <2> QED
    BY <2>2, <2>3 DEF Unfinished, Finished
<1> QED
  BY <1>1, ReactorInv, PTL

\* m_pendingCount counts the unresolved waits of the list, so that a look at
\* it never saves a walk that had something to find.
THEOREM WaitsCounted == ASSUME OneWait, WaitsApart PROVE Spec => []CountsWaits
<1>1. IInv => CountsWaits
  <2> SUFFICES ASSUME IInv, phase # "resetCount"
               PROVE  count = Cardinality(Unresolved) + Cardinality(Claims) - Uncounted
    BY DEF CountsWaits, Claims
  <2>1. CASE Open
    <3>1. Unresolved = Waiting \ {arming}
      BY <2>1 DEF IInv, Listed, Unresolved, Waiting
    <3>2. /\ IsFiniteSet(Waiting) /\ Cardinality(Waiting) \in Nat /\ Cardinality(Claims) \in Nat
      BY Finite DEF Waiting, Claims
    <3>3. CASE phase = "push" /\ ~satisfied[arming]
      <4>1. arming \in Waiting
        BY <3>3 DEF IInv, Arming, Waiting
      <4>2. Cardinality(Unresolved) = Cardinality(Waiting) - 1
        BY <3>1, <3>2, <4>1, FS_RemoveElement
      <4>3. count = Cardinality(Waiting) + Cardinality(Claims) - 1 /\ Uncounted = 0
        BY <2>1, <3>3 DEF IInv, Listed, Uncounted
      <4> QED
        BY <3>2, <4>2, <4>3
    <3>4. CASE ~(phase = "push" /\ ~satisfied[arming])
      <4>1. arming \notin Waiting
        BY <3>4, Constants DEF IInv, Arming, TypeInv, Waiting
      <4>2. Unresolved = Waiting
        BY <3>1, <4>1
      <4>3. Uncounted = IF phase \in {"push", "count"} THEN 1 ELSE 0
        BY <3>4 DEF Uncounted
      <4> QED
        BY <2>1, <4>2, <4>3 DEF IInv, Listed
    <3> QED
      BY <3>3, <3>4
  <2>2. CASE ~Open
    <3>1. phase \in {"idle", "reset"} /\ count = 0
      BY <2>2 DEF IInv, TypeInv, Phases, Open, Listed
    <3>2. Claims = {}
      BY <2>2, Resting DEF Claims, Free, Carries
    <3>3. Unresolved = {}
      <4>1. CASE phase = "idle"
        BY <4>1, EmptyList DEF IInv, Listed, Unresolved
      <4>2. CASE phase = "reset"
        BY <4>2 DEF IInv, Listed, Unresolved, ListFrom
      <4> QED
        BY <3>1, <4>1, <4>2
    <3>4. Uncounted = 0
      BY <3>1 DEF Uncounted
    <3> QED
      BY <3>1, <3>2, <3>3, <3>4, FS_EmptySet
  <2> QED
    BY <2>1, <2>2
<1> QED
  BY <1>1, ReactorInv, PTL
=============================================================================
