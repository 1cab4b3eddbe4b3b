-------------------------- MODULE ScanSource_proofs -------------------------
(***************************************************************************)
(* Proofs about ScanSource, for any number of drivers, tasks, morsels and  *)
(* ranges:                                                                 *)
(*                                                                         *)
(*  ScanTypes          types and bounds, from ScanInv: the inflight count  *)
(*                     of a driver is the number of its tasks, and a       *)
(*                     runner is in the pool or with one task;             *)
(*  ScanRangesOnce     no scan range is lost or appended twice, from a     *)
(*                     tally of the morsels in every place;                *)
(*  ScanChunksKept     no chunk of a popped morsel is lost before a driver *)
(*                     ends or fails, from HeldOK;                         *)
(*  ScanPlanScanned    with one task per driver and no limit, a finished   *)
(*                     scan has read its whole plan, from SoloOK: the      *)
(*                     chunks of a popped morsel are pulled or still held, *)
(*                     and a driver that has finished has some of them at  *)
(*                     most in its buffer.                                 *)
(*                                                                         *)
(* Each step is first brought into one of four forms: a task's (Shift), a  *)
(* running driver's (Runs), a driver's that is bound (Binds), or that of   *)
(* the ranges; the invariants are then shown for the forms. FlattenSeq is  *)
(* a recursive function; what it computes is proved from its definition,   *)
(* by a least counterexample (JoinExists, FlattenIs).                      *)
(***************************************************************************)
EXTENDS ScanSource, FiniteSetTheorems, WellFoundedInduction, TLAPS

-----------------------------------------------------------------------------
(* The inductive invariant.                                                *)

Adds == [morsels : Seq(Morsels), more : BOOLEAN]
Runners == {r \in [open : BOOLEAN, iter : Morsels, pend : Nat] : ~r.open => r.iter = <<>>}

SourcePcs == {"bind", "registered", "taken", "bound", "ready", "closing", "look", "start", "submit",
              "output", "blocked", "done", "failed"}
Sources == [pc : SourcePcs, take : Seq(Adds), buf : Seq(Nat), fin : BOOLEAN, err : BOOLEAN,
            stop : BOOLEAN, pool : Seq(Runners), inflight : Nat, empty : BOOLEAN,
            back : {"output", "ready"}, wake : BOOLEAN, asked : BOOLEAN, listed : BOOLEAN]

\* The steps of a task that counts as in flight.
FlyPcs == HoldPcs \cup {"pop", "leave"}
Tasks == [pc : FlyPcs \cup {"free", "judge"}, drv : ScanDrivers, run : Runners, chunk : Nat,
          last : BOOLEAN]

ScanShape ==
    /\ job \in ScanJobs /\ morsels \in Seq(Morsels) /\ more \in BOOLEAN /\ counted \in Nat
    /\ full \in BOOLEAN /\ src \in [Drivers -> Sources] /\ task \in [TaskSlots -> Tasks]
    /\ handle \in BOOLEAN /\ waiting \in Seq(Adds)
    /\ rpc \in [sent : 0..Len(job.later), adds : Seq(Adds)]
    /\ popped \in Seq(Morsels)
    /\ used \in [rejects : 0..job.rejects, stops : 0..job.stops]

\* Only a task about to push has a chunk of its own, and then its runner keeps none;
\* only a task about to leave is the last. A task belongs to a driver of the scan.
Fit(x) ==
    /\ x.pc = "push" => x.run.pend = NoChunk
    /\ x.pc # "push" => x.chunk = NoChunk
    /\ x.last => x.pc = "leave"
TaskOK(t) ==
    /\ task[t].pc # "free" => task[t].drv \in Drivers
    /\ Fit(task[t])

Flying(d) == {t \in TaskSlots : task[t].drv = d /\ task[t].pc \in FlyPcs}

\* The inflight count is exact, and a runner is in the pool or with one task.
CountOK(d) ==
    /\ src[d].inflight = Cardinality(Flying(d)) /\ src[d].inflight <= job.tasks
    /\ Len(src[d].pool) + Cardinality(Holding(d)) <= job.tasks
    /\ Len(src[d].buf) <= MaxBuffered

\* A driver has taken ranges only while it is about to append them.
TakeOK(d) == src[d].take # <<>> <=> src[d].pc = "taken"

\* Drivers are bound one after the other.
Binding == {d \in Drivers : src[d].pc \in {"registered", "taken"}}
OneBinds == \A d, e \in Binding : d = e

ScanInv ==
    /\ ScanShape /\ OneBinds
    /\ \A t \in TaskSlots : TaskOK(t)
    /\ \A d \in Drivers : CountOK(d) /\ TakeOK(d)

\* Type correctness follows.
LEMMA InvTypes ==
    ASSUME ScanInv
    PROVE  ScanTypeOK
<1>1. ScanShape /\ \A d \in Drivers : CountOK(d) BY DEF ScanInv
<1>2. ASSUME NEW d \in Drivers
      PROVE  /\ src[d].inflight \in 0..job.tasks /\ Len(src[d].buf) <= MaxBuffered
             /\ Len(src[d].pool) <= job.tasks
    <2>1. src[d] \in Sources BY <1>1 DEF ScanShape
    <2>2. Holding(d) \subseteq TaskSlots BY DEF Holding
    <2>3. Cardinality(Holding(d)) \in Nat BY <2>2, ScanAssumption, FS_Subset, FS_CardinalityType
    <2>4. Len(src[d].pool) \in Nat /\ src[d].inflight \in Nat /\ job.tasks \in Nat
        BY <1>1, <2>1, ScanAssumption DEF Sources, ScanShape
    <2> QED BY <1>1, <2>3, <2>4 DEF CountOK
<1>3. \A t \in TaskSlots : task[t].drv \in ScanDrivers BY <1>1 DEF ScanShape, Tasks
<1>4. used.rejects \in 0..job.rejects /\ used.stops \in 0..job.stops BY <1>1 DEF ScanShape
<1> QED BY <1>1, <1>2, <1>3, <1>4 DEF ScanTypeOK, ScanShape

-----------------------------------------------------------------------------
(* The steps of drivers and tasks, in the form the invariant needs.        *)

\* A source that differs at most in its wake-up flag.
Like(a, b) ==
    /\ a.pc = b.pc /\ a.take = b.take /\ a.buf = b.buf /\ a.fin = b.fin /\ a.err = b.err
    /\ a.stop = b.stop /\ a.pool = b.pool /\ a.inflight = b.inflight /\ a.empty = b.empty

\* Waking up every driver changes nothing else.
LEMMA AwakeLike ==
    ASSUME NEW S \in [Drivers -> Sources]
    PROVE  /\ AllAwake(S) \in [Drivers -> Sources]
           /\ \A d \in Drivers : Like(AllAwake(S)[d], S[d])
<1>1. ASSUME NEW d \in Drivers
      PROVE  AllAwake(S)[d] \in Sources /\ Like(AllAwake(S)[d], S[d])
    <2> PICK a : a = S[d] OBVIOUS
    <2>1. a \in Sources OBVIOUS
    <2> PICK w \in BOOLEAN : w = (a.wake \/ a.pc \notin Over) OBVIOUS
    <2>2. AllAwake(S)[d] = [a EXCEPT !.wake = w] BY DEF AllAwake
    <2>3. [a EXCEPT !.wake = w] \in Sources BY <2>1 DEF Sources
    <2>4. Like([a EXCEPT !.wake = w], a) BY <2>1 DEF Like, Sources
    <2> QED BY <2>2, <2>3, <2>4
<1>2. AllAwake(S) = [d \in Drivers |-> AllAwake(S)[d]] BY DEF AllAwake
<1> QED BY <1>1, <1>2

\* A step that changes task t to x and its driver d to s; the others are at most woken up.
Moves(t, d, x, s) ==
    /\ task' \in [TaskSlots -> Tasks] /\ task'[t] = x
    /\ \A u \in TaskSlots \ {t} : task'[u] = task[u]
    /\ src' \in [Drivers -> Sources] /\ Like(src'[d], s)
    /\ \A e \in Drivers \ {d} : Like(src'[e], src[e])
    /\ UNCHANGED job
    /\ task[t].pc # "free" => task[t].drv = d
    /\ x.pc # "free" => x.drv = d

\* A step of a task is one.
LEMMA TaskStepIs ==
    ASSUME ScanShape, NEW t \in TaskSlots, NEW d \in Drivers, task[t].drv = d,
           NEW x \in Tasks, x.pc # "free" => x.drv = d, NEW s \in Sources, TaskStep(t, x, s)
    PROVE  Moves(t, d, x, s) /\ UNCHANGED <<handle, waiting, rpc, given>>
<1>1. UNCHANGED <<job, handle, waiting, rpc, given>> /\ task' = [task EXCEPT ![t] = x]
    BY DEF TaskStep, rangeVars
<1> PICK S : S = [src EXCEPT ![d] = s] OBVIOUS
<1>2. src \in [Drivers -> Sources] /\ task \in [TaskSlots -> Tasks] BY DEF ScanShape
<1>3. S \in [Drivers -> Sources] /\ S[d] = s /\ \A e \in Drivers \ {d} : S[e] = src[e] BY <1>2
<1>4. src' = AllAwake(S) \/ src' = S BY DEF TaskStep
<1>5. AllAwake(S) \in [Drivers -> Sources] /\ \A e \in Drivers : Like(AllAwake(S)[e], S[e])
    BY <1>3, AwakeLike
<1>6. \A e \in Drivers : Like(S[e], S[e]) BY DEF Like
<1>7. /\ src' \in [Drivers -> Sources] /\ Like(src'[d], s)
      /\ \A e \in Drivers \ {d} : Like(src'[e], src[e])
    <2>1. src' \in [Drivers -> Sources] BY <1>3, <1>4, <1>5
    <2>2. \A e \in Drivers : Like(src'[e], S[e]) BY <1>4, <1>5, <1>6
    <2> QED BY <1>3, <2>1, <2>2
<1>8. /\ task' \in [TaskSlots -> Tasks] /\ task'[t] = x
      /\ \A u \in TaskSlots \ {t} : task'[u] = task[u]
    BY <1>1, <1>2
<1> QED BY <1>1, <1>7, <1>8 DEF Moves

\* What a task at that step counts for.
Fly(pc) == IF pc \in FlyPcs THEN 1 ELSE 0
Hold(pc) == IF pc \in HoldPcs THEN 1 ELSE 0
Books(t, d, x, s) ==
    /\ s.inflight = src[d].inflight - Fly(task[t].pc) + Fly(x.pc) /\ s.inflight <= job.tasks
    /\ Len(s.pool) + Hold(x.pc) <= Len(src[d].pool) + Hold(task[t].pc)

\* How the tasks of a driver change.
LEMMA SetsAfter ==
    ASSUME ScanShape, NEW t \in TaskSlots, NEW d \in Drivers, NEW x, NEW s, Moves(t, d, x, s)
    PROVE  /\ \A e \in Drivers \ {d} : Flying(e)' = Flying(e) /\ Holding(e)' = Holding(e)
           /\ Flying(d)' = (Flying(d) \ {t}) \cup (IF x.pc \in FlyPcs THEN {t} ELSE {})
           /\ Holding(d)' = (Holding(d) \ {t}) \cup (IF x.pc \in HoldPcs THEN {t} ELSE {})
           /\ t \in Flying(d) <=> task[t].pc \in FlyPcs
           /\ t \in Holding(d) <=> task[t].pc \in HoldPcs
<1> DEFINE Of(e, P) == {u \in TaskSlots : task[u].drv = e /\ task[u].pc \in P}
           Then(e, P) == {u \in TaskSlots : task'[u].drv = e /\ task'[u].pc \in P}
<1>1. ASSUME NEW P, "free" \notin P
      PROVE  /\ t \in Of(d, P) <=> task[t].pc \in P
             /\ \A e \in Drivers \ {d} : Then(e, P) = Of(e, P)
             /\ Then(d, P) = (Of(d, P) \ {t}) \cup (IF x.pc \in P THEN {t} ELSE {})
    <2>1. t \in Of(d, P) <=> task[t].pc \in P BY <1>1 DEF Moves
    <2>2. ASSUME NEW e \in Drivers \ {d} PROVE Then(e, P) = Of(e, P)
        <3>1. t \notin Of(e, P) /\ t \notin Then(e, P) BY <1>1 DEF Moves
        <3> QED BY <3>1 DEF Moves
    <2>3. t \in Then(d, P) <=> x.pc \in P BY <1>1 DEF Moves
    <2>4. \A u \in TaskSlots \ {t} : u \in Then(d, P) <=> u \in Of(d, P) BY DEF Moves
    <2> QED BY <2>1, <2>2, <2>3, <2>4
<1>2. "free" \notin FlyPcs /\ "free" \notin HoldPcs BY DEF FlyPcs, HoldPcs
<1>3. \A e \in Drivers : /\ Flying(e) = Of(e, FlyPcs) /\ Flying(e)' = Then(e, FlyPcs)
                         /\ Holding(e) = Of(e, HoldPcs) /\ Holding(e)' = Then(e, HoldPcs)
    BY DEF Flying, Holding
<1> HIDE DEF Of, Then
<1> QED BY <1>1, <1>2, <1>3

\* How their number changes.
LEMMA CardAfter ==
    ASSUME NEW S, IsFiniteSet(S), NEW T, NEW t, NEW b \in Nat, NEW c \in Nat,
           (t \in S /\ b = 1) \/ (t \notin S /\ b = 0),
           (T = (S \ {t}) \cup {t} /\ c = 1) \/ (T = S \ {t} /\ c = 0)
    PROVE  /\ Cardinality(S) \in Nat /\ Cardinality(T) \in Nat
           /\ Cardinality(T) = Cardinality(S) - b + c
<1>1. Cardinality(S) \in Nat BY FS_CardinalityType
<1>2. /\ IsFiniteSet(S \ {t})
      /\ Cardinality(S \ {t}) = IF t \in S THEN Cardinality(S) - 1 ELSE Cardinality(S)
    BY FS_RemoveElement
<1>3. Cardinality(S \ {t}) \in Nat BY <1>2, FS_CardinalityType
<1>4. Cardinality((S \ {t}) \cup {t}) = Cardinality(S \ {t}) + 1 BY <1>2, FS_AddElement
<1> PICK n \in Nat, m \in Nat : n = Cardinality(S) /\ m = Cardinality(S \ {t}) BY <1>1, <1>3
<1>5. m = n - b BY <1>2
<1>6. Cardinality(T) = m + c
    <2>1. CASE T = (S \ {t}) \cup {t} /\ c = 1 BY <1>4, <2>1
    <2>2. CASE T = S \ {t} /\ c = 0 BY <2>2
    <2> QED BY <2>1, <2>2
<1> QED BY <1>5, <1>6

\* A task that is none.
LEMMA NoTaskType ==
    /\ NoTask \in Tasks /\ NewRunner \in Runners /\ NoTask.pc = "free" /\ Fit(NoTask)
    /\ NoTask.chunk = NoChunk /\ NoTask.last = FALSE
<1>1. NewRunner \in Runners BY DEF NewRunner, Runners, Morsels, NoChunk
<1> PICK d \in ScanDrivers : d = CHOOSE e \in ScanDrivers : TRUE BY ScanAssumption
<1>2. NoTask = [pc |-> "free", drv |-> d, run |-> NewRunner, chunk |-> 0, last |-> FALSE]
    BY DEF NoTask, NoChunk
<1>3. NoTask \in Tasks BY <1>1, <1>2 DEF Tasks
<1> QED BY <1>1, <1>2, <1>3 DEF Fit, NoChunk

\* A step that keeps the accounts of its driver keeps the invariant.
LEMMA MovesKeep ==
    ASSUME ScanInv, NEW t \in TaskSlots, NEW d \in Drivers, NEW x, NEW s \in Sources,
           Moves(t, d, x, s), Fit(x), Books(t, d, x, s), Len(s.buf) <= MaxBuffered,
           s.pc = src[d].pc, s.take = src[d].take
    PROVE  /\ OneBinds' /\ \A u \in TaskSlots : TaskOK(u)'
           /\ \A e \in Drivers : CountOK(e)' /\ TakeOK(e)'
<1>1. ScanShape /\ Drivers' = Drivers BY DEF ScanInv, Moves, Drivers
<1>2. ASSUME NEW u \in TaskSlots PROVE TaskOK(u)'
    <2>1. CASE u = t BY <1>1, <2>1 DEF TaskOK, Moves
    <2>2. CASE u # t BY <1>1, <2>2 DEF TaskOK, Moves, ScanInv
    <2> QED BY <2>1, <2>2
<1>3. \A e \in Drivers : src'[e].pc = src[e].pc /\ src'[e].take = src[e].take
    BY DEF Moves, Like
<1>4. OneBinds'
    <2>1. Binding' = Binding BY <1>1, <1>3 DEF Binding
    <2> QED BY <2>1 DEF OneBinds, ScanInv
<1>5. \A e \in Drivers : TakeOK(e)' BY <1>3 DEF TakeOK, ScanInv
<1>6. /\ \A e \in Drivers \ {d} : Flying(e)' = Flying(e) /\ Holding(e)' = Holding(e)
      /\ Flying(d)' = (Flying(d) \ {t}) \cup (IF x.pc \in FlyPcs THEN {t} ELSE {})
      /\ Holding(d)' = (Holding(d) \ {t}) \cup (IF x.pc \in HoldPcs THEN {t} ELSE {})
      /\ t \in Flying(d) <=> task[t].pc \in FlyPcs
      /\ t \in Holding(d) <=> task[t].pc \in HoldPcs
    BY <1>1, SetsAfter
<1>7. ASSUME NEW e \in Drivers PROVE CountOK(e)'
    <2>1. CASE e # d BY <1>6, <2>1 DEF CountOK, Moves, Like, ScanInv
    <2>2. CASE e = d
        <3>1. IsFiniteSet(Flying(d)) /\ IsFiniteSet(Holding(d))
            BY ScanAssumption, FS_Subset DEF Flying, Holding
        <3>2. /\ Cardinality(Flying(d)) \in Nat /\ Cardinality(Flying(d)') \in Nat
              /\ Cardinality(Flying(d)') =
                   Cardinality(Flying(d)) - Fly(task[t].pc) + Fly(x.pc)
            <4> PICK S, T : S = Flying(d) /\ T = Flying(d)' OBVIOUS
            <4> PICK b \in Nat, c \in Nat : b = Fly(task[t].pc) /\ c = Fly(x.pc)
                BY DEF Fly, Hold
            <4>1. (t \in S /\ b = 1) \/ (t \notin S /\ b = 0) BY <1>6 DEF Fly, Hold
            <4>2. (T = (S \ {t}) \cup {t} /\ c = 1) \/ (T = S \ {t} /\ c = 0) BY <1>6 DEF Fly, Hold
            <4>3. IsFiniteSet(S) BY <3>1
            <4>4. Cardinality(S) \in Nat /\ Cardinality(T) \in Nat /\ Cardinality(T) = Cardinality(S) - b + c
                BY <4>1, <4>2, <4>3, CardAfter
            <4> QED BY <4>4
        <3>3. /\ Cardinality(Holding(d)) \in Nat /\ Cardinality(Holding(d)') \in Nat
              /\ Cardinality(Holding(d)') =
                   Cardinality(Holding(d)) - Hold(task[t].pc) + Hold(x.pc)
            <4> PICK S, T : S = Holding(d) /\ T = Holding(d)' OBVIOUS
            <4> PICK b \in Nat, c \in Nat : b = Hold(task[t].pc) /\ c = Hold(x.pc)
                BY DEF Fly, Hold
            <4>1. (t \in S /\ b = 1) \/ (t \notin S /\ b = 0) BY <1>6 DEF Fly, Hold
            <4>2. (T = (S \ {t}) \cup {t} /\ c = 1) \/ (T = S \ {t} /\ c = 0) BY <1>6 DEF Fly, Hold
            <4>3. IsFiniteSet(S) BY <3>1
            <4>4. Cardinality(S) \in Nat /\ Cardinality(T) \in Nat /\ Cardinality(T) = Cardinality(S) - b + c
                BY <4>1, <4>2, <4>3, CardAfter
            <4> QED BY <4>4
        <3>4. CountOK(d) /\ job' = job BY DEF ScanInv, Moves
        <3>5. /\ src'[d].inflight = s.inflight /\ src'[d].pool = s.pool /\ src'[d].buf = s.buf
            BY DEF Moves, Like
        <3>6. src[d] \in Sources /\ job.tasks \in Nat BY <1>1, ScanAssumption DEF ScanShape
        <3>7. Len(s.pool) \in Nat /\ Len(src[d].pool) \in Nat BY <3>6 DEF Sources
        <3>8. src'[d].inflight = Cardinality(Flying(d)') /\ src'[d].inflight <= job'.tasks
            BY <3>2, <3>4, <3>5 DEF CountOK, Books
        <3>9. Len(src'[d].pool) + Cardinality(Holding(d)') <= job'.tasks
            <4>1. Hold(task[t].pc) \in Nat /\ Hold(x.pc) \in Nat BY DEF Hold
            <4>2. PICK b, c, m, n, p, q, r \in Nat :
                     /\ b = Hold(task[t].pc) /\ c = Hold(x.pc)
                     /\ n = Cardinality(Holding(d)) /\ m = Cardinality(Holding(d)')
                     /\ p = Len(src[d].pool) /\ q = Len(s.pool) /\ r = job.tasks
                BY <3>3, <3>6, <3>7, <4>1
            <4>3. q + c <= p + b BY <4>2 DEF Books
            <4>4. m = n - b + c BY <3>3, <4>2
            <4>5. p + n <= r BY <3>4, <4>2 DEF CountOK
            <4>6. q + m <= r BY <4>3, <4>4, <4>5
            <4> QED BY <3>4, <3>5, <4>2, <4>6
        <3> QED BY <2>2, <3>5, <3>8, <3>9 DEF CountOK
    <2> QED BY <2>1, <2>2
<1> QED BY <1>2, <1>4, <1>5, <1>7

-----------------------------------------------------------------------------
(* The steps of a task.                                                    *)

\* What no step of a task changes of its driver.
Core(s, a) == s.pc = a.pc /\ s.take = a.take /\ s.stop = a.stop /\ s.empty = a.empty

Shift(t, d, x, s) ==
    /\ Moves(t, d, x, s) /\ UNCHANGED <<handle, waiting, rpc, given>>
    /\ Fit(x) /\ Core(s, src[d])

\* The driver of a task, and what a step of the task makes of both.
LEMMA ShiftIs ==
    ASSUME ScanInv, NEW t \in TaskSlots, task[t].pc # "free"
    PROVE  /\ task[t].drv \in Drivers /\ task[t] \in Tasks /\ src[task[t].drv] \in Sources
           /\ Fit(task[t])
           /\ task[t].pc \in FlyPcs => src[task[t].drv].inflight - 1 \in Nat
           /\ \A x \in Tasks, s \in Sources :
                /\ TaskStep(t, x, s) /\ Fit(x) /\ Core(s, src[task[t].drv])
                /\ x = NoTask \/ x.drv = task[t].drv
                => Shift(t, task[t].drv, x, s)
<1>1. ScanShape /\ TaskOK(t) BY DEF ScanInv
<1>2. PICK d \in Drivers : d = task[t].drv BY <1>1 DEF TaskOK
<1>3. task[t] \in Tasks /\ src[d] \in Sources /\ Fit(task[t]) BY <1>1 DEF ScanShape, TaskOK
<1>4. ASSUME task[t].pc \in FlyPcs PROVE src[d].inflight - 1 \in Nat
    <2>1. t \in Flying(d) BY <1>2, <1>4 DEF Flying
    <2>2. IsFiniteSet(Flying(d)) BY ScanAssumption, FS_Subset DEF Flying
    <2>3. Cardinality(Flying(d)) \in Nat /\ Cardinality(Flying(d)) # 0
        BY <2>1, <2>2, FS_CardinalityType, FS_EmptySet
    <2>4. src[d].inflight = Cardinality(Flying(d)) BY DEF ScanInv, CountOK
    <2> QED BY <2>3, <2>4
<1>5. ASSUME NEW x \in Tasks, NEW s \in Sources, TaskStep(t, x, s), Fit(x), Core(s, src[d]),
             x = NoTask \/ x.drv = d
      PROVE  Shift(t, d, x, s)
    <2>1. x.pc # "free" => x.drv = d BY <1>5, NoTaskType
    <2>2. Moves(t, d, x, s) /\ UNCHANGED <<handle, waiting, rpc, given>>
        BY <1>1, <1>2, <1>5, <2>1, TaskStepIs
    <2> QED BY <1>5, <2>2 DEF Shift
<1> QED BY <1>2, <1>3, <1>4, <1>5

\* The pool without its last runner.
LEMMA PoolFront ==
    ASSUME NEW p \in Seq(Runners), p # <<>>
    PROVE  /\ Front(p) \in Seq(Runners) /\ Last(p) \in Runners /\ Len(Front(p)) = Len(p) - 1
           /\ Len(p) \in Nat \ {0} /\ DOMAIN p = 1..Len(p) /\ p[Len(p)] = Last(p)
           /\ DOMAIN Front(p) = 1..(Len(p) - 1)
           /\ \A i \in 1..(Len(p) - 1) : Front(p)[i] = p[i]
<1>1. Len(p) \in Nat \ {0} /\ DOMAIN p = 1..Len(p) OBVIOUS
<1>2. Front(p) \in Seq(Runners) /\ Len(Front(p)) = Len(p) - 1 BY <1>1 DEF Front
<1>3. \A i \in 1..(Len(p) - 1) : Front(p)[i] = p[i] BY <1>1 DEF Front
<1>4. Last(p) \in Runners BY <1>1 DEF Last
<1> QED BY <1>1, <1>2, <1>3, <1>4 DEF Last

\* A task takes a runner, or ends.
LEMMA TakeRunnerIs ==
    ASSUME ScanInv, NEW t \in TaskSlots, TakeRunner(t)
    PROVE  \E d \in Drivers, x \in Tasks, s \in Sources :
             /\ Shift(t, d, x, s) /\ task[t].pc = "pop"
             /\ s.err = src[d].err /\ s.buf = src[d].buf
             /\ \/ /\ x = NoTask /\ src[d].pool = <<>> /\ s.pool = <<>> /\ s.fin = src[d].fin
                   /\ s.inflight = src[d].inflight - 1
                \/ /\ x = NoTask /\ src[d].pool # <<>> /\ src[d].stop /\ s.fin
                   /\ s.pool = Front(src[d].pool) /\ s.inflight = src[d].inflight - 1
                \/ /\ x.pc = "top" /\ x.run = Last(src[d].pool) /\ src[d].pool # <<>>
                   /\ s.pool = Front(src[d].pool) /\ s.fin = src[d].fin
                   /\ s.inflight = src[d].inflight
<1>1. task[t].pc = "pop" BY DEF TakeRunner
<1>2. PICK d \in Drivers, y \in Tasks, a \in Sources :
         d = task[t].drv /\ y = task[t] /\ a = src[d]
    BY <1>1, ShiftIs
<1>3. y.pc = "pop" /\ Fit(y) /\ a.inflight - 1 \in Nat BY <1>1, <1>2, ShiftIs DEF FlyPcs
<1>4. CASE a.pool = <<>>
    <2>1. PICK s : s = [a EXCEPT !.inflight = a.inflight - 1] OBVIOUS
    <2>2. /\ s \in Sources /\ Core(s, a) /\ s.err = a.err /\ s.buf = a.buf /\ s.fin = a.fin
          /\ s.pool = a.pool /\ s.inflight = a.inflight - 1
        BY <1>3, <2>1 DEF Sources, Core
    <2>3. TaskStep(t, NoTask, s) BY <1>2, <1>4, <2>1 DEF TakeRunner
    <2>4. Shift(t, d, NoTask, s) BY <1>1, <1>2, <2>2, <2>3, NoTaskType, ShiftIs
    <2> QED BY <1>1, <1>2, <1>4, <2>2, <2>4, NoTaskType
<1>5. CASE a.pool # <<>> /\ a.stop
    <2>1. PICK p \in Seq(Runners) : p = Front(a.pool) BY <1>5, PoolFront DEF Sources
    <2>2. PICK s : s = Finish([[a EXCEPT !.pool = p] EXCEPT !.inflight = a.inflight - 1]) OBVIOUS
    <2>3. /\ s \in Sources /\ Core(s, a) /\ s.err = a.err /\ s.buf = a.buf /\ s.fin = TRUE
          /\ s.pool = p /\ s.inflight = a.inflight - 1
        BY <1>3, <2>2 DEF Sources, Core, Finish
    <2>4. TaskStep(t, NoTask, s)
        <3>1. [[a EXCEPT !.pool = p] EXCEPT !.inflight = @ - 1] =
                 [[a EXCEPT !.pool = p] EXCEPT !.inflight = a.inflight - 1]
            BY DEF Sources
        <3> QED BY <1>2, <1>5, <2>1, <2>2, <3>1 DEF TakeRunner
    <2>5. Shift(t, d, NoTask, s) BY <1>1, <1>2, <2>3, <2>4, NoTaskType, ShiftIs
    <2> QED BY <1>1, <1>2, <1>5, <2>1, <2>3, <2>5, NoTaskType
<1>6. CASE a.pool # <<>> /\ ~a.stop
    <2>1. PICK p \in Seq(Runners), r \in Runners : p = Front(a.pool) /\ r = Last(a.pool)
        BY <1>6, PoolFront DEF Sources
    <2>2. PICK s : s = [a EXCEPT !.pool = p] OBVIOUS
    <2>3. PICK x : x = [y EXCEPT !.pc = "top", !.run = r] OBVIOUS
    <2>4. /\ s \in Sources /\ Core(s, a) /\ s.err = a.err /\ s.buf = a.buf /\ s.fin = a.fin
          /\ s.pool = p /\ s.inflight = a.inflight
        BY <2>2 DEF Sources, Core
    <2>5. /\ x \in Tasks /\ x.pc = "top" /\ x.run = r /\ x.drv = y.drv
          /\ x.chunk = y.chunk /\ x.last = y.last
        BY <2>3 DEF Tasks, FlyPcs, HoldPcs
    <2>6. Fit(x) BY <1>3, <2>5 DEF Fit
    <2>7. TaskStep(t, x, s) BY <1>2, <1>6, <2>1, <2>2, <2>3 DEF TakeRunner
    <2>8. Shift(t, d, x, s) BY <1>1, <1>2, <2>4, <2>5, <2>6, <2>7, ShiftIs
    <2> QED BY <1>1, <1>2, <1>6, <2>1, <2>4, <2>5, <2>8
<1> QED BY <1>4, <1>5, <1>6

\* A task looks at its driver before it reads.
LEMMA TaskTopIs ==
    ASSUME ScanInv, NEW t \in TaskSlots, TaskTop(t)
    PROVE  \E d \in Drivers, x \in Tasks, s \in Sources :
             /\ Shift(t, d, x, s) /\ task[t].pc = "top" /\ x.run = task[t].run /\ ~x.last
             /\ x.chunk = NoChunk
             /\ s.err = src[d].err /\ s.buf = src[d].buf /\ s.pool = src[d].pool
             /\ s.inflight = src[d].inflight
             /\ \/ x.pc = "leave" /\ src[d].stop /\ s.fin
                \/ x.pc \in {"next", "keep"} /\ s.fin = src[d].fin
<1>1. task[t].pc = "top" BY DEF TaskTop
<1>2. PICK d \in Drivers, y \in Tasks, a \in Sources :
         d = task[t].drv /\ y = task[t] /\ a = src[d]
    BY <1>1, ShiftIs
<1>3. y.pc = "top" /\ Fit(y) BY <1>1, <1>2, ShiftIs
<1>4. ASSUME NEW c \in {"leave", "next", "keep"}, NEW x, x = [y EXCEPT !.pc = c]
      PROVE  /\ x \in Tasks /\ x.pc = c /\ x.run = y.run /\ x.drv = y.drv /\ x.chunk = NoChunk
             /\ ~x.last /\ Fit(x)
    <2>1. /\ x \in Tasks /\ x.pc = c /\ x.run = y.run /\ x.drv = y.drv
          /\ x.chunk = y.chunk /\ x.last = y.last
        BY <1>4 DEF Tasks, FlyPcs, HoldPcs
    <2> QED BY <1>3, <2>1 DEF Fit
<1>5. CASE a.stop
    <2>1. PICK s : s = Finish(a) OBVIOUS
    <2>2. PICK x : x = [y EXCEPT !.pc = "leave"] OBVIOUS
    <2>3. /\ s \in Sources /\ Core(s, a) /\ s.err = a.err /\ s.buf = a.buf /\ s.fin = TRUE
          /\ s.pool = a.pool /\ s.inflight = a.inflight
        BY <2>1 DEF Sources, Core, Finish
    <2>4. TaskStep(t, x, s) BY <1>2, <1>5, <2>1, <2>2 DEF TaskTop
    <2>5. /\ x \in Tasks /\ x.pc = "leave" /\ x.run = y.run /\ x.drv = y.drv
          /\ x.chunk = NoChunk /\ ~x.last /\ Fit(x)
        BY <1>4, <2>2
    <2>6. Shift(t, d, x, s) BY <1>1, <1>2, <2>3, <2>4, <2>5, ShiftIs
    <2> QED BY <1>1, <1>2, <1>5, <2>3, <2>5, <2>6
<1>6. CASE ~a.stop
    <2>1. PICK c \in {"next", "keep"} : c = IF HasCapacity(a) THEN "next" ELSE "keep" OBVIOUS
    <2>2. PICK x : x = [y EXCEPT !.pc = c] OBVIOUS
    <2>3. Core(a, a) BY DEF Core
    <2>4. TaskStep(t, x, a) BY <1>2, <1>6, <2>1, <2>2 DEF TaskTop
    <2>5. /\ x \in Tasks /\ x.pc = c /\ x.run = y.run /\ x.drv = y.drv
          /\ x.chunk = NoChunk /\ ~x.last /\ Fit(x)
        BY <1>4, <2>2
    <2>6. Shift(t, d, x, a) BY <1>1, <1>2, <2>3, <2>4, <2>5, ShiftIs
    <2> QED BY <1>1, <1>2, <2>5, <2>6
<1> QED BY <1>5, <1>6

\* A task takes the kept chunk or the next of its morsel; beyond the limit it ends.
LEMMA NextOfMorselIs ==
    ASSUME ScanInv, NEW t \in TaskSlots, NextOfMorsel(t)
    PROVE  \E d \in Drivers, x \in Tasks :
             /\ Shift(t, d, x, src[d]) /\ task[t].pc = "next"
             /\ full' \in BOOLEAN /\ counted' \in Nat
             /\ (job.limit = 0 => full' = full) /\ (full => full')
             /\ \/ x.pc = "leave" /\ x.last /\ job.limit > 0 /\ full'
                \/ /\ x.pc = "push" /\ ~x.last
                   /\ ToSet(task[t].run.iter) \cup {task[t].run.pend} \subseteq
                        ToSet(x.run.iter) \cup {x.chunk, NoChunk}
<1>1. task[t].pc = "next" BY DEF NextOfMorsel
<1>2. PICK d \in Drivers, y \in Tasks, a \in Sources :
         d = task[t].drv /\ y = task[t] /\ a = src[d]
    BY <1>1, ShiftIs
<1>3. y.pc = "next" /\ Fit(y) /\ ScanShape BY <1>1, <1>2, ShiftIs DEF ScanInv
<1>4. y.run \in Runners BY DEF Tasks
<1>5. PICK r \in Runners : r = y.run BY <1>4
<1>6. r.iter \in Seq(Nat \ {0}) /\ r.pend \in Nat /\ (~r.open => r.iter = <<>>)
      /\ r \in [open : BOOLEAN, iter : Morsels, pend : Nat]
    BY DEF Runners, Morsels, NoChunk
<1>7. r.pend = NoChunk => r.iter # <<>> BY <1>2, <1>5 DEF NextOfMorsel
<1>8. counted \in Nat /\ full \in BOOLEAN /\ job.limit \in Nat
    BY <1>3, ScanAssumption DEF ScanShape
<1>9. /\ full' \in BOOLEAN /\ counted' \in Nat
      /\ (job.limit = 0 => full' = full) /\ (full => full')
    BY <1>8 DEF NextOfMorsel
<1> DEFINE over == r.pend = NoChunk /\ job.limit > 0 /\ counted >= job.limit
<1>10. CASE over
    <2>1. PICK x : x = [y EXCEPT !.pc = "leave", !.last = TRUE] OBVIOUS
    <2>2. /\ x \in Tasks /\ x.pc = "leave" /\ x.last = TRUE /\ x.drv = y.drv
          /\ x.chunk = y.chunk
        BY <2>1 DEF Tasks, FlyPcs, HoldPcs
    <2>3. Fit(x) BY <1>3, <2>2 DEF Fit
    <2>4. TaskStep(t, x, a) BY <1>2, <1>5, <1>10, <2>1 DEF NextOfMorsel
    <2>5. Core(a, a) BY DEF Core
    <2>6. Shift(t, d, x, a) BY <1>1, <1>2, <2>2, <2>3, <2>4, <2>5, ShiftIs
    <2>7. full'
        <3>1. counted + 1 >= job.limit BY <1>8, <1>10
        <3> QED BY <1>2, <1>5, <1>10, <3>1 DEF NextOfMorsel
    <2> QED BY <1>1, <1>2, <1>9, <1>10, <2>2, <2>6, <2>7
<1>11. CASE ~over
    <2>1. PICK c, i : /\ c = IF r.pend # NoChunk THEN r.pend ELSE Head(r.iter)
                      /\ i = IF r.pend # NoChunk THEN r.iter ELSE Tail(r.iter)
        OBVIOUS
    <2>2. c \in Nat /\ i \in Seq(Nat \ {0}) BY <1>6, <1>7, <2>1
    <2>3. PICK q : q = [[r EXCEPT !.pend = NoChunk] EXCEPT !.iter = i] OBVIOUS
    <2>4. q \in Runners /\ q.iter = i /\ q.pend = NoChunk
        <3>1. /\ q \in [open : BOOLEAN, iter : Morsels, pend : Nat]
              /\ q.iter = i /\ q.pend = NoChunk /\ q.open = r.open
            BY <1>6, <2>2, <2>3 DEF Morsels, NoChunk
        <3>2. ~r.open => i = <<>> BY <1>6, <1>7, <2>1
        <3> QED BY <3>1, <3>2 DEF Runners
    <2>5. PICK x : x = [[[y EXCEPT !.pc = "push"] EXCEPT !.chunk = c] EXCEPT !.run = q] OBVIOUS
    <2>6. /\ x \in Tasks /\ x.pc = "push" /\ x.last = y.last /\ x.drv = y.drv
          /\ x.chunk = c /\ x.run = q
        BY <2>2, <2>4, <2>5 DEF Tasks, FlyPcs, HoldPcs
    <2>7. Fit(x) /\ ~x.last BY <1>3, <2>4, <2>6 DEF Fit
    <2>8. TaskStep(t, x, a)
        <3>1. [y EXCEPT !.pc = "push", !.chunk = c, !.run.pend = NoChunk, !.run.iter = i] = x
            BY <1>5, <2>3, <2>5 DEF Tasks, Runners
        <3> QED BY <1>2, <1>5, <1>11, <2>1, <3>1 DEF NextOfMorsel
    <2>9. Core(a, a) BY DEF Core
    <2>10. Shift(t, d, x, a) BY <1>1, <1>2, <2>6, <2>7, <2>8, <2>9, ShiftIs
    <2>11. ToSet(r.iter) \cup {r.pend} \subseteq ToSet(i) \cup {c, NoChunk}
        <3>1. CASE r.pend # NoChunk BY <2>1, <3>1
        <3>2. CASE r.pend = NoChunk
            <4>1. r.iter # <<>> /\ c = Head(r.iter) /\ i = Tail(r.iter) BY <1>7, <2>1, <3>2
            <4>2. ASSUME NEW k \in DOMAIN r.iter PROVE r.iter[k] \in ToSet(i) \cup {c}
                <5>1. CASE k = 1 BY <4>1, <5>1
                <5>2. CASE k # 1
                    <6>1. k - 1 \in DOMAIN i /\ i[k - 1] = r.iter[k] BY <1>6, <4>1, <5>2
                    <6> QED BY <6>1 DEF ToSet
                <5> QED BY <5>1, <5>2
            <4> QED BY <3>2, <4>2 DEF ToSet
        <3> QED BY <3>1, <3>2
    <2> QED BY <1>1, <1>2, <1>5, <1>9, <2>4, <2>6, <2>7, <2>10, <2>11
<1> QED BY <1>10, <1>11

\* A task whose morsel is read takes the next, or finds the queue empty.
LEMMA NextMorselIs ==
    ASSUME ScanInv, NEW t \in TaskSlots, NextMorsel(t)
    PROVE  \E d \in Drivers, x \in Tasks :
             /\ Shift(t, d, x, src[d]) /\ task[t].pc = "next" /\ x.chunk = NoChunk
             /\ task[t].run.iter = <<>> /\ task[t].run.pend = NoChunk
             /\ UNCHANGED <<more, counted, full, used>>
             /\ \/ /\ QueueEmpty /\ x.pc = "leave" /\ x.last /\ UNCHANGED <<morsels, popped>>
                \/ /\ ~QueueEmpty /\ x.pc = "next" /\ ~x.last /\ x.run.iter = Head(morsels)
                   /\ morsels' = Tail(morsels) /\ popped' = Append(popped, Head(morsels))
<1>1. task[t].pc = "next" BY DEF NextMorsel
<1>2. PICK d \in Drivers, y \in Tasks, a \in Sources :
         d = task[t].drv /\ y = task[t] /\ a = src[d]
    BY <1>1, ShiftIs
<1>3. y.pc = "next" /\ Fit(y) /\ ScanShape BY <1>1, <1>2, ShiftIs DEF ScanInv
<1>4. src \in [Drivers -> Sources] /\ task \in [TaskSlots -> Tasks] /\ morsels \in Seq(Morsels)
    BY <1>3 DEF ScanShape
<1>5. /\ src' \in [Drivers -> Sources] /\ \A e \in Drivers : Like(src'[e], src[e])
    <2>1. src' = AllAwake(src) \/ src' = src BY DEF NextMorsel
    <2>2. \A e \in Drivers : Like(src[e], src[e]) BY DEF Like
    <2> QED BY <1>4, <2>1, <2>2, AwakeLike
<1>6. UNCHANGED <<job, handle, waiting, rpc, given, more, counted, full, used>>
    BY DEF NextMorsel, rangeVars
<1>7. ASSUME NEW x \in Tasks, x.drv = d, Fit(x), task' = [task EXCEPT ![t] = x]
      PROVE  Shift(t, d, x, a)
    <2>1. /\ task' \in [TaskSlots -> Tasks] /\ task'[t] = x
          /\ \A u \in TaskSlots \ {t} : task'[u] = task[u]
        BY <1>4, <1>7
    <2>2. Moves(t, d, x, a) BY <1>2, <1>5, <1>6, <1>7, <2>1 DEF Moves
    <2> QED BY <1>2, <1>6, <1>7, <2>2 DEF Shift, Core
<1>8. y.run.iter = <<>> /\ y.run.pend = NoChunk BY <1>2 DEF NextMorsel
<1>9. CASE QueueEmpty
    <2>1. PICK x : x = [y EXCEPT !.pc = "leave", !.last = TRUE] OBVIOUS
    <2>2. /\ x \in Tasks /\ x.pc = "leave" /\ x.last = TRUE /\ x.drv = y.drv
          /\ x.chunk = y.chunk
        BY <2>1 DEF Tasks, FlyPcs, HoldPcs
    <2>3. Fit(x) /\ x.chunk = NoChunk BY <1>3, <2>2 DEF Fit
    <2>4. task' = [task EXCEPT ![t] = x] BY <1>2, <1>4, <1>9, <2>1 DEF NextMorsel
    <2>5. UNCHANGED <<morsels, popped>> BY <1>9 DEF NextMorsel
    <2>6. Shift(t, d, x, a) BY <1>2, <1>7, <2>2, <2>3, <2>4
    <2> QED BY <1>1, <1>2, <1>6, <1>8, <1>9, <2>2, <2>3, <2>5, <2>6
<1>10. CASE ~QueueEmpty
    <2>1. Head(morsels) \in Morsels BY <1>4, <1>10 DEF QueueEmpty
    <2>2. PICK r : r = [open |-> TRUE, iter |-> Head(morsels), pend |-> NoChunk] OBVIOUS
    <2>3. r \in Runners /\ r.iter = Head(morsels) /\ r.pend = NoChunk
        BY <2>1, <2>2 DEF Runners, NoChunk
    <2>4. PICK x : x = [y EXCEPT !.run = r] OBVIOUS
    <2>5. /\ x \in Tasks /\ x.pc = y.pc /\ x.last = y.last /\ x.drv = y.drv
          /\ x.chunk = y.chunk /\ x.run = r
        BY <2>3, <2>4 DEF Tasks, FlyPcs, HoldPcs
    <2>6. Fit(x) /\ x.chunk = NoChunk /\ ~x.last BY <1>3, <2>5 DEF Fit
    <2>7. task' = [task EXCEPT ![t] = x] BY <1>2, <1>4, <1>10, <2>2, <2>4 DEF NextMorsel
    <2>8. morsels' = Tail(morsels) /\ popped' = Append(popped, Head(morsels))
        BY <1>10 DEF NextMorsel
    <2>9. Shift(t, d, x, a) BY <1>2, <1>7, <2>5, <2>6, <2>7
    <2> QED BY <1>1, <1>2, <1>3, <1>6, <1>8, <1>10, <2>3, <2>5, <2>6, <2>8, <2>9
<1> QED BY <1>9, <1>10

\* Opening or reading fails.
LEMMA ReadFailsIs ==
    ASSUME ScanInv, NEW t \in TaskSlots, ReadFails(t)
    PROVE  \E d \in Drivers, x \in Tasks, s \in Sources :
             /\ Shift(t, d, x, s) /\ task[t].pc = "next" /\ x.pc = "leave" /\ ~x.last
             /\ s.err /\ s.buf = src[d].buf /\ s.pool = src[d].pool
             /\ s.inflight = src[d].inflight
<1>1. task[t].pc = "next" BY DEF ReadFails
<1>2. PICK d \in Drivers, y \in Tasks, a \in Sources :
         d = task[t].drv /\ y = task[t] /\ a = src[d]
    BY <1>1, ShiftIs
<1>3. y.pc = "next" /\ Fit(y) BY <1>1, <1>2, ShiftIs
<1>4. PICK x : x = [y EXCEPT !.pc = "leave"] OBVIOUS
<1>5. PICK s : s = [Finish(a) EXCEPT !.err = TRUE] OBVIOUS
<1>6. x \in Tasks /\ x.pc = "leave" /\ x.last = y.last /\ x.drv = y.drv /\ x.chunk = y.chunk
    BY <1>4 DEF Tasks, FlyPcs, HoldPcs
<1>7. Fit(x) /\ ~x.last BY <1>3, <1>6 DEF Fit
<1>8. /\ s \in Sources /\ Core(s, a) /\ s.err = TRUE /\ s.buf = a.buf /\ s.pool = a.pool
      /\ s.inflight = a.inflight
    BY <1>5 DEF Sources, Core, Finish
<1>9. TaskStep(t, x, s) BY <1>2, <1>4, <1>5 DEF ReadFails
<1>10. Shift(t, d, x, s) BY <1>1, <1>2, <1>6, <1>7, <1>8, <1>9, ShiftIs
<1> QED BY <1>1, <1>2, <1>6, <1>7, <1>8, <1>10

\* A task hands its chunk to the buffer, or keeps it, or drops it when stopped.
LEMMA PushScannedIs ==
    ASSUME ScanInv, NEW t \in TaskSlots, PushScanned(t)
    PROVE  \E d \in Drivers, x \in Tasks, s \in Sources :
             /\ Shift(t, d, x, s) /\ task[t].pc = "push" /\ ~x.last
             /\ s.err = src[d].err /\ s.pool = src[d].pool /\ s.inflight = src[d].inflight
             /\ \/ x.pc = "leave" /\ src[d].stop /\ s.fin /\ s.buf = src[d].buf
                \/ /\ x.pc = "top" /\ x.run = task[t].run /\ HasCapacity(src[d])
                   /\ s.buf = Append(src[d].buf, task[t].chunk) /\ s.fin = src[d].fin
                \/ /\ x.pc = "keep" /\ x.run.iter = task[t].run.iter
                   /\ x.run.pend = task[t].chunk /\ s.buf = src[d].buf /\ s.fin = src[d].fin
<1>1. task[t].pc = "push" BY DEF PushScanned
<1>2. PICK d \in Drivers, y \in Tasks, a \in Sources :
         d = task[t].drv /\ y = task[t] /\ a = src[d]
    BY <1>1, ShiftIs
<1>3. y.pc = "push" /\ Fit(y) BY <1>1, <1>2, ShiftIs
<1>4. CASE a.stop
    <2>1. PICK x : x = [y EXCEPT !.pc = "leave", !.chunk = NoChunk] OBVIOUS
    <2>2. PICK s : s = Finish(a) OBVIOUS
    <2>3. x \in Tasks /\ x.pc = "leave" /\ x.last = y.last /\ x.drv = y.drv /\ x.chunk = NoChunk
        BY <2>1 DEF Tasks, FlyPcs, HoldPcs, NoChunk
    <2>4. Fit(x) /\ ~x.last BY <1>3, <2>3 DEF Fit
    <2>5. /\ s \in Sources /\ Core(s, a) /\ s.err = a.err /\ s.buf = a.buf /\ s.pool = a.pool
          /\ s.inflight = a.inflight /\ s.fin = TRUE
        BY <2>2 DEF Sources, Core, Finish
    <2>6. TaskStep(t, x, s) BY <1>2, <1>4, <2>1, <2>2 DEF PushScanned
    <2>7. Shift(t, d, x, s) BY <1>1, <1>2, <2>3, <2>4, <2>5, <2>6, ShiftIs
    <2> QED BY <1>1, <1>2, <1>4, <2>3, <2>4, <2>5, <2>7
<1>5. CASE ~a.stop /\ HasCapacity(a)
    <2>1. PICK x : x = [y EXCEPT !.pc = "top", !.chunk = NoChunk] OBVIOUS
    <2>2. PICK b : b = Append(a.buf, y.chunk) OBVIOUS
    <2>3. b \in Seq(Nat) BY <2>2 DEF Sources, Tasks
    <2>4. PICK s : s = [a EXCEPT !.buf = b, !.wake = TRUE] OBVIOUS
    <2>5. /\ x \in Tasks /\ x.pc = "top" /\ x.last = y.last /\ x.drv = y.drv
          /\ x.chunk = NoChunk /\ x.run = y.run
        BY <2>1 DEF Tasks, FlyPcs, HoldPcs, NoChunk
    <2>6. Fit(x) /\ ~x.last BY <1>3, <2>5 DEF Fit
    <2>7. /\ s \in Sources /\ Core(s, a) /\ s.err = a.err /\ s.buf = b /\ s.pool = a.pool
          /\ s.inflight = a.inflight /\ s.fin = a.fin
        BY <2>3, <2>4 DEF Sources, Core
    <2>8. TaskStep(t, x, s)
        <3>1. [a EXCEPT !.buf = Append(@, y.chunk), !.wake = TRUE] = s
            BY <2>2, <2>4 DEF Sources
        <3> QED BY <1>2, <1>5, <2>1, <3>1 DEF PushScanned
    <2>9. Shift(t, d, x, s) BY <1>1, <1>2, <2>5, <2>6, <2>7, <2>8, ShiftIs
    <2> QED BY <1>1, <1>2, <1>5, <2>2, <2>5, <2>6, <2>7, <2>9
<1>6. CASE ~a.stop /\ ~HasCapacity(a)
    <2>1. PICK r \in Runners : r = y.run BY DEF Tasks
    <2>2. PICK q : q = [r EXCEPT !.pend = y.chunk] OBVIOUS
    <2>3. q \in Runners /\ q.iter = r.iter /\ q.pend = y.chunk
        <3>1. y.chunk \in Nat BY DEF Tasks
        <3>2. /\ q \in [open : BOOLEAN, iter : Morsels, pend : Nat]
              /\ q.iter = r.iter /\ q.pend = y.chunk /\ q.open = r.open
            BY <2>2, <3>1 DEF Runners
        <3> QED BY <3>2 DEF Runners
    <2>4. PICK x : x = [[[y EXCEPT !.pc = "keep"] EXCEPT !.chunk = NoChunk] EXCEPT !.run = q]
        OBVIOUS
    <2>5. /\ x \in Tasks /\ x.pc = "keep" /\ x.last = y.last /\ x.drv = y.drv
          /\ x.chunk = NoChunk /\ x.run = q
        BY <2>3, <2>4 DEF Tasks, FlyPcs, HoldPcs, NoChunk
    <2>6. Fit(x) /\ ~x.last BY <1>3, <2>5 DEF Fit
    <2>7. Core(a, a) BY DEF Core
    <2>8. TaskStep(t, x, a)
        <3>1. [y EXCEPT !.pc = "keep", !.chunk = NoChunk, !.run.pend = y.chunk] = x
            BY <2>1, <2>2, <2>4 DEF Tasks, Runners
        <3> QED BY <1>2, <1>6, <3>1 DEF PushScanned
    <2>9. Shift(t, d, x, a) BY <1>1, <1>2, <2>5, <2>6, <2>7, <2>8, ShiftIs
    <2> QED BY <1>1, <1>2, <1>6, <2>1, <2>3, <2>5, <2>6, <2>9
<1> QED BY <1>4, <1>5, <1>6

\* A task gives its runner back.
LEMMA KeepRunnerIs ==
    ASSUME ScanInv, NEW t \in TaskSlots, KeepRunner(t)
    PROVE  \E d \in Drivers, x \in Tasks, s \in Sources :
             /\ Shift(t, d, x, s) /\ task[t].pc = "keep" /\ x.pc = "leave" /\ ~x.last
             /\ s.err = src[d].err /\ s.buf = src[d].buf /\ s.fin = src[d].fin
             /\ s.inflight = src[d].inflight /\ s.pool = Append(src[d].pool, task[t].run)
             /\ task[t].run \in Runners
<1>1. task[t].pc = "keep" BY DEF KeepRunner
<1>2. PICK d \in Drivers, y \in Tasks, a \in Sources :
         d = task[t].drv /\ y = task[t] /\ a = src[d]
    BY <1>1, ShiftIs
<1>3. y.pc = "keep" /\ Fit(y) BY <1>1, <1>2, ShiftIs
<1>4. PICK x : x = [y EXCEPT !.pc = "leave"] OBVIOUS
<1>5. PICK p : p = Append(a.pool, y.run) OBVIOUS
<1>6. p \in Seq(Runners) /\ y.run \in Runners BY <1>5 DEF Sources, Tasks
<1>7. PICK s : s = [a EXCEPT !.pool = p] OBVIOUS
<1>8. x \in Tasks /\ x.pc = "leave" /\ x.last = y.last /\ x.drv = y.drv /\ x.chunk = y.chunk
    BY <1>4 DEF Tasks, FlyPcs, HoldPcs
<1>9. Fit(x) /\ ~x.last BY <1>3, <1>8 DEF Fit
<1>10. /\ s \in Sources /\ Core(s, a) /\ s.err = a.err /\ s.buf = a.buf /\ s.pool = p
       /\ s.inflight = a.inflight /\ s.fin = a.fin
    BY <1>6, <1>7 DEF Sources, Core
<1>11. TaskStep(t, x, s)
    <2>1. [a EXCEPT !.pool = Append(@, y.run)] = s BY <1>5, <1>7 DEF Sources
    <2> QED BY <1>2, <1>4, <2>1 DEF KeepRunner
<1>12. Shift(t, d, x, s) BY <1>1, <1>2, <1>8, <1>9, <1>10, <1>11, ShiftIs
<1> QED BY <1>1, <1>2, <1>5, <1>6, <1>8, <1>9, <1>10, <1>12

\* A task leaves the inflight count; the last one still has to look at the pool.
LEMMA LeaveInflightIs ==
    ASSUME ScanInv, NEW t \in TaskSlots, LeaveInflight(t)
    PROVE  \E d \in Drivers, x \in Tasks, s \in Sources :
             /\ Shift(t, d, x, s) /\ task[t].pc = "leave"
             /\ s.err = src[d].err /\ s.buf = src[d].buf /\ s.fin = src[d].fin
             /\ s.inflight = src[d].inflight - 1 /\ s.pool = src[d].pool
             /\ \/ x.pc = "judge" /\ task[t].last /\ ~x.last
                \/ x = NoTask
<1>1. task[t].pc = "leave" BY DEF LeaveInflight
<1>2. PICK d \in Drivers, y \in Tasks, a \in Sources :
         d = task[t].drv /\ y = task[t] /\ a = src[d]
    BY <1>1, ShiftIs
<1>3. y.pc = "leave" /\ Fit(y) /\ a.inflight - 1 \in Nat BY <1>1, <1>2, ShiftIs DEF FlyPcs
<1>4. PICK s : s = [a EXCEPT !.inflight = a.inflight - 1] OBVIOUS
<1>5. /\ s \in Sources /\ Core(s, a) /\ s.err = a.err /\ s.buf = a.buf /\ s.pool = a.pool
      /\ s.inflight = a.inflight - 1 /\ s.fin = a.fin
    BY <1>3, <1>4 DEF Sources, Core
<1>6. [a EXCEPT !.inflight = @ - 1] = s BY <1>4 DEF Sources
<1>7. CASE y.last /\ a.inflight = 1
    <2>1. PICK x : x = [NoTask EXCEPT !.pc = "judge", !.drv = y.drv] OBVIOUS
    <2>2. x \in Tasks /\ x.pc = "judge" /\ x.last = FALSE /\ x.drv = y.drv /\ x.chunk = NoChunk
        BY <2>1, NoTaskType DEF Tasks, FlyPcs, HoldPcs
    <2>3. Fit(x) BY <2>2 DEF Fit
    <2>4. TaskStep(t, x, s) BY <1>2, <1>6, <1>7, <2>1 DEF LeaveInflight
    <2>5. Shift(t, d, x, s) BY <1>1, <1>2, <1>5, <2>2, <2>3, <2>4, ShiftIs
    <2> QED BY <1>1, <1>2, <1>5, <1>7, <2>2, <2>5
<1>8. CASE ~(y.last /\ a.inflight = 1)
    <2>1. TaskStep(t, NoTask, s) BY <1>2, <1>6, <1>8 DEF LeaveInflight
    <2>2. Shift(t, d, NoTask, s) BY <1>1, <1>2, <1>5, <2>1, NoTaskType, ShiftIs
    <2> QED BY <1>1, <1>2, <1>5, <2>2, NoTaskType
<1> QED BY <1>7, <1>8

\* The last task looks at the pool.
LEMMA JudgePoolIs ==
    ASSUME ScanInv, NEW t \in TaskSlots, JudgePool(t)
    PROVE  \E d \in Drivers, s \in Sources :
             /\ Shift(t, d, NoTask, s) /\ task[t].pc = "judge"
             /\ s.err = src[d].err /\ s.buf = src[d].buf /\ s.inflight = src[d].inflight
             /\ s.pool = src[d].pool /\ (src[d].fin => s.fin)
             /\ s.fin # src[d].fin => ~PoolBusy(src[d].pool)
<1>1. task[t].pc = "judge" BY DEF JudgePool
<1>2. PICK d \in Drivers, y \in Tasks, a \in Sources :
         d = task[t].drv /\ y = task[t] /\ a = src[d]
    BY <1>1, ShiftIs
<1>3. PICK s : s = IF PoolBusy(a.pool) THEN a ELSE Finish(a) OBVIOUS
<1>4. /\ s \in Sources /\ Core(s, a) /\ s.err = a.err /\ s.buf = a.buf /\ s.pool = a.pool
      /\ s.inflight = a.inflight /\ (a.fin => s.fin)
      /\ s.fin # a.fin => ~PoolBusy(a.pool)
    BY <1>3 DEF Sources, Core, Finish
<1>5. TaskStep(t, NoTask, s) BY <1>2, <1>3 DEF JudgePool
<1>6. Shift(t, d, NoTask, s) BY <1>1, <1>2, <1>4, <1>5, NoTaskType, ShiftIs
<1> QED BY <1>1, <1>2, <1>4, <1>6

\* The shape of what the drivers share.
DispatchTypes ==
    /\ morsels \in Seq(Morsels) /\ more \in BOOLEAN /\ counted \in Nat /\ full \in BOOLEAN
    /\ popped \in Seq(Morsels) /\ used \in [rejects : 0..job.rejects, stops : 0..job.stops]

\* A step of a task that keeps the accounts keeps the invariant.
LEMMA ShiftKeeps ==
    ASSUME ScanInv, NEW t \in TaskSlots, NEW d \in Drivers, NEW x \in Tasks, NEW s \in Sources,
           Shift(t, d, x, s), Books(t, d, x, s), Len(s.buf) <= MaxBuffered, DispatchTypes'
    PROVE  ScanInv'
<1>1. Moves(t, d, x, s) /\ UNCHANGED <<handle, waiting, rpc>> /\ Fit(x) BY DEF Shift
<1>2. s.pc = src[d].pc /\ s.take = src[d].take BY DEF Shift, Core
<1>3. /\ OneBinds' /\ \A u \in TaskSlots : TaskOK(u)'
      /\ \A e \in Drivers : CountOK(e)' /\ TakeOK(e)'
    BY <1>1, <1>2, MovesKeep
<1>4. job' = job /\ Drivers' = Drivers BY <1>1 DEF Moves, Drivers
<1>5. ScanShape' BY <1>1, <1>4 DEF ScanInv, ScanShape, DispatchTypes, Moves
<1> QED BY <1>3, <1>4, <1>5 DEF ScanInv

\* Lengths of a driver's sequences, and its counts.
LEMMA SourceNumbers ==
    ASSUME ScanInv, NEW d \in Drivers
    PROVE  /\ src[d] \in Sources /\ Len(src[d].pool) \in Nat /\ Len(src[d].buf) \in Nat
           /\ src[d].inflight \in Nat /\ job.tasks \in Nat /\ src[d].inflight <= job.tasks
           /\ Len(src[d].buf) <= MaxBuffered /\ MaxBuffered \in Nat
<1>1. ScanShape /\ CountOK(d) BY DEF ScanInv
<1>2. src[d] \in Sources /\ job.tasks \in Nat /\ MaxBuffered \in Nat
    BY <1>1, ScanAssumption DEF ScanShape
<1> QED BY <1>1, <1>2 DEF CountOK, Sources

\* What the steps count for.
LEMMA Weights ==
    /\ Fly("free") = 0 /\ Fly("judge") = 0 /\ Fly("pop") = 1 /\ Fly("leave") = 1
    /\ Fly("top") = 1 /\ Fly("next") = 1 /\ Fly("push") = 1 /\ Fly("keep") = 1
    /\ Hold("free") = 0 /\ Hold("judge") = 0 /\ Hold("pop") = 0 /\ Hold("leave") = 0
    /\ Hold("top") = 1 /\ Hold("next") = 1 /\ Hold("push") = 1 /\ Hold("keep") = 1
BY DEF Fly, Hold, FlyPcs, HoldPcs

\* Every step of a task keeps the invariant.
LEMMA TaskKeeps ==
    ASSUME ScanInv, NEW t \in TaskSlots, RunTask(t) \/ ReadFails(t)
    PROVE  ScanInv'
<1>1. ScanShape /\ DispatchTypes BY DEF ScanInv, ScanShape, DispatchTypes
<1>2. CASE TakeRunner(t)
    <2>1. PICK d \in Drivers, x \in Tasks, s \in Sources :
             /\ Shift(t, d, x, s) /\ task[t].pc = "pop"
             /\ s.err = src[d].err /\ s.buf = src[d].buf
             /\ \/ /\ x = NoTask /\ src[d].pool = <<>> /\ s.pool = <<>> /\ s.fin = src[d].fin
                   /\ s.inflight = src[d].inflight - 1
                \/ /\ x = NoTask /\ src[d].pool # <<>> /\ src[d].stop /\ s.fin
                   /\ s.pool = Front(src[d].pool) /\ s.inflight = src[d].inflight - 1
                \/ /\ x.pc = "top" /\ x.run = Last(src[d].pool) /\ src[d].pool # <<>>
                   /\ s.pool = Front(src[d].pool) /\ s.fin = src[d].fin
                   /\ s.inflight = src[d].inflight
        BY <1>2, TakeRunnerIs
    <2>2. DispatchTypes'
        <3>1. job' = job BY <2>1 DEF Shift, Moves
        <3> QED BY <1>1, <1>2, <3>1 DEF TakeRunner, DispatchTypes, dispatchVars
    <2>3. src[d].pool # <<>> => Len(Front(src[d].pool)) = Len(src[d].pool) - 1
        BY SourceNumbers, PoolFront DEF Sources
    <2>4. Books(t, d, x, s)
        <3>1. /\ src[d].inflight \in Nat /\ src[d].inflight <= job.tasks /\ job.tasks \in Nat
              /\ Len(src[d].pool) \in Nat
            BY SourceNumbers
        <3>2. CASE x = NoTask
            <4>1. Len(s.pool) <= Len(src[d].pool) BY <2>1, <2>3, <3>1, <3>2, NoTaskType
            <4>2. s.inflight = src[d].inflight - 1 BY <2>1, <3>2, NoTaskType
            <4> QED BY <2>1, <3>1, <3>2, <4>1, <4>2, NoTaskType, Weights DEF Books
        <3>3. CASE x # NoTask
            BY <2>1, <2>3, <3>1, <3>3, Weights DEF Books
        <3> QED BY <3>2, <3>3
    <2> QED BY <2>1, <2>2, <2>4, SourceNumbers, ShiftKeeps
<1>3. CASE TaskTop(t)
    <2>1. PICK d \in Drivers, x \in Tasks, s \in Sources :
             /\ Shift(t, d, x, s) /\ task[t].pc = "top" /\ s.buf = src[d].buf
             /\ s.pool = src[d].pool /\ s.inflight = src[d].inflight
             /\ x.pc \in {"leave", "next", "keep"}
        BY <1>3, TaskTopIs
    <2>2. DispatchTypes'
        <3>1. job' = job BY <2>1 DEF Shift, Moves
        <3> QED BY <1>1, <1>3, <3>1 DEF TaskTop, DispatchTypes, dispatchVars
    <2>3. Books(t, d, x, s) BY <2>1, SourceNumbers, Weights DEF Books
    <2> QED BY <2>1, <2>2, <2>3, SourceNumbers, ShiftKeeps
<1>4. CASE NextOfMorsel(t)
    <2>1. PICK d \in Drivers, x \in Tasks :
             /\ Shift(t, d, x, src[d]) /\ task[t].pc = "next" /\ x.pc \in {"leave", "push"}
             /\ full' \in BOOLEAN /\ counted' \in Nat
        BY <1>4, NextOfMorselIs
    <2>2. DispatchTypes'
        <3>1. job' = job BY <2>1 DEF Shift, Moves
        <3>2. UNCHANGED <<morsels, more, popped, used>> BY <1>4 DEF NextOfMorsel
        <3> QED BY <1>1, <2>1, <3>1, <3>2 DEF DispatchTypes
    <2>3. Books(t, d, x, src[d]) BY <2>1, SourceNumbers, Weights DEF Books
    <2> QED BY <2>1, <2>2, <2>3, SourceNumbers, ShiftKeeps
<1>5. CASE NextMorsel(t)
    <2>1. PICK d \in Drivers, x \in Tasks :
             /\ Shift(t, d, x, src[d]) /\ task[t].pc = "next" /\ x.pc \in {"leave", "next"}
             /\ UNCHANGED <<more, counted, full, used>>
             /\ \/ UNCHANGED <<morsels, popped>>
                \/ /\ ~QueueEmpty
                   /\ morsels' = Tail(morsels) /\ popped' = Append(popped, Head(morsels))
        BY <1>5, NextMorselIs
    <2>2. DispatchTypes'
        <3>1. job' = job BY <2>1 DEF Shift, Moves
        <3>2. ~QueueEmpty => /\ Tail(morsels) \in Seq(Morsels)
                             /\ Append(popped, Head(morsels)) \in Seq(Morsels)
            BY <1>1 DEF DispatchTypes, QueueEmpty
        <3> QED BY <1>1, <2>1, <3>1, <3>2 DEF DispatchTypes
    <2>3. Books(t, d, x, src[d]) BY <2>1, SourceNumbers, Weights DEF Books
    <2> QED BY <2>1, <2>2, <2>3, SourceNumbers, ShiftKeeps
<1>6. CASE PushScanned(t)
    <2>1. PICK d \in Drivers, x \in Tasks, s \in Sources :
             /\ Shift(t, d, x, s) /\ task[t].pc = "push" /\ x.pc \in {"leave", "top", "keep"}
             /\ s.pool = src[d].pool /\ s.inflight = src[d].inflight
             /\ \/ s.buf = src[d].buf
                \/ HasCapacity(src[d]) /\ s.buf = Append(src[d].buf, task[t].chunk)
        BY <1>6, PushScannedIs
    <2>2. DispatchTypes'
        <3>1. job' = job BY <2>1 DEF Shift, Moves
        <3> QED BY <1>1, <1>6, <3>1 DEF PushScanned, DispatchTypes, dispatchVars
    <2>3. Books(t, d, x, s) BY <2>1, SourceNumbers, Weights DEF Books
    <2>4. Len(s.buf) <= MaxBuffered
        <3>1. src[d].buf \in Seq(Nat) /\ task[t].chunk \in Nat
            BY <1>1, SourceNumbers DEF ScanShape, Sources, Tasks
        <3>2. Len(Append(src[d].buf, task[t].chunk)) = Len(src[d].buf) + 1 BY <3>1
        <3> QED BY <2>1, <3>2, SourceNumbers DEF HasCapacity
    <2> QED BY <2>1, <2>2, <2>3, <2>4, ShiftKeeps
<1>7. CASE KeepRunner(t)
    <2>1. PICK d \in Drivers, x \in Tasks, s \in Sources :
             /\ Shift(t, d, x, s) /\ task[t].pc = "keep" /\ x.pc = "leave"
             /\ s.buf = src[d].buf /\ s.inflight = src[d].inflight
             /\ s.pool = Append(src[d].pool, task[t].run) /\ task[t].run \in Runners
        BY <1>7, KeepRunnerIs
    <2>2. DispatchTypes'
        <3>1. job' = job BY <2>1 DEF Shift, Moves
        <3> QED BY <1>1, <1>7, <3>1 DEF KeepRunner, DispatchTypes, dispatchVars
    <2>3. Len(s.pool) = Len(src[d].pool) + 1 BY <2>1, SourceNumbers DEF Sources
    <2>4. Books(t, d, x, s) BY <2>1, <2>3, SourceNumbers, Weights DEF Books
    <2> QED BY <2>1, <2>2, <2>4, SourceNumbers, ShiftKeeps
<1>8. CASE LeaveInflight(t)
    <2>1. PICK d \in Drivers, x \in Tasks, s \in Sources :
             /\ Shift(t, d, x, s) /\ task[t].pc = "leave" /\ x.pc \in {"judge", "free"}
             /\ s.buf = src[d].buf /\ s.inflight = src[d].inflight - 1
             /\ s.pool = src[d].pool
        BY <1>8, LeaveInflightIs, NoTaskType
    <2>2. DispatchTypes'
        <3>1. job' = job BY <2>1 DEF Shift, Moves
        <3> QED BY <1>1, <1>8, <3>1 DEF LeaveInflight, DispatchTypes, dispatchVars
    <2>3. Books(t, d, x, s) BY <2>1, SourceNumbers, Weights DEF Books
    <2> QED BY <2>1, <2>2, <2>3, SourceNumbers, ShiftKeeps
<1>9. CASE JudgePool(t)
    <2>1. PICK d \in Drivers, s \in Sources :
             /\ Shift(t, d, NoTask, s) /\ task[t].pc = "judge"
             /\ s.buf = src[d].buf /\ s.inflight = src[d].inflight
             /\ s.pool = src[d].pool
        BY <1>9, JudgePoolIs
    <2>2. DispatchTypes'
        <3>1. job' = job BY <2>1 DEF Shift, Moves
        <3> QED BY <1>1, <1>9, <3>1 DEF JudgePool, DispatchTypes, dispatchVars
    <2>3. Books(t, d, NoTask, s) BY <2>1, SourceNumbers, NoTaskType, Weights DEF Books
    <2> QED BY <2>1, <2>2, <2>3, SourceNumbers, NoTaskType, ShiftKeeps
<1>10. CASE ReadFails(t)
    <2>1. PICK d \in Drivers, x \in Tasks, s \in Sources :
             /\ Shift(t, d, x, s) /\ task[t].pc = "next" /\ x.pc = "leave"
             /\ s.buf = src[d].buf /\ s.inflight = src[d].inflight
             /\ s.pool = src[d].pool
        BY <1>10, ReadFailsIs
    <2>2. DispatchTypes'
        <3>1. job' = job BY <2>1 DEF Shift, Moves
        <3>2. UNCHANGED <<morsels, more, counted, full, popped>>
            BY <1>10 DEF ReadFails, dispatchVars
        <3>3. used' \in [rejects : 0..job.rejects, stops : 0..job.stops]
            <4>1. used \in [rejects : 0..job.rejects, stops : 0..job.stops] /\ job.stops \in Nat
                BY <1>1, ScanAssumption DEF ScanShape
            <4>2. used.stops < job.stops /\ used' = [used EXCEPT !.stops = @ + 1]
                BY <1>10 DEF ReadFails
            <4> QED BY <4>1, <4>2
        <3> QED BY <1>1, <3>1, <3>2, <3>3 DEF DispatchTypes
    <2>3. Books(t, d, x, s) BY <2>1, SourceNumbers, Weights DEF Books
    <2> QED BY <2>1, <2>2, <2>3, SourceNumbers, ShiftKeeps
<1> QED BY <1>2, <1>3, <1>4, <1>5, <1>6, <1>7, <1>8, <1>9, <1>10 DEF RunTask

-----------------------------------------------------------------------------
(* The steps of a driver that runs.                                        *)

\* A step of driver d makes its state s.
Turn(d, s) ==
    /\ src' \in [Drivers -> Sources] /\ src'[d] = s
    /\ \A e \in Drivers \ {d} : src'[e] = src[e]
    /\ UNCHANGED <<job, morsels, more, counted, full, handle, waiting, rpc, popped>>

\* What such a step makes of the driver: it goes on; it is done; it finishes the scan
\* state; it fails; or it pulls a chunk.
Same(s, a) == s.buf = a.buf /\ s.fin = a.fin /\ s.err = a.err /\ s.stop = a.stop
GoesOn(s, a) ==
    /\ Same(s, a)
    /\ \/ s.pc \in {"ready", "closing", "look", "submit", "output", "blocked"}
       \/ s.pc = a.pc /\ s.empty = a.empty
       \/ s.pc = "start" /\ (s.empty => QueueEmpty /\ a.inflight = 0)
IsDone(s, a) ==
    /\ s.pc = "done" /\ s.fin /\ s.buf = a.buf /\ s.err = a.err /\ s.stop
    /\ StateFinished(a) \/ Exhausted(a)
Finishes(s, a) ==
    /\ a.pc = "start" /\ a.empty /\ ~PoolBusy(a.pool) /\ ~HasOutput(a)
    /\ s.pc \in {"ready", "output"} /\ s.fin /\ s.buf = a.buf /\ s.err = a.err /\ s.stop = a.stop
Fails(s, a) ==
    /\ s.buf = a.buf
    /\ \/ s.pc = "failed" /\ s.stop
       \/ s.err /\ s.pc \in {"ready", "output"} /\ s.stop = a.stop
Pulls(s, a) ==
    /\ a.buf # <<>> /\ s.buf = Tail(a.buf) /\ given' = given \cup {Head(a.buf)}
    /\ s.pc = "look" /\ s.fin = a.fin /\ s.err = a.err /\ s.stop = a.stop
Unbound == {"bind", "registered", "taken", "bound"}
Runs(d, s) ==
    /\ Turn(d, s) /\ s.take = src[d].take /\ s.pool = src[d].pool
    /\ src[d].pc \in Over => s.pc = src[d].pc
    /\ s.pc = src[d].pc \/ (s.pc \notin Unbound /\ src[d].pc \notin Unbound)
    /\ \/ UNCHANGED given /\ GoesOn(s, src[d])
       \/ UNCHANGED given /\ IsDone(s, src[d])
       \/ UNCHANGED given /\ Finishes(s, src[d])
       \/ UNCHANGED given /\ Fails(s, src[d])
       \/ Pulls(s, src[d])

\* A step of a driver changes its own state only.
LEMMA TurnIs ==
    ASSUME ScanInv, NEW d \in Drivers, NEW s \in Sources, SourceStep(d, s)
    PROVE  Turn(d, s)
<1>1. src \in [Drivers -> Sources] BY DEF ScanInv, ScanShape
<1>2. src' = [src EXCEPT ![d] = s] BY DEF SourceStep
<1> QED BY <1>1, <1>2 DEF Turn, SourceStep, dispatchVars, rangeVars

\* Coming back from maybe_start_async_scan.
LEMMA ReturnedIs ==
    ASSUME NEW a \in Sources
    PROVE  /\ Returned(a) \in Sources /\ Returned(a).pc = a.back /\ a.back \in {"ready", "output"}
           /\ Returned(a).take = a.take /\ Returned(a).pool = a.pool
           /\ Returned(a).inflight = a.inflight /\ Same(Returned(a), a)
           /\ Returned(a).listed = a.listed /\ Returned(a).wake = a.wake
<1>1. a.back \in {"ready", "output"} BY DEF Sources
<1> QED BY <1>1 DEF Sources, Returned, Same, SourcePcs

\* is_finished with the answer that the operator is, ...
LEMMA ClosedIs ==
    ASSUME ScanInv, NEW d \in Drivers, src[d].pc \in {"ready", "closing"},
           StateFinished(src[d]) \/ Exhausted(src[d]), SourceStep(d, SourceDone(src[d])),
           UNCHANGED given
    PROVE  \E s \in Sources : Runs(d, s) /\ s.inflight = src[d].inflight
<1>1. PICK a \in Sources : a = src[d] BY SourceNumbers
<1>2. PICK s : s = SourceDone(a) OBVIOUS
<1>3. /\ s \in Sources /\ s.pc = "done" /\ s.fin = TRUE /\ s.stop = TRUE /\ s.buf = a.buf
      /\ s.err = a.err /\ s.take = a.take /\ s.pool = a.pool /\ s.inflight = a.inflight
    BY <1>2 DEF Sources, SourcePcs, SourceDone
<1>4. IsDone(s, a) BY <1>1, <1>3 DEF IsDone
<1>5. Turn(d, s) BY <1>1, <1>2, <1>3, TurnIs
<1> QED BY <1>1, <1>3, <1>4, <1>5 DEF Runs, Over, Unbound

\* ... and without it.
LEMMA ProceedsIs ==
    ASSUME ScanInv, NEW d \in Drivers, src[d].pc \in {"ready", "closing"}, UNCHANGED given,
           NEW p \in {"closing", "look"}, NEW b \in {"output", "ready"},
           SourceStep(d, [src[d] EXCEPT !.pc = p, !.back = b])
    PROVE  \E s \in Sources : Runs(d, s) /\ s.inflight = src[d].inflight
<1>1. PICK a \in Sources : a = src[d] BY SourceNumbers
<1>2. PICK s : s = [a EXCEPT !.pc = p, !.back = b] OBVIOUS
<1>3. /\ s \in Sources /\ s.pc = p /\ Same(s, a)
      /\ s.take = a.take /\ s.pool = a.pool /\ s.inflight = a.inflight
    BY <1>2 DEF Sources, SourcePcs, Same
<1>4. Turn(d, s) BY <1>1, <1>2, <1>3, TurnIs
<1> QED BY <1>1, <1>3, <1>4 DEF Runs, GoesOn, Over, Unbound

\* is_finished looks at the driver's own state, ...
LEMMA CheckFinishedIs ==
    ASSUME ScanInv, NEW d \in Drivers, CheckFinished(d)
    PROVE  /\ \E s \in Sources : Runs(d, s) /\ s.inflight = src[d].inflight
           /\ UNCHANGED <<task, used>>
<1>1. src[d].pc = "ready" /\ UNCHANGED <<task, given, used>> BY DEF CheckFinished
<1>2. CASE StateFinished(src[d]) BY <1>1, <1>2, ClosedIs DEF CheckFinished
<1>3. CASE ~StateFinished(src[d]) /\ HasOutput(src[d])
    BY <1>1, <1>3, ProceedsIs DEF CheckFinished
<1>4. CASE ~StateFinished(src[d]) /\ ~HasOutput(src[d])
    <2>1. PICK a \in Sources : a = src[d] BY SourceNumbers
    <2>2. PICK b \in {"output", "ready"} : b = a.back BY DEF Sources
    <2>3. [a EXCEPT !.pc = "closing"] = [a EXCEPT !.pc = "closing", !.back = b]
        BY <2>2 DEF Sources
    <2>4. SourceStep(d, [src[d] EXCEPT !.pc = "closing", !.back = b])
        BY <1>4, <2>1, <2>3 DEF CheckFinished
    <2> QED BY <1>1, <2>4, ProceedsIs
<1> QED BY <1>2, <1>3, <1>4

\* ... then at the tasks, the queue and the pool.
LEMMA CheckExhaustedIs ==
    ASSUME ScanInv, NEW d \in Drivers, CheckExhausted(d)
    PROVE  /\ \E s \in Sources : Runs(d, s) /\ s.inflight = src[d].inflight
           /\ UNCHANGED <<task, used>>
<1>1. src[d].pc = "closing" /\ UNCHANGED <<task, given, used>> BY DEF CheckExhausted
<1>2. CASE Exhausted(src[d]) BY <1>1, <1>2, ClosedIs DEF CheckExhausted
<1>3. CASE ~Exhausted(src[d]) BY <1>1, <1>3, ProceedsIs DEF CheckExhausted
<1> QED BY <1>2, <1>3

\* maybe_start_async_scan reads the queue and the inflight count.
LEMMA LookAtQueueIs ==
    ASSUME ScanInv, NEW d \in Drivers, LookAtQueue(d)
    PROVE  /\ \E s \in Sources : Runs(d, s) /\ s.inflight = src[d].inflight
           /\ UNCHANGED <<task, used>>
<1>1. PICK a \in Sources : a = src[d] BY SourceNumbers
<1>2. a.pc = "look" /\ UNCHANGED <<task, given, used>> BY <1>1 DEF LookAtQueue
<1>3. CASE StateFinished(a)
    <2>1. SourceStep(d, Returned(a)) BY <1>1, <1>3 DEF LookAtQueue
    <2>2. PICK s \in Sources : s = Returned(a) BY ReturnedIs
    <2>3. Turn(d, s) BY <2>1, <2>2, TurnIs
    <2>4. /\ s.pc \in {"ready", "output"} /\ s.take = a.take /\ s.pool = a.pool
          /\ s.inflight = a.inflight /\ Same(s, a)
        BY <2>2, ReturnedIs
    <2> QED BY <1>1, <1>2, <2>3, <2>4 DEF Runs, GoesOn, Over, Unbound
<1>4. CASE ~StateFinished(a)
    <2>1. PICK b \in BOOLEAN : b = (QueueEmpty /\ a.inflight = 0) OBVIOUS
    <2>2. PICK s : s = [a EXCEPT !.pc = "start", !.empty = b] OBVIOUS
    <2>3. /\ s \in Sources /\ s.pc = "start" /\ s.empty = b /\ Same(s, a)
          /\ s.take = a.take /\ s.pool = a.pool /\ s.inflight = a.inflight
        BY <2>2 DEF Sources, SourcePcs, Same
    <2>4. SourceStep(d, s) BY <1>1, <1>4, <2>1, <2>2 DEF LookAtQueue
    <2>5. Turn(d, s) BY <2>3, <2>4, TurnIs
    <2>6. GoesOn(s, a) BY <2>1, <2>3 DEF GoesOn
    <2> QED BY <1>1, <1>2, <2>3, <2>5, <2>6 DEF Runs, Over, Unbound
<1> QED BY <1>3, <1>4

\* It finishes the scan state, or goes on to submit tasks.
LEMMA StartScanIs ==
    ASSUME ScanInv, NEW d \in Drivers, StartScan(d)
    PROVE  /\ \E s \in Sources : Runs(d, s) /\ s.inflight = src[d].inflight
           /\ UNCHANGED <<task, used>>
<1>1. PICK a \in Sources : a = src[d] BY SourceNumbers
<1>2. a.pc = "start" /\ UNCHANGED <<task, given, used>> BY <1>1 DEF StartScan
<1>3. CASE a.empty /\ ~PoolBusy(a.pool) /\ ~HasOutput(a) /\ ~HasMore
    <2>1. PICK z \in Sources : z = Returned(a) BY ReturnedIs
    <2>2. PICK s : s = [z EXCEPT !.fin = TRUE, !.wake = TRUE] OBVIOUS
    <2>3. SourceStep(d, s) BY <1>1, <1>3, <2>1, <2>2 DEF StartScan
    <2>4. /\ s \in Sources /\ s.pc = z.pc /\ s.take = z.take /\ s.pool = z.pool /\ s.fin = TRUE
          /\ s.inflight = z.inflight /\ s.buf = z.buf /\ s.err = z.err /\ s.stop = z.stop
        BY <2>2 DEF Sources
    <2>5. /\ z.pc \in {"ready", "output"} /\ z.take = a.take /\ z.pool = a.pool
          /\ z.inflight = a.inflight /\ Same(z, a)
        BY <2>1, ReturnedIs
    <2>6. Turn(d, s) BY <2>3, <2>4, TurnIs
    <2>7. Finishes(s, a) BY <1>2, <1>3, <2>4, <2>5 DEF Finishes, Same
    <2> QED BY <1>1, <1>2, <2>4, <2>5, <2>6, <2>7 DEF Runs, Over, Unbound
<1>4. CASE ~(a.empty /\ ~PoolBusy(a.pool) /\ ~HasOutput(a) /\ ~HasMore)
    <2>1. PICK s : s = [a EXCEPT !.pc = "submit"] OBVIOUS
    <2>2. /\ s \in Sources /\ s.pc = "submit" /\ Same(s, a)
          /\ s.take = a.take /\ s.pool = a.pool /\ s.inflight = a.inflight
        BY <2>1 DEF Sources, SourcePcs, Same
    <2>3. SourceStep(d, s) BY <1>1, <1>4, <2>1 DEF StartScan
    <2>4. Turn(d, s) BY <2>2, <2>3, TurnIs
    <2> QED BY <1>1, <1>2, <2>2, <2>4 DEF Runs, GoesOn, Over, Unbound
<1> QED BY <1>3, <1>4

\* It has submitted what it may.
LEMMA NothingToSubmitIs ==
    ASSUME ScanInv, NEW d \in Drivers, NothingToSubmit(d)
    PROVE  /\ \E s \in Sources : Runs(d, s) /\ s.inflight = src[d].inflight
           /\ UNCHANGED <<task, used>>
<1>1. PICK a \in Sources : a = src[d] BY SourceNumbers
<1>2. a.pc = "submit" /\ UNCHANGED <<task, given, used>> BY <1>1 DEF NothingToSubmit
<1>3. PICK s \in Sources : s = Returned(a) BY ReturnedIs
<1>4. Turn(d, s) BY <1>1, <1>3, TurnIs DEF NothingToSubmit
<1>5. /\ s.pc \in {"ready", "output"} /\ s.take = a.take /\ s.pool = a.pool
      /\ s.inflight = a.inflight /\ Same(s, a)
    BY <1>3, ReturnedIs
<1> QED BY <1>1, <1>2, <1>4, <1>5 DEF Runs, GoesOn, Over, Unbound

\* A refused submission: the driver waits for capacity, or gives up.
LEMMA SubmitRejectedIs ==
    ASSUME ScanInv, NEW d \in Drivers, SubmitRejected(d)
    PROVE  /\ \E s \in Sources : Runs(d, s) /\ s.inflight = src[d].inflight
           /\ UNCHANGED task /\ used' \in [rejects : 0..job.rejects, stops : 0..job.stops]
<1>1. PICK a \in Sources : a = src[d] BY SourceNumbers
<1>2. a.pc = "submit" /\ UNCHANGED <<task, given>> BY <1>1 DEF SubmitRejected
<1>3. used' \in [rejects : 0..job.rejects, stops : 0..job.stops]
    <2>1. used \in [rejects : 0..job.rejects, stops : 0..job.stops] /\ job.rejects \in Nat
        BY ScanAssumption DEF ScanInv, ScanShape
    <2>2. used.rejects < job.rejects /\ used' = [used EXCEPT !.rejects = @ + 1]
        BY DEF SubmitRejected
    <2> QED BY <2>1, <2>2
<1>4. PICK z \in Sources : z = Returned(a) BY ReturnedIs
<1>5. /\ z.pc \in {"ready", "output"} /\ z.take = a.take /\ z.pool = a.pool
      /\ z.inflight = a.inflight /\ Same(z, a)
    BY <1>4, ReturnedIs
<1>6. PICK e \in BOOLEAN :
         SourceStep(d, [z EXCEPT !.asked = TRUE, !.listed = @ \/ ~a.asked, !.err = @ \/ e,
                                 !.fin = @ \/ e, !.wake = @ \/ e])
    BY <1>1, <1>4 DEF SubmitRejected
<1>7. PICK l \in BOOLEAN, r \in BOOLEAN, f \in BOOLEAN, w \in BOOLEAN :
         /\ l = (z.listed \/ ~a.asked) /\ r = (z.err \/ e) /\ f = (z.fin \/ e) /\ w = (z.wake \/ e)
    OBVIOUS
<1>8. PICK s : s = [z EXCEPT !.asked = TRUE, !.listed = l, !.err = r, !.fin = f, !.wake = w]
    OBVIOUS
<1>9. SourceStep(d, s)
    <2>1. s = [z EXCEPT !.asked = TRUE, !.listed = @ \/ ~a.asked, !.err = @ \/ e,
                        !.fin = @ \/ e, !.wake = @ \/ e]
        BY <1>7, <1>8 DEF Sources
    <2> QED BY <1>6, <2>1
<1>10. /\ s \in Sources /\ s.pc = z.pc /\ s.take = z.take /\ s.pool = z.pool
       /\ s.inflight = z.inflight /\ s.buf = z.buf /\ s.stop = z.stop /\ s.err = r /\ s.fin = f
    <2>1. PICK y : y = [z EXCEPT !.asked = TRUE, !.listed = l] OBVIOUS
    <2>2. /\ y \in Sources /\ y.pc = z.pc /\ y.take = z.take /\ y.pool = z.pool
          /\ y.inflight = z.inflight /\ y.buf = z.buf /\ y.stop = z.stop
        BY <2>1 DEF Sources
    <2>3. PICK v : v = [y EXCEPT !.err = r] OBVIOUS
    <2>4. /\ v \in Sources /\ v.pc = y.pc /\ v.take = y.take /\ v.pool = y.pool
          /\ v.inflight = y.inflight /\ v.buf = y.buf /\ v.stop = y.stop /\ v.err = r
        BY <2>2, <2>3 DEF Sources
    <2>5. PICK u : u = [v EXCEPT !.fin = f] OBVIOUS
    <2>6. /\ u \in Sources /\ u.pc = v.pc /\ u.take = v.take /\ u.pool = v.pool
          /\ u.inflight = v.inflight /\ u.buf = v.buf /\ u.stop = v.stop /\ u.err = v.err
          /\ u.fin = f
        BY <2>4, <2>5 DEF Sources
    <2>7. s = [u EXCEPT !.wake = w] BY <1>8, <2>1, <2>3, <2>5
    <2>8. /\ s \in Sources /\ s.pc = u.pc /\ s.take = u.take /\ s.pool = u.pool
          /\ s.inflight = u.inflight /\ s.buf = u.buf /\ s.stop = u.stop /\ s.err = u.err
          /\ s.fin = u.fin
        BY <2>6, <2>7 DEF Sources
    <2> QED BY <2>2, <2>4, <2>6, <2>8
<1>11. Turn(d, s) BY <1>9, <1>10, TurnIs
<1>12. GoesOn(s, a) \/ Fails(s, a)
    <2>1. z.err \in BOOLEAN /\ z.fin \in BOOLEAN BY DEF Sources
    <2>2. CASE e BY <1>5, <1>7, <1>10, <2>2 DEF Fails, Same
    <2>3. CASE ~e
        <3>1. r = z.err /\ f = z.fin BY <1>7, <2>1, <2>3
        <3> QED BY <1>5, <1>10, <3>1 DEF GoesOn, Same
    <2> QED BY <2>2, <2>3
<1> QED BY <1>1, <1>2, <1>3, <1>5, <1>10, <1>11, <1>12 DEF Runs, Over, Unbound

\* A capacity waiter is notified.
LEMMA CapacityFreedIs ==
    ASSUME ScanInv, NEW d \in Drivers, CapacityFreed(d)
    PROVE  /\ \E s \in Sources : Runs(d, s) /\ s.inflight = src[d].inflight
           /\ UNCHANGED <<task, used>>
<1>1. PICK a \in Sources : a = src[d] BY SourceNumbers
<1>2. UNCHANGED <<task, given, used>> BY DEF CapacityFreed
<1>3. PICK s : s = [a EXCEPT !.listed = FALSE, !.wake = TRUE] OBVIOUS
<1>4. /\ s \in Sources /\ s.pc = a.pc /\ s.empty = a.empty /\ Same(s, a)
      /\ s.take = a.take /\ s.pool = a.pool /\ s.inflight = a.inflight
    BY <1>3 DEF Sources, SourcePcs, Same
<1>5. Turn(d, s) BY <1>1, <1>3, <1>4, TurnIs DEF CapacityFreed
<1> QED BY <1>1, <1>2, <1>4, <1>5 DEF Runs, GoesOn

\* The driver pulls a chunk, reports an error, or blocks.
LEMMA PullOrBlockIs ==
    ASSUME ScanInv, NEW d \in Drivers, PullOrBlock(d)
    PROVE  /\ \E s \in Sources : Runs(d, s) /\ s.inflight = src[d].inflight
           /\ UNCHANGED <<task, used>>
<1>1. PICK a \in Sources : a = src[d] BY SourceNumbers
<1>2. a.pc = "output" /\ UNCHANGED <<task, used>> BY <1>1 DEF PullOrBlock
<1>3. CASE a.err
    <2>1. PICK s : s = [a EXCEPT !.pc = "failed", !.err = FALSE, !.stop = TRUE] OBVIOUS
    <2>2. /\ s \in Sources /\ s.pc = "failed" /\ s.stop = TRUE /\ s.buf = a.buf
          /\ s.take = a.take /\ s.pool = a.pool /\ s.inflight = a.inflight
        BY <2>1 DEF Sources, SourcePcs
    <2>3. SourceStep(d, s) /\ UNCHANGED given BY <1>1, <1>3, <2>1 DEF PullOrBlock
    <2>4. Turn(d, s) BY <2>2, <2>3, TurnIs
    <2> QED BY <1>1, <1>2, <2>2, <2>3, <2>4 DEF Runs, Fails, Over, Unbound
<1>4. CASE ~a.err /\ a.buf # <<>>
    <2>1. a.buf \in Seq(Nat) BY DEF Sources
    <2>2. Tail(a.buf) \in Seq(Nat) BY <1>4, <2>1
    <2>3. PICK b \in Seq(Nat) : b = Tail(a.buf) BY <2>2
    <2>4. PICK s : s = [a EXCEPT !.pc = "look", !.back = "ready", !.buf = b] OBVIOUS
    <2>5. /\ s \in Sources /\ s.pc = "look" /\ s.buf = b /\ s.fin = a.fin /\ s.err = a.err
          /\ s.stop = a.stop /\ s.take = a.take /\ s.pool = a.pool /\ s.inflight = a.inflight
        BY <2>4 DEF Sources, SourcePcs
    <2>6. SourceStep(d, s) /\ given' = given \cup {Head(a.buf)}
        BY <1>1, <1>4, <2>3, <2>4 DEF PullOrBlock
    <2>7. Turn(d, s) BY <2>5, <2>6, TurnIs
    <2> QED BY <1>1, <1>2, <1>4, <2>3, <2>5, <2>6, <2>7 DEF Runs, Pulls, Over, Unbound
<1>5. CASE ~a.err /\ a.buf = <<>>
    <2>1. PICK s : s = [a EXCEPT !.pc = "blocked"] OBVIOUS
    <2>2. /\ s \in Sources /\ s.pc = "blocked" /\ Same(s, a)
          /\ s.take = a.take /\ s.pool = a.pool /\ s.inflight = a.inflight
        BY <2>1 DEF Sources, SourcePcs, Same
    <2>3. SourceStep(d, s) /\ UNCHANGED given BY <1>1, <1>5, <2>1 DEF PullOrBlock
    <2>4. Turn(d, s) BY <2>2, <2>3, TurnIs
    <2> QED BY <1>1, <1>2, <2>2, <2>3, <2>4 DEF Runs, GoesOn, Over, Unbound
<1> QED BY <1>3, <1>4, <1>5

\* A blocked driver is woken up.
LEMMA WakeUpIs ==
    ASSUME ScanInv, NEW d \in Drivers, WakeUp(d)
    PROVE  /\ \E s \in Sources : Runs(d, s) /\ s.inflight = src[d].inflight
           /\ UNCHANGED <<task, used>>
<1>1. PICK a \in Sources : a = src[d] BY SourceNumbers
<1>2. a.pc = "blocked" /\ UNCHANGED <<task, given, used>> BY <1>1 DEF WakeUp
<1>3. PICK s : s = [a EXCEPT !.pc = "ready", !.wake = FALSE] OBVIOUS
<1>4. /\ s \in Sources /\ s.pc = "ready" /\ Same(s, a)
      /\ s.take = a.take /\ s.pool = a.pool /\ s.inflight = a.inflight
    BY <1>3 DEF Sources, SourcePcs, Same
<1>5. Turn(d, s) BY <1>1, <1>3, <1>4, TurnIs DEF WakeUp
<1> QED BY <1>1, <1>2, <1>4, <1>5 DEF Runs, GoesOn, Over, Unbound

\* The fragment is aborted.
LEMMA CancelSourceIs ==
    ASSUME ScanInv, NEW d \in Drivers, CancelSource(d)
    PROVE  /\ \E s \in Sources : Runs(d, s) /\ s.inflight = src[d].inflight
           /\ UNCHANGED task /\ used' \in [rejects : 0..job.rejects, stops : 0..job.stops]
<1>1. PICK a \in Sources : a = src[d] BY SourceNumbers
<1>2. a.pc \in {"ready", "blocked"} /\ UNCHANGED <<task, given>> BY <1>1 DEF CancelSource
<1>3. used' \in [rejects : 0..job.rejects, stops : 0..job.stops]
    <2>1. used \in [rejects : 0..job.rejects, stops : 0..job.stops] /\ job.stops \in Nat
        BY ScanAssumption DEF ScanInv, ScanShape
    <2>2. used.stops < job.stops /\ used' = [used EXCEPT !.stops = @ + 1]
        BY DEF CancelSource
    <2> QED BY <2>1, <2>2
<1>4. PICK s : s = [a EXCEPT !.pc = "failed", !.stop = TRUE] OBVIOUS
<1>5. /\ s \in Sources /\ s.pc = "failed" /\ s.stop = TRUE /\ s.buf = a.buf
      /\ s.take = a.take /\ s.pool = a.pool /\ s.inflight = a.inflight
    BY <1>4 DEF Sources, SourcePcs
<1>6. Turn(d, s) BY <1>1, <1>4, <1>5, TurnIs DEF CancelSource
<1> QED BY <1>1, <1>2, <1>3, <1>5, <1>6 DEF Runs, Fails, Over, Unbound

\* The steps of a driver that runs, but for submitting a task.
RunStep(d) ==
    \/ CheckFinished(d) \/ CheckExhausted(d) \/ LookAtQueue(d) \/ StartScan(d)
    \/ NothingToSubmit(d) \/ PullOrBlock(d) \/ WakeUp(d) \/ SubmitRejected(d)
    \/ CapacityFreed(d) \/ CancelSource(d)

\* Each is one of the ways in which a driver runs.
LEMMA RunStepIs ==
    ASSUME ScanInv, NEW d \in Drivers, RunStep(d)
    PROVE  /\ \E s \in Sources : Runs(d, s) /\ s.inflight = src[d].inflight
           /\ UNCHANGED task /\ used' \in [rejects : 0..job.rejects, stops : 0..job.stops]
<1>1. used \in [rejects : 0..job.rejects, stops : 0..job.stops] BY DEF ScanInv, ScanShape
<1> QED BY <1>1, CheckFinishedIs, CheckExhaustedIs, LookAtQueueIs, StartScanIs, NothingToSubmitIs,
           PullOrBlockIs, WakeUpIs, SubmitRejectedIs, CapacityFreedIs, CancelSourceIs DEF RunStep

\* A driver that runs keeps the invariant.
LEMMA RunsKeep ==
    ASSUME ScanInv, NEW d \in Drivers, RunStep(d)
    PROVE  ScanInv'
<1>1. PICK s \in Sources : Runs(d, s) /\ s.inflight = src[d].inflight BY RunStepIs
<1>2. UNCHANGED task /\ used' \in [rejects : 0..job.rejects, stops : 0..job.stops] BY RunStepIs
<1>3. Turn(d, s) /\ ScanShape /\ job' = job /\ Drivers' = Drivers
    BY <1>1 DEF Runs, ScanInv, Turn, Drivers
<1>4. ScanShape' BY <1>2, <1>3 DEF ScanShape, Turn
<1>5. OneBinds'
    <2>1. Binding' = Binding
        <3>1. \A e \in Drivers \ {d} : src'[e] = src[e] BY <1>3 DEF Turn
        <3>2. src'[d].pc \in {"registered", "taken"} <=> src[d].pc \in {"registered", "taken"}
            BY <1>1, <1>3 DEF Runs, Turn, Unbound
        <3> QED BY <1>3, <3>1, <3>2 DEF Binding
    <2> QED BY <2>1 DEF OneBinds, ScanInv
<1>6. \A u \in TaskSlots : TaskOK(u)' BY <1>2, <1>3 DEF ScanInv, TaskOK
<1>7. ASSUME NEW e \in Drivers PROVE CountOK(e)' /\ TakeOK(e)'
    <2>1. Flying(e)' = Flying(e) /\ Holding(e)' = Holding(e) BY <1>2 DEF Flying, Holding
    <2>2. CountOK(e) /\ TakeOK(e) BY DEF ScanInv
    <2>3. CASE e # d
        <3>1. src'[e] = src[e] BY <1>3, <2>3 DEF Turn
        <3> QED BY <1>3, <2>1, <2>2, <3>1 DEF CountOK, TakeOK
    <2>4. CASE e = d
        <3>1. src'[d] = s BY <1>3 DEF Turn
        <3>2. \/ s.buf = src[d].buf \/ s.buf = <<>>
              \/ s.buf = Tail(src[d].buf) /\ src[d].buf # <<>>
            BY <1>1 DEF Runs, GoesOn, Same, IsDone, Finishes, Fails, Pulls
        <3>3. Len(s.buf) <= MaxBuffered
            <4>1. src[d].buf \in Seq(Nat) BY SourceNumbers DEF Sources
            <4>2. src[d].buf # <<>> => Len(Tail(src[d].buf)) = Len(src[d].buf) - 1 BY <4>1
            <4>3. PICK n \in Nat : n = Len(src[d].buf) /\ n <= MaxBuffered BY SourceNumbers
            <4>4. Len(s.buf) \in {n, 0, n - 1} BY <3>2, <4>2, <4>3
            <4> QED BY <4>3, <4>4, SourceNumbers
        <3>4. CountOK(d)' BY <1>1, <1>3, <2>1, <2>2, <2>4, <3>1, <3>3 DEF CountOK, Runs
        <3>5. TakeOK(d)'
            BY <1>1, <2>2, <2>4, <3>1 DEF TakeOK, Runs, Unbound
        <3> QED BY <2>4, <3>4, <3>5
    <2> QED BY <2>3, <2>4
<1> QED BY <1>3, <1>4, <1>5, <1>6, <1>7 DEF ScanInv

\* A task is submitted.
LEMMA SubmitTaskIs ==
    ASSUME ScanInv, NEW d \in Drivers, SubmitTask(d)
    PROVE  /\ MaySubmit(src[d]) /\ DispatchTypes' /\ UNCHANGED <<morsels, popped, full>>
           /\ \E t \in TaskSlots, x \in Tasks, s \in Sources :
                /\ Shift(t, d, x, s) /\ task[t].pc = "free" /\ x.pc = "pop" /\ ~x.last
                /\ s.err = src[d].err /\ s.buf = src[d].buf /\ s.pool = src[d].pool
                /\ s.fin = src[d].fin /\ s.inflight = src[d].inflight + 1 /\ src[d].pc = "submit"
<1>1. PICK a \in Sources : a = src[d] BY SourceNumbers
<1>2. PICK t \in TaskSlots : /\ task[t].pc = "free"
                             /\ task' = [task EXCEPT ![t] = [NoTask EXCEPT !.pc = "pop", !.drv = d]]
    BY DEF SubmitTask
<1>3. d \in ScanDrivers /\ ScanShape BY ScanAssumption DEF ScanInv, ScanShape, Drivers
<1>4. PICK x : x = [NoTask EXCEPT !.pc = "pop", !.drv = d] OBVIOUS
<1>5. x \in Tasks /\ x.pc = "pop" /\ x.drv = d /\ x.last = FALSE /\ x.chunk = NoChunk
    BY <1>3, <1>4, NoTaskType DEF Tasks, FlyPcs, HoldPcs
<1>6. Fit(x) BY <1>5 DEF Fit
<1>7. a.inflight + 1 \in Nat BY DEF Sources
<1>8. PICK s : s = [a EXCEPT !.inflight = a.inflight + 1, !.asked = FALSE] OBVIOUS
<1>9. /\ s \in Sources /\ Core(s, a) /\ s.err = a.err /\ s.buf = a.buf /\ s.pool = a.pool
      /\ s.fin = a.fin /\ s.inflight = a.inflight + 1
    BY <1>7, <1>8 DEF Sources, Core
<1>10. SourceStep(d, s)
    <2>1. [a EXCEPT !.inflight = @ + 1, !.asked = FALSE] = s BY <1>8
    <2> QED BY <1>1, <2>1 DEF SubmitTask
<1>11. Turn(d, s) BY <1>9, <1>10, TurnIs
<1>12. Moves(t, d, x, s)
    <2>1. task \in [TaskSlots -> Tasks] BY <1>3 DEF ScanShape
    <2>2. /\ task' \in [TaskSlots -> Tasks] /\ task'[t] = x
          /\ \A u \in TaskSlots \ {t} : task'[u] = task[u]
        BY <1>2, <1>4, <1>5, <2>1
    <2>3. /\ src' \in [Drivers -> Sources] /\ src'[d] = s /\ job' = job
          /\ \A e \in Drivers \ {d} : src'[e] = src[e]
        BY <1>11 DEF Turn
    <2>4. Like(src'[d], s) /\ \A e \in Drivers \ {d} : Like(src'[e], src[e])
        BY <2>3 DEF Like
    <2> QED BY <1>2, <1>5, <2>2, <2>3, <2>4 DEF Moves
<1>13. Shift(t, d, x, s)
    <2>1. UNCHANGED <<handle, waiting, rpc, given>> BY <1>11 DEF Turn, SubmitTask
    <2> QED BY <1>1, <1>6, <1>9, <1>12, <2>1 DEF Shift
<1>14. DispatchTypes' /\ UNCHANGED <<morsels, popped, full>>
    BY <1>3, <1>11 DEF DispatchTypes, ScanShape, Turn, SubmitTask
<1>15. MaySubmit(a) /\ a.pc = "submit" BY <1>1 DEF SubmitTask
<1> QED BY <1>1, <1>2, <1>5, <1>9, <1>13, <1>14, <1>15

\* ... which keeps the invariant.
LEMMA SubmitKeeps ==
    ASSUME ScanInv, NEW d \in Drivers, SubmitTask(d)
    PROVE  ScanInv'
<1>1. PICK t \in TaskSlots, x \in Tasks, s \in Sources :
         /\ Shift(t, d, x, s) /\ task[t].pc = "free" /\ x.pc = "pop"
         /\ s.buf = src[d].buf /\ s.pool = src[d].pool /\ s.inflight = src[d].inflight + 1
    BY SubmitTaskIs
<1>2. src[d].inflight < job.tasks BY SubmitTaskIs DEF MaySubmit
<1>3. Books(t, d, x, s)
    <2>1. s.inflight <= job.tasks BY <1>1, <1>2, SourceNumbers
    <2>2. s.inflight = src[d].inflight - Fly(task[t].pc) + Fly(x.pc)
        BY <1>1, SourceNumbers, Weights
    <2>3. Len(s.pool) + Hold(x.pc) <= Len(src[d].pool) + Hold(task[t].pc)
        BY <1>1, SourceNumbers, Weights
    <2> QED BY <2>1, <2>2, <2>3 DEF Books
<1> QED BY <1>1, <1>3, SubmitTaskIs, SourceNumbers, ShiftKeeps

-----------------------------------------------------------------------------
(* Scan ranges.                                                            *)

\* A step that touches neither tasks nor what the counts are about.
LEMMA BindKeeps ==
    ASSUME ScanInv, UNCHANGED <<job, task>>, ScanShape', OneBinds',
           \A d \in Drivers : /\ src'[d].inflight = src[d].inflight /\ src'[d].pool = src[d].pool
                              /\ src'[d].buf = src[d].buf /\ TakeOK(d)'
    PROVE  ScanInv'
<1>1. Drivers' = Drivers BY DEF Drivers
<1>2. \A t \in TaskSlots : TaskOK(t)' BY <1>1 DEF ScanInv, TaskOK
<1>3. \A d \in Drivers : Flying(d)' = Flying(d) /\ Holding(d)' = Holding(d)
    BY DEF Flying, Holding
<1>4. \A d \in Drivers : CountOK(d)' BY <1>3 DEF ScanInv, CountOK
<1> QED BY <1>1, <1>2, <1>4 DEF ScanInv

\* Ranges are sent: they wait for the node, or are about to be appended.
LEMMA SendRangesKeeps ==
    ASSUME ScanInv, SendRanges
    PROVE  ScanInv'
<1>1. ScanShape /\ job' = job /\ Drivers' = Drivers BY DEF ScanInv, SendRanges, Drivers
<1>2. job.later \in Seq(Adds) BY <1>1, ScanAssumption DEF ScanShape, Adds
<1>3. rpc.sent \in 0..Len(job.later) /\ rpc.sent < Len(job.later) BY <1>1 DEF ScanShape, SendRanges
<1>4. PICK add \in Adds : add = job.later[rpc.sent + 1] BY <1>2, <1>3
<1>5. /\ rpc' = [sent |-> rpc.sent + 1, adds |-> IF handle THEN <<add>> ELSE <<>>]
      /\ waiting' = IF handle THEN waiting ELSE Append(waiting, add)
      /\ UNCHANGED <<morsels, more, counted, full, src, task, handle, popped, used>>
    BY <1>4 DEF SendRanges, dispatchVars
<1>6. rpc' \in [sent : 0..Len(job.later), adds : Seq(Adds)] /\ waiting' \in Seq(Adds)
    <2>1. <<add>> \in Seq(Adds) /\ <<>> \in Seq(Adds) /\ Append(waiting, add) \in Seq(Adds)
        BY <1>1 DEF ScanShape
    <2>2. rpc.sent + 1 \in 0..Len(job.later) BY <1>2, <1>3
    <2>3. PICK z \in Seq(Adds) : z = IF handle THEN <<add>> ELSE <<>> BY <2>1
    <2>4. rpc' = [sent |-> rpc.sent + 1, adds |-> z] BY <1>5, <2>3
    <2> QED BY <1>1, <1>5, <2>1, <2>2, <2>4 DEF ScanShape
<1>7. ScanShape' BY <1>1, <1>5, <1>6 DEF ScanShape
<1>8. OneBinds' /\ \A d \in Drivers : TakeOK(d)'
    BY <1>1, <1>5 DEF OneBinds, Binding, TakeOK, ScanInv
<1> QED BY <1>1, <1>5, <1>7, <1>8, BindKeeps

-----------------------------------------------------------------------------
(* Joining sequences. FlattenSeq is a recursive function; a join is that   *)
(* function with the empty sequence before its first value.                *)

\* Induction, in the form the provers can use.
LEMMA LeastNumber ==
    ASSUME NEW S, S \subseteq Nat, S # {}
    PROVE  \E n \in S : \A k \in Nat : k < n => k \notin S
<1>1. PICK x \in S : \A y \in S : <<y, x>> \notin OpToRel(<, Nat)
    BY NatLessThanWellFounded, WFMin
<1> QED BY <1>1 DEF OpToRel

Join(M, q, N, f) ==
    /\ f \in [0..N -> Seq(M)] /\ f[0] = <<>>
    /\ \A n \in 1..N : f[n] = f[n - 1] \o q[n]

\* Every sequence of sequences has a join.
LEMMA JoinExists ==
    ASSUME NEW M, NEW q \in Seq(Seq(M)), NEW N \in 0..Len(q)
    PROVE  \E f : Join(M, q, N, f)
<1> DEFINE K == {n \in 0..Len(q) : ~ \E f : Join(M, q, n, f)}
<1> SUFFICES ASSUME K # {} PROVE FALSE
    OBVIOUS
<1>1. K \subseteq Nat OBVIOUS
<1>2. PICK n \in K : \A k \in Nat : k < n => k \notin K BY <1>1, LeastNumber
<1>3. CASE n = 0
    <2>1. PICK f : f = [k \in 0..0 |-> <<>>] OBVIOUS
    <2>2. Join(M, q, 0, f) BY <2>1 DEF Join
    <2> QED BY <1>2, <1>3, <2>2
<1>4. CASE n # 0
    <2>1. /\ n \in Nat /\ n - 1 \in 0..Len(q) /\ n - 1 \in Nat /\ n - 1 < n /\ n \in 1..Len(q)
        BY <1>2, <1>4
    <2>2. PICK g : Join(M, q, n - 1, g) BY <1>2, <2>1
    <2>3. g[n - 1] \in Seq(M) /\ q[n] \in Seq(M) BY <2>1, <2>2 DEF Join
    <2>4. g[n - 1] \o q[n] \in Seq(M) BY <2>3
    <2>5. PICK c \in Seq(M) : c = g[n - 1] \o q[n] BY <2>4, Zenon
    <2>6. PICK f : f = [k \in 0..n |-> IF k = n THEN c ELSE g[k]] OBVIOUS
    <2>7. ASSUME NEW k \in 0..(n - 1) PROVE f[k] = g[k] /\ g[k] \in Seq(M)
        <3>1. k \in 0..n /\ k # n BY <2>1
        <3> QED BY <2>2, <2>6, <3>1 DEF Join
    <2>8. f[n] = g[n - 1] \o q[n]
        <3>1. f[n] = c BY <2>1, <2>6
        <3> QED BY <2>5, <3>1, Zenon
    <2>9. f \in [0..n -> Seq(M)]
        <3>1. ASSUME NEW k \in 0..n PROVE f[k] \in Seq(M)
            <4>1. CASE k = n BY <2>5, <2>8, <4>1
            <4>2. CASE k # n
                <5>1. k \in 0..(n - 1) BY <2>1, <4>2
                <5> QED BY <2>7, <5>1
            <4> QED BY <4>1, <4>2
        <3> QED BY <2>6, <3>1
    <2>10. f[0] = <<>>
        <3>1. 0 \in 0..(n - 1) BY <2>1
        <3> QED BY <2>2, <2>7, <3>1 DEF Join
    <2>11. ASSUME NEW k \in 1..n PROVE f[k] = f[k - 1] \o q[k]
        <3>1. CASE k = n
            <4>1. k - 1 \in 0..(n - 1) BY <2>1, <3>1
            <4> QED BY <2>7, <2>8, <3>1, <4>1
        <3>2. CASE k # n
            <4>1. k \in 1..(n - 1) /\ k \in 0..(n - 1) /\ k - 1 \in 0..(n - 1) BY <2>1, <3>2
            <4>2. g[k] = g[k - 1] \o q[k] BY <2>2, <4>1 DEF Join
            <4> QED BY <2>7, <4>1, <4>2
        <3> QED BY <3>1, <3>2
    <2>12. Join(M, q, n, f) BY <2>9, <2>10, <2>11 DEF Join
    <2> QED BY <1>2, <2>12
<1> QED BY <1>3, <1>4

\* FlattenSeq is the last value of the join.
LEMMA FlattenIs ==
    ASSUME NEW M, NEW q \in Seq(Seq(M)), NEW f, Join(M, q, Len(q), f)
    PROVE  FlattenSeq(q) = f[Len(q)]
<1>1. CASE Len(q) = 0
    <2>1. q = <<>> BY <1>1
    <2> QED BY <1>1, <2>1 DEF FlattenSeq, Join
<1>2. CASE Len(q) # 0
    <2> DEFINE N == Len(q)
               Def(g) == [i \in 1..N |-> IF i = 1 THEN q[i] ELSE g[i - 1] \o q[i]]
               flatten == CHOOSE g : g = Def(g)
    <2>1. N \in Nat /\ 1 \in 1..N BY <1>2
    <2>2. FlattenSeq(q) = flatten[N] BY <1>2, Zenon DEF FlattenSeq
    <2>3. PICK h : h = [i \in 1..N |-> f[i]] OBVIOUS
    <2>4. h = Def(h)
        <3>1. ASSUME NEW i \in 1..N PROVE h[i] = Def(h)[i]
            <4>1. f[i] = f[i - 1] \o q[i] BY DEF Join
            <4>2. CASE i = 1
                <5>1. f[0] = <<>> /\ q[1] \in Seq(M) BY <2>1 DEF Join
                <5>2. <<>> \o q[1] = q[1] BY <5>1
                <5>3. i - 1 = 0 BY <4>2
                <5>4. f[i] = <<>> \o q[1] BY <4>1, <4>2, <5>1, <5>3, Zenon
                <5>5. f[1] = q[1] BY <4>2, <5>2, <5>4
                <5> QED BY <2>1, <2>3, <4>2, <5>5
            <4>3. CASE i # 1
                <5>1. i - 1 \in 1..N BY <2>1, <4>3
                <5> QED BY <2>3, <4>1, <4>3, <5>1
            <4> QED BY <4>2, <4>3
        <3>2. h = [i \in 1..N |-> h[i]] BY <2>3
        <3> QED BY <3>1, <3>2
    <2>5. flatten = Def(flatten) BY <2>4, Zenon
    <2>6. \A i \in 1..N : flatten[i] = IF i = 1 THEN q[i] ELSE flatten[i - 1] \o q[i]
        BY <2>5
    <2> HIDE DEF flatten, Def
    <2>7. \A i \in 1..N : flatten[i] = f[i]
        <3> DEFINE K == {n \in 1..N : flatten[n] # f[n]}
        <3> SUFFICES ASSUME K # {} PROVE FALSE
            OBVIOUS
        <3>1. K \subseteq Nat OBVIOUS
        <3>2. PICK n \in K : \A k \in Nat : k < n => k \notin K BY <3>1, LeastNumber
        <3>3. n \in 1..N /\ f[n] = f[n - 1] \o q[n] BY <3>2 DEF Join
        <3>4. CASE n = 1
            <4>1. f[0] = <<>> /\ q[1] \in Seq(M) BY <2>1 DEF Join
            <4>2. <<>> \o q[1] = q[1] BY <4>1
            <4>3. n - 1 = 0 BY <3>4
            <4>4. f[n] = <<>> \o q[1] BY <3>3, <3>4, <4>1, <4>3, Zenon
            <4>5. f[1] = q[1] BY <3>4, <4>2, <4>4
            <4>6. flatten[1] = q[1] BY <2>1, <2>6
            <4> QED BY <3>2, <3>4, <4>5, <4>6
        <3>5. CASE n # 1
            <4>1. n - 1 \in 1..N /\ n - 1 \in Nat /\ n - 1 < n BY <2>1, <3>3, <3>5
            <4>2. flatten[n - 1] = f[n - 1] BY <3>2, <4>1
            <4> QED BY <2>6, <3>2, <3>3, <3>5, <4>2
        <3> QED BY <3>4, <3>5
    <2> QED BY <1>2, <2>1, <2>2, <2>7
<1> QED BY <1>1, <1>2

\* What joining gives: nothing of nothing, and one sequence after the others.
LEMMA FlattenFacts ==
    ASSUME NEW M, NEW q \in Seq(Seq(M))
    PROVE  /\ FlattenSeq(q) \in Seq(M)
           /\ q = <<>> => FlattenSeq(q) = <<>>
           /\ \A s \in Seq(M) : FlattenSeq(Append(q, s)) = FlattenSeq(q) \o s
<1>1. Len(q) \in 0..Len(q) /\ Len(q) \in Nat OBVIOUS
<1>2. PICK f : Join(M, q, Len(q), f) BY <1>1, JoinExists
<1>3. FlattenSeq(q) = f[Len(q)] BY <1>2, FlattenIs
<1>4. FlattenSeq(q) \in Seq(M) /\ (q = <<>> => FlattenSeq(q) = <<>>) BY <1>1, <1>2, <1>3 DEF Join
<1>5. ASSUME NEW s \in Seq(M) PROVE FlattenSeq(Append(q, s)) = FlattenSeq(q) \o s
    <2>1. Append(q, s) \in Seq(Seq(M)) OBVIOUS
    <2>2. PICK p \in Seq(Seq(M)) : p = Append(q, s) BY <2>1
    <2>3. /\ Len(p) = Len(q) + 1 /\ p[Len(q) + 1] = s
          /\ \A i \in 1..Len(q) : p[i] = q[i]
        BY <2>2
    <2>4. Len(p) \in 0..Len(p) /\ Len(p) \in 1..Len(p) /\ Len(p) - 1 = Len(q) BY <1>1, <2>3
    <2>5. PICK g : Join(M, p, Len(p), g) BY <2>4, JoinExists
    <2>6. FlattenSeq(p) = g[Len(p)] BY <2>5, FlattenIs
    <2>7. g[Len(p)] = g[Len(q)] \o s BY <2>3, <2>4, <2>5 DEF Join
    <2>8. PICK h : h = [n \in 0..Len(q) |-> g[n]] OBVIOUS
    <2>9. Join(M, q, Len(q), h)
        <3>1. ASSUME NEW n \in 0..Len(q) PROVE h[n] = g[n] /\ g[n] \in Seq(M)
            <4>1. n \in 0..Len(p) BY <1>1, <2>3
            <4> QED BY <2>5, <2>8, <4>1 DEF Join
        <3>2. h \in [0..Len(q) -> Seq(M)] BY <2>8, <3>1
        <3>3. h[0] = <<>> BY <1>1, <2>5, <3>1 DEF Join
        <3>4. ASSUME NEW n \in 1..Len(q) PROVE h[n] = h[n - 1] \o q[n]
            <4>1. n \in 1..Len(p) /\ n \in 0..Len(q) /\ n - 1 \in 0..Len(q) BY <1>1, <2>3
            <4>2. g[n] = g[n - 1] \o p[n] BY <2>5, <4>1 DEF Join
            <4> QED BY <2>3, <3>1, <4>1, <4>2
        <3> QED BY <3>2, <3>3, <3>4 DEF Join
    <2>10. FlattenSeq(q) = h[Len(q)] BY <2>9, FlattenIs
    <2>11. h[Len(q)] = g[Len(q)] BY <1>1, <2>8
    <2> QED BY <2>2, <2>6, <2>7, <2>10, <2>11
<1> QED BY <1>4, <1>5

\* Joining when all sequences but perhaps the k-th are empty.
LEMMA FlattenOnly ==
    ASSUME NEW M, NEW q \in Seq(Seq(M)), NEW k \in DOMAIN q,
           \A i \in DOMAIN q : i # k => q[i] = <<>>
    PROVE  FlattenSeq(q) = q[k]
<1>1. Len(q) \in 0..Len(q) /\ Len(q) \in Nat /\ DOMAIN q = 1..Len(q) OBVIOUS
<1>2. PICK f : Join(M, q, Len(q), f) BY <1>1, JoinExists
<1>3. FlattenSeq(q) = f[Len(q)] BY <1>2, FlattenIs
<1> DEFINE K == {n \in 0..Len(q) : f[n] # IF n < k THEN <<>> ELSE q[k]}
<1>4. K = {}
    <2> SUFFICES ASSUME K # {} PROVE FALSE
        OBVIOUS
    <2>1. K \subseteq Nat OBVIOUS
    <2>2. PICK n \in K : \A m \in Nat : m < n => m \notin K BY <2>1, LeastNumber
    <2>3. n # 0 BY <1>1, <1>2, <2>2 DEF Join
    <2>4. /\ n \in 1..Len(q) /\ n - 1 \in 0..Len(q) /\ n - 1 \in Nat /\ n - 1 < n
        BY <1>1, <2>2, <2>3
    <2>5. f[n] = f[n - 1] \o q[n] BY <1>2, <2>4 DEF Join
    <2>6. f[n - 1] = IF n - 1 < k THEN <<>> ELSE q[k] BY <2>2, <2>4
    <2>7. q[k] \in Seq(M) /\ q[n] \in Seq(M) BY <2>4
    <2>8. <<>> \o q[k] = q[k] /\ q[k] \o <<>> = q[k] /\ <<>> \o <<>> = <<>> BY <2>7
    <2>9. CASE n = k
        <3>1. n - 1 < k /\ ~(n < k) BY <1>1, <2>4, <2>9
        <3> QED BY <2>2, <2>5, <2>6, <2>8, <2>9, <3>1
    <2>10. CASE n # k
        <3>1. q[n] = <<>> BY <1>1, <2>4, <2>10
        <3>2. n - 1 < k <=> n < k BY <1>1, <2>4, <2>10
        <3>3. f[n] = f[n - 1] \o <<>> BY <2>5, <3>1
        <3>4. f[n - 1] = IF n < k THEN <<>> ELSE q[k] BY <2>6, <3>2
        <3>5. f[n] = IF n < k THEN <<>> ELSE q[k] BY <2>8, <3>3, <3>4
        <3> QED BY <2>2, <3>5
    <2> QED BY <2>9, <2>10
<1>5. ~(Len(q) < k) BY <1>1
<1>6. f[Len(q)] = IF Len(q) < k THEN <<>> ELSE q[k] BY <1>1, <1>4
<1> HIDE DEF K
<1> QED BY <1>3, <1>5, <1>6

\* The morsels of some ranges.
Flat(adds) == FlattenSeq([i \in DOMAIN adds |-> adds[i].morsels])

\* They are those of the ranges one after the other.
LEMMA FlatFacts ==
    ASSUME NEW a \in Seq(Adds)
    PROVE  /\ Flat(a) \in Seq(Morsels)
           /\ a = <<>> => Flat(a) = <<>>
           /\ \A x \in Adds : Flat(Append(a, x)) = Flat(a) \o x.morsels
<1>1. ASSUME NEW b \in Seq(Adds)
      PROVE  [i \in DOMAIN b |-> b[i].morsels] \in Seq(Seq(Morsels))
    <2>1. ASSUME NEW i \in DOMAIN b PROVE b[i].morsels \in Seq(Morsels)
        <3>1. b[i] \in Adds OBVIOUS
        <3> QED BY <3>1 DEF Adds
    <2>2. DOMAIN b = 1..Len(b) /\ Len(b) \in Nat OBVIOUS
    <2> QED BY <2>1, <2>2
<1>2. PICK q \in Seq(Seq(Morsels)) : q = [i \in DOMAIN a |-> a[i].morsels] BY <1>1
<1>3. Flat(a) = FlattenSeq(q) BY <1>2 DEF Flat
<1>4. DOMAIN q = DOMAIN a BY <1>2
<1>5. a = <<>> => q = <<>> BY <1>4
<1>6. ASSUME NEW x \in Adds PROVE Flat(Append(a, x)) = Flat(a) \o x.morsels
    <2>1. x.morsels \in Seq(Morsels) BY DEF Adds
    <2>2. Append(a, x) \in Seq(Adds) OBVIOUS
    <2>3. PICK b \in Seq(Adds) : b = Append(a, x) BY <2>2
    <2>4. /\ Len(b) = Len(a) + 1 /\ b[Len(a) + 1] = x /\ \A i \in 1..Len(a) : b[i] = a[i]
        BY <2>3
    <2>5. PICK p \in Seq(Seq(Morsels)) : p = [i \in DOMAIN b |-> b[i].morsels] BY <1>1
    <2>6. Append(q, x.morsels) \in Seq(Seq(Morsels)) BY <2>1
    <2>7. PICK r \in Seq(Seq(Morsels)) : r = Append(q, x.morsels) BY <2>6
    <2>8. /\ Len(q) = Len(a) /\ Len(r) = Len(q) + 1 /\ Len(p) = Len(b) /\ Len(a) \in Nat
          /\ r[Len(q) + 1] = x.morsels /\ \A i \in 1..Len(q) : r[i] = q[i]
        <3>1. DOMAIN p = DOMAIN b BY <2>5
        <3>2. Len(q) = Len(a) BY <1>4
        <3>3. Len(p) = Len(b) BY <3>1
        <3> QED BY <2>7, <3>2, <3>3
    <2>9. ASSUME NEW i \in 1..Len(p) PROVE p[i] = r[i]
        <3>1. p[i] = b[i].morsels BY <2>5
        <3>2. CASE i = Len(a) + 1 BY <2>4, <2>8, <3>1, <3>2
        <3>3. CASE i # Len(a) + 1
            <4>1. i \in 1..Len(a) /\ i \in DOMAIN a BY <2>4, <2>8, <3>3
            <4>2. q[i] = a[i].morsels BY <1>2, <4>1
            <4> QED BY <2>4, <2>8, <3>1, <4>1, <4>2
        <3> QED BY <3>2, <3>3
    <2>10. Len(p) = Len(r) BY <2>4, <2>8
    <2>11. p = r
        <3>1. p = [i \in 1..Len(p) |-> p[i]] /\ r = [i \in 1..Len(r) |-> r[i]] OBVIOUS
        <3> QED BY <2>9, <2>10, <3>1
    <2>12. FlattenSeq(r) = FlattenSeq(q) \o x.morsels BY <2>1, <2>7, FlattenFacts
    <2> QED BY <1>3, <2>3, <2>5, <2>11, <2>12 DEF Flat
<1> QED BY <1>3, <1>5, <1>6, FlattenFacts

\* Appended ranges, and the has_more of the last.
LEMMA AppendRangesIs ==
    ASSUME NEW a \in Seq(Adds), a # <<>>, ScanShape, AppendRanges(a)
    PROVE  /\ morsels' = morsels \o Flat(a) /\ morsels' \in Seq(Morsels)
           /\ more' \in BOOLEAN /\ UNCHANGED <<counted, full>>
<1>1. morsels' = morsels \o Flat(a) BY DEF AppendRanges, Flat
<1>2. morsels \in Seq(Morsels) /\ Flat(a) \in Seq(Morsels) BY FlatFacts DEF ScanShape
<1>3. morsels' \in Seq(Morsels) BY <1>1, <1>2
<1>4. Last(a) \in Adds
    <2>1. Len(a) \in DOMAIN a OBVIOUS
    <2> QED BY <2>1 DEF Last
<1> QED BY <1>1, <1>3, <1>4 DEF AppendRanges, Adds

\* Ranges are appended by the call that sent them.
LEMMA AppendSentKeeps ==
    ASSUME ScanInv, AppendSent
    PROVE  /\ ScanInv' /\ \A d \in Drivers : Like(src'[d], src[d])
           /\ morsels' = morsels \o Flat(rpc.adds) /\ rpc'.adds = <<>> /\ rpc'.sent = rpc.sent
<1>1. ScanShape /\ job' = job /\ Drivers' = Drivers BY DEF ScanInv, AppendSent, Drivers
<1>2. /\ rpc \in [sent : 0..Len(job.later), adds : Seq(Adds)] /\ rpc.adds # <<>>
      /\ src \in [Drivers -> Sources]
    BY <1>1 DEF ScanShape, AppendSent
<1>3. PICK a \in Seq(Adds) : a = rpc.adds BY <1>2
<1>4. AppendRanges(a) /\ a # <<>> BY <1>2, <1>3 DEF AppendSent
<1>5. /\ morsels' = morsels \o Flat(a) /\ morsels' \in Seq(Morsels)
      /\ more' \in BOOLEAN /\ UNCHANGED <<counted, full>>
    BY <1>1, <1>4, AppendRangesIs
<1>6. /\ rpc' \in [sent : 0..Len(job.later), adds : Seq(Adds)]
      /\ rpc'.adds = <<>> /\ rpc'.sent = rpc.sent
    <2>1. rpc' = [rpc EXCEPT !.adds = <<>>] BY DEF AppendSent
    <2>2. <<>> \in Seq(Adds) OBVIOUS
    <2>3. PICK z \in Seq(Adds) : z = <<>> BY <2>2
    <2>4. rpc' = [rpc EXCEPT !.adds = z] BY <2>1, <2>3
    <2>5. /\ rpc' \in [sent : 0..Len(job.later), adds : Seq(Adds)]
          /\ rpc'.adds = z /\ rpc'.sent = rpc.sent
        BY <1>2, <2>4
    <2> QED BY <2>3, <2>5
<1>7. src' \in [Drivers -> Sources] /\ \A d \in Drivers : Like(src'[d], src[d])
    BY <1>2, AwakeLike DEF AppendSent
<1>8. UNCHANGED <<task, handle, waiting, popped, used>> BY DEF AppendSent
<1>9. ScanShape' BY <1>1, <1>5, <1>6, <1>7, <1>8 DEF ScanShape
<1>10. OneBinds' /\ \A d \in Drivers : TakeOK(d)'
    <2>1. Binding' = Binding BY <1>1, <1>7 DEF Binding, Like
    <2>2. OneBinds' BY <2>1 DEF OneBinds, ScanInv
    <2> QED BY <1>7, <2>2 DEF Like, TakeOK, ScanInv
<1>11. \A d \in Drivers : /\ src'[d].inflight = src[d].inflight /\ src'[d].pool = src[d].pool
                          /\ src'[d].buf = src[d].buf
    BY <1>7 DEF Like
<1>12. ScanInv' BY <1>1, <1>8, <1>9, <1>10, <1>11, BindKeeps
<1> QED BY <1>3, <1>5, <1>6, <1>7, <1>12

\* A driver is bound: src'[d] is s, which differs from src[d] in its step and take.
Binds(d, s) ==
    /\ src' \in [Drivers -> Sources] /\ src'[d] = s
    /\ \A e \in Drivers \ {d} : src'[e] = src[e]
    /\ s.buf = src[d].buf /\ s.fin = src[d].fin /\ s.err = src[d].err /\ s.stop = src[d].stop
    /\ s.pool = src[d].pool /\ s.inflight = src[d].inflight
    /\ src[d].pc \in Unbound /\ s.pc \in Unbound
    /\ UNCHANGED <<job, task, counted, full, rpc, given, popped, used>>

\* A driver registers the node.
LEMMA RegisterIs ==
    ASSUME ScanInv, NEW d \in Drivers, Register(d)
    PROVE  /\ \E s \in Sources : Binds(d, s) /\ s.take = <<>> /\ s.pc = "registered"
           /\ Binding = {} /\ src[d].take = <<>> /\ handle' \in BOOLEAN
           /\ UNCHANGED <<morsels, more, waiting>>
<1>1. PICK a \in Sources : a = src[d] BY SourceNumbers
<1>2. PICK s : s = [a EXCEPT !.pc = "registered"] OBVIOUS
<1>3. src \in [Drivers -> Sources] BY DEF ScanInv, ScanShape
<1>4. src' = [src EXCEPT ![d] = s] BY <1>1, <1>2, <1>3 DEF Register
<1>5. a.pc = "bind" BY <1>1 DEF Register
<1>6. /\ s \in Sources /\ s.pc = "registered" /\ s.take = a.take /\ s.buf = a.buf
      /\ s.fin = a.fin /\ s.err = a.err /\ s.stop = a.stop /\ s.pool = a.pool
      /\ s.inflight = a.inflight
    BY <1>2 DEF Sources, SourcePcs
<1>7. a.take = <<>> BY <1>1, <1>5 DEF ScanInv, TakeOK
<1>8. /\ src' \in [Drivers -> Sources] /\ src'[d] = s
      /\ \A e \in Drivers \ {d} : src'[e] = src[e]
    BY <1>3, <1>4, <1>6
<1>9. Binds(d, s) BY <1>1, <1>5, <1>6, <1>8 DEF Binds, Unbound, Register, dispatchVars
<1>10. Binding = {} BY DEF Register, Binding
<1> QED BY <1>1, <1>6, <1>7, <1>9, <1>10 DEF Register, dispatchVars

\* It takes the ranges that wait.
LEMMA TakePendingIs ==
    ASSUME ScanInv, NEW d \in Drivers, TakePending(d)
    PROVE  /\ \E s \in Sources : /\ Binds(d, s) /\ s.take = waiting
                                 /\ s.pc = IF waiting = <<>> THEN "bound" ELSE "taken"
           /\ src[d].take = <<>> /\ src[d].pc = "registered"
           /\ waiting' = <<>> /\ UNCHANGED <<morsels, more, handle>>
<1>1. PICK a \in Sources : a = src[d] BY SourceNumbers
<1>2. PICK c \in {"bound", "taken"} : c = IF waiting = <<>> THEN "bound" ELSE "taken" OBVIOUS
<1>3. PICK s : s = [a EXCEPT !.pc = c, !.take = waiting] OBVIOUS
<1>4. src \in [Drivers -> Sources] /\ waiting \in Seq(Adds) BY DEF ScanInv, ScanShape
<1>5. src' = [src EXCEPT ![d] = s]
    <2>1. src' = [src EXCEPT ![d].pc = c, ![d].take = waiting] BY <1>2 DEF TakePending
    <2> QED BY <1>1, <1>3, <1>4, <2>1
<1>6. a.pc = "registered" BY <1>1 DEF TakePending
<1>7. /\ s \in Sources /\ s.pc = c /\ s.take = waiting /\ s.buf = a.buf
      /\ s.fin = a.fin /\ s.err = a.err /\ s.stop = a.stop /\ s.pool = a.pool
      /\ s.inflight = a.inflight
    BY <1>3, <1>4 DEF Sources, SourcePcs
<1>8. a.take = <<>> BY <1>1, <1>6 DEF ScanInv, TakeOK
<1>9. /\ src' \in [Drivers -> Sources] /\ src'[d] = s
      /\ \A e \in Drivers \ {d} : src'[e] = src[e]
    BY <1>4, <1>5, <1>7
<1>10. Binds(d, s) BY <1>1, <1>2, <1>6, <1>7, <1>9 DEF Binds, Unbound, TakePending, dispatchVars
<1> QED BY <1>1, <1>2, <1>6, <1>7, <1>8, <1>10 DEF TakePending, dispatchVars

\* It appends them.
LEMMA AppendTakenIs ==
    ASSUME ScanInv, NEW d \in Drivers, AppendTaken(d)
    PROVE  /\ \E s \in Sources : Binds(d, s) /\ s.take = <<>> /\ s.pc = "bound"
           /\ src[d].pc = "taken" /\ src[d].take \in Seq(Adds)
           /\ morsels' = morsels \o Flat(src[d].take) /\ morsels' \in Seq(Morsels)
           /\ more' \in BOOLEAN /\ UNCHANGED <<handle, waiting>>
<1>1. PICK a \in Sources : a = src[d] BY SourceNumbers
<1>2. PICK s : s = [a EXCEPT !.pc = "bound", !.take = <<>>] OBVIOUS
<1>3. <<>> \in Seq(Adds) OBVIOUS
<1>4. PICK z \in Seq(Adds) : z = <<>> BY <1>3
<1>5. src \in [Drivers -> Sources] /\ ScanShape BY DEF ScanInv, ScanShape
<1>6. src' = [src EXCEPT ![d] = s] BY <1>1, <1>2, <1>5 DEF AppendTaken
<1>7. a.pc = "taken" /\ AppendRanges(a.take) BY <1>1 DEF AppendTaken
<1>8. a.take # <<>> /\ a.take \in Seq(Adds) BY <1>1, <1>7 DEF ScanInv, TakeOK, Sources
<1>9. /\ s \in Sources /\ s.pc = "bound" /\ s.take = <<>> /\ s.buf = a.buf
      /\ s.fin = a.fin /\ s.err = a.err /\ s.stop = a.stop /\ s.pool = a.pool
      /\ s.inflight = a.inflight
    <2>1. s = [a EXCEPT !.pc = "bound", !.take = z] BY <1>2, <1>4
    <2>2. /\ s \in Sources /\ s.pc = "bound" /\ s.take = z /\ s.buf = a.buf
          /\ s.fin = a.fin /\ s.err = a.err /\ s.stop = a.stop /\ s.pool = a.pool
          /\ s.inflight = a.inflight
        BY <2>1 DEF Sources, SourcePcs
    <2> QED BY <1>4, <2>2
<1>10. /\ morsels' = morsels \o Flat(a.take) /\ morsels' \in Seq(Morsels)
      /\ more' \in BOOLEAN /\ UNCHANGED <<counted, full>>
    BY <1>5, <1>7, <1>8, AppendRangesIs
<1>11. /\ src' \in [Drivers -> Sources] /\ src'[d] = s
      /\ \A e \in Drivers \ {d} : src'[e] = src[e]
    BY <1>5, <1>6, <1>9
<1>12. Binds(d, s)
    BY <1>1, <1>7, <1>9, <1>10, <1>11 DEF Binds, Unbound, AppendTaken, rangeVars
<1> QED BY <1>1, <1>7, <1>8, <1>9, <1>10, <1>12 DEF AppendTaken, rangeVars

\* Binding a driver keeps the invariant.
LEMMA BindingKeeps ==
    ASSUME ScanInv, NEW d \in Drivers, Register(d) \/ TakePending(d) \/ AppendTaken(d)
    PROVE  ScanInv'
<1>1. /\ \E s \in Sources : Binds(d, s) /\ (s.take # <<>> <=> s.pc = "taken")
      /\ Binding \subseteq {d}
      /\ handle' \in BOOLEAN /\ waiting' \in Seq(Adds) /\ morsels' \in Seq(Morsels)
      /\ more' \in BOOLEAN
    <2>1. /\ ScanShape /\ handle \in BOOLEAN /\ waiting \in Seq(Adds)
          /\ morsels \in Seq(Morsels) /\ more \in BOOLEAN /\ <<>> \in Seq(Adds)
        BY DEF ScanInv, ScanShape
    <2>2. src[d].pc \in {"registered", "taken"} => Binding \subseteq {d}
        BY DEF ScanInv, OneBinds, Binding
    <2>3. CASE Register(d) BY <2>1, <2>3, RegisterIs
    <2>4. CASE TakePending(d) BY <2>1, <2>2, <2>4, TakePendingIs
    <2>5. CASE AppendTaken(d) BY <2>1, <2>2, <2>5, AppendTakenIs
    <2> QED BY <2>3, <2>4, <2>5
<1>2. PICK s \in Sources : Binds(d, s) /\ (s.take # <<>> <=> s.pc = "taken") BY <1>1
<1>3. job' = job /\ Drivers' = Drivers /\ UNCHANGED task BY <1>2 DEF Binds, Drivers
<1>4. ScanShape' BY <1>1, <1>2, <1>3 DEF ScanShape, Binds, ScanInv
<1>5. OneBinds'
    <2>1. Binding' \subseteq {d}
        BY <1>1, <1>2, <1>3 DEF Binding, Binds
    <2> QED BY <2>1 DEF OneBinds
<1>6. ASSUME NEW e \in Drivers
      PROVE  /\ src'[e].inflight = src[e].inflight /\ src'[e].pool = src[e].pool
             /\ src'[e].buf = src[e].buf /\ TakeOK(e)'
    <2>1. CASE e = d BY <1>2, <2>1 DEF Binds, TakeOK
    <2>2. CASE e # d BY <1>2, <2>2 DEF Binds, TakeOK, ScanInv
    <2> QED BY <2>1, <2>2
<1> QED BY <1>3, <1>4, <1>5, <1>6, BindKeeps

\* All drivers are bound, and run.
LEMMA RunDriversIs ==
    ASSUME ScanInv, RunDrivers
    PROVE  /\ src' \in [Drivers -> Sources]
           /\ \A d \in Drivers :
                LET s == src'[d]
                    a == src[d]
                IN  /\ s.pc = "ready" /\ a.pc = "bound" /\ s.take = a.take /\ s.buf = a.buf
                    /\ s.fin = a.fin /\ s.err = a.err /\ s.stop = a.stop /\ s.pool = a.pool
                    /\ s.inflight = a.inflight
           /\ UNCHANGED <<job, morsels, more, counted, full, task, handle, waiting, rpc, given,
                          popped, used>>
<1>1. src \in [Drivers -> Sources] BY DEF ScanInv, ScanShape
<1>2. src' = [d \in Drivers |-> [src[d] EXCEPT !.pc = "ready"]] BY DEF RunDrivers
<1>3. ASSUME NEW d \in Drivers, NEW a, a = src[d], NEW s, s = src'[d]
      PROVE  /\ s \in Sources
             /\ s.pc = "ready" /\ a.pc = "bound" /\ s.take = a.take /\ s.buf = a.buf
             /\ s.fin = a.fin /\ s.err = a.err /\ s.stop = a.stop /\ s.pool = a.pool
             /\ s.inflight = a.inflight
    <2>1. s = [a EXCEPT !.pc = "ready"] BY <1>2, <1>3
    <2>2. a \in Sources BY <1>1, <1>3
    <2>3. a.pc = "bound" BY <1>3 DEF RunDrivers
    <2> QED BY <2>1, <2>2, <2>3 DEF Sources, SourcePcs
<1> QED BY <1>2, <1>3 DEF RunDrivers, dispatchVars, rangeVars

\* ... which keeps the invariant.
LEMMA RunDriversKeeps ==
    ASSUME ScanInv, RunDrivers
    PROVE  ScanInv'
<1>1. job' = job /\ Drivers' = Drivers /\ UNCHANGED task BY RunDriversIs DEF Drivers
<1>2. ScanShape'
    <2>1. ScanShape BY DEF ScanInv
    <2> QED BY <1>1, <2>1, RunDriversIs DEF ScanShape
<1>3. \A d \in Drivers :
         /\ src'[d].inflight = src[d].inflight /\ src'[d].pool = src[d].pool
         /\ src'[d].buf = src[d].buf /\ src'[d].take = src[d].take
         /\ src'[d].pc = "ready" /\ src[d].pc = "bound"
    BY RunDriversIs
<1>4. \A d \in Drivers : TakeOK(d)' BY <1>3 DEF TakeOK, ScanInv
<1>5. OneBinds' BY <1>1, <1>3 DEF OneBinds, Binding
<1> QED BY <1>1, <1>2, <1>3, <1>4, <1>5, BindKeeps

-----------------------------------------------------------------------------
(* The invariant.                                                          *)

\* It holds initially.
LEMMA InitInv == ScanInit => ScanInv
<1> SUFFICES ASSUME ScanInit PROVE ScanInv
    OBVIOUS
<1>1. job \in ScanJobs BY DEF ScanInit
<1>2. /\ Drivers \subseteq ScanDrivers /\ job.first \in Seq(Morsels) /\ job.more \in BOOLEAN
      /\ job.later \in Seq(Adds) /\ job.tasks \in Nat \ {0} /\ job.rejects \in Nat
      /\ job.stops \in Nat /\ MaxBuffered \in Nat
    BY <1>1, ScanAssumption DEF Adds, Drivers
<1>3. PICK p : p = [i \in 1..job.tasks |-> NewRunner] OBVIOUS
<1>4. p \in Seq(Runners) /\ Len(p) = job.tasks BY <1>2, <1>3, NoTaskType
<1>5. PICK z : z = NewSource(job.tasks) OBVIOUS
<1>6. /\ z \in Sources /\ z.pc = "bind" /\ z.take = <<>> /\ z.buf = <<>> /\ z.pool = p
      /\ z.inflight = 0
    BY <1>3, <1>4, <1>5 DEF Sources, SourcePcs, NewSource
<1>7. src = [d \in Drivers |-> z] BY <1>5 DEF ScanInit
<1>8. task = [t \in TaskSlots |-> NoTask] BY DEF ScanInit
<1>9. ScanShape
    <2>1. src \in [Drivers -> Sources] BY <1>6, <1>7
    <2>2. task \in [TaskSlots -> Tasks] BY <1>8, NoTaskType
    <2>3. /\ morsels \in Seq(Morsels) /\ more \in BOOLEAN /\ counted \in Nat /\ full \in BOOLEAN
          /\ handle \in BOOLEAN
        BY <1>2 DEF ScanInit
    <2>4. waiting \in Seq(Adds) /\ popped \in Seq(Morsels)
        <3>1. waiting = <<>> /\ popped = <<>> BY DEF ScanInit
        <3> QED BY <3>1
    <2>5. rpc \in [sent : 0..Len(job.later), adds : Seq(Adds)]
        <3>1. Len(job.later) \in Nat BY <1>2
        <3>2. rpc = [sent |-> 0, adds |-> <<>>] BY DEF ScanInit
        <3> QED BY <3>1, <3>2
    <2>6. used \in [rejects : 0..job.rejects, stops : 0..job.stops] BY <1>2 DEF ScanInit
    <2> QED BY <1>1, <2>1, <2>2, <2>3, <2>5, <2>6, <2>4 DEF ScanShape
<1>10. \A d \in Drivers : /\ src[d].pc = "bind" /\ src[d].take = <<>> /\ src[d].buf = <<>>
                          /\ src[d].pool = p /\ src[d].inflight = 0
    BY <1>6, <1>7
<1>11. OneBinds BY <1>10 DEF OneBinds, Binding
<1>12. \A t \in TaskSlots : task[t].pc = "free" /\ TaskOK(t) BY <1>8, NoTaskType DEF TaskOK
<1>13. ASSUME NEW d \in Drivers PROVE CountOK(d) /\ TakeOK(d)
    <2>1. Flying(d) = {} /\ Holding(d) = {} BY <1>12 DEF Flying, Holding, FlyPcs, HoldPcs
    <2>2. Cardinality(Flying(d)) = 0 /\ Cardinality(Holding(d)) = 0 BY <2>1, FS_EmptySet
    <2>3. Len(src[d].buf) = 0 BY <1>10
    <2> QED BY <1>2, <1>4, <1>10, <2>2, <2>3 DEF CountOK, TakeOK
<1> QED BY <1>9, <1>11, <1>12, <1>13 DEF ScanInv

\* Every step keeps it.
LEMMA StepInv == ScanInv /\ [ScanNext]_scanVars => ScanInv'
<1> SUFFICES ASSUME ScanInv, [ScanNext]_scanVars PROVE ScanInv'
    OBVIOUS
<1>1. CASE SendRanges BY <1>1, SendRangesKeeps
<1>2. CASE AppendSent BY <1>2, AppendSentKeeps
<1>3. CASE RunDrivers BY <1>3, RunDriversKeeps
<1>4. CASE \E d \in Drivers : RunStep(d) BY <1>4, RunsKeep
<1>5. CASE \E d \in Drivers : SubmitTask(d) BY <1>5, SubmitKeeps
<1>6. CASE \E d \in Drivers : Register(d) \/ TakePending(d) \/ AppendTaken(d)
    BY <1>6, BindingKeeps
<1>7. CASE \E t \in TaskSlots : RunTask(t) \/ ReadFails(t) BY <1>7, TaskKeeps
<1>8. CASE UNCHANGED scanVars
    <2>1. /\ UNCHANGED <<job, morsels, more, counted, full, src, task, handle, waiting, rpc>>
          /\ UNCHANGED <<popped, used>>
        BY <1>8 DEF scanVars, dispatchVars, rangeVars
    <2>2. Drivers' = Drivers BY <2>1 DEF Drivers
    <2>3. ScanShape' /\ OneBinds' BY <2>1, <2>2 DEF ScanInv, ScanShape, OneBinds, Binding
    <2>4. \A d \in Drivers : TakeOK(d)' BY <2>1 DEF ScanInv, TakeOK
    <2> QED BY <2>1, <2>3, <2>4, BindKeeps
<1> QED BY <1>1, <1>2, <1>3, <1>4, <1>5, <1>6, <1>7, <1>8 DEF ScanNext, DriverStep, RunStep

\* The counts of tasks in flight and of runners are exact in every reachable state.
THEOREM ScanInvariant == ScanSpec => []ScanInv
BY InitInv, StepInv, PTL DEF ScanSpec

\* The scan's type invariant, with the limits on tasks in flight, runners and buffered
\* chunks of every driver, for any jobs and any numbers of drivers and task slots.
THEOREM ScanTypes == ScanSpec => []ScanTypeOK
<1>1. ScanInv => ScanTypeOK BY InvTypes
<1> QED BY <1>1, ScanInvariant, PTL

-----------------------------------------------------------------------------
(* Every range is in one place.                                            *)

\* What the drivers in D have taken, S being their sources.
Takes(D, S) ==
    FlattenSeq([i \in DOMAIN SetToSeq(D) |-> Flat(S[SetToSeq(D)[i]].take)])

\* SetToSeq enumerates a finite set.
LEMMA Enumerates ==
    ASSUME NEW D, IsFiniteSet(D)
    PROVE  /\ SetToSeq(D) \in [1..Cardinality(D) -> D] /\ Cardinality(D) \in Nat
           /\ \A d \in D : \E i \in 1..Cardinality(D) : SetToSeq(D)[i] = d
           /\ \A i, j \in 1..Cardinality(D) : SetToSeq(D)[i] = SetToSeq(D)[j] => i = j
<1>1. PICK n \in Nat : n = Cardinality(D) BY FS_CardinalityType
<1>2. ExistsBijection(1..n, D) BY <1>1, FS_CardinalityType
<1>3. \E f \in [1..n -> D] : IsInjective(f)
    BY <1>2 DEF ExistsBijection, Bijection, Injection
<1>4. PICK g : g = SetToSeq(D) OBVIOUS
<1>5. g = CHOOSE f \in [1..n -> D] : IsInjective(f) BY <1>1, <1>4 DEF SetToSeq
<1>6. g \in [1..n -> D] /\ IsInjective(g) BY <1>3, <1>5, Zenon
<1>7. g \in Injection(1..n, D) BY <1>6 DEF Injection
<1>8. Cardinality(1..n) = n BY FS_Interval
<1>9. g \in Surjection(1..n, D) BY <1>1, <1>7, <1>8, FS_Injection
<1>10. \A d \in D : \E i \in 1..n : g[i] = d BY <1>9 DEF Surjection
<1>11. \A i, j \in 1..n : g[i] = g[j] => i = j BY <1>6 DEF IsInjective
<1> QED BY <1>1, <1>4, <1>6, <1>10, <1>11

\* At most one driver has taken ranges, so what they have taken is what it has.
LEMMA TakesIs ==
    ASSUME NEW D, IsFiniteSet(D), NEW S, \A d \in D : S[d].take \in Seq(Adds)
    PROVE  /\ Takes(D, S) \in Seq(Morsels)
           /\ (\A d \in D : S[d].take = <<>>) => Takes(D, S) = <<>>
           /\ \A d \in D : (\A e \in D : e # d => S[e].take = <<>>)
                             => Takes(D, S) = Flat(S[d].take)
           /\ \A T : (\A d \in D : T[d].take = S[d].take) => Takes(D, T) = Takes(D, S)
<1>1. PICK g : g = SetToSeq(D) OBVIOUS
<1>2. PICK n \in Nat : n = Cardinality(D) /\ g = SetToSeq(D) BY <1>1, Enumerates
<1>3. /\ g \in [1..n -> D] /\ \A d \in D : \E i \in 1..n : g[i] = d
      /\ \A i, j \in 1..n : g[i] = g[j] => i = j
    BY <1>2, Enumerates
<1>4. DOMAIN g = 1..n /\ \A i \in 1..n : g[i] \in D BY <1>3
<1>5. PICK q : q = [i \in 1..n |-> Flat(S[g[i]].take)] OBVIOUS
<1>6. \A i \in 1..n : q[i] = Flat(S[g[i]].take) /\ q[i] \in Seq(Morsels)
    BY <1>4, <1>5, FlatFacts
<1>7. q \in Seq(Seq(Morsels)) /\ DOMAIN q = 1..n BY <1>5, <1>6
<1>8. Takes(D, S) = FlattenSeq(q) BY <1>2, <1>4, <1>5 DEF Takes
<1>9. Takes(D, S) \in Seq(Morsels) BY <1>7, <1>8, FlattenFacts
<1>10. <<>> \in Seq(Adds) /\ Flat(<<>>) = <<>>
    <2>1. <<>> \in Seq(Adds) OBVIOUS
    <2> QED BY <2>1, FlatFacts
<1>11. ASSUME NEW d \in D, \A e \in D : e # d => S[e].take = <<>>
       PROVE  Takes(D, S) = Flat(S[d].take)
    <2>1. PICK k \in 1..n : g[k] = d BY <1>3
    <2>2. ASSUME NEW i \in DOMAIN q, i # k PROVE q[i] = <<>>
        <3>1. i \in 1..n /\ g[i] \in D /\ g[i] # d BY <1>3, <1>4, <1>7, <2>1, <2>2
        <3>2. S[g[i]].take = <<>> BY <1>11, <3>1
        <3> QED BY <1>6, <1>10, <3>1, <3>2
    <2>3. FlattenSeq(q) = q[k] BY <1>7, <2>2, FlattenOnly
    <2> QED BY <1>6, <1>8, <2>1, <2>3
<1>12. ASSUME \A d \in D : S[d].take = <<>> PROVE Takes(D, S) = <<>>
    <2>1. CASE D = {}
        <3>1. n = 0 BY <1>2, <2>1, FS_EmptySet
        <3>2. q = <<>> BY <1>7, <3>1
        <3> QED BY <1>7, <1>8, <3>2, FlattenFacts
    <2>2. CASE D # {}
        <3>1. PICK d \in D : TRUE BY <2>2
        <3>2. Takes(D, S) = Flat(S[d].take) BY <1>11, <1>12
        <3> QED BY <1>10, <1>12, <3>2
    <2> QED BY <2>1, <2>2
<1>13. ASSUME NEW T, \A d \in D : T[d].take = S[d].take PROVE Takes(D, T) = Takes(D, S)
    <2>1. [i \in 1..n |-> Flat(T[g[i]].take)] = q BY <1>4, <1>5, <1>13
    <2> QED BY <1>2, <1>4, <1>8, <2>1 DEF Takes
<1> QED BY <1>9, <1>11, <1>12, <1>13

\* The ranges held and the ranges sent are as many, and the same.
Tally(p, m, w, a, k, f, l) ==
    /\ Len(p) + Len(m) + Len(w) + Len(a) + Len(k) = Len(f) + Len(l)
    /\ ToSet(p) \cup ToSet(m) \cup ToSet(w) \cup ToSet(a) \cup ToSet(k) = ToSet(f) \cup ToSet(l)

SameRanges(p, m, w, a, k, f, l) ==
    /\ Len(p \o m \o w \o a \o k) = Len(f \o l)
    /\ ToSet(p \o m \o w \o a \o k) = ToSet(f \o l)

\* The morsels of two sequences.
LEMMA JoinTwo ==
    ASSUME NEW a \in Seq(Morsels), NEW b \in Seq(Morsels)
    PROVE  /\ a \o b \in Seq(Morsels) /\ Len(a \o b) = Len(a) + Len(b)
           /\ ToSet(a \o b) = ToSet(a) \cup ToSet(b)
<1>1. PICK c : c = a \o b OBVIOUS
<1>2. c \in Seq(Morsels) /\ Len(c) = Len(a) + Len(b) BY <1>1
<1>3. \A i \in 1..Len(a) : c[i] = a[i] BY <1>1
<1>4. \A i \in 1..Len(b) : c[Len(a) + i] = b[i] BY <1>1
<1>5. Len(a) \in Nat /\ Len(b) \in Nat /\ DOMAIN a = 1..Len(a) /\ DOMAIN b = 1..Len(b)
      /\ DOMAIN c = 1..(Len(a) + Len(b))
    BY <1>2
<1>6. ASSUME NEW i \in DOMAIN c PROVE c[i] \in ToSet(a) \cup ToSet(b)
    <2>1. CASE i <= Len(a)
        <3>1. i \in DOMAIN a BY <1>5, <2>1
        <3> QED BY <1>3, <1>5, <3>1 DEF ToSet
    <2>2. CASE ~(i <= Len(a))
        <3>1. PICK j \in 1..Len(b) : i = Len(a) + j
            <4>1. i - Len(a) \in 1..Len(b) /\ i = Len(a) + (i - Len(a)) BY <1>5, <2>2
            <4> QED BY <4>1
        <3> QED BY <1>4, <1>5, <3>1 DEF ToSet
    <2> QED BY <2>1, <2>2
<1>7. \A i \in DOMAIN a : i \in DOMAIN c /\ c[i] = a[i] BY <1>3, <1>5
<1>8. \A i \in DOMAIN b : Len(a) + i \in DOMAIN c /\ c[Len(a) + i] = b[i] BY <1>4, <1>5
<1>9. ToSet(c) = ToSet(a) \cup ToSet(b) BY <1>6, <1>7, <1>8 DEF ToSet
<1> QED BY <1>1, <1>2, <1>9

\* RangesOnce counts what is held and what was sent.
LEMMA OnceIs ==
    ASSUME NEW p \in Seq(Morsels), NEW m \in Seq(Morsels), NEW w \in Seq(Morsels),
           NEW a \in Seq(Morsels), NEW k \in Seq(Morsels), NEW f \in Seq(Morsels),
           NEW l \in Seq(Morsels)
    PROVE  Tally(p, m, w, a, k, f, l) <=> SameRanges(p, m, w, a, k, f, l)
<1>1. PICK b \in Seq(Morsels) : b = p \o m BY JoinTwo
<1>2. PICK c \in Seq(Morsels) : c = b \o w BY JoinTwo
<1>3. PICK d \in Seq(Morsels) : d = c \o a BY JoinTwo
<1>4. /\ Len(b) = Len(p) + Len(m) /\ Len(c) = Len(b) + Len(w) /\ Len(d) = Len(c) + Len(a)
      /\ Len(d \o k) = Len(d) + Len(k) /\ Len(f \o l) = Len(f) + Len(l)
    BY <1>1, <1>2, <1>3, JoinTwo
<1>5. /\ ToSet(b) = ToSet(p) \cup ToSet(m) /\ ToSet(c) = ToSet(b) \cup ToSet(w)
      /\ ToSet(d) = ToSet(c) \cup ToSet(a)
      /\ ToSet(d \o k) = ToSet(d) \cup ToSet(k) /\ ToSet(f \o l) = ToSet(f) \cup ToSet(l)
    BY <1>1, <1>2, <1>3, JoinTwo
<1>6. d \o k = p \o m \o w \o a \o k BY <1>1, <1>2, <1>3
<1>7. Len(p \o m \o w \o a \o k) = Len(p) + Len(m) + Len(w) + Len(a) + Len(k)
    BY <1>4, <1>6
<1>8. ToSet(p \o m \o w \o a \o k) = ToSet(p) \cup ToSet(m) \cup ToSet(w) \cup ToSet(a) \cup ToSet(k)
    BY <1>5, <1>6
<1> QED BY <1>4, <1>5, <1>7, <1>8 DEF Tally, SameRanges

\* The morsels of the first n ranges that the FE has for the scan.
Sent(n) == Flat(SubSeq(job.later, 1, n))

\* One more range.
LEMMA SentGrows ==
    ASSUME job \in ScanJobs, NEW n \in 0..Len(job.later)
    PROVE  /\ Sent(n) \in Seq(Morsels)
           /\ n = 0 => Sent(n) = <<>>
           /\ n < Len(job.later) =>
                /\ job.later[n + 1] \in Adds
                /\ Sent(n + 1) = Sent(n) \o job.later[n + 1].morsels
<1>1. job.later \in Seq(Adds) BY ScanAssumption DEF Adds
<1>2. PICK l \in Seq(Adds) : l = job.later BY <1>1
<1>3. PICK a : a = SubSeq(l, 1, n) OBVIOUS
<1>4. a \in Seq(Adds) /\ Len(a) = n /\ \A i \in 1..n : a[i] = l[i] BY <1>2, <1>3
<1>5. Sent(n) = Flat(a) BY <1>2, <1>3 DEF Sent
<1>6. n = 0 => a = <<>> BY <1>4
<1>7. ASSUME n < Len(l)
      PROVE  l[n + 1] \in Adds /\ Sent(n + 1) = Sent(n) \o l[n + 1].morsels
    <2>1. n \in Nat /\ n + 1 \in 1..Len(l) BY <1>2, <1>7
    <2>2. l[n + 1] \in Adds BY <2>1
    <2>3. PICK x \in Adds : x = l[n + 1] BY <2>2
    <2>4. PICK b : b = SubSeq(l, 1, n + 1) OBVIOUS
    <2>5. b \in Seq(Adds) /\ Len(b) = n + 1 /\ \A i \in 1..(n + 1) : b[i] = l[i] BY <2>1, <2>4
    <2>6. Append(a, x) \in Seq(Adds) BY <1>4
    <2>7. PICK c \in Seq(Adds) : c = Append(a, x) BY <2>6
    <2>8. Len(c) = n + 1 /\ c[n + 1] = x /\ \A i \in 1..n : c[i] = a[i] BY <1>4, <2>7
    <2>9. \A i \in 1..(n + 1) : b[i] = c[i]
        <3>1. ASSUME NEW i \in 1..(n + 1) PROVE b[i] = c[i]
            <4>1. CASE i = n + 1 BY <2>1, <2>3, <2>5, <2>8, <4>1
            <4>2. CASE i # n + 1
                <5>1. i \in 1..n BY <2>1, <4>2
                <5> QED BY <1>4, <2>5, <2>8, <5>1
            <4> QED BY <4>1, <4>2
        <3> QED BY <3>1
    <2>10. b = c
        <3>1. b = [i \in 1..Len(b) |-> b[i]] /\ c = [i \in 1..Len(c) |-> c[i]] BY <2>5
        <3> QED BY <2>5, <2>8, <2>9, <3>1
    <2>11. Flat(Append(a, x)) = Flat(a) \o x.morsels BY <1>4, FlatFacts
    <2>12. Sent(n + 1) = Flat(b) BY <1>2, <2>4 DEF Sent
    <2> QED BY <1>5, <2>2, <2>3, <2>7, <2>10, <2>11, <2>12
<1> QED BY <1>2, <1>4, <1>5, <1>6, <1>7, FlatFacts

\* RangesOnce in these terms.
OnceTally ==
    Tally(popped, morsels, Flat(waiting), Flat(rpc.adds), Takes(Drivers, src), job.first,
          Sent(rpc.sent))

\* The sequences it counts.
LEMMA OnceTypes ==
    ScanInv => /\ popped \in Seq(Morsels) /\ morsels \in Seq(Morsels)
               /\ Flat(waiting) \in Seq(Morsels) /\ Flat(rpc.adds) \in Seq(Morsels)
               /\ Takes(Drivers, src) \in Seq(Morsels) /\ job.first \in Seq(Morsels)
               /\ Sent(rpc.sent) \in Seq(Morsels) /\ rpc.sent \in 0..Len(job.later)
               /\ job \in ScanJobs /\ IsFiniteSet(Drivers)
               /\ \A d \in Drivers : src[d].take \in Seq(Adds)
<1> SUFFICES ASSUME ScanInv
             PROVE  /\ popped \in Seq(Morsels) /\ morsels \in Seq(Morsels)
                    /\ Flat(waiting) \in Seq(Morsels) /\ Flat(rpc.adds) \in Seq(Morsels)
                    /\ Takes(Drivers, src) \in Seq(Morsels) /\ job.first \in Seq(Morsels)
                    /\ Sent(rpc.sent) \in Seq(Morsels) /\ rpc.sent \in 0..Len(job.later)
                    /\ job \in ScanJobs /\ IsFiniteSet(Drivers)
                    /\ \A d \in Drivers : src[d].take \in Seq(Adds)
    OBVIOUS
<1>1. ScanShape BY DEF ScanInv
<1>2. /\ job \in ScanJobs /\ popped \in Seq(Morsels) /\ morsels \in Seq(Morsels)
      /\ waiting \in Seq(Adds) /\ rpc.adds \in Seq(Adds) /\ rpc.sent \in 0..Len(job.later)
    BY <1>1 DEF ScanShape
<1>3. \A d \in Drivers : src[d].take \in Seq(Adds) BY <1>1 DEF ScanShape, Sources
<1>4. IsFiniteSet(Drivers) /\ job.first \in Seq(Morsels)
    BY <1>2, ScanAssumption, FS_Subset DEF Drivers
<1>5. Takes(Drivers, src) \in Seq(Morsels) BY <1>3, <1>4, TakesIs
<1>6. Sent(rpc.sent) \in Seq(Morsels) BY <1>2, SentGrows
<1> QED BY <1>2, <1>3, <1>4, <1>5, <1>6, FlatFacts

\* It says the same.
LEMMA OnceTallyIs == ScanInv => (RangesOnce <=> OnceTally)
<1> SUFFICES ASSUME ScanInv PROVE RangesOnce <=> OnceTally
    OBVIOUS
<1>1. PICK p \in Seq(Morsels), m \in Seq(Morsels), w \in Seq(Morsels), a \in Seq(Morsels),
           k \in Seq(Morsels), f \in Seq(Morsels), l \in Seq(Morsels) :
         /\ p = popped /\ m = morsels /\ w = Flat(waiting) /\ a = Flat(rpc.adds)
         /\ k = Takes(Drivers, src) /\ f = job.first /\ l = Sent(rpc.sent)
    BY OnceTypes
<1>2. RangesOnce <=> SameRanges(popped, morsels, Flat(waiting), Flat(rpc.adds),
                                Takes(Drivers, src), job.first, Sent(rpc.sent))
    BY Zenon DEF RangesOnce, SameRanges, Flat, Takes, Sent
<1>3. RangesOnce <=> SameRanges(p, m, w, a, k, f, l) BY <1>1, <1>2
<1>4. OnceTally <=> Tally(p, m, w, a, k, f, l) BY <1>1 DEF OnceTally
<1>5. Tally(p, m, w, a, k, f, l) <=> SameRanges(p, m, w, a, k, f, l) BY OnceIs
<1> QED BY <1>3, <1>4, <1>5

\* Moving morsels from one place to another keeps the tally.
LEMMA TallyMoves ==
    ASSUME NEW p \in Seq(Morsels), NEW m \in Seq(Morsels), NEW w \in Seq(Morsels),
           NEW a \in Seq(Morsels), NEW k \in Seq(Morsels), NEW f \in Seq(Morsels),
           NEW l \in Seq(Morsels), Tally(p, m, w, a, k, f, l)
    PROVE  /\ a = <<>> => \A x \in Seq(Morsels) : Tally(p, m, w, x, k, f, l \o x)
           /\ \A x \in Seq(Morsels) : Tally(p, m, w \o x, a, k, f, l \o x)
           /\ Tally(p, m \o a, w, <<>>, k, f, l)
           /\ k = <<>> => Tally(p, m, <<>>, a, w, f, l)
           /\ Tally(p, m \o k, w, a, <<>>, f, l)
           /\ m # <<>> => Tally(Append(p, Head(m)), Tail(m), w, a, k, f, l)
<1>1. Len(<<>>) = 0 /\ ToSet(<<>>) = {} BY DEF ToSet
<1>2. /\ Len(p) \in Nat /\ Len(m) \in Nat /\ Len(w) \in Nat /\ Len(a) \in Nat
      /\ Len(k) \in Nat /\ Len(f) \in Nat /\ Len(l) \in Nat
    OBVIOUS
<1>3. Len(p) + Len(m) + Len(w) + Len(a) + Len(k) = Len(f) + Len(l) BY DEF Tally
<1>4. ASSUME a = <<>>, NEW x \in Seq(Morsels) PROVE Tally(p, m, w, x, k, f, l \o x)
    <2>1. PICK z \in Seq(Morsels) : z = l \o x BY JoinTwo
    <2>2. Len(z) = Len(l) + Len(x) /\ ToSet(z) = ToSet(l) \cup ToSet(x) BY <2>1, JoinTwo
    <2>3. Len(x) \in Nat OBVIOUS
    <2>4. Len(p) + Len(m) + Len(w) + Len(x) + Len(k) = Len(f) + Len(z)
        <3>1. Len(a) = 0 BY <1>1, <1>4
        <3>2. PICK b, c, d, e, g, h, i, j \in Nat :
                 /\ b = Len(p) /\ c = Len(m) /\ d = Len(w) /\ e = Len(a) /\ g = Len(k)
                 /\ h = Len(f) /\ i = Len(l) /\ j = Len(x)
            BY <1>2, <2>3
        <3>3. b + c + d + e + g = h + i /\ e = 0 BY <1>3, <3>1, <3>2
        <3>4. b + c + d + j + g = h + (i + j) BY <3>3
        <3> QED BY <2>2, <3>2, <3>4
    <2>5. ToSet(p) \cup ToSet(m) \cup ToSet(w) \cup ToSet(x) \cup ToSet(k) =
             ToSet(f) \cup ToSet(z)
        BY <1>1, <1>4, <2>2 DEF Tally
    <2> QED BY <2>1, <2>4, <2>5 DEF Tally
<1>5. ASSUME NEW x \in Seq(Morsels) PROVE Tally(p, m, w \o x, a, k, f, l \o x)
    <2>1. PICK z \in Seq(Morsels) : z = l \o x BY JoinTwo
    <2>2. PICK y \in Seq(Morsels) : y = w \o x BY JoinTwo
    <2>3. /\ Len(z) = Len(l) + Len(x) /\ ToSet(z) = ToSet(l) \cup ToSet(x)
          /\ Len(y) = Len(w) + Len(x) /\ ToSet(y) = ToSet(w) \cup ToSet(x)
        BY <2>1, <2>2, JoinTwo
    <2>4. Len(x) \in Nat OBVIOUS
    <2>5. Len(p) + Len(m) + Len(y) + Len(a) + Len(k) = Len(f) + Len(z)
        <3>1. PICK b, c, d, e, g, h, i, j \in Nat :
                 /\ b = Len(p) /\ c = Len(m) /\ d = Len(w) /\ e = Len(a) /\ g = Len(k)
                 /\ h = Len(f) /\ i = Len(l) /\ j = Len(x)
            BY <1>2, <2>4
        <3>2. b + c + d + e + g = h + i BY <1>3, <3>1
        <3>3. b + c + (d + j) + e + g = h + (i + j) BY <3>2
        <3> QED BY <2>3, <3>1, <3>3
    <2>6. ToSet(p) \cup ToSet(m) \cup ToSet(y) \cup ToSet(a) \cup ToSet(k) =
             ToSet(f) \cup ToSet(z)
        BY <2>3 DEF Tally
    <2> QED BY <2>1, <2>2, <2>5, <2>6 DEF Tally
<1>6. Tally(p, m \o a, w, <<>>, k, f, l)
    <2>1. Len(m \o a) = Len(m) + Len(a) /\ ToSet(m \o a) = ToSet(m) \cup ToSet(a) BY JoinTwo
    <2> QED BY <1>1, <1>2, <2>1 DEF Tally
<1>7. k = <<>> => Tally(p, m, <<>>, a, w, f, l) BY <1>1, <1>2 DEF Tally
<1>8. Tally(p, m \o k, w, a, <<>>, f, l)
    <2>1. Len(m \o k) = Len(m) + Len(k) /\ ToSet(m \o k) = ToSet(m) \cup ToSet(k) BY JoinTwo
    <2> QED BY <1>1, <1>2, <2>1 DEF Tally
<1>9. ASSUME m # <<>> PROVE Tally(Append(p, Head(m)), Tail(m), w, a, k, f, l)
    <2>1. PICK h \in Morsels : h = Head(m) BY <1>9
    <2>2. Tail(m) \in Seq(Morsels) BY <1>9
    <2>3. PICK r \in Seq(Morsels) : r = Tail(m) BY <2>2
    <2>4. <<h>> \in Seq(Morsels) OBVIOUS
    <2>5. Append(p, h) = p \o <<h>> /\ m = <<h>> \o r
        <3>1. Append(p, h) = p \o <<h>> OBVIOUS
        <3>2. m = <<h>> \o r BY <1>9, <2>1, <2>3
        <3> QED BY <3>1, <3>2
    <2>6. /\ Len(Append(p, h)) = Len(p) + Len(<<h>>)
          /\ ToSet(Append(p, h)) = ToSet(p) \cup ToSet(<<h>>)
          /\ Len(m) = Len(<<h>>) + Len(r) /\ ToSet(m) = ToSet(<<h>>) \cup ToSet(r)
        <3>1. PICK o \in Seq(Morsels) : o = <<h>> BY <2>4
        <3>2. Len(p \o o) = Len(p) + Len(o) /\ ToSet(p \o o) = ToSet(p) \cup ToSet(o)
            BY JoinTwo
        <3>3. Len(o \o r) = Len(o) + Len(r) /\ ToSet(o \o r) = ToSet(o) \cup ToSet(r)
            BY JoinTwo
        <3> QED BY <2>5, <3>1, <3>2, <3>3
    <2>7. Len(<<h>>) \in Nat /\ Len(r) \in Nat BY <2>4
    <2>8. Len(Append(p, h)) + Len(r) + Len(w) + Len(a) + Len(k) = Len(f) + Len(l)
        BY <1>2, <2>6, <2>7 DEF Tally
    <2>9. ToSet(Append(p, h)) \cup ToSet(r) \cup ToSet(w) \cup ToSet(a) \cup ToSet(k) =
             ToSet(f) \cup ToSet(l)
        BY <2>6 DEF Tally
    <2> QED BY <2>1, <2>3, <2>8, <2>9 DEF Tally
<1> QED BY <1>4, <1>5, <1>6, <1>7, <1>8, <1>9

\* A step that touches no ranges.
LEMMA OnceSame ==
    ASSUME ScanInv, OnceTally, UNCHANGED <<job, morsels, popped, waiting, rpc>>,
           \A d \in Drivers : src'[d].take = src[d].take
    PROVE  OnceTally'
<1>1. Drivers' = Drivers BY DEF Drivers
<1>2. Takes(Drivers, src') = Takes(Drivers, src) BY OnceTypes, TakesIs
<1>3. Sent(rpc.sent)' = Sent(rpc.sent) BY DEF Sent
<1> QED BY <1>1, <1>2, <1>3 DEF OnceTally

\* Ranges are sent.
LEMMA OnceSend ==
    ASSUME ScanInv, OnceTally, SendRanges
    PROVE  OnceTally'
<1>1. /\ rpc.sent < Len(job.later) /\ rpc.adds = <<>>
      /\ UNCHANGED <<job, morsels, popped, src>>
    BY DEF SendRanges, dispatchVars
<1>2. PICK add : add = job.later[rpc.sent + 1] OBVIOUS
<1>3. /\ rpc'.sent = rpc.sent + 1 /\ rpc'.adds = IF handle THEN <<add>> ELSE <<>>
      /\ waiting' = IF handle THEN waiting ELSE Append(waiting, add)
    BY <1>2 DEF SendRanges
<1>4. add \in Adds /\ Sent(rpc.sent + 1) = Sent(rpc.sent) \o add.morsels
    BY <1>1, <1>2, OnceTypes, SentGrows
<1>5. add.morsels \in Seq(Morsels) BY <1>4 DEF Adds
<1>6. PICK x \in Seq(Morsels) : x = add.morsels BY <1>5
<1>7. Sent(rpc.sent)' = Sent(rpc.sent) \o x BY <1>1, <1>3, <1>4, <1>6 DEF Sent
<1>8. <<>> \in Seq(Adds) /\ Flat(<<>>) = <<>> /\ waiting \in Seq(Adds)
    <2>1. <<>> \in Seq(Adds) /\ waiting \in Seq(Adds) BY DEF ScanInv, ScanShape
    <2> QED BY <2>1, FlatFacts
<1>9. Drivers' = Drivers BY <1>1 DEF Drivers
<1>10. CASE handle
    <2>1. Flat(<<add>>) = x
        <3>1. <<add>> = Append(<<>>, add) OBVIOUS
        <3>2. Flat(Append(<<>>, add)) = Flat(<<>>) \o add.morsels BY <1>4, <1>8, FlatFacts
        <3>3. <<>> \o x = x OBVIOUS
        <3> QED BY <1>6, <1>8, <3>1, <3>2, <3>3
    <2>2. Tally(popped, morsels, Flat(waiting), x, Takes(Drivers, src), job.first,
                Sent(rpc.sent) \o x)
        BY <1>1, <1>8, OnceTypes, TallyMoves DEF OnceTally
    <2> QED BY <1>1, <1>3, <1>7, <1>9, <1>10, <2>1, <2>2 DEF OnceTally
<1>11. CASE ~handle
    <2>1. Flat(Append(waiting, add)) = Flat(waiting) \o x BY <1>4, <1>6, <1>8, FlatFacts
    <2>2. Tally(popped, morsels, Flat(waiting) \o x, Flat(rpc.adds), Takes(Drivers, src),
                job.first, Sent(rpc.sent) \o x)
        BY OnceTypes, TallyMoves DEF OnceTally
    <2> QED BY <1>1, <1>3, <1>7, <1>9, <1>11, <2>1, <2>2 DEF OnceTally
<1> QED BY <1>10, <1>11

\* They are appended by the call that sent them.
LEMMA OnceAppendSent ==
    ASSUME ScanInv, OnceTally, AppendSent
    PROVE  OnceTally'
<1>1. /\ morsels' = morsels \o Flat(rpc.adds) /\ rpc'.adds = <<>> /\ rpc'.sent = rpc.sent
      /\ \A d \in Drivers : src'[d].take = src[d].take
    BY AppendSentKeeps DEF Like
<1>2. UNCHANGED <<job, waiting, popped>> /\ Drivers' = Drivers BY DEF AppendSent, Drivers
<1>3. Flat(<<>>) = <<>>
    <2>1. <<>> \in Seq(Adds) OBVIOUS
    <2> QED BY <2>1, FlatFacts
<1>4. Takes(Drivers, src') = Takes(Drivers, src) BY <1>1, OnceTypes, TakesIs
<1>5. Sent(rpc.sent)' = Sent(rpc.sent) BY <1>1, <1>2 DEF Sent
<1>6. Tally(popped, morsels \o Flat(rpc.adds), Flat(waiting), <<>>, Takes(Drivers, src),
            job.first, Sent(rpc.sent))
    BY OnceTypes, TallyMoves DEF OnceTally
<1> QED BY <1>1, <1>2, <1>3, <1>4, <1>5, <1>6 DEF OnceTally

\* The node is registered, and what waited is taken and appended.
LEMMA OnceBinding ==
    ASSUME ScanInv, ScanInv', OnceTally, NEW d \in Drivers,
           Register(d) \/ TakePending(d) \/ AppendTaken(d)
    PROVE  OnceTally'
<1>1. PICK s \in Sources : Binds(d, s) BY RegisterIs, TakePendingIs, AppendTakenIs
<1>2. /\ UNCHANGED <<job, rpc, popped>> /\ Drivers' = Drivers /\ src'[d] = s
      /\ \A e \in Drivers \ {d} : src'[e] = src[e]
    BY <1>1 DEF Binds, Drivers
<1>3. Sent(rpc.sent)' = Sent(rpc.sent) BY <1>2 DEF Sent
<1>4. \A e \in Drivers : src'[e].take \in Seq(Adds) BY <1>1 DEF Binds, Sources
<1>5. IsFiniteSet(Drivers) BY OnceTypes
<1>6. Flat(<<>>) = <<>>
    <2>1. <<>> \in Seq(Adds) OBVIOUS
    <2> QED BY <2>1, FlatFacts
<1>7. src[d].pc \in {"registered", "taken"} => \A e \in Drivers : e # d => src[e].take = <<>>
    BY DEF ScanInv, OneBinds, Binding, TakeOK
<1>8. CASE Register(d)
    <2>1. \A e \in Drivers : src'[e].take = src[e].take
        BY <1>2, <1>8, RegisterIs DEF Binds
    <2> QED BY <1>2, <1>8, <2>1, RegisterIs, OnceSame
<1>9. CASE TakePending(d)
    <2>1. /\ src[d].pc = "registered" /\ src[d].take = <<>> /\ src'[d].take = waiting
          /\ waiting' = <<>> /\ UNCHANGED morsels
        BY <1>9, TakePendingIs DEF Binds
    <2>2. \A e \in Drivers : src[e].take = <<>> BY <1>7, <2>1
    <2>3. Takes(Drivers, src) = <<>> BY <1>5, <2>2, OnceTypes, TakesIs
    <2>4. \A e \in Drivers : e # d => src'[e].take = <<>> BY <1>2, <2>2
    <2>5. Takes(Drivers, src') = Flat(waiting) BY <1>4, <1>5, <2>1, <2>4, TakesIs
    <2>6. Tally(popped, morsels, <<>>, Flat(rpc.adds), Flat(waiting), job.first, Sent(rpc.sent))
        BY <2>3, OnceTypes, TallyMoves DEF OnceTally
    <2> QED BY <1>2, <1>3, <1>6, <2>1, <2>5, <2>6 DEF OnceTally
<1>10. CASE AppendTaken(d)
    <2>1. /\ src[d].pc = "taken" /\ src'[d].take = <<>> /\ UNCHANGED waiting
          /\ morsels' = morsels \o Flat(src[d].take)
        BY <1>10, AppendTakenIs DEF Binds
    <2>2. \A e \in Drivers : e # d => src[e].take = <<>> BY <1>7, <2>1
    <2>3. Takes(Drivers, src) = Flat(src[d].take) BY <1>5, <2>2, OnceTypes, TakesIs
    <2>4. \A e \in Drivers : src'[e].take = <<>> BY <1>2, <2>1, <2>2
    <2>5. Takes(Drivers, src') = <<>> BY <1>4, <1>5, <2>4, TakesIs
    <2>6. Tally(popped, morsels \o Takes(Drivers, src), Flat(waiting), Flat(rpc.adds), <<>>,
                job.first, Sent(rpc.sent))
        BY OnceTypes, TallyMoves DEF OnceTally
    <2> QED BY <1>2, <1>3, <2>1, <2>3, <2>5, <2>6 DEF OnceTally
<1> QED BY <1>8, <1>9, <1>10

\* The steps of a task: one of them pops a morsel.
LEMMA OnceTask ==
    ASSUME ScanInv, OnceTally, NEW t \in TaskSlots, RunTask(t) \/ ReadFails(t)
    PROVE  OnceTally'
<1>1. ASSUME NEW d \in Drivers, NEW x \in Tasks, NEW s \in Sources, Shift(t, d, x, s)
      PROVE  /\ UNCHANGED <<job, waiting, rpc>> /\ Drivers' = Drivers
             /\ \A e \in Drivers : src'[e].take = src[e].take
    <2>1. Moves(t, d, x, s) /\ Core(s, src[d]) /\ UNCHANGED <<waiting, rpc>> BY <1>1 DEF Shift
    <2> QED BY <2>1 DEF Moves, Core, Like, Drivers
<1>2. CASE ~NextMorsel(t)
    <2>1. UNCHANGED <<morsels, popped>>
        BY <1>2 DEF RunTask, TakeRunner, TaskTop, NextOfMorsel, ReadFails, PushScanned, KeepRunner,
                    LeaveInflight, JudgePool, dispatchVars
    <2>2. \E d \in Drivers, x \in Tasks, s \in Sources : Shift(t, d, x, s)
        <3>1. CASE TakeRunner(t) BY <3>1, TakeRunnerIs
        <3>2. CASE TaskTop(t) BY <3>2, TaskTopIs
        <3>3. CASE NextOfMorsel(t) BY <3>3, NextOfMorselIs, SourceNumbers
        <3>4. CASE PushScanned(t) BY <3>4, PushScannedIs
        <3>5. CASE KeepRunner(t) BY <3>5, KeepRunnerIs
        <3>6. CASE LeaveInflight(t) BY <3>6, LeaveInflightIs
        <3>7. CASE JudgePool(t) BY <3>7, JudgePoolIs, NoTaskType
        <3>8. CASE ReadFails(t) BY <3>8, ReadFailsIs
        <3> QED BY <1>2, <3>1, <3>2, <3>3, <3>4, <3>5, <3>6, <3>7, <3>8 DEF RunTask
    <2> QED BY <1>1, <2>1, <2>2, OnceSame
<1>3. CASE NextMorsel(t)
    <2>1. PICK d \in Drivers, x \in Tasks :
             /\ Shift(t, d, x, src[d])
             /\ \/ UNCHANGED <<morsels, popped>>
                \/ /\ ~QueueEmpty
                   /\ morsels' = Tail(morsels) /\ popped' = Append(popped, Head(morsels))
        BY <1>3, NextMorselIs
    <2>2. /\ UNCHANGED <<job, waiting, rpc>> /\ Drivers' = Drivers
          /\ \A e \in Drivers : src'[e].take = src[e].take
        BY <1>1, <2>1, SourceNumbers
    <2>3. CASE UNCHANGED <<morsels, popped>> BY <2>2, <2>3, OnceSame
    <2>4. CASE ~UNCHANGED <<morsels, popped>>
        <3>1. /\ morsels # <<>> /\ morsels' = Tail(morsels)
              /\ popped' = Append(popped, Head(morsels))
            BY <2>1, <2>4 DEF QueueEmpty
        <3>2. Takes(Drivers, src') = Takes(Drivers, src) BY <2>2, OnceTypes, TakesIs
        <3>3. Sent(rpc.sent)' = Sent(rpc.sent) BY <2>2 DEF Sent
        <3>4. Tally(Append(popped, Head(morsels)), Tail(morsels), Flat(waiting),
                    Flat(rpc.adds), Takes(Drivers, src), job.first, Sent(rpc.sent))
            BY <3>1, OnceTypes, TallyMoves DEF OnceTally
        <3> QED BY <2>2, <3>1, <3>2, <3>3, <3>4 DEF OnceTally
    <2> QED BY <2>3, <2>4
<1> QED BY <1>2, <1>3

\* Every step keeps the tally.
LEMMA OnceStep == ScanInv /\ ScanInv' /\ OnceTally /\ [ScanNext]_scanVars => OnceTally'
<1> SUFFICES ASSUME ScanInv, ScanInv', OnceTally, [ScanNext]_scanVars PROVE OnceTally'
    OBVIOUS
<1>1. CASE SendRanges BY <1>1, OnceSend
<1>2. CASE AppendSent BY <1>2, OnceAppendSent
<1>3. CASE RunDrivers
    <2>1. \A d \in Drivers : src'[d].take = src[d].take BY <1>3, RunDriversIs
    <2> QED BY <1>3, <2>1, RunDriversIs, OnceSame
<1>4. CASE \E d \in Drivers : RunStep(d)
    <2>1. PICK d \in Drivers : RunStep(d) BY <1>4
    <2>2. PICK s \in Sources : Runs(d, s) BY <2>1, RunStepIs
    <2>3. /\ UNCHANGED <<job, morsels, popped, waiting, rpc>>
          /\ \A e \in Drivers : src'[e].take = src[e].take
        BY <2>2 DEF Runs, Turn
    <2> QED BY <2>3, OnceSame
<1>5. CASE \E d \in Drivers : SubmitTask(d)
    <2>1. PICK d \in Drivers : SubmitTask(d) BY <1>5
    <2>2. PICK t \in TaskSlots, x \in Tasks, s \in Sources : Shift(t, d, x, s)
        BY <2>1, SubmitTaskIs
    <2>3. UNCHANGED <<morsels, popped>> BY <2>1, SubmitTaskIs
    <2>4. /\ UNCHANGED <<job, waiting, rpc>>
          /\ \A e \in Drivers : src'[e].take = src[e].take
        BY <2>2 DEF Shift, Moves, Core, Like
    <2> QED BY <2>3, <2>4, OnceSame
<1>6. CASE \E d \in Drivers : Register(d) \/ TakePending(d) \/ AppendTaken(d)
    BY <1>6, OnceBinding
<1>7. CASE \E t \in TaskSlots : RunTask(t) \/ ReadFails(t) BY <1>7, OnceTask
<1>8. CASE UNCHANGED scanVars
    BY <1>8, OnceSame DEF scanVars, dispatchVars, rangeVars
<1> QED BY <1>1, <1>2, <1>3, <1>4, <1>5, <1>6, <1>7, <1>8 DEF ScanNext, DriverStep, RunStep

\* Initially the plan's morsels are in the queue.
LEMMA OnceInit == ScanInit => OnceTally
<1> SUFFICES ASSUME ScanInit PROVE OnceTally
    OBVIOUS
<1>1. ScanInv BY InitInv
<1>2. /\ popped = <<>> /\ morsels = job.first /\ waiting = <<>> /\ rpc.adds = <<>>
      /\ rpc.sent = 0
    BY DEF ScanInit
<1>3. Flat(<<>>) = <<>>
    <2>1. <<>> \in Seq(Adds) OBVIOUS
    <2> QED BY <2>1, FlatFacts
<1>4. \A d \in Drivers : src[d].take = <<>> BY DEF ScanInit, NewSource
<1>5. Takes(Drivers, src) = <<>> BY <1>1, <1>4, OnceTypes, TakesIs
<1>6. Sent(0) = <<>> BY <1>1, <1>2, OnceTypes, SentGrows
<1>7. Len(<<>>) = 0 /\ ToSet(<<>>) = {} BY DEF ToSet
<1>8. Len(job.first) \in Nat BY <1>1, OnceTypes
<1>9. Tally(<<>>, job.first, <<>>, <<>>, <<>>, job.first, <<>>) BY <1>7, <1>8 DEF Tally
<1> QED BY <1>2, <1>3, <1>5, <1>6, <1>9 DEF OnceTally

\* Whenever the FE's ranges arrive, before the node registers, while it takes what
\* waited, or after, each is in the queue once: none is lost or read twice.
THEOREM ScanRangesOnce == ScanSpec => []RangesOnce
<1>1. ScanSpec => []OnceTally BY OnceInit, OnceStep, ScanInvariant, PTL DEF ScanSpec
<1>2. ScanInv /\ OnceTally => RangesOnce BY OnceTallyIs
<1> QED BY <1>1, <1>2, ScanInvariant, PTL

-----------------------------------------------------------------------------
(* The chunks of the morsels popped: with any number of tasks, each has been *)
(* pulled or is still held, as long as no driver stops or fails.             *)

Accounted ==
    Chunks(popped) \subseteq given \cup {NoChunk} \cup UNION {Held(d) : d \in Drivers}

\* A step that concerns one driver keeps what it holds, or hands it on.
LEMMA AccountedFrame ==
    ASSUME ScanInv, ScanInv', Accounted, NEW d \in Drivers, UNCHANGED job,
           given \subseteq given',
           \A e \in Drivers \ {d} : Like(src'[e], src[e]) /\ Holding(e)' = Holding(e),
           \A u \in TaskSlots : task[u].pc # "free" /\ task[u].drv # d => task'[u] = task[u],
           Held(d) \subseteq Held(d)' \cup given' \cup {NoChunk},
           Chunks(popped') \subseteq Chunks(popped) \cup Held(d)'
    PROVE  Accounted'
<1>1. Drivers' = Drivers BY DEF Drivers
<1>2. ASSUME NEW e \in Drivers \ {d} PROVE Held(e)' = Held(e)
    <2>1. \A u \in Holding(e) : task'[u] = task[u]
        BY DEF Holding, HoldPcs
    <2>2. {TaskChunks(task'[u]) : u \in Holding(e)} = {TaskChunks(task[u]) : u \in Holding(e)}
        BY <2>1
    <2>3. src'[e].buf = src[e].buf /\ src'[e].pool = src[e].pool /\ Holding(e)' = Holding(e)
        BY DEF Like
    <2>4. Held(e)' = ToSet(src'[e].buf) \cup PoolChunks(src'[e].pool)
                       \cup UNION {TaskChunks(task'[u]) : u \in Holding(e)'}
        BY DEF Held, TaskChunks, PoolChunks, RunChunks
    <2> QED BY <2>2, <2>3, <2>4 DEF Held
<1> DEFINE H(e) == Held(e)'
<1>3. /\ Held(d) \subseteq H(d) \cup given' \cup {NoChunk}
      /\ Chunks(popped') \subseteq Chunks(popped) \cup H(d)
    OBVIOUS
<1>4. \A e \in Drivers \ {d} : H(e) = Held(e) BY <1>2
<1> HIDE DEF H
<1>5. ASSUME NEW c \in Chunks(popped')
      PROVE  c \in given' \cup {NoChunk} \cup UNION {H(e) : e \in Drivers}
    <2>1. CASE c \in H(d) BY <2>1
    <2>2. CASE c \notin H(d)
        <3>1. c \in Chunks(popped) BY <1>3, <2>2
        <3>2. CASE c \in given \cup {NoChunk} BY <3>2
        <3>3. CASE c \in UNION {Held(e) : e \in Drivers}
            <4>1. PICK e \in Drivers : c \in Held(e) BY <3>3
            <4>2. CASE e = d BY <1>3, <2>2, <4>1, <4>2
            <4>3. CASE e # d BY <1>4, <4>1, <4>3
            <4> QED BY <4>2, <4>3
        <3> QED BY <3>1, <3>2, <3>3 DEF Accounted
    <2> QED BY <2>1, <2>2
<1>6. Chunks(popped)' \subseteq given' \cup {NoChunk} \cup UNION {H(e) : e \in Drivers'}
    BY <1>1, <1>5 DEF Chunks
<1> QED BY <1>6 DEF Accounted, H

\* A step that changes neither tasks, nor buffers, nor pools.
LEMMA AccountedSame ==
    ASSUME Accounted, UNCHANGED <<job, task, given, popped>>,
           \A d \in Drivers : src'[d].buf = src[d].buf /\ src'[d].pool = src[d].pool
    PROVE  Accounted'
<1>1. Drivers' = Drivers BY DEF Drivers
<1> DEFINE H(d) == Held(d)'
<1>2. ASSUME NEW d \in Drivers PROVE H(d) = Held(d)
    <2>1. Holding(d)' = Holding(d) BY DEF Holding
    <2> QED BY <2>1 DEF Held, TaskChunks, PoolChunks, RunChunks
<1> HIDE DEF H
<1>3. Chunks(popped') \subseteq given' \cup {NoChunk} \cup UNION {H(d) : d \in Drivers'}
    BY <1>1, <1>2 DEF Accounted
<1> QED BY <1>3 DEF Accounted, H, Chunks

\* What a task and its driver hold between them.
Own(x, s) == ToSet(s.buf) \cup PoolChunks(s.pool) \cup TaskChunks(x)

\* A step of a task changes what its driver holds by what both hold.
LEMMA HeldShift ==
    ASSUME ScanInv, NEW t \in TaskSlots, NEW d \in Drivers, NEW x \in Tasks, NEW s \in Sources,
           Shift(t, d, x, s)
    PROVE  /\ Own(x, s) \subseteq Held(d)'
           /\ Own(task[t], src[d]) \subseteq Own(x, s) \cup {NoChunk}
                => Held(d) \subseteq Held(d)' \cup {NoChunk}
<1>1. ScanShape /\ Moves(t, d, x, s) BY DEF ScanInv, Shift
<1>2. /\ Holding(d)' = (Holding(d) \ {t}) \cup (IF x.pc \in HoldPcs THEN {t} ELSE {})
      /\ t \in Holding(d) <=> task[t].pc \in HoldPcs
    BY <1>1, SetsAfter
<1>3. /\ src'[d].buf = s.buf /\ src'[d].pool = s.pool /\ task'[t] = x
      /\ \A u \in TaskSlots \ {t} : task'[u] = task[u]
    BY <1>1 DEF Moves, Like
<1> DEFINE T == UNION {TaskChunks(task'[u]) : u \in Holding(d)'}
           R == UNION {TaskChunks(task[u]) : u \in Holding(d) \ {t}}
<1>4. Held(d)' = ToSet(src'[d].buf) \cup PoolChunks(src'[d].pool) \cup T
    BY DEF Held, TaskChunks, PoolChunks, RunChunks
<1>5. Holding(d) \subseteq TaskSlots BY DEF Holding
<1>6. R \subseteq T
    <2>1. ASSUME NEW u \in Holding(d) \ {t}
          PROVE  u \in Holding(d)' /\ task'[u] = task[u]
        BY <1>2, <1>3, <1>5
    <2> QED BY <2>1
<1>7. TaskChunks(x) \subseteq T
    <2>1. CASE x.pc \in HoldPcs
        <3>1. t \in Holding(d)' BY <1>2, <2>1
        <3> QED BY <1>3, <3>1
    <2>2. CASE x.pc \notin HoldPcs BY <2>2 DEF TaskChunks
    <2> QED BY <2>1, <2>2
<1>8. Held(d) \subseteq Own(task[t], src[d]) \cup R
    <2>1. ASSUME NEW u \in Holding(d) PROVE TaskChunks(task[u]) \subseteq TaskChunks(task[t]) \cup R
        <3>1. CASE u = t BY <3>1
        <3>2. CASE u # t BY <3>2
        <3> QED BY <3>1, <3>2
    <2> HIDE DEF R
    <2> QED BY <2>1 DEF Held, Own
<1>9. Own(x, s) \subseteq Held(d)' BY <1>3, <1>4, <1>7 DEF Own
<1>10. R \subseteq Held(d)' BY <1>4, <1>6
<1>11. PICK H : H = Held(d)' OBVIOUS
<1> HIDE DEF R, T
<1>12. ASSUME Own(task[t], src[d]) \subseteq Own(x, s) \cup {NoChunk}
       PROVE  Held(d) \subseteq H \cup {NoChunk}
    BY <1>8, <1>9, <1>10, <1>11, <1>12
<1> QED BY <1>9, <1>11, <1>12

\* The chunks of a pool without its last runner, and with one more.
LEMMA PoolSplit ==
    ASSUME NEW p \in Seq(Runners)
    PROVE  /\ p # <<>> => PoolChunks(p) \subseteq PoolChunks(Front(p)) \cup RunChunks(Last(p))
           /\ \A r \in Runners : PoolChunks(p) \cup RunChunks(r) \subseteq PoolChunks(Append(p, r))
<1>1. ASSUME p # <<>>
      PROVE  PoolChunks(p) \subseteq PoolChunks(Front(p)) \cup RunChunks(Last(p))
    <2>1. ASSUME NEW i \in DOMAIN p
          PROVE  RunChunks(p[i]) \subseteq PoolChunks(Front(p)) \cup RunChunks(Last(p))
        <3>1. CASE i = Len(p) BY <1>1, <3>1, PoolFront
        <3>2. CASE i # Len(p)
            <4>1. Len(p) \in Nat /\ i \in 1..Len(p) BY <1>1, PoolFront
            <4>2. i \in 1..(Len(p) - 1) BY <3>2, <4>1
            <4>3. i \in DOMAIN Front(p) /\ Front(p)[i] = p[i] BY <1>1, <4>2, PoolFront
            <4> QED BY <4>3 DEF PoolChunks
        <3> QED BY <3>1, <3>2
    <2> QED BY <2>1 DEF PoolChunks
<1>2. ASSUME NEW r \in Runners
      PROVE  PoolChunks(p) \cup RunChunks(r) \subseteq PoolChunks(Append(p, r))
    <2>1. Append(p, r) \in Seq(Runners) OBVIOUS
    <2>2. PICK q \in Seq(Runners) : q = Append(p, r) BY <2>1
    <2>3. Len(q) = Len(p) + 1 /\ q[Len(p) + 1] = r /\ \A i \in 1..Len(p) : q[i] = p[i] BY <2>2
    <2>4. \A i \in DOMAIN p : i \in DOMAIN q /\ q[i] = p[i] BY <2>3
    <2>5. Len(p) + 1 \in DOMAIN q BY <2>3
    <2>6. RunChunks(r) \subseteq PoolChunks(q) BY <2>3, <2>5 DEF PoolChunks
    <2>7. PoolChunks(p) \subseteq PoolChunks(q) BY <2>4 DEF PoolChunks
    <2> QED BY <2>2, <2>6, <2>7
<1> QED BY <1>1, <1>2

\* A driver that runs keeps what it has not pulled.
LEMMA RunHeld ==
    ASSUME ScanInv, NEW d \in Drivers, RunStep(d)
    PROVE  Held(d) \subseteq Held(d)' \cup given'
<1>1. UNCHANGED task BY RunStepIs
<1>2. PICK s \in Sources : Runs(d, s) BY RunStepIs
<1>3. PICK a \in Sources : a = src[d] BY SourceNumbers
<1>4. src'[d] = s /\ s.pool = a.pool BY <1>2, <1>3 DEF Runs, Turn
<1>5. s.buf = a.buf \/ Pulls(s, a)
    BY <1>2, <1>3 DEF Runs, GoesOn, Same, IsDone, Finishes, Fails
<1>6. ToSet(a.buf) \subseteq ToSet(s.buf) \cup given'
    <2>1. CASE s.buf = a.buf BY <2>1
    <2>2. CASE Pulls(s, a)
        <3>1. a.buf # <<>> /\ s.buf = Tail(a.buf) /\ given' = given \cup {Head(a.buf)}
            BY <2>2 DEF Pulls
        <3>2. a.buf \in Seq(Nat) BY DEF Sources
        <3>3. PICK b \in Seq(Nat) : b = a.buf BY <3>2
        <3>4. Tail(b) \in Seq(Nat) BY <3>1, <3>3
        <3>5. PICK c \in Seq(Nat) : c = Tail(b) BY <3>4
        <3>6. ASSUME NEW i \in DOMAIN b PROVE b[i] = Head(b) \/ b[i] \in ToSet(c)
            <4>1. Len(c) = Len(b) - 1 /\ \A j \in 1..Len(c) : c[j] = b[j + 1]
                BY <3>1, <3>3, <3>5
            <4>2. CASE i = 1 BY <4>2
            <4>3. CASE i # 1
                <5>1. i - 1 \in 1..Len(c) BY <4>1, <4>3
                <5>2. i - 1 \in DOMAIN c /\ c[i - 1] = b[i] BY <4>1, <5>1
                <5> QED BY <5>2 DEF ToSet
            <4> QED BY <4>2, <4>3
        <3>7. ToSet(b) \subseteq ToSet(c) \cup {Head(b)} BY <3>6 DEF ToSet
        <3> QED BY <3>1, <3>3, <3>5, <3>7
    <2> QED BY <1>5, <2>1, <2>2
<1>7. Holding(d)' = Holding(d) BY <1>1 DEF Holding
<1>8. Held(d)' = ToSet(s.buf) \cup PoolChunks(s.pool)
                   \cup UNION {TaskChunks(task[u]) : u \in Holding(d)}
    BY <1>1, <1>4, <1>7 DEF Held, TaskChunks, PoolChunks, RunChunks
<1>9. Held(d) = ToSet(a.buf) \cup PoolChunks(a.pool)
                  \cup UNION {TaskChunks(task[u]) : u \in Holding(d)}
    BY <1>3 DEF Held
<1>10. PICK H : H = Held(d)' OBVIOUS
<1> QED BY <1>4, <1>6, <1>8, <1>9, <1>10

\* A chunk that is handed on is buffered or kept.
LEMMA PushOwn ==
    ASSUME ScanInv, NEW t \in TaskSlots, NEW d \in Drivers, NEW x \in Tasks, NEW s \in Sources,
           task[t].pc = "push", s.pool = src[d].pool,
           \/ x.pc = "leave" /\ src[d].stop
           \/ /\ x.pc = "top" /\ x.run = task[t].run
              /\ s.buf = Append(src[d].buf, task[t].chunk)
           \/ /\ x.pc = "keep" /\ x.run.iter = task[t].run.iter
              /\ x.run.pend = task[t].chunk /\ s.buf = src[d].buf
    PROVE  src[d].stop \/ Own(task[t], src[d]) \subseteq Own(x, s) \cup {NoChunk}
<1>2. task[t].run.pend = NoChunk BY DEF ScanInv, TaskOK, Fit
<1>3. ASSUME ~src[d].stop PROVE Own(task[t], src[d]) \subseteq Own(x, s) \cup {NoChunk}
    <2>1. CASE x.pc = "top"
        <3>1. x.run = task[t].run /\ s.buf = Append(src[d].buf, task[t].chunk)
            BY <2>1
        <3>2. src[d].buf \in Seq(Nat) /\ task[t].chunk \in Nat
            BY SourceNumbers DEF ScanInv, ScanShape, Sources, Tasks
        <3>3. ToSet(src[d].buf) \cup {task[t].chunk} \subseteq ToSet(s.buf)
            <4>1. PICK b \in Seq(Nat), c \in Nat : b = src[d].buf /\ c = task[t].chunk BY <3>2
            <4>2. Append(b, c) \in Seq(Nat) OBVIOUS
            <4>3. PICK a \in Seq(Nat) : a = Append(b, c) BY <4>2
            <4>4. /\ Len(a) = Len(b) + 1 /\ a[Len(b) + 1] = c /\ \A i \in 1..Len(b) : a[i] = b[i]
                BY <4>3
            <4>5. \A i \in DOMAIN b : i \in DOMAIN a /\ a[i] = b[i] BY <4>4
            <4>6. Len(b) + 1 \in DOMAIN a BY <4>4
            <4>7. ToSet(b) \subseteq ToSet(a) BY <4>5 DEF ToSet
            <4>8. c \in ToSet(a) BY <4>4, <4>6 DEF ToSet
            <4> QED BY <3>1, <4>1, <4>3, <4>7, <4>8
        <3> QED BY <2>1, <3>1, <3>3 DEF Own, TaskChunks, HoldPcs
    <2>2. CASE x.pc = "keep"
        BY <1>2, <2>2 DEF Own, TaskChunks, RunChunks, HoldPcs
    <2> QED BY <1>3, <2>1, <2>2
<1> QED BY <1>3

\* A task that asks for a morsel has no chunk.
LEMMA EmptyOwn ==
    ASSUME ScanInv, NEW t \in TaskSlots, NEW d \in Drivers, NEW x \in Tasks,
           task[t].pc = "next", task[t].run.iter = <<>>, task[t].run.pend = NoChunk
    PROVE  Own(task[t], src[d]) \subseteq Own(x, src[d]) \cup {NoChunk}
<1>1. task[t].chunk = NoChunk BY DEF ScanInv, TaskOK, Fit
<1>2. TaskChunks(task[t]) \subseteq {NoChunk} BY <1>1 DEF TaskChunks, RunChunks, ToSet
<1> QED BY <1>2 DEF Own

\* Popping a morsel adds its chunks to those popped.
LEMMA PopChunks ==
    ASSUME ScanInv, morsels # <<>>, popped' = Append(popped, Head(morsels))
    PROVE  Chunks(popped') \subseteq Chunks(popped) \cup ToSet(Head(morsels))
<1>1. popped \in Seq(Morsels) /\ morsels \in Seq(Morsels) BY DEF ScanInv, ScanShape
<1>2. PICK h \in Morsels : h = Head(morsels) BY <1>1
<1>3. Append(popped, h) \in Seq(Morsels) BY <1>1
<1>4. PICK q \in Seq(Morsels) : q = Append(popped, h) BY <1>3
<1>5. /\ Len(q) = Len(popped) + 1 /\ q[Len(popped) + 1] = h /\ Len(popped) \in Nat
      /\ \A i \in 1..Len(popped) : q[i] = popped[i]
    BY <1>1, <1>4
<1>6. ASSUME NEW i \in DOMAIN q PROVE ToSet(q[i]) \subseteq Chunks(popped) \cup ToSet(h)
    <2>1. i \in 1..(Len(popped) + 1) BY <1>5
    <2>2. CASE i = Len(popped) + 1 BY <1>5, <2>2
    <2>3. CASE i # Len(popped) + 1
        <3>1. i \in 1..Len(popped) BY <1>5, <2>1, <2>3
        <3>2. i \in DOMAIN popped /\ q[i] = popped[i] BY <1>1, <1>5, <3>1
        <3> QED BY <3>2 DEF Chunks
    <2> QED BY <2>2, <2>3
<1>7. Chunks(q) \subseteq Chunks(popped) \cup ToSet(h) BY <1>6 DEF Chunks
<1> QED BY <1>2, <1>4, <1>7

\* A step of a task keeps what it and its driver hold, unless the driver has stopped,
\* the read fails or the limit is reached.
Hands(t, d, x, s) ==
    /\ Shift(t, d, x, s) /\ (src[d].err => s.err) /\ (full => full')
    /\ \/ s.err \/ src[d].stop \/ full'
       \/ /\ Own(task[t], src[d]) \subseteq Own(x, s) \cup {NoChunk}
          /\ Chunks(popped') \subseteq Chunks(popped) \cup Own(x, s)

LEMMA TaskHands ==
    ASSUME ScanInv, NEW t \in TaskSlots, RunTask(t) \/ ReadFails(t)
    PROVE  \E d \in Drivers, x \in Tasks, s \in Sources : Hands(t, d, x, s)
<1>1. CASE TakeRunner(t)
    <2>1. PICK d \in Drivers, x \in Tasks, s \in Sources :
             /\ Shift(t, d, x, s) /\ task[t].pc = "pop"
             /\ s.err = src[d].err /\ s.buf = src[d].buf
             /\ \/ src[d].pool = <<>> /\ s.pool = <<>>
                \/ src[d].stop
                \/ /\ x.pc = "top" /\ x.run = Last(src[d].pool) /\ src[d].pool # <<>>
                   /\ s.pool = Front(src[d].pool)
        BY <1>1, TakeRunnerIs
    <2>2. UNCHANGED <<popped, full>> BY <1>1 DEF TakeRunner, dispatchVars
    <2>3. src[d].pool \in Seq(Runners) BY SourceNumbers DEF Sources
    <2>4. src[d].stop \/ Own(task[t], src[d]) \subseteq Own(x, s)
        <3>1. CASE src[d].pool = <<>> /\ s.pool = <<>>
            BY <2>1, <3>1 DEF Own, TaskChunks, HoldPcs
        <3>2. CASE /\ x.pc = "top" /\ x.run = Last(src[d].pool) /\ src[d].pool # <<>>
                   /\ s.pool = Front(src[d].pool)
            <4>1. PoolChunks(src[d].pool) \subseteq PoolChunks(s.pool) \cup RunChunks(x.run)
                BY <2>3, <3>2, PoolSplit
            <4> QED BY <2>1, <3>2, <4>1 DEF Own, TaskChunks, HoldPcs
        <3> QED BY <2>1, <3>1, <3>2
    <2> QED BY <2>1, <2>2, <2>4 DEF Hands
<1>2. CASE TaskTop(t)
    <2>1. PICK d \in Drivers, x \in Tasks, s \in Sources :
             /\ Shift(t, d, x, s) /\ task[t].pc = "top" /\ x.run = task[t].run
             /\ x.chunk = NoChunk
             /\ s.err = src[d].err /\ s.buf = src[d].buf /\ s.pool = src[d].pool
             /\ src[d].stop \/ x.pc \in {"next", "keep"}
        BY <1>2, TaskTopIs
    <2>2. UNCHANGED <<popped, full>> BY <1>2 DEF TaskTop, dispatchVars
    <2>3. task[t].chunk = NoChunk BY <2>1 DEF ScanInv, TaskOK, Fit
    <2>4. src[d].stop \/ Own(task[t], src[d]) \subseteq Own(x, s)
        BY <2>1, <2>3 DEF Own, TaskChunks, HoldPcs
    <2> QED BY <2>1, <2>2, <2>4 DEF Hands
<1>3. CASE NextOfMorsel(t)
    <2>1. PICK d \in Drivers, x \in Tasks :
             /\ Shift(t, d, x, src[d]) /\ task[t].pc = "next" /\ (full => full')
             /\ \/ full'
                \/ /\ x.pc = "push"
                   /\ ToSet(task[t].run.iter) \cup {task[t].run.pend} \subseteq
                        ToSet(x.run.iter) \cup {x.chunk, NoChunk}
        BY <1>3, NextOfMorselIs
    <2>2. UNCHANGED popped BY <1>3 DEF NextOfMorsel
    <2>3. task[t].chunk = NoChunk BY <2>1 DEF ScanInv, TaskOK, Fit
    <2>4. full' \/ Own(task[t], src[d]) \subseteq Own(x, src[d]) \cup {NoChunk}
        BY <2>1, <2>3 DEF Own, TaskChunks, RunChunks, HoldPcs
    <2>5. src[d] \in Sources BY SourceNumbers
    <2> QED BY <2>1, <2>2, <2>4, <2>5 DEF Hands
<1>4. CASE NextMorsel(t)
    <2>1. PICK d \in Drivers, x \in Tasks :
             /\ Shift(t, d, x, src[d]) /\ task[t].pc = "next"
             /\ task[t].run.iter = <<>> /\ task[t].run.pend = NoChunk /\ UNCHANGED full
             /\ \/ UNCHANGED popped
                \/ /\ ~QueueEmpty /\ x.pc = "next" /\ x.run.iter = Head(morsels)
                   /\ popped' = Append(popped, Head(morsels))
        BY <1>4, NextMorselIs
    <2>2. Own(task[t], src[d]) \subseteq Own(x, src[d]) \cup {NoChunk} BY <2>1, EmptyOwn
    <2>3. Chunks(popped') \subseteq Chunks(popped) \cup Own(x, src[d])
        <3>1. CASE UNCHANGED popped BY <3>1
        <3>2. CASE popped' # popped
            <4>1. /\ morsels # <<>> /\ x.pc = "next" /\ x.run.iter = Head(morsels)
                  /\ popped' = Append(popped, Head(morsels))
                BY <2>1, <3>2 DEF QueueEmpty
            <4>2. ToSet(Head(morsels)) \subseteq Own(x, src[d])
                BY <4>1 DEF Own, TaskChunks, RunChunks, HoldPcs
            <4> QED BY <4>1, <4>2, PopChunks
        <3> QED BY <3>1, <3>2
    <2>4. src[d] \in Sources BY SourceNumbers
    <2> QED BY <2>1, <2>2, <2>3, <2>4 DEF Hands
<1>5. CASE ReadFails(t)
    <2>1. PICK d \in Drivers, x \in Tasks, s \in Sources : Shift(t, d, x, s) /\ s.err
        BY <1>5, ReadFailsIs
    <2>2. UNCHANGED full BY <1>5 DEF ReadFails, dispatchVars
    <2> QED BY <2>1, <2>2 DEF Hands
<1>6. CASE PushScanned(t)
    <2>1. PICK d \in Drivers, x \in Tasks, s \in Sources :
             /\ Shift(t, d, x, s) /\ task[t].pc = "push"
             /\ s.err = src[d].err /\ s.pool = src[d].pool
             /\ \/ x.pc = "leave" /\ src[d].stop
                \/ /\ x.pc = "top" /\ x.run = task[t].run
                   /\ s.buf = Append(src[d].buf, task[t].chunk)
                \/ /\ x.pc = "keep" /\ x.run.iter = task[t].run.iter
                   /\ x.run.pend = task[t].chunk /\ s.buf = src[d].buf
        BY <1>6, PushScannedIs
    <2>2. UNCHANGED <<popped, full>> BY <1>6 DEF PushScanned, dispatchVars
    <2>3. src[d].stop \/ Own(task[t], src[d]) \subseteq Own(x, s) \cup {NoChunk}
        BY <2>1, PushOwn
    <2> QED BY <2>1, <2>2, <2>3 DEF Hands
<1>7. CASE KeepRunner(t)
    <2>1. PICK d \in Drivers, x \in Tasks, s \in Sources :
             /\ Shift(t, d, x, s) /\ task[t].pc = "keep" /\ x.pc = "leave"
             /\ s.err = src[d].err /\ s.buf = src[d].buf
             /\ s.pool = Append(src[d].pool, task[t].run) /\ task[t].run \in Runners
        BY <1>7, KeepRunnerIs
    <2>2. UNCHANGED <<popped, full>> BY <1>7 DEF KeepRunner, dispatchVars
    <2>3. task[t].chunk = NoChunk BY <2>1 DEF ScanInv, TaskOK, Fit
    <2>4. src[d].pool \in Seq(Runners) BY SourceNumbers DEF Sources
    <2>5. PoolChunks(src[d].pool) \cup RunChunks(task[t].run) \subseteq PoolChunks(s.pool)
        BY <2>1, <2>4, PoolSplit
    <2>6. Own(task[t], src[d]) \subseteq Own(x, s) \cup {NoChunk}
        BY <2>1, <2>3, <2>5 DEF Own, TaskChunks
    <2> QED BY <2>1, <2>2, <2>6 DEF Hands
<1>8. CASE LeaveInflight(t)
    <2>1. PICK d \in Drivers, x \in Tasks, s \in Sources :
             /\ Shift(t, d, x, s) /\ task[t].pc = "leave"
             /\ s.err = src[d].err /\ s.buf = src[d].buf /\ s.pool = src[d].pool
        BY <1>8, LeaveInflightIs
    <2>2. UNCHANGED <<popped, full>> BY <1>8 DEF LeaveInflight, dispatchVars
    <2>3. Own(task[t], src[d]) \subseteq Own(x, s) BY <2>1 DEF Own, TaskChunks, HoldPcs
    <2> QED BY <2>1, <2>2, <2>3 DEF Hands
<1>9. CASE JudgePool(t)
    <2>1. PICK d \in Drivers, s \in Sources :
             /\ Shift(t, d, NoTask, s) /\ task[t].pc = "judge"
             /\ s.err = src[d].err /\ s.buf = src[d].buf /\ s.pool = src[d].pool
        BY <1>9, JudgePoolIs
    <2>2. UNCHANGED <<popped, full>> BY <1>9 DEF JudgePool, dispatchVars
    <2>3. Own(task[t], src[d]) \subseteq Own(NoTask, s) BY <2>1 DEF Own, TaskChunks, HoldPcs
    <2>4. NoTask \in Tasks BY NoTaskType
    <2> QED BY <2>1, <2>2, <2>3, <2>4 DEF Hands
<1> QED BY <1>1, <1>2, <1>3, <1>4, <1>5, <1>6, <1>7, <1>8, <1>9 DEF RunTask

\* No driver has ended or failed, and the limit is not reached.
Intact == ~full /\ \A d \in Drivers : ~src[d].stop /\ ~src[d].err
HeldOK == Intact => Accounted

\* A step in the form of a task's keeps it.
LEMMA HandsKeep ==
    ASSUME ScanInv, ScanInv', HeldOK, NEW t \in TaskSlots, NEW d \in Drivers, NEW x \in Tasks,
           NEW s \in Sources, Hands(t, d, x, s)
    PROVE  HeldOK'
<1>1. ScanShape /\ Shift(t, d, x, s) /\ Moves(t, d, x, s) /\ Core(s, src[d]) /\ UNCHANGED given
    BY DEF ScanInv, Hands, Shift
<1>2. UNCHANGED job /\ Drivers' = Drivers BY <1>1 DEF Moves, Drivers
<1>3. /\ \A u \in TaskSlots \ {t} : task'[u] = task[u]
      /\ Like(src'[d], s) /\ \A e \in Drivers \ {d} : Like(src'[e], src[e])
      /\ task[t].pc # "free" => task[t].drv = d
    BY <1>1 DEF Moves
<1>4. SUFFICES ASSUME Intact' PROVE Accounted'
    BY DEF HeldOK
<1>5. ~full' /\ ~s.stop /\ ~s.err /\ ~src[d].stop
    BY <1>1, <1>2, <1>3, <1>4 DEF Intact, Like, Core
<1>6. Intact
    <2>1. ASSUME NEW e \in Drivers PROVE ~src[e].stop /\ ~src[e].err
        <3>1. CASE e = d BY <1>5, <3>1 DEF Hands
        <3>2. CASE e # d BY <1>2, <1>3, <1>4, <3>2 DEF Intact, Like
        <3> QED BY <3>1, <3>2
    <2> QED BY <1>5, <2>1 DEF Intact, Hands
<1>7. /\ Own(task[t], src[d]) \subseteq Own(x, s) \cup {NoChunk}
      /\ Chunks(popped') \subseteq Chunks(popped) \cup Own(x, s)
    BY <1>5 DEF Hands
<1>8. /\ Held(d) \subseteq Held(d)' \cup given' \cup {NoChunk}
      /\ Chunks(popped') \subseteq Chunks(popped) \cup Held(d)'
    <2>1. PICK H : H = Held(d)' OBVIOUS
    <2>2. Own(x, s) \subseteq H /\ Held(d) \subseteq H \cup {NoChunk}
        BY <1>1, <1>7, <2>1, HeldShift
    <2> QED BY <1>7, <2>1, <2>2
<1>9. \A e \in Drivers \ {d} : Holding(e)' = Holding(e) BY <1>1, SetsAfter
<1>10. \A u \in TaskSlots : task[u].pc # "free" /\ task[u].drv # d => task'[u] = task[u]
    BY <1>3
<1>11. Accounted BY <1>6 DEF HeldOK
<1> QED BY <1>1, <1>2, <1>3, <1>8, <1>9, <1>10, <1>11, AccountedFrame

\* Every step keeps it.
LEMMA HeldStep == ScanInv /\ ScanInv' /\ HeldOK /\ [ScanNext]_scanVars => HeldOK'
<1> SUFFICES ASSUME ScanInv, ScanInv', HeldOK, [ScanNext]_scanVars PROVE HeldOK'
    OBVIOUS
<1>1. ASSUME UNCHANGED <<job, task, given, popped, full>>,
             \A d \in Drivers :
               /\ src'[d].buf = src[d].buf /\ src'[d].pool = src[d].pool
               /\ src'[d].err = src[d].err /\ src'[d].stop = src[d].stop
      PROVE  HeldOK'
    <2>1. Intact' => Intact BY <1>1 DEF Intact, Drivers
    <2> QED BY <1>1, <2>1, AccountedSame DEF HeldOK
<1>2. CASE SendRanges \/ AppendSent \/ RunDrivers
    <2>1. CASE SendRanges BY <1>1, <2>1 DEF SendRanges, dispatchVars
    <2>2. CASE AppendSent
        <3>1. \A d \in Drivers : Like(src'[d], src[d]) BY <2>2, AppendSentKeeps
        <3>2. UNCHANGED <<job, full, task, given, popped>> BY <2>2 DEF AppendSent, AppendRanges
        <3> QED BY <1>1, <3>1, <3>2 DEF Like
    <2>3. CASE RunDrivers BY <1>1, <2>3, RunDriversIs
    <2> QED BY <1>2, <2>1, <2>2, <2>3
<1>3. ASSUME NEW d \in Drivers, RunStep(d) PROVE HeldOK'
    <2>1. UNCHANGED task BY <1>3, RunStepIs
    <2>2. PICK s \in Sources : Runs(d, s) BY <1>3, RunStepIs
    <2>3. PICK a \in Sources : a = src[d] BY SourceNumbers
    <2>4. /\ src'[d] = s /\ (\A e \in Drivers \ {d} : src'[e] = src[e])
          /\ UNCHANGED <<job, popped, full>> /\ Drivers' = Drivers
        BY <2>2 DEF Runs, Turn, Drivers
    <2>5. (a.stop \/ a.err) => (s.stop \/ s.err)
        BY <2>2, <2>3 DEF Runs, GoesOn, Same, IsDone, Finishes, Fails, Pulls
    <2>6. Intact' => Intact BY <2>3, <2>4, <2>5 DEF Intact
    <2>7. given \subseteq given' BY <2>2 DEF Runs, Pulls
    <2>8. \A e \in Drivers \ {d} : Like(src'[e], src[e]) /\ Holding(e)' = Holding(e)
        BY <2>1, <2>4 DEF Like, Holding
    <2>9. Held(d) \subseteq Held(d)' \cup given' BY <1>3, RunHeld
    <2>10. Chunks(popped') \subseteq Chunks(popped) \cup Held(d)' BY <2>4
    <2>11. Accounted => Accounted'
        BY <2>1, <2>4, <2>7, <2>8, <2>9, <2>10, AccountedFrame
    <2> QED BY <2>6, <2>11 DEF HeldOK
<1>4. ASSUME NEW d \in Drivers, SubmitTask(d) PROVE HeldOK'
    <2>1. PICK t \in TaskSlots, x \in Tasks, s \in Sources :
             /\ Shift(t, d, x, s) /\ task[t].pc = "free"
             /\ s.err = src[d].err /\ s.buf = src[d].buf /\ s.pool = src[d].pool
        BY <1>4, SubmitTaskIs
    <2>2. UNCHANGED <<popped, full>> BY <1>4, SubmitTaskIs
    <2>3. Own(task[t], src[d]) \subseteq Own(x, s) BY <2>1 DEF Own, TaskChunks, HoldPcs
    <2>4. Hands(t, d, x, s) BY <2>1, <2>2, <2>3 DEF Hands
    <2> QED BY <2>4, HandsKeep
<1>5. ASSUME NEW d \in Drivers, Register(d) \/ TakePending(d) \/ AppendTaken(d) PROVE HeldOK'
    <2>1. PICK s \in Sources : Binds(d, s) BY <1>5, RegisterIs, TakePendingIs, AppendTakenIs
    <2>2. UNCHANGED <<job, task, given, popped, full>> BY <2>1 DEF Binds
    <2>3. ASSUME NEW e \in Drivers
          PROVE  /\ src'[e].buf = src[e].buf /\ src'[e].pool = src[e].pool
                 /\ src'[e].err = src[e].err /\ src'[e].stop = src[e].stop
        <3>1. CASE e = d BY <2>1, <3>1 DEF Binds
        <3>2. CASE e # d BY <2>1, <3>2 DEF Binds
        <3> QED BY <3>1, <3>2
    <2> QED BY <1>1, <2>2, <2>3
<1>6. CASE \E t \in TaskSlots : RunTask(t) \/ ReadFails(t) BY <1>6, TaskHands, HandsKeep
<1>7. CASE UNCHANGED scanVars BY <1>1, <1>7 DEF scanVars, dispatchVars
<1> QED BY <1>2, <1>3, <1>4, <1>5, <1>6, <1>7 DEF ScanNext, DriverStep, RunStep

\* However many tasks a driver has, and whatever they find full, hand back or take up
\* again, no chunk of a morsel that was popped is lost while no driver has ended or
\* failed and the limit is not reached (run_scan_worker, next_chunk, push_chunk).
THEOREM ScanChunksKept == ScanSpec => []ChunksKept
<1>1. ScanInit => HeldOK
    <2>1. ScanInit => Chunks(popped) = {} BY DEF ScanInit, Chunks
    <2> QED BY <2>1 DEF HeldOK, Accounted
<1>2. ScanSpec => []HeldOK BY <1>1, HeldStep, ScanInvariant, PTL DEF ScanSpec
<1>3. ScanInv /\ HeldOK => ChunksKept
    <2> SUFFICES ASSUME ScanInv, Intact, Accounted
                 PROVE  Chunks(popped) \subseteq given \cup UNION {Held(d) : d \in Drivers}
        BY DEF HeldOK, ChunksKept, Intact
    <2>1. popped \in Seq(Morsels) BY DEF ScanInv, ScanShape
    <2>2. ASSUME NEW i \in DOMAIN popped PROVE NoChunk \notin ToSet(popped[i])
        <3>1. popped[i] \in Seq(Nat \ {NoChunk}) BY <2>1, <2>2 DEF Morsels
        <3> QED BY <3>1 DEF ToSet
    <2>3. NoChunk \notin Chunks(popped) BY <2>2 DEF Chunks
    <2> QED BY <2>3 DEF Accounted
<1> QED BY <1>2, <1>3, ScanInvariant, PTL

-----------------------------------------------------------------------------
(* The plan is read: a scan with one task per driver and no limit.         *)

Solo == job.tasks = 1 /\ job.limit = 0
AllPopped == Len(popped) >= Len(job.first)

\* What was popped has been pulled or is still held, unless a driver failed.
Broken == \E d \in Drivers : src[d].err \/ src[d].pc = "failed"
Covered == Broken \/ Accounted

\* The morsels of the plan are popped first.
FirstOK ==
    /\ Len(job.first) <= Len(popped) + Len(morsels)
    /\ \A i \in 1..Len(job.first) : (popped \o morsels)[i] = job.first[i]

\* A driver whose runner is gone: one task met the empty queue, and no other has work.
Dry(d) == src[d].pool = <<>> /\ Holding(d) = {}
LastOK(t) == task[t].last \/ task[t].pc = "judge" => AllPopped /\ Dry(task[t].drv)

\* A driver whose state is finished has nothing left in its pool, and what is buffered
\* can only be pulled.
Ended(d) == src[d].fin /\ ~src[d].err /\ src[d].pc # "failed"
FinOK(d) ==
    Ended(d) => /\ AllPopped /\ Holding(d) = {} /\ ~PoolBusy(src[d].pool)
                /\ \/ src[d].pool = <<>>
                   \/ Flying(d) = {} /\ (src[d].buf = <<>> \/ src[d].pc = "done")
EndOK(d) ==
    /\ src[d].stop => src[d].pc \in Over
    /\ src[d].pc = "done" => src[d].fin /\ (src[d].err => Flying(d) = {})
    /\ src[d].pc = "start" /\ src[d].empty => AllPopped /\ Flying(d) = {}

SoloOK ==
    /\ ~full /\ FirstOK /\ Covered
    /\ \A t \in TaskSlots : LastOK(t)
    /\ \A d \in Drivers : FinOK(d) /\ EndOK(d)

\* When all drivers are done, every chunk of the plan has been pulled or is buffered.
LEMMA SoloRows ==
    ASSUME ScanInv, Solo, SoloOK
    PROVE  PlanScanned
<1> DEFINE Buffered == UNION {ToSet(src[d].buf) : d \in Drivers}
<1> SUFFICES ASSUME ScanOver, \A d \in Drivers : ~src[d].err
             PROVE  Chunks(job.first) \subseteq given \cup Buffered
    BY DEF PlanScanned, Solo
<1>1. ScanShape /\ job \in ScanJobs /\ job.first \in Seq(Morsels) /\ popped \in Seq(Morsels)
      /\ morsels \in Seq(Morsels)
    BY ScanAssumption DEF ScanInv, ScanShape
<1>2. CASE Drivers = {}
    <2>1. job.first = <<>> BY <1>1, <1>2, ScanAssumption DEF Drivers
    <2> QED BY <2>1 DEF Chunks
<1>3. CASE Drivers # {}
    <2>1. ASSUME NEW d \in Drivers
          PROVE  /\ ~src[d].err /\ src[d].pc # "failed" /\ AllPopped
                 /\ Held(d) \subseteq {NoChunk} \cup ToSet(src[d].buf)
        <3>1. src[d].pc = "done" BY DEF ScanOver
        <3>2. src[d].fin /\ ~src[d].err BY <3>1 DEF SoloOK, EndOK
        <3>3. Ended(d) BY <3>1, <3>2 DEF Ended
        <3>4. AllPopped /\ Holding(d) = {} /\ ~PoolBusy(src[d].pool) BY <3>3 DEF SoloOK, FinOK
        <3>5. PoolChunks(src[d].pool) \subseteq {NoChunk}
            <4>1. src[d].pool \in Seq(Runners) BY <1>1 DEF ScanShape, Sources
            <4>2. PICK p \in Seq(Runners) : p = src[d].pool BY <4>1
            <4>3. ASSUME NEW i \in DOMAIN p PROVE RunChunks(p[i]) \subseteq {NoChunk}
                <5>1. p[i] \in Runners OBVIOUS
                <5>2. p[i].pend = NoChunk /\ ~p[i].open BY <3>4, <4>2 DEF PoolBusy
                <5>3. p[i].iter = <<>> BY <5>1, <5>2 DEF Runners
                <5> QED BY <5>2, <5>3 DEF RunChunks, ToSet
            <4> QED BY <4>2, <4>3 DEF PoolChunks
        <3> QED BY <3>1, <3>2, <3>4, <3>5 DEF Held
    <2>2. AllPopped /\ ~Broken BY <1>3, <2>1 DEF Broken
    <2>3. Chunks(popped) \subseteq given \cup {NoChunk} \cup Buffered
        BY <2>1, <2>2 DEF SoloOK, Covered, Accounted
    <2>4. ASSUME NEW i \in DOMAIN job.first
          PROVE  ToSet(job.first[i]) \subseteq given \cup Buffered
        <3>1. i \in 1..Len(job.first) /\ i \in 1..Len(popped)
            BY <1>1, <2>2 DEF AllPopped
        <3>2. (popped \o morsels)[i] = popped[i] BY <1>1, <3>1
        <3>3. job.first[i] = popped[i] BY <3>1, <3>2 DEF SoloOK, FirstOK
        <3>4. i \in DOMAIN popped BY <1>1, <3>1
        <3>5. ToSet(popped[i]) \subseteq given \cup {NoChunk} \cup Buffered
            BY <2>3, <3>4 DEF Chunks
        <3>6. job.first[i] \in Seq(Nat \ {NoChunk}) BY <1>1 DEF Morsels
        <3>7. NoChunk \notin ToSet(job.first[i]) BY <3>6 DEF ToSet
        <3> QED BY <3>3, <3>5, <3>7
    <2> QED BY <2>4 DEF Chunks
<1> QED BY <1>2, <1>3

\* What a step that concerns one driver has to keep.
LEMMA SoloFrame ==
    ASSUME ScanInv, ScanInv', SoloOK, NEW d \in Drivers, UNCHANGED job,
           ~full', FirstOK', Len(popped) <= Len(popped'), given \subseteq given',
           \A e \in Drivers \ {d} : /\ Like(src'[e], src[e]) /\ Flying(e)' = Flying(e)
                                    /\ Holding(e)' = Holding(e),
           \A u \in TaskSlots : task[u].pc # "free" /\ task[u].drv # d => task'[u] = task[u],
           \A u \in TaskSlots : task'[u].pc # "free" /\ task'[u].drv # d => task'[u] = task[u],
           \A u \in TaskSlots : task'[u].drv = d => LastOK(u)',
           FinOK(d)', EndOK(d)',
           src[d].err \/ src[d].pc = "failed" => src'[d].err \/ src'[d].pc = "failed",
           \/ src'[d].err \/ src'[d].pc = "failed"
           \/ /\ Held(d) \subseteq Held(d)' \cup given' \cup {NoChunk}
              /\ Chunks(popped') \subseteq Chunks(popped) \cup Held(d)'
    PROVE  SoloOK'
<1>1. Drivers' = Drivers /\ ScanShape /\ ScanShape' BY DEF Drivers, ScanInv
<1>2. AllPopped => AllPopped'
    <2>1. Len(popped) \in Nat /\ Len(popped') \in Nat /\ Len(job.first) \in Nat
        <3>1. popped \in Seq(Morsels) /\ popped' \in Seq(Morsels) /\ job \in ScanJobs
            BY <1>1 DEF ScanShape
        <3>2. job.first \in Seq(Morsels) BY <3>1, ScanAssumption
        <3> QED BY <3>1, <3>2
    <2> QED BY <2>1 DEF AllPopped
<1>3. ASSUME NEW u \in TaskSlots PROVE LastOK(u)'
    <2>1. CASE task'[u].drv = d BY <2>1
    <2>2. CASE task'[u].pc = "free"
        <3>1. ~task'[u].last BY <2>2 DEF ScanInv, TaskOK, Fit
        <3> QED BY <2>2, <3>1 DEF LastOK
    <2>3. CASE task'[u].drv # d /\ task'[u].pc # "free"
        <3>1. task'[u] = task[u] BY <2>3
        <3>2. task[u].drv \in Drivers \ {d} BY <2>3, <3>1 DEF ScanInv, TaskOK
        <3>3. PICK e \in Drivers \ {d} : e = task[u].drv /\ e = task'[u].drv BY <3>1, <3>2
        <3>4. Dry(e) => Dry(e)' BY DEF Dry, Like
        <3>5. task[u].last \/ task[u].pc = "judge" => AllPopped /\ Dry(e)
            BY <3>3 DEF SoloOK, LastOK
        <3>6. task'[u].last \/ task'[u].pc = "judge" => AllPopped' /\ Dry(e)'
            BY <1>2, <3>1, <3>4, <3>5
        <3> QED BY <3>3, <3>6 DEF LastOK, Dry, Holding
    <2> QED BY <2>1, <2>2, <2>3
<1>4. ASSUME NEW e \in Drivers PROVE FinOK(e)' /\ EndOK(e)'
    <2>1. CASE e = d BY <2>1
    <2>2. CASE e # d
        <3>1. /\ Like(src'[e], src[e]) /\ Flying(e)' = Flying(e) /\ Holding(e)' = Holding(e)
            BY <2>2
        <3>2. FinOK(e) /\ EndOK(e) BY DEF SoloOK
        <3>3. FinOK(e)' BY <1>2, <3>1, <3>2 DEF FinOK, Ended, Like
        <3>4. EndOK(e)' BY <1>2, <3>1, <3>2 DEF EndOK, Like
        <3> QED BY <3>3, <3>4
    <2> QED BY <2>1, <2>2
<1>5. Broken => Broken' BY <1>1 DEF Broken, Like
<1>7. Covered'
    <2>1. CASE Broken' BY <2>1 DEF Covered
    <2>2. CASE ~Broken'
        <3>1. Accounted BY <1>5, <2>2 DEF SoloOK, Covered
        <3>2. ~(src'[d].err \/ src'[d].pc = "failed") BY <1>1, <2>2 DEF Broken
        <3>3. Accounted' BY <3>1, <3>2, AccountedFrame
        <3> QED BY <3>3 DEF Covered
    <2> QED BY <2>1, <2>2
<1> QED BY <1>1, <1>3, <1>4, <1>7 DEF SoloOK

\* What a step of a task has to keep.
LEMMA SoloShift ==
    ASSUME ScanInv, ScanInv', SoloOK, NEW t \in TaskSlots, NEW d \in Drivers,
           NEW x \in Tasks, NEW s \in Sources, Shift(t, d, x, s),
           ~full', FirstOK', Len(popped) <= Len(popped'),
           Dry(d) => Dry(d)',
           x.last \/ x.pc = "judge" => AllPopped' /\ Dry(d)',
           FinOK(d)', EndOK(d)',
           src[d].err => s.err,
           \/ s.err \/ src[d].pc = "failed"
           \/ /\ Own(task[t], src[d]) \subseteq Own(x, s) \cup {NoChunk}
              /\ Chunks(popped') \subseteq Chunks(popped) \cup Own(x, s)
    PROVE  SoloOK'
<1>1. ScanShape /\ Moves(t, d, x, s) /\ UNCHANGED given /\ Core(s, src[d])
    BY DEF ScanInv, Shift
<1>2. /\ UNCHANGED job /\ task'[t] = x /\ \A u \in TaskSlots \ {t} : task'[u] = task[u]
      /\ Like(src'[d], s) /\ \A e \in Drivers \ {d} : Like(src'[e], src[e])
      /\ task[t].pc # "free" => task[t].drv = d
      /\ x.pc # "free" => x.drv = d
    BY <1>1 DEF Moves
<1>3. \A e \in Drivers \ {d} : Flying(e)' = Flying(e) /\ Holding(e)' = Holding(e)
    BY <1>1, SetsAfter
<1>4. \A u \in TaskSlots : task[u].pc # "free" /\ task[u].drv # d => task'[u] = task[u]
    BY <1>2
<1>5. \A u \in TaskSlots : task'[u].pc # "free" /\ task'[u].drv # d => task'[u] = task[u]
    BY <1>2
<1>6. AllPopped => AllPopped'
    <2>1. popped \in Seq(Morsels) /\ popped' \in Seq(Morsels) /\ job \in ScanJobs
        BY DEF ScanInv, ScanShape
    <2>2. job.first \in Seq(Morsels) BY <2>1, ScanAssumption
    <2>3. Len(popped) \in Nat /\ Len(popped') \in Nat /\ Len(job.first) \in Nat BY <2>1, <2>2
    <2> QED BY <1>2, <2>3 DEF AllPopped
<1>7. ASSUME NEW u \in TaskSlots, task'[u].drv = d PROVE LastOK(u)'
    <2>1. task'[u].last \/ task'[u].pc = "judge" => AllPopped' /\ Dry(d)'
        <3>1. CASE u = t BY <1>2, <3>1
        <3>2. CASE u # t
            <4>1. task'[u] = task[u] BY <1>2, <3>2
            <4>2. task[u].last \/ task[u].pc = "judge" => AllPopped /\ Dry(d)
                BY <1>7, <4>1 DEF SoloOK, LastOK
            <4> QED BY <1>6, <4>1, <4>2
        <3> QED BY <3>1, <3>2
    <2> QED BY <1>7, <2>1 DEF LastOK, Dry, Holding
<1>8. src'[d].err = s.err /\ src'[d].pc = src[d].pc BY <1>1, <1>2 DEF Like, Core
<1>9. \/ src'[d].err \/ src'[d].pc = "failed"
      \/ /\ Held(d) \subseteq Held(d)' \cup given' \cup {NoChunk}
         /\ Chunks(popped') \subseteq Chunks(popped) \cup Held(d)'
    <2>1. CASE s.err \/ src[d].pc = "failed" BY <1>8, <2>1
    <2>2. CASE /\ Own(task[t], src[d]) \subseteq Own(x, s) \cup {NoChunk}
               /\ Chunks(popped') \subseteq Chunks(popped) \cup Own(x, s)
        <3>1. PICK H : H = Held(d)' OBVIOUS
        <3>2. Own(x, s) \subseteq H /\ Held(d) \subseteq H \cup {NoChunk}
            BY <2>2, <3>1, HeldShift
        <3> QED BY <2>2, <3>1, <3>2
    <2> QED BY <2>1, <2>2
<1>10. src[d].err \/ src[d].pc = "failed" => src'[d].err \/ src'[d].pc = "failed" BY <1>8
<1> QED BY <1>1, <1>2, <1>3, <1>4, <1>5, <1>7, <1>9, <1>10, SoloFrame

\* What a step of a task with a runner has to keep: its driver has not finished.
LEMMA SoloHolding ==
    ASSUME ScanInv, ScanInv', SoloOK, NEW t \in TaskSlots, NEW d \in Drivers,
           NEW x \in Tasks, NEW s \in Sources, Shift(t, d, x, s), task[t].pc \in HoldPcs,
           ~full', FirstOK', Len(popped) <= Len(popped'),
           x.pc # "judge", x.last => AllPopped' /\ Dry(d)',
           src[d].err => s.err,
           s.fin = src[d].fin \/ s.err \/ src[d].stop,
           \/ s.err \/ src[d].stop
           \/ /\ Own(task[t], src[d]) \subseteq Own(x, s) \cup {NoChunk}
              /\ Chunks(popped') \subseteq Chunks(popped) \cup Own(x, s)
    PROVE  SoloOK'
<1>1. ScanShape /\ Moves(t, d, x, s) /\ Core(s, src[d]) BY DEF ScanInv, Shift
<1>2. t \in Holding(d) /\ t \in Flying(d) /\ Flying(d)' \subseteq Flying(d)
    BY <1>1, SetsAfter DEF FlyPcs
<1>3. FinOK(d) /\ EndOK(d) /\ ~Dry(d) BY <1>2 DEF SoloOK, Dry
<1>4. ~Ended(d) BY <1>2, <1>3 DEF FinOK
<1>5. src[d].pc # "done" BY <1>2, <1>3, <1>4 DEF EndOK, Ended
<1>6. src[d].stop => src[d].pc = "failed" BY <1>3, <1>5 DEF EndOK, Over
<1>7. /\ src'[d].pc = src[d].pc /\ src'[d].stop = src[d].stop /\ src'[d].empty = src[d].empty
      /\ src'[d].fin = s.fin /\ src'[d].err = s.err
    BY <1>1 DEF Moves, Like, Core
<1>8. ~Ended(d)' BY <1>4, <1>6, <1>7 DEF Ended
<1>9. FinOK(d)' BY <1>8 DEF FinOK
<1>10. EndOK(d)'
    <2>1. ~(src[d].pc = "start" /\ src[d].empty) BY <1>2, <1>3 DEF EndOK
    <2> QED BY <1>3, <1>5, <1>7, <2>1 DEF EndOK
<1>11. \/ s.err \/ src[d].pc = "failed"
       \/ /\ Own(task[t], src[d]) \subseteq Own(x, s) \cup {NoChunk}
          /\ Chunks(popped') \subseteq Chunks(popped) \cup Own(x, s)
    BY <1>6
<1> QED BY <1>3, <1>9, <1>10, <1>11, SoloShift

\* What the steps of a task leave alone.
LEMMA QueueKept ==
    ASSUME ScanInv, SoloOK, UNCHANGED <<job, morsels, popped, full>>
    PROVE  /\ ~full' /\ FirstOK' /\ Len(popped) <= Len(popped')
           /\ AllPopped' = AllPopped /\ Chunks(popped') = Chunks(popped)
<1>1. ~full' /\ FirstOK' BY DEF SoloOK, FirstOK
<1>2. Len(popped) \in Nat BY DEF ScanInv, ScanShape
<1> QED BY <1>1, <1>2 DEF AllPopped

\* A task takes a runner, or ends.
LEMMA SoloTakeRunner ==
    ASSUME ScanInv, ScanInv', SoloOK, NEW t \in TaskSlots, TakeRunner(t)
    PROVE  SoloOK'
<1>1. PICK d \in Drivers, x \in Tasks, s \in Sources :
         /\ Shift(t, d, x, s) /\ task[t].pc = "pop"
         /\ s.err = src[d].err /\ s.buf = src[d].buf
         /\ \/ /\ x = NoTask /\ src[d].pool = <<>> /\ s.pool = <<>> /\ s.fin = src[d].fin
               /\ s.inflight = src[d].inflight - 1
            \/ /\ x = NoTask /\ src[d].pool # <<>> /\ src[d].stop /\ s.fin
               /\ s.pool = Front(src[d].pool) /\ s.inflight = src[d].inflight - 1
            \/ /\ x.pc = "top" /\ x.run = Last(src[d].pool) /\ src[d].pool # <<>>
               /\ s.pool = Front(src[d].pool) /\ s.fin = src[d].fin
               /\ s.inflight = src[d].inflight
    BY TakeRunnerIs
<1>2. ScanShape /\ Moves(t, d, x, s) /\ Core(s, src[d]) /\ Fit(x) BY <1>1 DEF ScanInv, Shift
<1>3. /\ t \in Flying(d) /\ t \notin Holding(d)
      /\ Flying(d)' = (Flying(d) \ {t}) \cup (IF x.pc \in FlyPcs THEN {t} ELSE {})
      /\ Holding(d)' = (Holding(d) \ {t}) \cup (IF x.pc \in HoldPcs THEN {t} ELSE {})
    BY <1>1, <1>2, SetsAfter DEF FlyPcs, HoldPcs
<1>4. UNCHANGED <<job, morsels, popped, full>>
    BY <1>2 DEF Moves, TakeRunner, dispatchVars
<1>5. /\ ~full' /\ FirstOK' /\ Len(popped) <= Len(popped')
      /\ AllPopped' = AllPopped /\ Chunks(popped') = Chunks(popped)
    BY <1>4, QueueKept
<1>6. FinOK(d) /\ EndOK(d) BY DEF SoloOK
<1>7. src[d].pool # <<>> => ~Ended(d) BY <1>3, <1>6 DEF FinOK
<1>8. src[d].pool # <<>> /\ src[d].stop => src[d].pc = "failed"
    BY <1>3, <1>6, <1>7 DEF EndOK, Ended, Over
<1>9. /\ src'[d].pc = src[d].pc /\ src'[d].stop = src[d].stop /\ src'[d].empty = src[d].empty
      /\ src'[d].fin = s.fin /\ src'[d].err = s.err /\ src'[d].pool = s.pool
      /\ src'[d].buf = s.buf
    BY <1>2 DEF Moves, Like, Core
<1>10. ~(x.last \/ x.pc = "judge") BY <1>1, <1>2, NoTaskType DEF Fit
<1>11. EndOK(d)'
    <2>1. ~(src[d].pc = "start" /\ src[d].empty) BY <1>3, <1>6 DEF EndOK
    <2>2. src[d].pc = "done" => s.fin /\ ~s.err BY <1>1, <1>3, <1>6 DEF EndOK
    <2> QED BY <1>6, <1>9, <2>1, <2>2 DEF EndOK
<1>12. CASE src[d].pool = <<>>
    <2>1. x = NoTask /\ s.pool = <<>> /\ s.fin = src[d].fin BY <1>1, <1>12
    <2>2. x.pc \notin FlyPcs /\ x.pc \notin HoldPcs BY <2>1, NoTaskType DEF FlyPcs, HoldPcs
    <2>3. Holding(d)' = Holding(d) /\ Flying(d)' \subseteq Flying(d) BY <1>3, <2>2
    <2>4. Dry(d) => Dry(d)' BY <1>9, <2>1, <2>3 DEF Dry
    <2>5. FinOK(d)' BY <1>1, <1>5, <1>6, <1>9, <1>12, <2>1, <2>3 DEF FinOK, Ended
    <2>6. Own(task[t], src[d]) \subseteq Own(x, s) BY <1>1, <1>12, <2>1 DEF Own, TaskChunks, HoldPcs
    <2> QED BY <1>1, <1>5, <1>10, <1>11, <2>4, <2>5, <2>6, SoloShift
<1>13. CASE src[d].pool # <<>>
    <2>1. ~Dry(d) BY <1>13 DEF Dry
    <2>2. FinOK(d)'
        <3>1. s.fin = src[d].fin \/ src[d].pc = "failed" BY <1>1, <1>8, <1>13
        <3> QED BY <1>1, <1>7, <1>9, <1>13, <3>1 DEF FinOK, Ended
    <2>3. CASE src[d].pc = "failed"
        BY <1>1, <1>5, <1>10, <1>11, <2>1, <2>2, <2>3, SoloShift
    <2>4. CASE src[d].pc # "failed"
        <3>1. x.pc = "top" /\ x.run = Last(src[d].pool) /\ s.pool = Front(src[d].pool)
            BY <1>1, <1>8, <1>13, <2>4
        <3>2. src[d].pool \in Seq(Runners) BY <1>2 DEF ScanShape, Sources
        <3>3. PoolChunks(src[d].pool) \subseteq PoolChunks(s.pool) \cup RunChunks(x.run)
            BY <1>13, <3>1, <3>2, PoolSplit
        <3>4. Own(task[t], src[d]) \subseteq Own(x, s)
            BY <1>1, <3>1, <3>3 DEF Own, TaskChunks, HoldPcs
        <3> QED BY <1>1, <1>5, <1>10, <1>11, <2>1, <2>2, <3>4, SoloShift
    <2> QED BY <2>3, <2>4
<1> QED BY <1>12, <1>13

\* A task looks at its driver before it reads.
LEMMA SoloTaskTop ==
    ASSUME ScanInv, ScanInv', SoloOK, NEW t \in TaskSlots, TaskTop(t)
    PROVE  SoloOK'
<1>1. PICK d \in Drivers, x \in Tasks, s \in Sources :
         /\ Shift(t, d, x, s) /\ task[t].pc = "top" /\ x.run = task[t].run /\ ~x.last
         /\ x.chunk = NoChunk
         /\ s.err = src[d].err /\ s.buf = src[d].buf /\ s.pool = src[d].pool
         /\ \/ x.pc = "leave" /\ src[d].stop /\ s.fin
            \/ x.pc \in {"next", "keep"} /\ s.fin = src[d].fin
    BY TaskTopIs
<1>2. UNCHANGED <<job, morsels, popped, full>> BY <1>1 DEF Shift, Moves, TaskTop, dispatchVars
<1>3. /\ ~full' /\ FirstOK' /\ Len(popped) <= Len(popped') /\ Chunks(popped') = Chunks(popped)
    BY <1>2, QueueKept
<1>4. task[t].chunk = NoChunk BY <1>1 DEF ScanInv, TaskOK, Fit
<1>5. src[d].stop \/ Own(task[t], src[d]) \subseteq Own(x, s)
    BY <1>1, <1>4 DEF Own, TaskChunks, HoldPcs
<1>6. task[t].pc \in HoldPcs /\ x.pc # "judge" BY <1>1 DEF HoldPcs
<1> QED BY <1>1, <1>3, <1>5, <1>6, SoloHolding

\* A task takes the next chunk.
LEMMA SoloNextOfMorsel ==
    ASSUME ScanInv, ScanInv', Solo, SoloOK, NEW t \in TaskSlots, NextOfMorsel(t)
    PROVE  SoloOK'
<1>1. job.limit = 0 BY DEF Solo
<1>2. PICK d \in Drivers, x \in Tasks :
         /\ Shift(t, d, x, src[d]) /\ task[t].pc = "next" /\ full' = full
         /\ x.pc = "push" /\ ~x.last
         /\ ToSet(task[t].run.iter) \cup {task[t].run.pend} \subseteq
              ToSet(x.run.iter) \cup {x.chunk, NoChunk}
    BY <1>1, NextOfMorselIs
<1>3. UNCHANGED <<job, morsels, popped, full>> BY <1>2 DEF Shift, Moves, NextOfMorsel
<1>4. /\ ~full' /\ FirstOK' /\ Len(popped) <= Len(popped') /\ Chunks(popped') = Chunks(popped)
    BY <1>3, QueueKept
<1>5. task[t].chunk = NoChunk BY <1>2 DEF ScanInv, TaskOK, Fit
<1>6. Own(task[t], src[d]) \subseteq Own(x, src[d]) \cup {NoChunk}
    BY <1>2, <1>5 DEF Own, TaskChunks, RunChunks, HoldPcs
<1>7. task[t].pc \in HoldPcs /\ x.pc # "judge" /\ src[d] \in Sources
    BY <1>2, SourceNumbers DEF HoldPcs
<1> QED BY <1>2, <1>4, <1>6, <1>7, SoloHolding

\* Popping a morsel moves it to the morsels popped.
LEMMA PopFirst ==
    ASSUME ScanInv, FirstOK, morsels # <<>>, morsels' = Tail(morsels),
           popped' = Append(popped, Head(morsels)), UNCHANGED job
    PROVE  /\ FirstOK' /\ Len(popped) <= Len(popped')
           /\ Chunks(popped') \subseteq Chunks(popped) \cup ToSet(Head(morsels))
<1>1. popped \in Seq(Morsels) /\ morsels \in Seq(Morsels) BY DEF ScanInv, ScanShape
<1>2. PICK h \in Morsels : h = Head(morsels) BY <1>1
<1>3. popped' = Append(popped, h) BY <1>2
<1>4. Append(popped, h) \in Seq(Morsels) /\ Tail(morsels) \in Seq(Morsels) BY <1>1
<1>5. PICK q \in Seq(Morsels), r \in Seq(Morsels) : q = Append(popped, h) /\ r = Tail(morsels)
    BY <1>4
<1>6. /\ Len(q) = Len(popped) + 1 /\ q[Len(popped) + 1] = h /\ Len(popped) \in Nat
      /\ \A i \in 1..Len(popped) : q[i] = popped[i]
    BY <1>1, <1>5
<1>7. Len(r) = Len(morsels) - 1 /\ Len(morsels) \in Nat BY <1>1, <1>5
<1>8. q \o r = popped \o morsels
    <2>1. morsels = <<h>> \o r BY <1>1, <1>2, <1>5
    <2>2. q = popped \o <<h>> BY <1>1, <1>5
    <2>3. <<h>> \in Seq(Morsels) OBVIOUS
    <2>4. (popped \o <<h>>) \o r = popped \o (<<h>> \o r) BY <1>1, <2>3
    <2> QED BY <2>1, <2>2, <2>4
<1>9. popped' \o morsels' = popped \o morsels BY <1>3, <1>5, <1>8
<1>10. Len(q) + Len(r) = Len(popped) + Len(morsels) BY <1>6, <1>7
<1>11. Len(popped') + Len(morsels') = Len(popped) + Len(morsels) BY <1>3, <1>5, <1>10
<1>12. FirstOK' BY <1>9, <1>11 DEF FirstOK
<1>13. Len(popped) <= Len(popped') BY <1>3, <1>5, <1>6
<1> QED BY <1>12, <1>13, PopChunks

\* A task takes the next morsel; the task that finds none is the driver's only one.
LEMMA SoloNextMorsel ==
    ASSUME ScanInv, ScanInv', Solo, SoloOK, NEW t \in TaskSlots, NextMorsel(t)
    PROVE  SoloOK'
<1>1. PICK d \in Drivers, x \in Tasks :
         /\ Shift(t, d, x, src[d]) /\ task[t].pc = "next" /\ x.chunk = NoChunk
         /\ task[t].run.iter = <<>> /\ task[t].run.pend = NoChunk
         /\ UNCHANGED <<more, counted, full, used>>
         /\ \/ /\ QueueEmpty /\ x.pc = "leave" /\ x.last /\ UNCHANGED <<morsels, popped>>
            \/ /\ ~QueueEmpty /\ x.pc = "next" /\ ~x.last /\ x.run.iter = Head(morsels)
               /\ morsels' = Tail(morsels) /\ popped' = Append(popped, Head(morsels))
    BY NextMorselIs
<1>2. ScanShape /\ Moves(t, d, x, src[d]) /\ UNCHANGED job BY <1>1 DEF ScanInv, Shift, Moves
<1>3. ~full /\ ~full' /\ FirstOK BY <1>1 DEF SoloOK
<1>4. task[t].pc \in HoldPcs /\ src[d] \in Sources BY <1>1, SourceNumbers DEF HoldPcs
<1>7. Own(task[t], src[d]) \subseteq Own(x, src[d]) \cup {NoChunk} BY <1>1, EmptyOwn
<1>8. CASE QueueEmpty
    <2>1. x.pc = "leave" /\ UNCHANGED <<morsels, popped>> /\ morsels = <<>>
        BY <1>1, <1>3, <1>8 DEF QueueEmpty
    <2>2. /\ FirstOK' /\ Len(popped) <= Len(popped') /\ AllPopped' = AllPopped
          /\ Chunks(popped') = Chunks(popped)
        BY <1>1, <1>2, <2>1, QueueKept
    <2>3. AllPopped
        <3>1. popped \in Seq(Morsels) /\ job \in ScanJobs BY <1>2 DEF ScanShape
        <3>2. Len(popped) \in Nat /\ Len(job.first) \in Nat BY <3>1, ScanAssumption
        <3>3. Len(morsels) = 0 BY <2>1
        <3> QED BY <1>3, <3>2, <3>3 DEF FirstOK, AllPopped
    <2>4. Dry(d)'
        <3>1. /\ t \in Holding(d)
              /\ Holding(d)' = (Holding(d) \ {t}) \cup (IF x.pc \in HoldPcs THEN {t} ELSE {})
            BY <1>2, <1>4, SetsAfter
        <3>2. Holding(d)' = Holding(d) \ {t} BY <2>1, <3>1 DEF HoldPcs
        <3>3. IsFiniteSet(Holding(d)) BY ScanAssumption, FS_Subset DEF Holding
        <3>4. PICK n \in Nat : n = Cardinality(Holding(d)) BY <3>3, FS_CardinalityType
        <3>5. n # 0 BY <3>1, <3>3, <3>4, FS_EmptySet
        <3>6. PICK m \in Nat : m = Len(src[d].pool) BY SourceNumbers
        <3>7. m + n <= 1 BY <3>4, <3>6 DEF ScanInv, CountOK, Solo
        <3>8. m = 0 /\ n = 1 BY <3>5, <3>7
        <3>9. src[d].pool = <<>>
            <4>1. src[d].pool \in Seq(Runners) BY <1>4 DEF Sources
            <4>2. Len(src[d].pool) = 0 BY <3>6, <3>8
            <4> QED BY <4>1, <4>2
        <3>10. \E u : Holding(d) = {u} BY <3>3, <3>4, <3>8, FS_Singleton
        <3>11. Holding(d)' = {} BY <3>1, <3>2, <3>10
        <3>12. src'[d].pool = src[d].pool BY <1>2 DEF Moves, Like
        <3> QED BY <3>9, <3>11, <3>12 DEF Dry
    <2> QED BY <1>1, <1>3, <1>4, <1>7, <2>1, <2>2, <2>3, <2>4, SoloHolding
<1>9. CASE ~QueueEmpty
    <2>1. /\ morsels # <<>> /\ x.pc = "next" /\ ~x.last /\ x.run.iter = Head(morsels)
          /\ morsels' = Tail(morsels) /\ popped' = Append(popped, Head(morsels))
        BY <1>1, <1>9 DEF QueueEmpty
    <2>2. /\ FirstOK' /\ Len(popped) <= Len(popped')
          /\ Chunks(popped') \subseteq Chunks(popped) \cup ToSet(Head(morsels))
        BY <1>2, <1>3, <2>1, PopFirst
    <2>3. ToSet(Head(morsels)) \subseteq Own(x, src[d])
        BY <2>1 DEF Own, TaskChunks, RunChunks, HoldPcs
    <2>4. Chunks(popped') \subseteq Chunks(popped) \cup Own(x, src[d]) BY <2>2, <2>3
    <2> QED BY <1>1, <1>3, <1>4, <1>7, <2>1, <2>2, <2>4, SoloHolding
<1> QED BY <1>8, <1>9

\* Opening or reading fails.
LEMMA SoloReadFails ==
    ASSUME ScanInv, ScanInv', SoloOK, NEW t \in TaskSlots, ReadFails(t)
    PROVE  SoloOK'
<1>1. PICK d \in Drivers, x \in Tasks, s \in Sources :
         Shift(t, d, x, s) /\ task[t].pc = "next" /\ x.pc = "leave" /\ ~x.last /\ s.err
    BY ReadFailsIs
<1>2. UNCHANGED <<job, morsels, popped, full>> BY <1>1 DEF Shift, Moves, ReadFails, dispatchVars
<1>3. ~full' /\ FirstOK' /\ Len(popped) <= Len(popped') BY <1>2, QueueKept
<1>4. task[t].pc \in HoldPcs /\ x.pc # "judge" BY <1>1 DEF HoldPcs
<1> QED BY <1>1, <1>3, <1>4, SoloHolding

\* A task hands its chunk on, or keeps it.
LEMMA SoloPushScanned ==
    ASSUME ScanInv, ScanInv', SoloOK, NEW t \in TaskSlots, PushScanned(t)
    PROVE  SoloOK'
<1>1. PICK d \in Drivers, x \in Tasks, s \in Sources :
         /\ Shift(t, d, x, s) /\ task[t].pc = "push" /\ ~x.last
         /\ s.err = src[d].err /\ s.pool = src[d].pool /\ s.inflight = src[d].inflight
         /\ \/ x.pc = "leave" /\ src[d].stop /\ s.fin /\ s.buf = src[d].buf
            \/ /\ x.pc = "top" /\ x.run = task[t].run /\ HasCapacity(src[d])
               /\ s.buf = Append(src[d].buf, task[t].chunk) /\ s.fin = src[d].fin
            \/ /\ x.pc = "keep" /\ x.run.iter = task[t].run.iter
               /\ x.run.pend = task[t].chunk /\ s.buf = src[d].buf /\ s.fin = src[d].fin
    BY PushScannedIs
<1>2. UNCHANGED <<job, morsels, popped, full>> BY <1>1 DEF Shift, Moves, PushScanned, dispatchVars
<1>3. /\ ~full' /\ FirstOK' /\ Len(popped) <= Len(popped') /\ Chunks(popped') = Chunks(popped)
    BY <1>2, QueueKept
<1>4. task[t].pc \in HoldPcs /\ x.pc # "judge" BY <1>1 DEF HoldPcs
<1>6. src[d].stop \/ Own(task[t], src[d]) \subseteq Own(x, s) \cup {NoChunk}
    BY <1>1, PushOwn
<1> QED BY <1>1, <1>3, <1>4, <1>6, SoloHolding

\* A task gives its runner back.
LEMMA SoloKeepRunner ==
    ASSUME ScanInv, ScanInv', SoloOK, NEW t \in TaskSlots, KeepRunner(t)
    PROVE  SoloOK'
<1>1. PICK d \in Drivers, x \in Tasks, s \in Sources :
         /\ Shift(t, d, x, s) /\ task[t].pc = "keep" /\ x.pc = "leave" /\ ~x.last
         /\ s.err = src[d].err /\ s.buf = src[d].buf /\ s.fin = src[d].fin
         /\ s.pool = Append(src[d].pool, task[t].run) /\ task[t].run \in Runners
    BY KeepRunnerIs
<1>2. UNCHANGED <<job, morsels, popped, full>> BY <1>1 DEF Shift, Moves, KeepRunner, dispatchVars
<1>3. /\ ~full' /\ FirstOK' /\ Len(popped) <= Len(popped') /\ Chunks(popped') = Chunks(popped)
    BY <1>2, QueueKept
<1>4. task[t].pc \in HoldPcs /\ x.pc # "judge" BY <1>1 DEF HoldPcs
<1>5. task[t].chunk = NoChunk BY <1>1 DEF ScanInv, TaskOK, Fit
<1>6. src[d].pool \in Seq(Runners) BY SourceNumbers DEF Sources
<1>7. PoolChunks(src[d].pool) \cup RunChunks(task[t].run) \subseteq PoolChunks(s.pool)
    BY <1>1, <1>6, PoolSplit
<1>8. Own(task[t], src[d]) \subseteq Own(x, s) \cup {NoChunk}
    BY <1>1, <1>5, <1>7 DEF Own, TaskChunks
<1> QED BY <1>1, <1>3, <1>4, <1>8, SoloHolding

\* A task leaves the inflight count.
LEMMA SoloLeaveInflight ==
    ASSUME ScanInv, ScanInv', SoloOK, NEW t \in TaskSlots, LeaveInflight(t)
    PROVE  SoloOK'
<1>1. PICK d \in Drivers, x \in Tasks, s \in Sources :
         /\ Shift(t, d, x, s) /\ task[t].pc = "leave"
         /\ s.err = src[d].err /\ s.buf = src[d].buf /\ s.fin = src[d].fin
         /\ s.pool = src[d].pool
         /\ \/ x.pc = "judge" /\ task[t].last /\ ~x.last
            \/ x = NoTask
    BY LeaveInflightIs
<1>2. ScanShape /\ Moves(t, d, x, s) /\ Core(s, src[d]) BY <1>1 DEF ScanInv, Shift
<1>3. x.pc \notin FlyPcs /\ x.pc \notin HoldPcs BY <1>1, NoTaskType DEF FlyPcs, HoldPcs
<1>4. t \in Flying(d) /\ Holding(d)' = Holding(d) /\ Flying(d)' \subseteq Flying(d)
    <2>1. /\ t \in Flying(d) /\ t \notin Holding(d)
          /\ Flying(d)' = (Flying(d) \ {t}) \cup (IF x.pc \in FlyPcs THEN {t} ELSE {})
          /\ Holding(d)' = (Holding(d) \ {t}) \cup (IF x.pc \in HoldPcs THEN {t} ELSE {})
        BY <1>1, <1>2, SetsAfter DEF FlyPcs, HoldPcs
    <2> QED BY <1>3, <2>1
<1>5. UNCHANGED <<job, morsels, popped, full>>
    BY <1>2 DEF Moves, LeaveInflight, dispatchVars
<1>6. /\ ~full' /\ FirstOK' /\ Len(popped) <= Len(popped')
      /\ AllPopped' = AllPopped /\ Chunks(popped') = Chunks(popped)
    BY <1>5, QueueKept
<1>7. FinOK(d) /\ EndOK(d) /\ LastOK(t) BY DEF SoloOK
<1>8. /\ src'[d].pc = src[d].pc /\ src'[d].stop = src[d].stop /\ src'[d].empty = src[d].empty
      /\ src'[d].fin = src[d].fin /\ src'[d].err = src[d].err /\ src'[d].pool = src[d].pool
      /\ src'[d].buf = src[d].buf
    BY <1>1, <1>2 DEF Moves, Like, Core
<1>9. Dry(d) => Dry(d)' BY <1>4, <1>8 DEF Dry
<1>10. x.last \/ x.pc = "judge" => AllPopped' /\ Dry(d)'
    <2>1. task[t].drv = d BY <1>1, <1>2 DEF Moves
    <2>2. task[t].last => AllPopped /\ Dry(d) BY <1>7, <2>1 DEF LastOK
    <2> QED BY <1>1, <1>6, <1>9, <2>2, NoTaskType
<1>11. FinOK(d)' BY <1>4, <1>6, <1>7, <1>8 DEF FinOK, Ended
<1>12. EndOK(d)'
    <2>1. ~(src[d].pc = "start" /\ src[d].empty) BY <1>4, <1>7 DEF EndOK
    <2> QED BY <1>4, <1>7, <1>8, <2>1 DEF EndOK
<1>13. Own(task[t], src[d]) \subseteq Own(x, s) BY <1>1 DEF Own, TaskChunks, HoldPcs
<1> QED BY <1>1, <1>6, <1>9, <1>10, <1>11, <1>12, <1>13, SoloShift

\* The last task looks at the pool, which is empty.
LEMMA SoloJudgePool ==
    ASSUME ScanInv, ScanInv', SoloOK, NEW t \in TaskSlots, JudgePool(t)
    PROVE  SoloOK'
<1>1. PICK d \in Drivers, s \in Sources :
         /\ Shift(t, d, NoTask, s) /\ task[t].pc = "judge"
         /\ s.err = src[d].err /\ s.buf = src[d].buf /\ s.pool = src[d].pool
         /\ src[d].fin => s.fin
    BY JudgePoolIs
<1>2. ScanShape /\ Moves(t, d, NoTask, s) /\ Core(s, src[d]) BY <1>1 DEF ScanInv, Shift
<1>3. Holding(d)' = Holding(d) /\ Flying(d)' = Flying(d)
    <2>1. NoTask.pc \notin FlyPcs /\ NoTask.pc \notin HoldPcs
        BY NoTaskType DEF FlyPcs, HoldPcs
    <2>2. /\ t \notin Flying(d) /\ t \notin Holding(d)
          /\ Flying(d)' = (Flying(d) \ {t}) \cup (IF NoTask.pc \in FlyPcs THEN {t} ELSE {})
          /\ Holding(d)' = (Holding(d) \ {t}) \cup (IF NoTask.pc \in HoldPcs THEN {t} ELSE {})
        BY <1>1, <1>2, SetsAfter DEF FlyPcs, HoldPcs
    <2> QED BY <2>1, <2>2
<1>4. UNCHANGED <<job, morsels, popped, full>> BY <1>2 DEF Moves, JudgePool, dispatchVars
<1>5. /\ ~full' /\ FirstOK' /\ Len(popped) <= Len(popped')
      /\ AllPopped' = AllPopped /\ Chunks(popped') = Chunks(popped)
    BY <1>4, QueueKept
<1>6. EndOK(d) /\ LastOK(t) BY DEF SoloOK
<1>7. /\ src'[d].pc = src[d].pc /\ src'[d].stop = src[d].stop /\ src'[d].empty = src[d].empty
      /\ (src[d].fin => src'[d].fin) /\ src'[d].err = src[d].err
      /\ src'[d].pool = src[d].pool /\ src'[d].buf = src[d].buf
    BY <1>1, <1>2 DEF Moves, Like, Core
<1>8. AllPopped /\ Dry(d)
    <2>1. task[t].drv = d BY <1>1, <1>2 DEF Moves
    <2> QED BY <1>1, <1>6, <2>1 DEF LastOK
<1>9. Dry(d)' BY <1>3, <1>7, <1>8 DEF Dry
<1>10. FinOK(d)'
    <2>1. src'[d].pool = <<>> /\ Holding(d)' = {} BY <1>9 DEF Dry
    <2>2. ~PoolBusy(<<>>) BY DEF PoolBusy
    <2> QED BY <1>5, <1>8, <2>1, <2>2 DEF FinOK
<1>11. EndOK(d)' BY <1>3, <1>5, <1>6, <1>7 DEF EndOK
<1>12. Own(task[t], src[d]) \subseteq Own(NoTask, s) BY <1>1 DEF Own, TaskChunks, HoldPcs
<1> QED BY <1>1, <1>5, <1>8, <1>9, <1>10, <1>11, <1>12, NoTaskType, SoloShift

\* A driver submits a task only while its state is not finished.
LEMMA SoloSubmit ==
    ASSUME ScanInv, ScanInv', SoloOK, NEW d \in Drivers, SubmitTask(d)
    PROVE  SoloOK'
<1>1. PICK t \in TaskSlots, x \in Tasks, s \in Sources :
         /\ Shift(t, d, x, s) /\ task[t].pc = "free" /\ x.pc = "pop" /\ ~x.last
         /\ s.err = src[d].err /\ s.buf = src[d].buf /\ s.pool = src[d].pool
         /\ s.fin = src[d].fin /\ src[d].pc = "submit"
    BY SubmitTaskIs
<1>2. ScanShape /\ Moves(t, d, x, s) /\ Core(s, src[d]) BY <1>1 DEF ScanInv, Shift
<1>3. MaySubmit(src[d]) /\ UNCHANGED <<job, morsels, popped, full>>
    BY <1>2, SubmitTaskIs DEF Moves
<1>4. /\ ~full' /\ FirstOK' /\ Len(popped) <= Len(popped') /\ Chunks(popped') = Chunks(popped)
    BY <1>3, QueueKept
<1>5. src[d].pool # <<>> /\ ~(src[d].fin /\ src[d].buf = <<>> /\ ~src[d].err)
    BY <1>3 DEF MaySubmit, StateFinished
<1>6. FinOK(d) /\ EndOK(d) BY DEF SoloOK
<1>7. ~Ended(d) BY <1>1, <1>5, <1>6 DEF FinOK, Ended
<1>8. /\ src'[d].pc = src[d].pc /\ src'[d].stop = src[d].stop /\ src'[d].fin = src[d].fin
      /\ src'[d].err = src[d].err
    BY <1>1, <1>2 DEF Moves, Like, Core
<1>9. FinOK(d)' BY <1>7, <1>8 DEF FinOK, Ended
<1>10. EndOK(d)' BY <1>1, <1>6, <1>8 DEF EndOK, Over
<1>11. ~Dry(d) BY <1>5 DEF Dry
<1>12. Own(task[t], src[d]) \subseteq Own(x, s) BY <1>1 DEF Own, TaskChunks, HoldPcs
<1> QED BY <1>1, <1>4, <1>9, <1>10, <1>11, <1>12, SoloShift

\* A driver whose queue is empty and that has no task: everything was popped.
LEMMA NoneLeft ==
    ASSUME ScanInv, SoloOK, NEW d \in Drivers, QueueEmpty, src[d].inflight = 0
    PROVE  AllPopped /\ Flying(d) = {} /\ Holding(d) = {}
<1>1. morsels = <<>> BY DEF QueueEmpty, SoloOK
<1>2. popped \in Seq(Morsels) /\ job \in ScanJobs BY DEF ScanInv, ScanShape
<1>3. Len(popped) \in Nat /\ Len(job.first) \in Nat BY <1>2, ScanAssumption
<1>4. Len(morsels) = 0 BY <1>1
<1>5. AllPopped BY <1>3, <1>4 DEF SoloOK, FirstOK, AllPopped
<1>6. Cardinality(Flying(d)) = 0 BY DEF ScanInv, CountOK
<1>7. IsFiniteSet(Flying(d)) BY ScanAssumption, FS_Subset DEF Flying
<1>8. Flying(d) = {} BY <1>6, <1>7, FS_EmptySet
<1>9. Holding(d) \subseteq Flying(d) BY DEF Holding, Flying, FlyPcs
<1> QED BY <1>5, <1>8, <1>9

\* A driver that runs finishes only with nothing left, and keeps what it has not pulled.
LEMMA SoloRuns ==
    ASSUME ScanInv, ScanInv', SoloOK, NEW d \in Drivers, RunStep(d)
    PROVE  SoloOK'
<1>1. UNCHANGED task BY RunStepIs
<1>2. PICK s \in Sources : Runs(d, s) BY RunStepIs
<1>3. PICK a \in Sources : a = src[d] BY SourceNumbers
<1>4. /\ src'[d] = s /\ (\A e \in Drivers \ {d} : src'[e] = src[e]) /\ s.pool = a.pool
      /\ UNCHANGED <<job, morsels, popped, full>>
      /\ (a.pc \in Over => s.pc = a.pc)
    BY <1>2, <1>3 DEF Runs, Turn
<1>5. /\ ~full' /\ FirstOK' /\ Len(popped) <= Len(popped')
      /\ AllPopped' = AllPopped /\ Chunks(popped') = Chunks(popped)
    BY <1>4, QueueKept
<1>6. \A e \in Drivers : Flying(e)' = Flying(e) /\ Holding(e)' = Holding(e)
    BY <1>1 DEF Flying, Holding
<1>7. \A e \in Drivers \ {d} : Like(src'[e], src[e]) BY <1>4 DEF Like
<1>8. ASSUME NEW u \in TaskSlots, task'[u].drv = d PROVE LastOK(u)'
    <2>1. LastOK(u) /\ task[u].drv = d BY <1>1, <1>8 DEF SoloOK
    <2>2. Dry(d) => Dry(d)' BY <1>3, <1>4, <1>6 DEF Dry
    <2>3. task'[u].last \/ task'[u].pc = "judge" => AllPopped' /\ Dry(d)'
        BY <1>1, <1>5, <2>1, <2>2 DEF LastOK
    <2> QED BY <1>8, <2>3 DEF LastOK, Dry, Holding
<1>9. FinOK(d) /\ EndOK(d) BY DEF SoloOK
<1>10. UNCHANGED given \/ given' = given \cup {Head(a.buf)}
    BY <1>2, <1>3 DEF Runs, Pulls
<1>11. \/ UNCHANGED given /\ GoesOn(s, a)
       \/ UNCHANGED given /\ IsDone(s, a)
       \/ UNCHANGED given /\ Finishes(s, a)
       \/ UNCHANGED given /\ Fails(s, a)
       \/ Pulls(s, a)
    BY <1>2, <1>3 DEF Runs
<1> DEFINE Left == /\ AllPopped /\ Holding(d) = {} /\ ~PoolBusy(a.pool)
                   /\ a.pool = <<>> \/ (Flying(d) = {} /\ (s.buf = <<>> \/ s.pc = "done"))
           End == /\ s.stop => s.pc \in Over
                  /\ s.pc = "done" => s.fin /\ (s.err => Flying(d) = {})
                  /\ s.pc = "start" /\ s.empty => AllPopped /\ Flying(d) = {}
           Bad == s.err \/ s.pc = "failed"
<1>12. /\ (a.fin /\ ~a.err /\ a.pc # "failed") =>
            /\ AllPopped /\ Holding(d) = {} /\ ~PoolBusy(a.pool)
            /\ a.pool = <<>> \/ (Flying(d) = {} /\ (a.buf = <<>> \/ a.pc = "done"))
       /\ a.stop => a.pc \in Over
       /\ a.pc = "done" => a.fin /\ (a.err => Flying(d) = {})
       /\ a.pc = "start" /\ a.empty => AllPopped /\ Flying(d) = {}
    BY <1>3, <1>9 DEF FinOK, EndOK, Ended
<1>13. /\ (s.fin /\ ~Bad => Left) /\ End /\ (a.err \/ a.pc = "failed" => Bad)
    <2>1. CASE GoesOn(s, a) /\ UNCHANGED given
        <3>1. s.buf = a.buf /\ s.fin = a.fin /\ s.err = a.err /\ s.stop = a.stop
            BY <2>1 DEF GoesOn, Same
        <3>2. \/ s.pc \in {"ready", "closing", "look", "submit", "output", "blocked"}
              \/ s.pc = a.pc /\ s.empty = a.empty
              \/ s.pc = "start" /\ (s.empty => AllPopped /\ Flying(d) = {})
            <4>1. QueueEmpty /\ a.inflight = 0 => AllPopped /\ Flying(d) = {}
                BY <1>3, NoneLeft
            <4> QED BY <2>1, <4>1 DEF GoesOn
        <3>3. End BY <1>4, <1>12, <3>1, <3>2 DEF Over
        <3> QED BY <1>4, <1>12, <3>1, <3>3 DEF Over
    <2>2. CASE IsDone(s, a) /\ UNCHANGED given
        <3>1. /\ s.pc = "done" /\ s.fin /\ s.buf = a.buf /\ s.err = a.err
              /\ StateFinished(a) \/ Exhausted(a)
            BY <2>2 DEF IsDone
        <3>2. a.pc # "failed" BY <1>4, <3>1 DEF Over
        <3>3. (s.err => Flying(d) = {}) /\ (s.err \/ Left)
            <4>1. CASE StateFinished(a) BY <1>12, <3>1, <3>2, <4>1 DEF StateFinished
            <4>2. CASE Exhausted(a)
                <5>1. QueueEmpty /\ a.inflight = 0 /\ ~PoolBusy(a.pool) BY <4>2 DEF Exhausted
                <5> QED BY <1>3, <3>1, <5>1, NoneLeft
            <4> QED BY <3>1, <4>1, <4>2
        <3> QED BY <3>1, <3>2, <3>3 DEF Over
    <2>3. CASE Finishes(s, a) /\ UNCHANGED given
        <3>1. /\ a.pc = "start" /\ a.empty /\ ~PoolBusy(a.pool) /\ ~a.err /\ a.buf = <<>>
              /\ s.pc \in {"ready", "output"} /\ s.fin /\ s.buf = a.buf /\ s.err = a.err
              /\ s.stop = a.stop
            BY <2>3 DEF Finishes, HasOutput
        <3>2. Holding(d) \subseteq Flying(d) BY DEF Holding, Flying, FlyPcs
        <3>3. Left BY <1>12, <3>1, <3>2
        <3> QED BY <1>12, <3>1, <3>3 DEF Over
    <2>4. CASE Fails(s, a) /\ UNCHANGED given
        <3>1. /\ s.buf = a.buf
              /\ s.pc = "failed" \/ (s.err /\ s.pc \in {"ready", "output"} /\ s.stop = a.stop)
            BY <2>4 DEF Fails
        <3> QED BY <1>4, <1>12, <3>1 DEF Over
    <2>5. CASE Pulls(s, a)
        <3>1. /\ a.buf # <<>> /\ s.buf = Tail(a.buf) /\ given' = given \cup {Head(a.buf)}
              /\ s.pc = "look" /\ s.fin = a.fin /\ s.err = a.err /\ s.stop = a.stop
            BY <2>5 DEF Pulls
        <3>3. a.pc \notin Over BY <1>4, <3>1 DEF Over
        <3> QED BY <1>12, <3>1, <3>3 DEF Over
    <2> QED BY <1>11, <2>1, <2>2, <2>3, <2>4, <2>5
<1>14. FinOK(d)' BY <1>3, <1>4, <1>5, <1>6, <1>13 DEF FinOK, Ended
<1>15. EndOK(d)' BY <1>4, <1>5, <1>6, <1>13 DEF EndOK
<1>16. Held(d) \subseteq Held(d)' \cup given' BY RunHeld
<1>17. /\ src[d].err \/ src[d].pc = "failed" => src'[d].err \/ src'[d].pc = "failed"
       /\ \/ src'[d].err \/ src'[d].pc = "failed"
          \/ /\ Held(d) \subseteq Held(d)' \cup given' \cup {NoChunk}
             /\ Chunks(popped') \subseteq Chunks(popped) \cup Held(d)'
    BY <1>3, <1>4, <1>5, <1>13, <1>16
<1>18. given \subseteq given' BY <1>10
<1> QED BY <1>1, <1>4, <1>5, <1>6, <1>7, <1>8, <1>14, <1>15, <1>17, <1>18, SoloFrame

\* A step that changes neither tasks, nor buffers, nor pools.
LEMMA SoloBind ==
    ASSUME ScanInv, ScanInv', SoloOK, UNCHANGED <<job, task, given, popped, full>>, FirstOK',
           \A d \in Drivers :
             /\ src'[d].buf = src[d].buf /\ src'[d].fin = src[d].fin /\ src'[d].err = src[d].err
             /\ src'[d].stop = src[d].stop /\ src'[d].pool = src[d].pool
             /\ \/ src'[d].pc = src[d].pc /\ src'[d].empty = src[d].empty
                \/ src[d].pc \in Unbound /\ src'[d].pc \in Unbound \cup {"ready"}
    PROVE  SoloOK'
<1>1. Drivers' = Drivers /\ AllPopped' = AllPopped BY DEF Drivers, AllPopped
<1>2. \A d \in Drivers : Flying(d)' = Flying(d) /\ Holding(d)' = Holding(d)
    BY DEF Flying, Holding
<1>3. ASSUME NEW t \in TaskSlots PROVE LastOK(t)'
    <2>1. LastOK(t) BY DEF SoloOK
    <2>2. CASE task[t].pc = "free"
        <3>1. ~task[t].last BY <2>2 DEF ScanInv, TaskOK, Fit
        <3> QED BY <2>2, <3>1 DEF LastOK
    <2>3. CASE task[t].pc # "free"
        <3>1. PICK d \in Drivers : d = task[t].drv BY <2>3 DEF ScanInv, TaskOK
        <3>2. Dry(d) => Dry(d)' BY <1>2 DEF Dry
        <3>3. task'[t].last \/ task'[t].pc = "judge" => AllPopped' /\ Dry(d)'
            BY <1>1, <2>1, <3>1, <3>2 DEF LastOK
        <3> QED BY <3>1, <3>3 DEF LastOK, Dry, Holding
    <2> QED BY <2>2, <2>3
<1>4. ASSUME NEW d \in Drivers PROVE FinOK(d)' /\ EndOK(d)'
    <2>1. FinOK(d) /\ EndOK(d) BY DEF SoloOK
    <2>2. src[d].pc = src'[d].pc
          \/ (src[d].pc \notin {"done", "failed", "start"}
              /\ src'[d].pc \notin {"done", "failed", "start"})
        BY DEF Unbound
    <2>3. FinOK(d)' BY <1>1, <1>2, <2>1, <2>2 DEF FinOK, Ended
    <2>4. EndOK(d)' BY <1>1, <1>2, <2>1 DEF EndOK, Unbound, Over
    <2> QED BY <2>3, <2>4
<1>5. Broken => Broken'
    <2>1. \A d \in Drivers : src[d].pc = "failed" => src'[d].pc = "failed" BY DEF Unbound
    <2> QED BY <1>1, <2>1 DEF Broken
<1>7. Covered'
    <2>1. CASE Broken BY <1>5, <2>1 DEF Covered
    <2>2. CASE ~Broken
        <3>1. Accounted BY <2>2 DEF SoloOK, Covered
        <3>2. Accounted' BY <3>1, AccountedSame
        <3> QED BY <3>2 DEF Covered
    <2> QED BY <2>1, <2>2
<1> QED BY <1>1, <1>3, <1>4, <1>7 DEF SoloOK

\* Morsels that are appended come after those of the plan.
LEMMA AppendFirst ==
    ASSUME ScanInv, FirstOK, NEW m \in Seq(Morsels), morsels' = morsels \o m,
           UNCHANGED <<job, popped>>
    PROVE  FirstOK'
<1>1. popped \in Seq(Morsels) /\ morsels \in Seq(Morsels) /\ job \in ScanJobs
    BY DEF ScanInv, ScanShape
<1>2. job.first \in Seq(Morsels) BY <1>1, ScanAssumption
<1>3. morsels \o m \in Seq(Morsels) /\ popped \o morsels \in Seq(Morsels) BY <1>1
<1>4. PICK q, r \in Seq(Morsels) : q = morsels \o m /\ r = popped \o morsels BY <1>3
<1>5. Len(q) = Len(morsels) + Len(m) /\ Len(r) = Len(popped) + Len(morsels) BY <1>1, <1>4
<1>6. popped \o q = r \o m
    <2>1. popped \o (morsels \o m) = (popped \o morsels) \o m BY <1>1
    <2> QED BY <1>4, <2>1
<1>7. PICK b, c, g, h \in Nat : b = Len(popped) /\ c = Len(morsels) /\ g = Len(m)
                                 /\ h = Len(job.first)
    BY <1>1, <1>2
<1>8. h <= b + c BY <1>7 DEF FirstOK
<1>9. Len(job.first) <= Len(popped) + Len(q)
    <2>1. Len(q) = c + g BY <1>5, <1>7
    <2> QED BY <1>7, <1>8, <2>1
<1>10. ASSUME NEW i \in 1..Len(job.first) PROVE (popped \o q)[i] = job.first[i]
    <2>1. i \in 1..Len(r) BY <1>5, <1>7, <1>8
    <2>2. (r \o m)[i] = r[i] BY <2>1
    <2>3. r[i] = job.first[i] BY <1>4 DEF FirstOK
    <2> QED BY <1>6, <2>2, <2>3
<1> QED BY <1>4, <1>9, <1>10 DEF FirstOK

\* Binding a driver.
LEMMA SoloBinding ==
    ASSUME ScanInv, ScanInv', SoloOK, NEW d \in Drivers,
           Register(d) \/ TakePending(d) \/ AppendTaken(d)
    PROVE  SoloOK'
<1>1. PICK s \in Sources : Binds(d, s) BY RegisterIs, TakePendingIs, AppendTakenIs
<1>2. UNCHANGED <<job, task, given, popped, full>> BY <1>1 DEF Binds
<1>3. FirstOK'
    <2>1. FirstOK BY DEF SoloOK
    <2>2. CASE UNCHANGED morsels BY <1>2, <2>1, <2>2 DEF FirstOK
    <2>3. CASE AppendTaken(d)
        <3>1. src[d].take \in Seq(Adds) /\ morsels' = morsels \o Flat(src[d].take)
            BY <2>3, AppendTakenIs
        <3>2. Flat(src[d].take) \in Seq(Morsels) BY <3>1, FlatFacts
        <3> QED BY <1>2, <2>1, <3>1, <3>2, AppendFirst
    <2> QED BY <2>2, <2>3, RegisterIs, TakePendingIs
<1>4. ASSUME NEW e \in Drivers
      PROVE  /\ src'[e].buf = src[e].buf /\ src'[e].fin = src[e].fin /\ src'[e].err = src[e].err
             /\ src'[e].stop = src[e].stop /\ src'[e].pool = src[e].pool
             /\ \/ src'[e].pc = src[e].pc /\ src'[e].empty = src[e].empty
                \/ src[e].pc \in Unbound /\ src'[e].pc \in Unbound \cup {"ready"}
    <2>1. CASE e = d BY <1>1, <2>1 DEF Binds
    <2>2. CASE e # d BY <1>1, <2>2 DEF Binds
    <2> QED BY <2>1, <2>2
<1> QED BY <1>2, <1>3, <1>4, SoloBind

\* Ranges are sent or appended, and the drivers start.
LEMMA SoloRanges ==
    ASSUME ScanInv, ScanInv', SoloOK, SendRanges \/ AppendSent \/ RunDrivers
    PROVE  SoloOK'
<1>1. FirstOK BY DEF SoloOK
<1>2. CASE SendRanges
    <2>1. UNCHANGED <<job, morsels, full, src, task, given, popped>>
        BY <1>2 DEF SendRanges, dispatchVars
    <2>2. FirstOK' BY <1>1, <2>1 DEF FirstOK
    <2> QED BY <2>1, <2>2, SoloBind
<1>3. CASE AppendSent
    <2>1. /\ \A d \in Drivers : Like(src'[d], src[d])
          /\ morsels' = morsels \o Flat(rpc.adds)
        BY <1>3, AppendSentKeeps
    <2>2. UNCHANGED <<job, full, task, given, popped>> BY <1>3 DEF AppendSent, AppendRanges
    <2>3. rpc.adds \in Seq(Adds) BY DEF ScanInv, ScanShape
    <2>4. Flat(rpc.adds) \in Seq(Morsels) BY <2>3, FlatFacts
    <2>5. FirstOK' BY <1>1, <2>1, <2>2, <2>4, AppendFirst
    <2> QED BY <2>1, <2>2, <2>5, SoloBind DEF Like
<1>4. CASE RunDrivers
    <2>1. UNCHANGED <<job, morsels, full, task, given, popped>> BY <1>4, RunDriversIs
    <2>2. FirstOK' BY <1>1, <2>1 DEF FirstOK
    <2>3. ASSUME NEW d \in Drivers
          PROVE  /\ src'[d].buf = src[d].buf /\ src'[d].fin = src[d].fin
                 /\ src'[d].err = src[d].err /\ src'[d].stop = src[d].stop
                 /\ src'[d].pool = src[d].pool
                 /\ src[d].pc \in Unbound /\ src'[d].pc \in Unbound \cup {"ready"}
        BY <1>4, RunDriversIs DEF Unbound
    <2> QED BY <2>1, <2>2, <2>3, SoloBind
<1> QED BY <1>2, <1>3, <1>4

\* It holds initially: every runner is in its pool, and the plan is in the queue.
LEMMA SoloInit == ScanInit => SoloOK
<1> SUFFICES ASSUME ScanInit PROVE SoloOK
    OBVIOUS
<1>1. ScanInv BY InitInv
<1>2. job \in ScanJobs /\ job.first \in Seq(Morsels) BY ScanAssumption DEF ScanInit
<1>3. ~full /\ popped = <<>> /\ morsels = job.first BY DEF ScanInit
<1>4. FirstOK
    <2>1. popped \o morsels = job.first BY <1>2, <1>3
    <2>2. Len(job.first) \in Nat /\ Len(popped) = 0 BY <1>2, <1>3
    <2> QED BY <1>3, <2>1, <2>2 DEF FirstOK
<1>5. Covered
    <2>1. Chunks(popped) = {} BY <1>3 DEF Chunks
    <2> QED BY <2>1 DEF Covered, Accounted
<1>6. \A t \in TaskSlots : LastOK(t)
    <2>1. \A t \in TaskSlots : task[t] = NoTask BY DEF ScanInit
    <2> QED BY <2>1, NoTaskType DEF LastOK
<1>7. ASSUME NEW d \in Drivers PROVE FinOK(d) /\ EndOK(d)
    <2>1. src[d] = NewSource(job.tasks) BY <1>7 DEF ScanInit
    <2>2. src[d].pc = "bind" /\ ~src[d].fin /\ ~src[d].stop BY <2>1 DEF NewSource
    <2> QED BY <2>2 DEF FinOK, EndOK, Ended
<1> QED BY <1>3, <1>4, <1>5, <1>6, <1>7 DEF SoloOK

\* The scan of a behaviour does not change.
LEMMA JobKept == ScanInv /\ [ScanNext]_scanVars => job' = job
<1> SUFFICES ASSUME ScanInv, [ScanNext]_scanVars PROVE job' = job
    OBVIOUS
<1>1. CASE SendRanges \/ AppendSent \/ RunDrivers BY <1>1 DEF SendRanges, AppendSent, RunDrivers
<1>2. CASE \E d \in Drivers : RunStep(d) \/ SubmitTask(d)
    <2>1. PICK d \in Drivers : RunStep(d) \/ SubmitTask(d) BY <1>2
    <2>2. CASE RunStep(d) BY <2>2, RunStepIs DEF Runs, Turn
    <2>3. CASE SubmitTask(d) BY <2>3, SubmitTaskIs DEF Shift, Moves
    <2> QED BY <2>1, <2>2, <2>3
<1>3. CASE \E d \in Drivers : Register(d) \/ TakePending(d) \/ AppendTaken(d)
    BY <1>3 DEF Register, TakePending, AppendTaken
<1>4. CASE \E t \in TaskSlots : RunTask(t) \/ ReadFails(t)
    <2>1. PICK t \in TaskSlots : RunTask(t) \/ ReadFails(t) BY <1>4
    <2>2. CASE TakeRunner(t) \/ TaskTop(t) \/ NextOfMorsel(t)
        BY <2>2, TakeRunnerIs, TaskTopIs, NextOfMorselIs DEF Shift, Moves
    <2>3. CASE NextMorsel(t) \/ PushScanned(t) \/ KeepRunner(t)
        BY <2>3, NextMorselIs, PushScannedIs, KeepRunnerIs DEF Shift, Moves
    <2>4. CASE LeaveInflight(t) \/ JudgePool(t) \/ ReadFails(t)
        BY <2>4, LeaveInflightIs, JudgePoolIs, ReadFailsIs DEF Shift, Moves
    <2> QED BY <2>1, <2>2, <2>3, <2>4 DEF RunTask
<1>5. CASE UNCHANGED scanVars BY <1>5 DEF scanVars
<1> QED BY <1>1, <1>2, <1>3, <1>4, <1>5 DEF ScanNext, DriverStep, RunStep

\* Every step of a scan with one task per driver and no limit keeps it.
LEMMA SoloStep ==
    ScanInv /\ ScanInv' /\ (Solo => SoloOK) /\ [ScanNext]_scanVars => (Solo => SoloOK)'
<1> SUFFICES ASSUME ScanInv, ScanInv', Solo => SoloOK, [ScanNext]_scanVars, Solo'
             PROVE  SoloOK'
    OBVIOUS
<1>1. Solo /\ SoloOK BY JobKept DEF Solo
<1>2. CASE SendRanges \/ AppendSent \/ RunDrivers BY <1>1, <1>2, SoloRanges
<1>3. CASE \E d \in Drivers : RunStep(d) BY <1>1, <1>3, SoloRuns
<1>4. CASE \E d \in Drivers : SubmitTask(d) BY <1>1, <1>4, SoloSubmit
<1>5. CASE \E d \in Drivers : Register(d) \/ TakePending(d) \/ AppendTaken(d)
    BY <1>1, <1>5, SoloBinding
<1>6. CASE \E t \in TaskSlots : RunTask(t) \/ ReadFails(t)
    BY <1>1, <1>6, SoloTakeRunner, SoloTaskTop, SoloNextOfMorsel, SoloNextMorsel, SoloReadFails,
       SoloPushScanned, SoloKeepRunner, SoloLeaveInflight, SoloJudgePool DEF RunTask
<1>7. CASE UNCHANGED scanVars
    <2>1. UNCHANGED <<job, morsels, full, src, task, given, popped>>
        BY <1>7 DEF scanVars, dispatchVars
    <2>2. FirstOK' BY <1>1, <2>1 DEF FirstOK, SoloOK
    <2> QED BY <1>1, <2>1, <2>2, SoloBind
<1> QED BY <1>2, <1>3, <1>4, <1>5, <1>6, <1>7 DEF ScanNext, DriverStep, RunStep

\* With one task per scan operator, a scan whose drivers all finish has read its whole
\* plan: no driver finishes while its runner or a task still has a chunk (run_scan_worker,
\* is_finished). It does not hold of every scan: with two tasks a runner may be given
\* back after the last look at the pool.
THEOREM ScanPlanScanned == ScanSpec => []SoloPlanScanned
<1>1. ScanInit => (Solo => SoloOK) BY SoloInit
<1>2. ScanSpec => [](Solo => SoloOK) BY <1>1, SoloStep, ScanInvariant, PTL DEF ScanSpec
<1>3. ScanInv /\ (Solo => SoloOK) => SoloPlanScanned
    <2>1. CASE Solo BY <2>1, SoloRows DEF SoloPlanScanned
    <2>2. CASE ~Solo BY <2>2 DEF SoloPlanScanned, PlanScanned, Solo
    <2> QED BY <2>1, <2>2
<1> QED BY <1>2, <1>3, ScanInvariant, PTL
=============================================================================
