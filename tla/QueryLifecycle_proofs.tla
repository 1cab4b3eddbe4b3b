------------------------ MODULE QueryLifecycle_proofs ------------------------
(***************************************************************************)
(* Proofs about QueryLifecycle, for every set of instances and every plan  *)
(* of requests, cancels and failures.  The inductive invariant QInv has    *)
(* five parts: the shape of the state, where the requests are (ReqOK), who *)
(* carries a cancellation out (TellOK), who is counted in the context      *)
(* (CtxOK) and what has gone through the result buffer (StreamOK).         *)
(***************************************************************************)
EXTENDS QueryLifecycle, FiniteSetTheorems, TLAPS

USE DEF FE, Cancellers, ctxVars, regVars, histVars

ReqPcs == {"ensure", "table", "count", "observe", "spawn", "failed"}
Ctx == [count : Nat, num : Nat, total : Nat, cancelled : BOOLEAN, there : BOOLEAN]
Block == [there : BOOLEAN, queue : Seq(Nat), closed : BOOLEAN, failed : BOOLEAN,
          cancelled : BOOLEAN]
Thread == [pc : Pcs, error : BOOLEAN, ok : BOOLEAN, sent : Nat]
Cancel == [pc : {"idle", "lock", "tell", "drop"}, at : Finsts, known : BOOLEAN,
           aborts : SUBSET Finsts, closes : BOOLEAN]

QShape ==
    /\ plan \in QPlans
    /\ active \in Ctx /\ second \in Ctx
    /\ known \in SUBSET Finsts /\ comps \in SUBSET Finsts
    /\ block \in Block
    /\ req \in [DOMAIN plan.reqs -> [pc : ReqPcs, i : Nat \ {0}]]
    /\ frag \in [Finsts -> Thread]
    /\ canceller \in [Cancellers -> Cancel]
    /\ client \in [pc : {"wait", "eos", "error"}, got : Seq(Nat)]
    /\ doomed \in SUBSET Finsts
    /\ spent \in [cancels : SUBSET Finsts, fails : Nat, invalid : Nat]

\* A request that has not failed has its instance counted while it is at it, and has
\* not touched the instances behind it.
Named(r) == plan.reqs[r].finsts
ReqOK ==
    \A r \in DOMAIN plan.reqs :
        /\ req[r].pc \in {"observe", "spawn"} =>
              req[r].i \in 1..Len(Named(r)) /\ frag[At(r)].pc = "counted"
        /\ \A j \in 1..Len(Named(r)) :
              \/ req[r].pc \in {"ensure", "table", "count"} /\ req[r].i <= j
              \/ req[r].pc \in {"observe", "spawn"} /\ req[r].i < j
              => frag[Named(r)[j]].pc = "none"

\* ContextHeld, and a context never counts more instances than it has seen.
CtxOK ==
    /\ ContextHeld
    /\ active.num >= active.count /\ second.num >= second.count

\* What the client has read, followed by what is queued, is what the root's sink has
\* inserted, until the buffer is marked or the client has given up; close_ok comes
\* after the last batch.
Streamed ==
    /\ Len(client.got) + Len(block.queue) = frag[Root].sent
    /\ \A i \in 1..Len(client.got) : client.got[i] = i
    /\ \A i \in 1..Len(block.queue) : block.queue[i] = Len(client.got) + i

StreamOK ==
    /\ \A f \in Finsts : frag[f].sent <= plan.batches
    /\ block.closed => frag[Root].sent = plan.batches
    /\ client.pc = "wait" /\ ~block.cancelled /\ ~block.failed => Streamed
    /\ EosMeansAll

\* The thread of an instance that carries a cancellation out does nothing else.
TellOK ==
    \A f \in Finsts : canceller[f].pc # "idle" => frag[f].pc \in {"failing", "telling"}

QInv == QShape /\ ReqOK /\ TellOK /\ CtxOK /\ StreamOK

-----------------------------------------------------------------------------
\* What the assumption says of the plan of a behaviour.
LEMMA PlanFacts ==
    ASSUME NEW p \in QPlans
    PROVE  /\ p.batches \in Nat /\ p.cancels \subseteq Finsts
           /\ \A r \in DOMAIN p.reqs : p.reqs[r].finsts \in Seq(Finsts)
           /\ \A r, s \in DOMAIN p.reqs :
                \A i \in 1..Len(p.reqs[r].finsts), j \in 1..Len(p.reqs[s].finsts) :
                    p.reqs[r].finsts[i] = p.reqs[s].finsts[j] => r = s /\ i = j
<1>1. \A r \in DOMAIN p.reqs : p.reqs[r].finsts \in Seq(Finsts)
    BY QAssumption
<1>2. \A r \in DOMAIN p.reqs : DOMAIN p.reqs[r].finsts = 1..Len(p.reqs[r].finsts)
    BY <1>1
<1>3. SentOnce(p.reqs)
    BY QAssumption
<1>4. \A r, s \in DOMAIN p.reqs :
        \A i \in DOMAIN p.reqs[r].finsts, j \in DOMAIN p.reqs[s].finsts :
            p.reqs[r].finsts[i] = p.reqs[s].finsts[j] => r = s /\ i = j
    BY <1>3 DEF SentOnce
<1>5. p.batches \in Nat /\ p.cancels \subseteq Finsts
    BY QAssumption
<1> QED BY <1>1, <1>2, <1>4, <1>5

\* The instance a request is at is an instance.
LEMMA AtType ==
    ASSUME QShape, NEW r \in DOMAIN plan.reqs, req[r].i \in 1..Len(Named(r))
    PROVE  At(r) \in Finsts
BY PlanFacts DEF QShape, At, Named

-----------------------------------------------------------------------------
(* The shape of the state.                                                 *)

LEMMA ShapeInit == ASSUME QInit PROVE QShape
<1> USE QAssumption
<1>1. active \in Ctx /\ second \in Ctx /\ block \in Block
    BY DEF QInit, NoCtx, NoBlock, Ctx, Block
<1>2. req \in [DOMAIN plan.reqs -> [pc : ReqPcs, i : Nat \ {0}]]
    BY DEF QInit, ReqPcs
<1>3. frag \in [Finsts -> Thread]
    BY DEF QInit, Thread, Pcs
<1>4. canceller \in [Cancellers -> Cancel]
    BY DEF QInit, NoCancel, Cancel
<1> QED BY <1>1, <1>2, <1>3, <1>4 DEF QInit, QShape

\* What an assignment to the fields of an instance's thread leaves.
LEMMA ThreadPc ==
    ASSUME NEW fr \in [Finsts -> Thread], NEW f \in Finsts, NEW p \in Pcs
    PROVE  [fr EXCEPT ![f].pc = p] \in [Finsts -> Thread]
<1>1. [fr[f] EXCEPT !.pc = p] \in Thread BY DEF Thread
<1> QED BY <1>1

LEMMA ThreadError ==
    ASSUME NEW fr \in [Finsts -> Thread], NEW f \in Finsts, NEW e \in BOOLEAN
    PROVE  [fr EXCEPT ![f].error = e] \in [Finsts -> Thread]
<1>1. [fr[f] EXCEPT !.error = e] \in Thread BY DEF Thread
<1> QED BY <1>1

LEMMA ThreadBoth ==
    ASSUME NEW fr \in [Finsts -> Thread], NEW f \in Finsts, NEW p \in Pcs, NEW e \in BOOLEAN
    PROVE  /\ [fr EXCEPT ![f].pc = p, ![f].error = e] \in [Finsts -> Thread]
           /\ [fr EXCEPT ![f].error = e, ![f].pc = p] \in [Finsts -> Thread]
           /\ [fr EXCEPT ![f].pc = p, ![f].ok = e] \in [Finsts -> Thread]
<1>1. /\ [fr[f] EXCEPT !.pc = p, !.error = e] \in Thread
      /\ [fr[f] EXCEPT !.error = e, !.pc = p] \in Thread
      /\ [fr[f] EXCEPT !.pc = p, !.ok = e] \in Thread
    BY DEF Thread
<1> QED BY <1>1

\* get_or_register_internal, whatever it finds, leaves contexts.
LEMMA GetOrRegisterType ==
    ASSUME active \in Ctx, second \in Ctx, NEW by \in Nat, GetOrRegister(by)
    PROVE  active' \in Ctx /\ second' \in Ctx
<1>1. NoCtx \in Ctx /\ NewCtx \in Ctx BY DEF NoCtx, NewCtx, Ctx
<1>2. ASSUME NEW c \in Ctx PROVE Incremented(c, by) \in Ctx
    <2>1. c.num + by \in Nat /\ c.count + by \in Nat BY DEF Ctx
    <2>2. ASSUME NEW m \in Nat, NEW n \in Nat
          PROVE  [c EXCEPT !.num = m, !.count = n] \in Ctx
        BY DEF Ctx
    <2> QED BY <2>1, <2>2 DEF Incremented
<1> QED BY <1>1, <1>2 DEF GetOrRegister

\* A request's step keeps the shape of the state.
LEMMA ShapeRequest ==
    ASSUME QShape, ReqOK, NEW r \in DOMAIN plan.reqs, RequestStep(r) \/ Invalid(r)
    PROVE  QShape'
<1> USE DEF QRest, QStep
<1> DEFINE ReqType == [DOMAIN plan.reqs -> [pc : ReqPcs, i : Nat \ {0}]]
<1>a. active \in Ctx /\ second \in Ctx /\ frag \in [Finsts -> Thread]
    BY DEF QShape
<1>b. req \in ReqType BY DEF QShape
<1>c. ASSUME NEW p \in ReqPcs PROVE [req EXCEPT ![r].pc = p] \in ReqType
    <2>1. [req[r] EXCEPT !.pc = p] \in [pc : ReqPcs, i : Nat \ {0}] BY <1>b
    <2> QED BY <1>b, <2>1
<1>d. req[r].pc \in {"observe", "spawn"} => At(r) \in Finsts
    BY AtType DEF ReqOK
<1>1. CASE Missing(r)
    <2>1. req' \in ReqType BY <1>1, <1>c DEF Missing, ReqPcs
    <2> QED BY <1>1, <2>1 DEF Missing, QShape
<1>2. CASE EnsureContext(r)
    <2>1. active' \in Ctx /\ second' \in Ctx
        BY <1>2, <1>a, GetOrRegisterType DEF EnsureContext
    <2>2. req' \in ReqType BY <1>2, <1>c DEF EnsureContext, ReqPcs
    <2> QED BY <1>2, <2>1, <2>2 DEF EnsureContext, QShape
<1>3. CASE SetTable(r)
    <2>1. req' \in ReqType BY <1>3, <1>c DEF SetTable, ReqPcs
    <2> QED BY <1>3, <2>1 DEF SetTable, QShape
<1>4. CASE CountFragment(r)
    <2>1. active' \in Ctx /\ second' \in Ctx
        BY <1>4, <1>a, GetOrRegisterType DEF CountFragment
    <2>2. Named(r) \in Seq(Finsts)
        BY PlanFacts DEF QShape, Named
    <2>3. req[r].i \in 1..Len(Named(r))
        BY <1>4, <1>b, <2>2 DEF CountFragment, Named
    <2>4. At(r) \in Finsts
        BY <2>3, AtType
    <2>5. frag' \in [Finsts -> Thread]
        BY <1>4, <1>a, <2>4, ThreadPc DEF CountFragment, Pcs
    <2>6. req' \in ReqType BY <1>4, <1>c DEF CountFragment, ReqPcs
    <2> QED BY <1>4, <2>1, <2>5, <2>6 DEF CountFragment, QShape
<1>5. CASE ObserveTotal(r)
    <2>1. At(r) \in Finsts BY <1>5, <1>d DEF ObserveTotal
    <2>2. frag' \in [Finsts -> Thread]
        <3>1. "lost" \in Pcs BY DEF Pcs
        <3> QED BY <1>5, <1>a, <2>1, <3>1, ThreadPc DEF ObserveTotal
    <2>3. Cardinality(Finsts) \in Nat
        BY QAssumption, FS_CardinalityType
    <2>4. active' \in Ctx
        BY <1>5, <1>a, <2>3 DEF ObserveTotal, Ctx
    <2>5. req' \in ReqType BY <1>5, <1>c DEF ObserveTotal, ReqPcs
    <2> QED BY <1>5, <2>2, <2>4, <2>5 DEF ObserveTotal, QShape
<1>6. CASE Invalid(r)
    <2>1. At(r) \in Finsts BY <1>6, <1>d DEF Invalid
    <2>2. frag' \in [Finsts -> Thread]
        BY <1>6, <1>a, <2>1, ThreadPc DEF Invalid, Pcs
    <2>3. req' \in ReqType BY <1>6, <1>c DEF Invalid, ReqPcs
    <2>4. spent \in [cancels : SUBSET Finsts, fails : Nat, invalid : Nat]
        BY DEF QShape
    <2>5. spent' \in [cancels : SUBSET Finsts, fails : Nat, invalid : Nat]
        BY <1>6, <2>4 DEF Invalid
    <2> QED BY <1>6, <2>2, <2>3, <2>5 DEF Invalid, QShape
<1>7. CASE Spawn(r)
    <2>1. At(r) \in Finsts BY <1>7, <1>d DEF Spawn
    <2>2. frag' \in [Finsts -> Thread]
        BY <1>7, <1>a, <2>1, ThreadPc DEF Spawn, Pcs
    <2>3. [req[r] EXCEPT !.pc = "count", !.i = @ + 1] \in [pc : ReqPcs, i : Nat \ {0}]
        <3>1. req[r].i + 1 \in Nat \ {0} BY <1>b
        <3> QED BY <1>b, <3>1 DEF ReqPcs
    <2>4. req' \in ReqType BY <1>7, <1>b, <2>3 DEF Spawn
    <2>5. block \in Block BY DEF QShape
    <2>6. block' \in Block BY <1>7, <2>5 DEF Spawn, Block
    <2>7. known' \in SUBSET Finsts BY <1>7, <2>1 DEF Spawn, QShape
    <2> QED BY <1>7, <2>2, <2>4, <2>6, <2>7 DEF Spawn, QShape
<1> QED BY <1>1, <1>2, <1>3, <1>4, <1>5, <1>6, <1>7 DEF RequestStep

\* finish_fragment leaves contexts.
LEMMA FinishType ==
    ASSUME active \in Ctx, second \in Ctx, FinishFragment
    PROVE  active' \in Ctx /\ second' \in Ctx
<1> DEFINE n == IF active.count > 0 THEN active.count - 1 ELSE 0
           left == [active EXCEPT !.count = n]
<1>1. n \in Nat BY DEF Ctx
<1>2. left \in Ctx BY <1>1 DEF Ctx
<1>3. NoCtx \in Ctx BY DEF NoCtx, Ctx
<1>4. active' \in {active, NoCtx, left} /\ second' \in {second, left}
    BY DEF FinishFragment
<1> HIDE DEF left
<1> QED BY <1>2, <1>3, <1>4

\* Marking the root's buffer leaves a buffer.
LEMMA ClosedType ==
    ASSUME block \in Block, NEW c
    PROVE  Closed(c) \in Block
<1>1. ASSUME NEW x \in BOOLEAN, NEW y \in BOOLEAN
      PROVE  [block EXCEPT !.there = TRUE, !.queue = <<>>, !.cancelled = x,
                           !.failed = y] \in Block
    <2>1. <<>> \in Seq(Nat) OBVIOUS
    <2> QED BY <2>1 DEF Block
<1>2. (block.cancelled \/ c = FE) \in BOOLEAN /\ (block.failed \/ c # FE) \in BOOLEAN
    OBVIOUS
<1> QED BY <1>1, <1>2 DEF Closed

\* So does a step of an instance's thread or of its drivers.
LEMMA ShapeThread ==
    ASSUME QShape, NEW f \in Finsts,
           ThreadStep(f) \/ BuildFails(f) \/ DriverFails(f) \/ DriversFinish(f)
    PROVE  QShape'
<1> USE DEF FragTo, FragRest
<1>a. /\ active \in Ctx /\ second \in Ctx /\ frag \in [Finsts -> Thread] /\ block \in Block
      /\ canceller \in [Cancellers -> Cancel]
      /\ spent \in [cancels : SUBSET Finsts, fails : Nat, invalid : Nat]
    BY DEF QShape
<1>b. [spent EXCEPT !.fails = @ + 1] \in [cancels : SUBSET Finsts, fails : Nat, invalid : Nat]
    BY <1>a
<1>c. [NoCancel EXCEPT !.pc = "lock"] \in Cancel
    BY QAssumption DEF NoCancel, Cancel
<1>d. [canceller EXCEPT ![f] = [NoCancel EXCEPT !.pc = "lock"]] \in [Cancellers -> Cancel]
    BY <1>a, <1>c
<1>1. CASE RegisterCompletion(f)
    <2>1. frag' \in [Finsts -> Thread]
        BY <1>1, <1>a, ThreadPc DEF RegisterCompletion, Pcs
    <2> QED BY <1>1, <2>1 DEF RegisterCompletion, QShape
<1>2. CASE CheckCanceled(f)
    <2>1. (frag[f].error \/ IsQueryCanceled) \in BOOLEAN /\ "running" \in Pcs
        BY DEF Pcs
    <2>2. frag' \in [Finsts -> Thread]
        BY <1>2, <1>a, <2>1, ThreadBoth DEF CheckCanceled
    <2> QED BY <1>2, <2>2 DEF CheckCanceled, QShape
<1>3. CASE DriversAbort(f)
    <2>1. frag' \in [Finsts -> Thread]
        BY <1>3, <1>a, ThreadPc DEF DriversAbort, Pcs
    <2> QED BY <1>3, <2>1 DEF DriversAbort, QShape
<1>4. CASE WaitReturns(f)
    <2>1. (IF frag[f].error THEN "err" ELSE "leave") \in Pcs
        BY DEF Pcs
    <2>2. frag' \in [Finsts -> Thread]
        BY <1>4, <1>a, <2>1, ThreadPc DEF WaitReturns
    <2> QED BY <1>4, <2>2 DEF WaitReturns, QShape
<1>5. CASE CloseOwn(f)
    <2>1. block' \in Block
        BY <1>5, <1>a, ClosedType DEF CloseOwn
    <2>2. frag' \in [Finsts -> Thread]
        BY <1>5, <1>a, ThreadPc DEF CloseOwn, Pcs
    <2>3. canceller' \in [Cancellers -> Cancel]
        BY <1>5, <1>d DEF CloseOwn
    <2> QED BY <1>5, <2>1, <2>2, <2>3 DEF CloseOwn, QShape
<1>6. CASE Unregister(f)
    <2>1. frag' \in [Finsts -> Thread]
        BY <1>6, <1>a, ThreadPc DEF Unregister, Pcs
    <2> QED BY <1>6, <2>1 DEF Unregister, QShape
<1>7. CASE EndFragment(f)
    <2>1. frag' \in [Finsts -> Thread]
        BY <1>7, <1>a, ThreadPc DEF EndFragment, Pcs
    <2> QED BY <1>7, <1>a, <2>1, FinishType DEF EndFragment, QShape
<1>8. CASE BuildFails(f)
    <2>1. frag' \in [Finsts -> Thread]
        BY <1>8, <1>a, ThreadPc DEF BuildFails, Pcs
    <2> QED BY <1>8, <1>b, <2>1 DEF BuildFails, QShape
<1>9. CASE DriverFails(f)
    <2>1. frag' \in [Finsts -> Thread]
        BY <1>9, <1>a, ThreadBoth DEF DriverFails, Pcs
    <2> QED BY <1>9, <1>b, <1>d, <2>1 DEF DriverFails, QShape
<1>10. CASE DriversFinish(f)
    <2>1. frag' \in [Finsts -> Thread]
        BY <1>10, <1>a, ThreadBoth DEF DriversFinish, Pcs
    <2>2. block' \in Block
        BY <1>10, <1>a DEF DriversFinish, Block
    <2> QED BY <1>10, <2>1, <2>2 DEF DriversFinish, QShape
<1> QED BY <1>1, <1>2, <1>3, <1>4, <1>5, <1>6, <1>7, <1>8, <1>9, <1>10 DEF ThreadStep

\* So does a step of a cancellation.
LEMMA ShapeCancel ==
    ASSUME QShape, NEW c \in Cancellers, CancelStep(c)
    PROVE  QShape'
<1> USE DEF FragTo, CancelRest
<1>a. /\ active \in Ctx /\ second \in Ctx /\ frag \in [Finsts -> Thread] /\ block \in Block
      /\ known \in SUBSET Finsts /\ comps \in SUBSET Finsts
      /\ canceller \in [Cancellers -> Cancel]
    BY DEF QShape
<1>b. NoCancel \in Cancel
    BY QAssumption DEF NoCancel, Cancel
<1>c. ASSUME NEW t \in Cancel, NEW d \in Cancellers
      PROVE  [canceller EXCEPT ![d] = t] \in [Cancellers -> Cancel]
    BY <1>a
<1>d. \A f \in Finsts : f \in Cancellers
    OBVIOUS
<1>1. CASE CancelQuery(c)
    <2>1. ASSUME NEW x \in Ctx, NEW b \in BOOLEAN
          PROVE  [x EXCEPT !.cancelled = b] \in Ctx
        BY DEF Ctx
    <2>2. /\ (active.cancelled \/ active.there) \in BOOLEAN
          /\ (second.cancelled \/ second.there) \in BOOLEAN
        OBVIOUS
    <2>3. active' \in Ctx /\ second' \in Ctx
        BY <1>1, <1>a, <2>1, <2>2 DEF CancelQuery
    <2>4. ASSUME NEW t \in Cancel, NEW b \in BOOLEAN, NEW a \in SUBSET Finsts
          PROVE  [t EXCEPT !.pc = "tell", !.aborts = a, !.closes = b] \in Cancel
        BY DEF Cancel
    <2> DEFINE a == known \cap comps
               b == Root \in known \/ (c = FE /\ known = {} /\ canceller[c].at = Root)
    <2>5. canceller' = [canceller EXCEPT ![c] =
                [canceller[c] EXCEPT !.pc = "tell", !.aborts = a, !.closes = b]]
        BY <1>1, <1>a DEF CancelQuery
    <2>6. a \in SUBSET Finsts /\ b \in BOOLEAN
        BY <1>a
    <2> HIDE DEF a, b
    <2>7. canceller' \in [Cancellers -> Cancel]
        BY <1>a, <1>c, <2>4, <2>5, <2>6
    <2>8. doomed' \in SUBSET Finsts
        BY <1>1 DEF CancelQuery, QShape, Counted
    <2> QED BY <1>1, <2>3, <2>7, <2>8 DEF CancelQuery, QShape
<1>2. ASSUME NEW f \in Finsts, AbortOne(c, f) PROVE QShape'
    <2>1. canceller[c].aborts \ {f} \in SUBSET Finsts
        BY <1>a DEF Cancel
    <2>2. [canceller[c] EXCEPT !.aborts = @ \ {f}] \in Cancel
        BY <1>a, <2>1 DEF Cancel
    <2>3. canceller' \in [Cancellers -> Cancel]
        BY <1>2, <1>a, <1>c, <2>2 DEF AbortOne
    <2>4. (frag[f].error \/ frag[f].pc \in {"registered", "running", "failing", "ended"})
            \in BOOLEAN
        OBVIOUS
    <2>5. frag' \in [Finsts -> Thread]
        BY <1>2, <1>a, <2>4, ThreadError DEF AbortOne
    <2> QED BY <1>2, <2>3, <2>5 DEF AbortOne, QShape
<1>3. CASE c # FE /\ FragmentTells(c)
    <2>1. c \in Finsts BY <1>3
    <2>2. (IF frag[c].pc = "failing" THEN "running" ELSE "leave") \in Pcs
        BY DEF Pcs
    <2>3. frag' \in [Finsts -> Thread]
        BY <1>3, <1>a, <2>1, <2>2, ThreadPc DEF FragmentTells
    <2>4. block' \in Block
        BY <1>3, <1>a, ClosedType DEF FragmentTells
    <2>5. canceller' \in [Cancellers -> Cancel]
        BY <1>3, <1>b, <1>c DEF FragmentTells
    <2> QED BY <1>3, <2>3, <2>4, <2>5 DEF FragmentTells, QShape
<1>4. CASE CancelTells
    <2>1. block' \in Block
        BY <1>4, <1>a, ClosedType DEF CancelTells
    <2>2. [canceller[FE] EXCEPT !.pc = "drop"] \in Cancel
        <3>1. canceller[FE] \in Cancel BY <1>a
        <3>2. ASSUME NEW t \in Cancel PROVE [t EXCEPT !.pc = "drop"] \in Cancel
            BY DEF Cancel
        <3> QED BY <3>1, <3>2
    <2>3. FE \in Cancellers OBVIOUS
    <2>4. CASE canceller[FE].known
        <3>1. canceller' = [canceller EXCEPT ![FE] = NoCancel]
            BY <1>4, <2>4 DEF CancelTells
        <3>2. canceller' \in [Cancellers -> Cancel]
            BY <1>b, <1>c, <2>3, <3>1
        <3> QED BY <1>4, <2>1, <3>2 DEF CancelTells, QShape
    <2>5. CASE ~canceller[FE].known
        <3>1. canceller' = [canceller EXCEPT ![FE] = [canceller[FE] EXCEPT !.pc = "drop"]]
            BY <1>4, <2>5 DEF CancelTells
        <3>2. canceller' \in [Cancellers -> Cancel]
            BY <1>c, <2>2, <2>3, <3>1
        <3> QED BY <1>4, <2>1, <3>2 DEF CancelTells, QShape
    <2> QED BY <2>4, <2>5
<1>5. CASE CancelUnregisters
    <2>1. canceller' \in [Cancellers -> Cancel]
        BY <1>5, <1>b, <1>c DEF CancelUnregisters
    <2>2. known' \in SUBSET Finsts /\ comps' \in SUBSET Finsts
        BY <1>5, <1>a DEF CancelUnregisters
    <2> QED BY <1>5, <2>1, <2>2 DEF CancelUnregisters, QShape
<1> QED BY <1>1, <1>2, <1>3, <1>4, <1>5 DEF CancelStep

\* And the rest: the FE's look-up, the sink, the client and the clean-up thread.
LEMMA ShapeOther ==
    ASSUME QShape, (\E f \in Finsts : CancelLookup(f)) \/ InsertBatch \/ Fetch \/ CleanExpired
    PROVE  QShape'
<1> USE DEF FragRest, CancelRest
<1>a. /\ active \in Ctx /\ second \in Ctx /\ frag \in [Finsts -> Thread] /\ block \in Block
      /\ canceller \in [Cancellers -> Cancel]
      /\ client \in [pc : {"wait", "eos", "error"}, got : Seq(Nat)]
      /\ spent \in [cancels : SUBSET Finsts, fails : Nat, invalid : Nat]
    BY DEF QShape
<1>b. block.queue \in Seq(Nat) /\ client.got \in Seq(Nat) /\ frag[Root].sent \in Nat
    BY <1>a, QAssumption DEF Block, Thread
<1>1. ASSUME NEW f \in Finsts, CancelLookup(f) PROVE QShape'
    <2>1. [spent EXCEPT !.cancels = @ \cup {f}]
            \in [cancels : SUBSET Finsts, fails : Nat, invalid : Nat]
        BY <1>a
    <2>2. ASSUME NEW b \in BOOLEAN
          PROVE  [NoCancel EXCEPT !.pc = "tell", !.at = f, !.known = FALSE, !.closes = b]
                    \in Cancel
        BY DEF NoCancel, Cancel
    <2>3. [NoCancel EXCEPT !.pc = "lock", !.at = f] \in Cancel
        BY DEF NoCancel, Cancel
    <2>4. (f = Root) \in BOOLEAN OBVIOUS
    <2>5. canceller' \in [Cancellers -> Cancel]
        BY <1>1, <1>a, <2>2, <2>3, <2>4 DEF CancelLookup
    <2> QED BY <1>1, <2>1, <2>5 DEF CancelLookup, QShape
<1>2. CASE InsertBatch
    <2>1. frag[Root].sent + 1 \in Nat /\ Append(block.queue, frag[Root].sent + 1) \in Seq(Nat)
        BY <1>b
    <2>2. [frag[Root] EXCEPT !.sent = @ + 1] \in Thread
        BY <1>a, <2>1, QAssumption DEF Thread
    <2>3. frag' \in [Finsts -> Thread]
        BY <1>2, <1>a, <2>2 DEF InsertBatch
    <2>4. block' \in Block
        BY <1>2, <1>a, <2>1 DEF InsertBatch, Block
    <2> QED BY <1>2, <2>3, <2>4 DEF InsertBatch, QShape
<1>3. CASE Fetch
    <2>1. CASE block' = NoBlock /\ client' = [client EXCEPT !.pc = "error"]
        <3>1. NoBlock \in Block BY DEF NoBlock, Block
        <3>2. client' \in [pc : {"wait", "eos", "error"}, got : Seq(Nat)]
            BY <1>a, <2>1
        <3> QED BY <1>3, <2>1, <3>1, <3>2 DEF Fetch, QShape
    <2>2. CASE /\ block.queue # <<>> /\ block' = [block EXCEPT !.queue = Tail(@)]
               /\ client' = [client EXCEPT !.got = Append(@, Head(block.queue))]
        <3>1. /\ Head(block.queue) \in Nat /\ Tail(block.queue) \in Seq(Nat)
              /\ Append(client.got, Head(block.queue)) \in Seq(Nat)
            BY <1>b, <2>2
        <3>2. block' \in Block BY <1>a, <2>2, <3>1 DEF Block
        <3>3. client' \in [pc : {"wait", "eos", "error"}, got : Seq(Nat)]
            BY <1>a, <2>2, <3>1
        <3> QED BY <1>3, <3>2, <3>3 DEF Fetch, QShape
    <2>3. CASE UNCHANGED block /\ client' = [client EXCEPT !.pc = "eos"]
        <3>1. client' \in [pc : {"wait", "eos", "error"}, got : Seq(Nat)]
            BY <1>a, <2>3
        <3> QED BY <1>3, <2>3, <3>1 DEF Fetch, QShape
    <2> QED BY <1>3, <2>1, <2>2, <2>3 DEF Fetch
<1>4. CASE CleanExpired
    BY <1>4 DEF CleanExpired, QShape, NoCtx, Ctx
<1> QED BY <1>1, <1>2, <1>3, <1>4

LEMMA ShapeStep ==
    ASSUME QShape, ReqOK, QNext
    PROVE  QShape'
BY ShapeRequest, ShapeThread, ShapeCancel, ShapeOther DEF QNext, Reqs

-----------------------------------------------------------------------------
(* Which instances a step moves.                                           *)

\* The pcs of an instance that no request has counted, or that a request is at.
Early == {"none", "counted", "lost"}
Outside == {"none", "over"}

\* The requests and the instances that have no thread stay as they are, and nobody
\* comes into the context or leaves it.
Calm ==
    /\ UNCHANGED <<plan, req>>
    /\ \A g \in Finsts : /\ frag[g].pc \in Early => frag'[g].pc = frag[g].pc
                         /\ frag[g].pc \in Outside <=> frag'[g].pc \in Outside

\* An assignment to the pc of one thread.
Moved(f, p) ==
    /\ frag'[f].pc = p
    /\ \A g \in Finsts : (g # f => frag'[g].pc = frag[g].pc) /\ frag'[g].sent = frag[g].sent
SameSent == \A g \in Finsts : frag'[g].sent = frag[g].sent

\* Moving a thread from a pc of threads to another one is calm.
LEMMA CalmMove ==
    ASSUME UNCHANGED <<plan, req>>, NEW f \in Finsts, frag[f].pc \notin Early \cup Outside,
           Moved(f, frag'[f].pc), frag'[f].pc \notin Early \cup Outside
    PROVE  Calm /\ SameSent
BY DEF Calm, Moved, SameSent

LEMMA PcAfter ==
    ASSUME frag \in [Finsts -> Thread], NEW f \in Finsts, NEW p, FragTo(f, p)
    PROVE  Moved(f, p)
BY DEF FragTo, Thread, Moved

\* The steps of threads and drivers are calm, but for the last step of a thread.
LEMMA CalmThread ==
    ASSUME QShape, NEW f \in Finsts, ~EndFragment(f),
           ThreadStep(f) \/ BuildFails(f) \/ DriverFails(f) \/ DriversFinish(f)
    PROVE  Calm /\ SameSent
<1>a. frag \in [Finsts -> Thread] BY DEF QShape
<1>b. frag[f].pc \notin Early \cup Outside /\ UNCHANGED <<plan, req>>
    BY DEF Early, Outside, ThreadStep, RegisterCompletion, CheckCanceled, DriversAbort,
           WaitReturns, CloseOwn, Unregister, EndFragment, BuildFails, DriverFails,
           DriversFinish, FragRest
<1>1. CASE RegisterCompletion(f)
    <2>1. Moved(f, "registered") BY <1>1, <1>a, PcAfter DEF RegisterCompletion
    <2> QED BY <2>1, <1>b, CalmMove DEF Moved, Early, Outside
<1>2. CASE CheckCanceled(f)
    <2>1. Moved(f, "running") BY <1>2, <1>a DEF CheckCanceled, Thread, Moved
    <2> QED BY <2>1, <1>b, CalmMove DEF Moved, Early, Outside
<1>3. CASE DriversAbort(f)
    <2>1. Moved(f, "ended") BY <1>3, <1>a, PcAfter DEF DriversAbort
    <2> QED BY <2>1, <1>b, CalmMove DEF Moved, Early, Outside
<1>4. CASE WaitReturns(f)
    <2>1. Moved(f, "err") \/ Moved(f, "leave") BY <1>4, <1>a, PcAfter DEF WaitReturns
    <2> QED BY <2>1, <1>b, CalmMove DEF Moved, Early, Outside
<1>5. CASE CloseOwn(f)
    <2>1. Moved(f, "telling") BY <1>5, <1>a, PcAfter DEF CloseOwn
    <2> QED BY <2>1, <1>b, CalmMove DEF Moved, Early, Outside
<1>6. CASE Unregister(f)
    <2>1. Moved(f, "finish") BY <1>6, <1>a, PcAfter DEF Unregister
    <2> QED BY <2>1, <1>b, CalmMove DEF Moved, Early, Outside
<1>7. CASE BuildFails(f)
    <2>1. Moved(f, "err") BY <1>7, <1>a, PcAfter DEF BuildFails
    <2> QED BY <2>1, <1>b, CalmMove DEF Moved, Early, Outside
<1>8. CASE DriverFails(f)
    <2>1. Moved(f, "failing") BY <1>8, <1>a DEF DriverFails, Thread, Moved
    <2> QED BY <2>1, <1>b, CalmMove DEF Moved, Early, Outside
<1>9. CASE DriversFinish(f)
    <2>1. Moved(f, "ended") BY <1>9, <1>a DEF DriversFinish, Thread, Moved
    <2> QED BY <2>1, <1>b, CalmMove DEF Moved, Early, Outside
<1> QED BY <1>1, <1>2, <1>3, <1>4, <1>5, <1>6, <1>7, <1>8, <1>9 DEF ThreadStep

\* So are the steps of a cancellation.
LEMMA CalmCancel ==
    ASSUME QShape, TellOK, NEW c \in Cancellers, CancelStep(c)
    PROVE  Calm /\ SameSent
<1>a. frag \in [Finsts -> Thread] BY DEF QShape
<1> USE DEF CancelRest
<1>1. CASE CancelQuery(c) \/ CancelTells \/ CancelUnregisters
    BY <1>1 DEF CancelQuery, CancelTells, CancelUnregisters, Calm, SameSent
<1>2. ASSUME NEW f \in Finsts, AbortOne(c, f) PROVE Calm /\ SameSent
    BY <1>2, <1>a DEF AbortOne, Thread, Calm, SameSent
<1>3. CASE c # FE /\ FragmentTells(c)
    <2>1. c \in Finsts BY <1>3
    <2>2. frag[c].pc \in {"failing", "telling"}
        BY <1>3, <2>1 DEF TellOK, FragmentTells, Tells
    <2>3. Moved(c, "running") \/ Moved(c, "leave")
        BY <1>3, <1>a, <2>1, PcAfter DEF FragmentTells
    <2> QED BY <1>3, <2>1, <2>2, <2>3, CalmMove DEF FragmentTells, Moved, Early, Outside
<1> QED BY <1>1, <1>2, <1>3 DEF CancelStep

LEMMA CalmOther ==
    ASSUME QShape, (\E f \in Finsts : CancelLookup(f)) \/ InsertBatch \/ Fetch \/ CleanExpired
    PROVE  Calm
<1>a. frag \in [Finsts -> Thread] BY DEF QShape
<1>1. CASE InsertBatch
    BY <1>1, <1>a DEF InsertBatch, Thread, Calm, FragRest
<1> QED BY <1>1 DEF CancelLookup, CancelRest, Fetch, CleanExpired, Calm

-----------------------------------------------------------------------------
(* Cancellations and the threads that carry them out.                      *)

LEMMA TellStep ==
    ASSUME QShape, ReqOK, TellOK, QNext
    PROVE  TellOK'
<1>a. frag \in [Finsts -> Thread] /\ canceller \in [Cancellers -> Cancel]
    BY DEF QShape
<1>z. FE \notin Finsts BY QAssumption
\* A step that starts no cancellation, and moves an instance that carries none out.
<1>k. ASSUME UNCHANGED canceller,
             \A f \in Finsts : frag[f].pc \in {"failing", "telling"} => frag'[f].pc = frag[f].pc
      PROVE  TellOK'
    BY <1>k DEF TellOK
<1>1. ASSUME NEW r \in DOMAIN plan.reqs, RequestStep(r) \/ Invalid(r) PROVE TellOK'
    <2>1. UNCHANGED canceller
        BY <1>1 DEF RequestStep, Missing, EnsureContext, SetTable, CountFragment,
                    ObserveTotal, Spawn, Invalid, QRest
    <2>2. CASE CountFragment(r)
        <3>1. Named(r) \in Seq(Finsts) BY PlanFacts DEF QShape, Named
        <3>2. req[r].i \in 1..Len(Named(r))
            BY <2>2, <3>1 DEF CountFragment, QShape, Named
        <3>3. At(r) \in Finsts BY <3>2, AtType
        <3>4. frag[Named(r)[req[r].i]].pc = "none"
            BY <2>2, <3>2 DEF CountFragment, ReqOK
        <3>5. frag[At(r)].pc = "none" BY <3>4 DEF At, Named
        <3> QED BY <2>1, <2>2, <3>3, <3>5, <1>a, <1>k DEF CountFragment
    <2>3. CASE ObserveTotal(r) \/ Spawn(r) \/ Invalid(r)
        <3>1. req[r].i \in 1..Len(Named(r)) /\ frag[At(r)].pc = "counted"
            BY <2>3 DEF ObserveTotal, Spawn, Invalid, ReqOK
        <3>2. At(r) \in Finsts BY <3>1, AtType
        <3>3. \A f \in Finsts : f # At(r) => frag'[f] = frag[f]
            BY <2>3, <3>2, <1>a DEF ObserveTotal, Spawn, Invalid
        <3> QED BY <2>1, <3>1, <3>3, <1>k
    <2>4. CASE Missing(r) \/ EnsureContext(r) \/ SetTable(r)
        BY <2>1, <2>4, <1>k DEF Missing, EnsureContext, SetTable
    <2> QED BY <1>1, <2>2, <2>3, <2>4 DEF RequestStep
<1>2. ASSUME NEW f \in Finsts,
             ThreadStep(f) \/ BuildFails(f) \/ DriverFails(f) \/ DriversFinish(f)
      PROVE  TellOK'
    <2>1. CASE CloseOwn(f) \/ DriverFails(f)
        <3>1. /\ frag'[f].pc \in {"failing", "telling"}
              /\ \A g \in Finsts : g # f => frag'[g] = frag[g] /\ canceller'[g] = canceller[g]
            BY <2>1, <1>a DEF CloseOwn, DriverFails, FragTo, Thread
        <3> QED BY <3>1 DEF TellOK
    <2>2. CASE ~(CloseOwn(f) \/ DriverFails(f))
        <3>1. UNCHANGED canceller /\ frag[f].pc \notin {"failing", "telling"}
            BY <1>2, <2>2 DEF ThreadStep, RegisterCompletion, CheckCanceled, DriversAbort,
                  WaitReturns, Unregister, EndFragment, BuildFails, DriversFinish, FragRest
        <3>2. \A g \in Finsts : g # f => frag'[g] = frag[g]
            BY <1>2, <2>2, <1>a DEF ThreadStep, RegisterCompletion, CheckCanceled, DriversAbort,
                  WaitReturns, Unregister, EndFragment, BuildFails, DriversFinish, FragTo
        <3> QED BY <3>1, <3>2, <1>k
    <2> QED BY <2>1, <2>2
<1>3. ASSUME NEW c \in Cancellers, CancelStep(c) PROVE TellOK'
    <2>1. CASE c # FE /\ FragmentTells(c)
        <3>1. c \in Finsts BY <2>1
        <3>2. canceller'[c].pc = "idle"
            BY <2>1, <1>a DEF FragmentTells, NoCancel
        <3>3. \A g \in Finsts : g # c => frag'[g] = frag[g] /\ canceller'[g] = canceller[g]
            BY <2>1, <3>1, <1>a DEF FragmentTells, FragTo
        <3> QED BY <3>2, <3>3 DEF TellOK
    <2>2. CASE CancelTells \/ CancelUnregisters
        BY <2>2, <1>a, <1>z DEF CancelTells, CancelUnregisters, TellOK
    <2>3. CASE CancelQuery(c)
        BY <2>3, <1>a DEF CancelQuery, TellOK, Cancel
    <2>4. ASSUME NEW f \in Finsts, AbortOne(c, f) PROVE TellOK'
        <3>1. \A g \in Finsts : frag'[g].pc = frag[g].pc
            BY <2>4, <1>a DEF AbortOne, Thread
        <3>2. \A g \in Finsts : canceller'[g].pc = canceller[g].pc
            BY <2>4, <1>a DEF AbortOne, Cancel
        <3> QED BY <3>1, <3>2 DEF TellOK
    <2> QED BY <1>3, <2>1, <2>2, <2>3, <2>4 DEF CancelStep
<1>4. CASE (\E f \in Finsts : CancelLookup(f)) \/ InsertBatch \/ Fetch \/ CleanExpired
    <2>1. CASE \E f \in Finsts : CancelLookup(f)
        BY <2>1, <1>a, <1>z DEF CancelLookup, TellOK
    <2>2. CASE InsertBatch
        <3>1. \A g \in Finsts : frag'[g].pc = frag[g].pc
            BY <2>2, <1>a DEF InsertBatch, Thread
        <3> QED BY <2>2, <3>1, <1>k DEF InsertBatch
    <2>3. CASE Fetch \/ CleanExpired
        BY <2>3, <1>k DEF Fetch, CleanExpired
    <2> QED BY <1>4, <2>1, <2>2, <2>3
<1> QED BY <1>1, <1>2, <1>3, <1>4 DEF QNext, Reqs

-----------------------------------------------------------------------------
(* Where the requests are.                                                 *)

LEMMA ReqInit == ASSUME QInit PROVE ReqOK
<1>1. plan \in QPlans BY DEF QInit
<1>2. \A r \in DOMAIN plan.reqs : Named(r) \in Seq(Finsts)
    BY <1>1, PlanFacts DEF Named
<1>3. \A r \in DOMAIN plan.reqs : \A j \in 1..Len(Named(r)) : Named(r)[j] \in Finsts
    BY <1>2
<1>4. \A f \in Finsts : frag[f].pc = "none" BY DEF QInit
<1>5. \A r \in DOMAIN plan.reqs : req[r].pc \in {"ensure", "count"} BY DEF QInit
<1> QED BY <1>3, <1>4, <1>5 DEF ReqOK

\* A calm step leaves the requests' instances alone.
LEMMA ReqCalm ==
    ASSUME QShape, ReqOK, Calm
    PROVE  ReqOK'
<1>1. \A r \in DOMAIN plan.reqs : Named(r) \in Seq(Finsts)
    BY PlanFacts DEF QShape, Named
<1>2. \A r \in DOMAIN plan.reqs : \A j \in 1..Len(Named(r)) : Named(r)[j] \in Finsts
    BY <1>1
<1>3. \A r \in DOMAIN plan.reqs : req[r].i \in 1..Len(Named(r)) => At(r) \in Finsts
    BY AtType
<1>4. UNCHANGED plan /\ UNCHANGED req BY DEF Calm
<1>5. \A r \in DOMAIN plan.reqs : Named(r)' = Named(r) /\ At(r)' = At(r)
    BY <1>4 DEF Named, At
<1>6. \A f \in Finsts : frag[f].pc \in {"none", "counted"} => frag'[f].pc = frag[f].pc
    BY DEF Calm, Early
<1> QED BY <1>2, <1>3, <1>4, <1>5, <1>6 DEF ReqOK

\* A request moves on and at most writes the pc of the instance that it is at, which no
\* other request names.
LEMMA ReqMoves ==
    ASSUME QShape, ReqOK, UNCHANGED plan, NEW r \in DOMAIN plan.reqs,
           req' \in [DOMAIN plan.reqs -> [pc : ReqPcs, i : Nat \ {0}]],
           \A s \in DOMAIN plan.reqs : s # r => req'[s] = req[s],
           \A f \in Finsts : \/ req[r].i \in 1..Len(Named(r)) /\ f = At(r)
                            \/ frag'[f].pc = frag[f].pc,
           \/ req'[r].pc = "failed"
           \/ /\ req'[r].pc \in {"table", "count"} /\ req'[r].i = req[r].i
              /\ req[r].pc \in {"ensure", "table", "count"} /\ UNCHANGED frag
           \/ /\ req[r].pc = "count" /\ req'[r].pc = "observe" /\ req'[r].i = req[r].i
              /\ req[r].i \in 1..Len(Named(r)) /\ frag'[At(r)].pc = "counted"
           \/ /\ req[r].pc = "observe" /\ req'[r].pc = "spawn" /\ req'[r].i = req[r].i
              /\ UNCHANGED frag
           \/ /\ req[r].pc = "spawn" /\ req'[r].pc = "count" /\ req'[r].i = req[r].i + 1
    PROVE  ReqOK'
<1>1. \A s \in DOMAIN plan.reqs : Named(s) \in Seq(Finsts) /\ Len(Named(s)) \in Nat
    BY PlanFacts DEF QShape, Named
<1>2. \A s \in DOMAIN plan.reqs : \A j \in 1..Len(Named(s)) : Named(s)[j] \in Finsts
    BY <1>1
<1>3. \A s \in DOMAIN plan.reqs : Named(s)' = Named(s) /\ req[s].i \in Nat \ {0}
    BY DEF Named, QShape
<1>4. \A s \in DOMAIN plan.reqs : \A i \in 1..Len(Named(r)), j \in 1..Len(Named(s)) :
        Named(r)[i] = Named(s)[j] => s = r /\ i = j
    BY PlanFacts DEF QShape, Named
<1>5. \A s \in DOMAIN plan.reqs : At(s) = Named(s)[req[s].i] /\ At(s)' = Named(s)[req'[s].i]
    BY <1>3 DEF At, Named
<1>6. \A s \in DOMAIN plan.reqs : \A j \in 1..Len(Named(s)) :
        s # r \/ j # req[r].i => frag'[Named(s)[j]].pc = frag[Named(s)[j]].pc
    BY <1>2, <1>4, <1>5
<1>7. ASSUME NEW s \in DOMAIN plan.reqs, s # r
      PROVE  /\ req'[s].pc \in {"observe", "spawn"} =>
                    req'[s].i \in 1..Len(Named(s)) /\ frag'[At(s)'].pc = "counted"
             /\ \A j \in 1..Len(Named(s)) :
                    \/ req'[s].pc \in {"ensure", "table", "count"} /\ req'[s].i <= j
                    \/ req'[s].pc \in {"observe", "spawn"} /\ req'[s].i < j
                    => frag'[Named(s)[j]].pc = "none"
    BY <1>5, <1>6, <1>7 DEF ReqOK
<1>8. /\ req'[r].pc \in {"observe", "spawn"} =>
             req'[r].i \in 1..Len(Named(r)) /\ frag'[At(r)'].pc = "counted"
      /\ \A j \in 1..Len(Named(r)) :
             \/ req'[r].pc \in {"ensure", "table", "count"} /\ req'[r].i <= j
             \/ req'[r].pc \in {"observe", "spawn"} /\ req'[r].i < j
             => frag'[Named(r)[j]].pc = "none"
    <2>1. /\ req[r].pc \in {"observe", "spawn"} =>
                req[r].i \in 1..Len(Named(r)) /\ frag[Named(r)[req[r].i]].pc = "counted"
          /\ \A j \in 1..Len(Named(r)) :
                \/ req[r].pc \in {"ensure", "table", "count"} /\ req[r].i <= j
                \/ req[r].pc \in {"observe", "spawn"} /\ req[r].i < j
                => frag[Named(r)[j]].pc = "none"
        BY <1>5 DEF ReqOK
    <2>2. \A j \in 1..Len(Named(r)) :
             j # req[r].i => frag'[Named(r)[j]].pc = frag[Named(r)[j]].pc
        BY <1>6
    <2>3. req[r].i \in Nat BY <1>3
    <2>4. CASE req'[r].pc = "failed" BY <2>4
    <2>5. CASE UNCHANGED frag /\ req'[r].i = req[r].i
        BY <2>1, <2>3, <2>5, <1>5
    <2>6. CASE req[r].pc = "count" /\ req'[r].pc = "observe" /\ req'[r].i = req[r].i
        BY <2>1, <2>2, <2>3, <2>6, <1>5
    <2>7. CASE req[r].pc = "spawn" /\ req'[r].pc = "count" /\ req'[r].i = req[r].i + 1
        BY <2>1, <2>2, <2>3, <2>7
    <2> QED BY <2>4, <2>5, <2>6, <2>7
<1> QED BY <1>3, <1>7, <1>8 DEF ReqOK

\* The instance that get_or_register is called for has not been counted.
LEMMA CountsNew ==
    ASSUME QShape, ReqOK, NEW r \in DOMAIN plan.reqs, CountFragment(r)
    PROVE  req[r].i \in 1..Len(Named(r)) /\ At(r) \in Finsts /\ frag[At(r)].pc = "none"
<1>1. Named(r) \in Seq(Finsts) BY PlanFacts DEF QShape, Named
<1>2. req[r].i \in 1..Len(Named(r))
    BY <1>1 DEF CountFragment, QShape, Named
<1>3. frag[Named(r)[req[r].i]].pc = "none"
    BY <1>2 DEF CountFragment, ReqOK
<1> QED BY <1>2, <1>3, AtType DEF At, Named

\* The instance that a request goes on with is counted.
LEMMA GoesOnCounted ==
    ASSUME QShape, ReqOK, NEW r \in DOMAIN plan.reqs, req[r].pc \in {"observe", "spawn"}
    PROVE  req[r].i \in 1..Len(Named(r)) /\ At(r) \in Finsts /\ frag[At(r)].pc = "counted"
BY AtType DEF ReqOK

LEMMA ReqRequest ==
    ASSUME QShape, ReqOK, NEW r \in DOMAIN plan.reqs, RequestStep(r) \/ Invalid(r)
    PROVE  ReqOK'
<1>a. frag \in [Finsts -> Thread] /\ req \in [DOMAIN plan.reqs -> [pc : ReqPcs, i : Nat \ {0}]]
    BY DEF QShape
<1>p. UNCHANGED plan
    BY DEF RequestStep, Missing, EnsureContext, SetTable, CountFragment, ObserveTotal, Spawn,
           Invalid, QRest
<1>b. req' \in [DOMAIN plan.reqs -> [pc : ReqPcs, i : Nat \ {0}]]
    BY ShapeRequest, <1>p DEF QShape
<1>c. \A s \in DOMAIN plan.reqs : s # r => req'[s] = req[s]
    BY <1>a DEF RequestStep, Missing, EnsureContext, SetTable, CountFragment, ObserveTotal,
           Spawn, Invalid, QStep
<1> USE DEF QStep
<1>1. CASE Missing(r)
    BY <1>1, <1>a, <1>b, <1>c, <1>p, ReqMoves DEF Missing
<1>2. CASE EnsureContext(r)
    BY <1>2, <1>a, <1>b, <1>c, <1>p, ReqMoves DEF EnsureContext
<1>3. CASE SetTable(r)
    BY <1>3, <1>a, <1>b, <1>c, <1>p, ReqMoves DEF SetTable
<1>4. CASE CountFragment(r)
    <2>1. req[r].i \in 1..Len(Named(r)) /\ At(r) \in Finsts
        BY <1>4, CountsNew
    <2>2. /\ frag'[At(r)].pc = "counted" /\ \A f \in Finsts : f # At(r) => frag'[f] = frag[f]
          /\ req'[r].pc = "observe" /\ req'[r].i = req[r].i /\ req[r].pc = "count"
        BY <1>4, <2>1, <1>a DEF CountFragment, Thread
    <2> QED BY <1>b, <1>c, <1>p, <2>1, <2>2, ReqMoves
<1>5. CASE ObserveTotal(r)
    <2>1. req[r].i \in 1..Len(Named(r)) /\ At(r) \in Finsts
        BY <1>5, GoesOnCounted DEF ObserveTotal
    <2>2. \A f \in Finsts : f # At(r) => frag'[f] = frag[f]
        BY <1>5, <2>1, <1>a DEF ObserveTotal
    <2>3. \/ req'[r].pc = "failed"
          \/ /\ req[r].pc = "observe" /\ req'[r].pc = "spawn" /\ req'[r].i = req[r].i
             /\ UNCHANGED frag
        BY <1>5, <1>a DEF ObserveTotal
    <2> QED BY <1>b, <1>c, <1>p, <2>1, <2>2, <2>3, ReqMoves
<1>6. CASE Invalid(r)
    <2>1. req[r].i \in 1..Len(Named(r)) /\ At(r) \in Finsts
        BY <1>6, GoesOnCounted DEF Invalid
    <2>2. req'[r].pc = "failed" /\ \A f \in Finsts : f # At(r) => frag'[f] = frag[f]
        BY <1>6, <2>1, <1>a DEF Invalid
    <2> QED BY <1>b, <1>c, <1>p, <2>1, <2>2, ReqMoves
<1>7. CASE Spawn(r)
    <2>1. req[r].i \in 1..Len(Named(r)) /\ At(r) \in Finsts
        BY <1>7, GoesOnCounted DEF Spawn
    <2>2. /\ \A f \in Finsts : f # At(r) => frag'[f] = frag[f]
          /\ req[r].pc = "spawn" /\ req'[r].pc = "count" /\ req'[r].i = req[r].i + 1
        BY <1>7, <2>1, <1>a DEF Spawn
    <2> QED BY <1>b, <1>c, <1>p, <2>1, <2>2, ReqMoves
<1> QED BY <1>1, <1>2, <1>3, <1>4, <1>5, <1>6, <1>7 DEF RequestStep

\* The last step of a thread does not touch an instance that has none.
LEMMA ReqEnd ==
    ASSUME QShape, ReqOK, NEW f \in Finsts, EndFragment(f)
    PROVE  ReqOK'
<1>a. frag \in [Finsts -> Thread] BY DEF QShape
<1>1. Moved(f, "over") BY <1>a, PcAfter DEF EndFragment
<1>2. \A g \in Finsts : frag[g].pc \in {"none", "counted"} => frag'[g].pc = frag[g].pc
    BY <1>1 DEF Moved, EndFragment
<1>3. UNCHANGED plan /\ UNCHANGED req BY DEF EndFragment, FragRest
<1>4. \A r \in DOMAIN plan.reqs : Named(r) \in Seq(Finsts)
    BY PlanFacts DEF QShape, Named
<1>5. \A r \in DOMAIN plan.reqs : \A j \in 1..Len(Named(r)) : Named(r)[j] \in Finsts
    BY <1>4
<1>6. \A r \in DOMAIN plan.reqs : req[r].i \in 1..Len(Named(r)) => At(r) \in Finsts
    BY AtType
<1>7. \A r \in DOMAIN plan.reqs : Named(r)' = Named(r) /\ At(r)' = At(r)
    BY <1>3 DEF Named, At
<1> QED BY <1>2, <1>3, <1>5, <1>6, <1>7 DEF ReqOK

LEMMA ReqStep ==
    ASSUME QShape, ReqOK, TellOK, QNext
    PROVE  ReqOK'
BY ReqRequest, ReqCalm, ReqEnd, CalmThread, CalmCancel, CalmOther DEF QNext, Reqs, ThreadStep

-----------------------------------------------------------------------------
(* Who is counted in the context.                                          *)

\* The instances that are counted are finitely many.
LEMMA CountedFinite ==
    /\ IsFiniteSet(Counted) /\ Cardinality(Counted) \in Nat
    /\ Cardinality(Counted) <= Cardinality(Finsts) /\ Cardinality(Finsts) \in Nat
    /\ Cardinality(Counted) = 0 <=> Counted = {}
<1>1. Counted \subseteq Finsts BY DEF Counted
<1>2. IsFiniteSet(Counted) BY <1>1, FS_Subset, QAssumption
<1>3. Cardinality(Counted) <= Cardinality(Finsts) BY <1>1, FS_Subset, QAssumption
<1>4. Cardinality(Counted) = 0 <=> Counted = {} BY <1>2, FS_EmptySet
<1>5. Cardinality(Counted) \in Nat BY <1>2, FS_CardinalityType
<1>6. Cardinality(Finsts) \in Nat BY QAssumption, FS_CardinalityType
<1> QED BY <1>2, <1>3, <1>4, <1>5, <1>6

LEMMA CtxInit == ASSUME QInit PROVE CtxOK
<1>1. Counted = {} BY DEF QInit, Counted
<1>2. Cardinality(Counted) = 0 BY <1>1, FS_EmptySet
<1> QED BY <1>1, <1>2 DEF QInit, CtxOK, ContextHeld, NoCtx

\* A calm step changes nobody's being counted.
LEMMA CountedCalm ==
    ASSUME Calm PROVE Counted' = Counted
BY DEF Calm, Counted, Outside

\* A step that counts nobody, and writes neither the counts nor where the context is.
LEMMA CtxKeep ==
    ASSUME CtxOK, Counted' = Counted,
           active'.count = active.count, active'.num = active.num,
           active'.there = active.there, second'.count = second.count,
           second'.num = second.num, second'.there = second.there
    PROVE  CtxOK'
BY DEF CtxOK, ContextHeld

\* get_or_register_internal counts up the context there is, active or in its second
\* chance, or a new one.
LEMMA GetOrRegisterCounts ==
    ASSUME active \in Ctx, second \in Ctx, CtxOK, NEW by \in Nat, GetOrRegister(by)
    PROVE  /\ active'.there /\ active'.count = active.count + by
           /\ active'.num >= active'.count /\ ~second'.there
           /\ second'.count = 0 /\ second'.num >= second'.count
<1>1. ~active.there => active.count = 0
    BY CountedFinite DEF CtxOK, ContextHeld
<1>2. CASE active.there
    BY <1>2 DEF GetOrRegister, Incremented, CtxOK, ContextHeld, Ctx
<1>3. CASE ~active.there /\ second.there
    BY <1>1, <1>3 DEF GetOrRegister, Incremented, CtxOK, ContextHeld, Ctx, NoCtx
<1>4. CASE ~active.there /\ ~second.there
    BY <1>1, <1>4 DEF GetOrRegister, Incremented, NewCtx, NoCtx, Ctx
<1> QED BY <1>2, <1>3, <1>4

LEMMA CtxRequest ==
    ASSUME QShape, ReqOK, CtxOK, NEW r \in DOMAIN plan.reqs, RequestStep(r) \/ Invalid(r)
    PROVE  CtxOK'
<1>a. frag \in [Finsts -> Thread] /\ active \in Ctx /\ second \in Ctx
    BY DEF QShape
<1>b. ASSUME At(r) \in Finsts, frag[At(r)].pc = "counted",
             frag'[At(r)].pc \notin {"none", "over"},
             \A f \in Finsts : f # At(r) => frag'[f] = frag[f]
      PROVE  Counted' = Counted
    BY <1>b DEF Counted
<1>1. CASE Missing(r) \/ SetTable(r)
    <2>1. UNCHANGED <<frag, active, second>> BY <1>1 DEF Missing, SetTable
    <2> QED BY <2>1, CtxKeep DEF Counted
<1>2. CASE EnsureContext(r)
    <2>1. GetOrRegister(0) /\ UNCHANGED frag BY <1>2 DEF EnsureContext
    <2>2. Counted' = Counted BY <2>1 DEF Counted
    <2>3. active.count \in Nat BY <1>a DEF Ctx
    <2> QED BY <1>a, <2>1, <2>2, <2>3, GetOrRegisterCounts DEF CtxOK, ContextHeld
<1>3. CASE CountFragment(r)
    <2>1. At(r) \in Finsts /\ frag[At(r)].pc = "none" BY <1>3, CountsNew
    <2>2. Counted' = Counted \cup {At(r)} /\ At(r) \notin Counted
        BY <1>3, <2>1, <1>a DEF CountFragment, Counted, Thread
    <2>3. Cardinality(Counted') = Cardinality(Counted) + 1
        BY <2>2, CountedFinite, FS_AddElement
    <2>4. GetOrRegister(1) BY <1>3 DEF CountFragment
    <2> QED BY <1>a, <2>3, <2>4, GetOrRegisterCounts DEF CtxOK, ContextHeld
<1>4. CASE ObserveTotal(r)
    <2>1. At(r) \in Finsts /\ frag[At(r)].pc = "counted"
        BY <1>4, GoesOnCounted DEF ObserveTotal
    <2>2. frag'[At(r)].pc \in {"counted", "lost"}
        BY <1>4, <2>1, <1>a DEF ObserveTotal, Thread
    <2>3. \A f \in Finsts : f # At(r) => frag'[f] = frag[f]
        BY <1>4, <2>1, <1>a DEF ObserveTotal
    <2>4. Counted' = Counted BY <1>b, <2>1, <2>2, <2>3
    <2>5. /\ active'.count = active.count /\ active'.num = active.num
          /\ active'.there = active.there /\ UNCHANGED second
        BY <1>4, <1>a DEF ObserveTotal, Ctx
    <2> QED BY <2>4, <2>5, CtxKeep
<1>5. CASE Invalid(r) \/ Spawn(r)
    <2>1. At(r) \in Finsts /\ frag[At(r)].pc = "counted"
        BY <1>5, GoesOnCounted DEF Invalid, Spawn
    <2>2. frag'[At(r)].pc \in {"lost", "spawned"}
        BY <1>5, <2>1, <1>a DEF Invalid, Spawn, Thread
    <2>3. \A f \in Finsts : f # At(r) => frag'[f] = frag[f]
        BY <1>5, <2>1, <1>a DEF Invalid, Spawn
    <2>4. Counted' = Counted BY <1>b, <2>1, <2>2, <2>3
    <2>5. UNCHANGED <<active, second>> BY <1>5 DEF Invalid, Spawn
    <2> QED BY <2>4, <2>5, CtxKeep
<1> QED BY <1>1, <1>2, <1>3, <1>4, <1>5 DEF RequestStep

\* finish_fragment takes off the instance that ends, and only then may the context go.
LEMMA CtxEnd ==
    ASSUME QShape, CtxOK, NEW f \in Finsts, EndFragment(f)
    PROVE  CtxOK'
<1>a. frag \in [Finsts -> Thread] /\ active \in Ctx /\ second \in Ctx
    BY DEF QShape
<1>1. Moved(f, "over") BY <1>a, PcAfter DEF EndFragment
<1>2. Counted' = Counted \ {f} /\ f \in Counted
    BY <1>1 DEF Moved, EndFragment, Counted
<1>3. Cardinality(Counted') = Cardinality(Counted) - 1
    BY <1>2, CountedFinite, FS_RemoveElement
<1>4. IsFiniteSet(Counted') BY <1>2, CountedFinite, FS_RemoveElement
<1>5. Cardinality(Counted') = 0 <=> Counted' = {} BY <1>4, FS_EmptySet
<1>6. /\ active.there /\ active.count = Cardinality(Counted) /\ active.count \in Nat
      /\ active.count > 0 /\ active.num \in Nat /\ active.num >= active.count
      /\ ~second.there /\ second.count = 0 /\ second.num >= second.count
    BY <1>a, <1>2, CountedFinite DEF CtxOK, ContextHeld, Ctx
<1> DEFINE n == active.count - 1
           left == [active EXCEPT !.count = n]
<1>7. /\ n = Cardinality(Counted') /\ n \in Nat /\ active.num >= n
      /\ left.count = n /\ left.num = active.num /\ left.there = active.there
    <2>1. n = Cardinality(Counted') /\ n \in Nat /\ active.num >= n BY <1>3, <1>6
    <2>2. ASSUME NEW m PROVE LET x == [active EXCEPT !.count = m]
                             IN x.count = m /\ x.num = active.num /\ x.there = active.there
        BY <1>a DEF Ctx
    <2> QED BY <2>1, <2>2
<1>8. \/ n = 0 /\ active' = NoCtx /\ UNCHANGED second
      \/ n = 0 /\ active' = NoCtx /\ second' = left
      \/ n # 0 /\ active' = left /\ UNCHANGED second
    BY <1>6, <1>7 DEF EndFragment, FinishFragment, IsDead
<1>9. NoCtx.count = 0 /\ NoCtx.num = 0 /\ ~NoCtx.there BY DEF NoCtx
<1> HIDE DEF n, left
<1>10. CASE n = 0 /\ active' = NoCtx /\ UNCHANGED second
    BY <1>5, <1>6, <1>7, <1>9, <1>10 DEF CtxOK, ContextHeld
<1>11. CASE n = 0 /\ active' = NoCtx /\ second' = left
    BY <1>5, <1>6, <1>7, <1>9, <1>11 DEF CtxOK, ContextHeld
<1>12. CASE n # 0 /\ active' = left /\ UNCHANGED second
    BY <1>5, <1>6, <1>7, <1>12 DEF CtxOK, ContextHeld
<1> QED BY <1>8, <1>10, <1>11, <1>12

\* No other step writes a count or removes a context that counts an instance.
LEMMA CtxStep ==
    ASSUME QShape, ReqOK, TellOK, CtxOK, QNext
    PROVE  CtxOK'
<1>a. active \in Ctx /\ second \in Ctx BY DEF QShape
<1>1. ASSUME NEW r \in DOMAIN plan.reqs, RequestStep(r) \/ Invalid(r) PROVE CtxOK'
    BY <1>1, CtxRequest
<1>2. ASSUME NEW f \in Finsts,
             ThreadStep(f) \/ BuildFails(f) \/ DriverFails(f) \/ DriversFinish(f)
      PROVE  CtxOK'
    <2>1. CASE EndFragment(f) BY <2>1, CtxEnd
    <2>2. CASE ~EndFragment(f)
        <3>1. Counted' = Counted BY <1>2, <2>2, CalmThread, CountedCalm
        <3>2. UNCHANGED <<active, second>>
            BY <1>2, <2>2 DEF ThreadStep, RegisterCompletion, CheckCanceled, DriversAbort,
                  WaitReturns, CloseOwn, Unregister, BuildFails, DriverFails, DriversFinish
        <3> QED BY <3>1, <3>2, CtxKeep
    <2> QED BY <2>1, <2>2
<1>3. ASSUME NEW c \in Cancellers, CancelStep(c) PROVE CtxOK'
    <2>1. Counted' = Counted BY <1>3, CalmCancel, CountedCalm
    <2>2. CASE CancelQuery(c)
        <3>1. /\ active'.count = active.count /\ active'.num = active.num
              /\ active'.there = active.there /\ second'.count = second.count
              /\ second'.num = second.num /\ second'.there = second.there
            BY <1>a, <2>2 DEF CancelQuery, Ctx
        <3> QED BY <2>1, <3>1, CtxKeep
    <2>3. CASE ~CancelQuery(c)
        <3>1. UNCHANGED <<active, second>>
            BY <1>3, <2>3 DEF CancelStep, AbortOne, FragmentTells, CancelTells,
                  CancelUnregisters
        <3> QED BY <2>1, <3>1, CtxKeep
    <2> QED BY <2>2, <2>3
<1>4. CASE (\E f \in Finsts : CancelLookup(f)) \/ InsertBatch \/ Fetch \/ CleanExpired
    <2>1. Counted' = Counted BY <1>4, CalmOther, CountedCalm
    <2>2. CASE CleanExpired
        BY <2>1, <2>2 DEF CleanExpired, CtxOK, ContextHeld, NoCtx
    <2>3. CASE ~CleanExpired
        <3>1. UNCHANGED <<active, second>>
            BY <1>4, <2>3 DEF CancelLookup, InsertBatch, Fetch
        <3> QED BY <2>1, <3>1, CtxKeep
    <2> QED BY <2>2, <2>3
<1> QED BY <1>1, <1>2, <1>3, <1>4 DEF QNext, Reqs

-----------------------------------------------------------------------------
(* What goes through the result buffer.                                    *)

LEMMA StreamInit == ASSUME QInit PROVE StreamOK
<1>1. plan.batches \in Nat BY PlanFacts DEF QInit
<1>2. Root \in Finsts BY QAssumption
<1> QED BY <1>1, <1>2 DEF QInit, StreamOK, Streamed, EosMeansAll, NoBlock

\* A step that inserts nothing and reads nothing.
LEMMA StreamKeep ==
    ASSUME StreamOK, SameSent, UNCHANGED <<plan, client>>,
           block'.queue = block.queue, block'.closed = block.closed,
           block'.cancelled = block.cancelled, block'.failed = block.failed
    PROVE  StreamOK'
<1>1. Root \in Finsts BY QAssumption
<1> QED BY <1>1 DEF StreamOK, Streamed, EosMeansAll, SameSent

\* A step that marks the buffer.
LEMMA StreamMarked ==
    ASSUME StreamOK, SameSent, UNCHANGED <<plan, client>>, block \in Block, NEW c,
           block' = Closed(c)
    PROVE  StreamOK'
<1>1. Root \in Finsts BY QAssumption
<1>2. block'.closed = block.closed /\ (block'.cancelled \/ block'.failed)
    BY DEF Closed, Block
<1> QED BY <1>1, <1>2 DEF StreamOK, EosMeansAll, SameSent

\* The result sink appends a batch.
LEMMA StreamInsert ==
    ASSUME QShape, StreamOK, InsertBatch
    PROVE  StreamOK'
<1>a. /\ frag \in [Finsts -> Thread] /\ block \in Block
      /\ client \in [pc : {"wait", "eos", "error"}, got : Seq(Nat)] /\ Root \in Finsts
    BY QAssumption DEF QShape
<1>b. UNCHANGED <<plan, client>> BY DEF InsertBatch, FragRest
<1>c. plan.batches \in Nat BY PlanFacts DEF QShape
<1> DEFINE q == block.queue
           m == frag[Root].sent
<1>1. q \in Seq(Nat) /\ m \in Nat /\ m < plan.batches /\ client.got \in Seq(Nat)
    BY <1>a DEF InsertBatch, Block, Thread
<1>2. /\ frag'[Root].sent = m + 1
      /\ \A f \in Finsts : f # Root => frag'[f].sent = frag[f].sent
    BY <1>a DEF InsertBatch, Thread
<1>3. /\ block'.queue = Append(q, m + 1) /\ block'.closed = block.closed
      /\ block'.cancelled = block.cancelled /\ block'.failed = block.failed
    BY <1>a DEF InsertBatch, Block
<1>4. \A f \in Finsts : frag'[f].sent <= plan.batches
    BY <1>1, <1>2, <1>c DEF StreamOK
<1>5. ~block.closed
    BY <1>1, <1>c DEF StreamOK
<1>6. ASSUME Streamed PROVE Streamed'
    <2>1. /\ Len(Append(q, m + 1)) = Len(q) + 1 /\ Append(q, m + 1)[Len(q) + 1] = m + 1
          /\ \A i \in 1..Len(q) : Append(q, m + 1)[i] = q[i]
        BY <1>1
    <2>2. Len(q) \in Nat /\ Len(client.got) \in Nat /\ Len(client.got) + Len(q) = m
        <3>1. Len(q) \in Nat /\ Len(client.got) \in Nat BY <1>1
        <3> QED BY <3>1, <1>6 DEF Streamed
    <2>3. Len(client.got) + (Len(q) + 1) = m + 1
        <3>1. ASSUME NEW a \in Nat, NEW b \in Nat PROVE a + (b + 1) = (a + b) + 1
            OBVIOUS
        <3> HIDE DEF q, m
        <3> QED BY <2>2, <3>1
    <2>4. \A i \in 1..(Len(q) + 1) : Append(q, m + 1)[i] = Len(client.got) + i
        <3> TAKE i \in 1..(Len(q) + 1)
        <3>1. CASE i = Len(q) + 1
            <4>1. Append(q, m + 1)[i] = m + 1 BY <2>1, <3>1
            <4>2. m + 1 = Len(client.got) + i BY <2>3, <3>1
            <4> QED BY <4>1, <4>2
        <3>2. CASE i \in 1..Len(q) BY <2>1, <3>2, <1>6 DEF Streamed
        <3> QED BY <2>2, <3>1, <3>2
    <2>5. \A i \in 1..Len(client.got) : client.got[i] = i BY <1>6 DEF Streamed
    <2> HIDE DEF q, m
    <2> QED BY <1>2, <1>3, <1>b, <2>1, <2>3, <2>4, <2>5 DEF Streamed
<1> QED BY <1>3, <1>4, <1>5, <1>6, <1>b DEF StreamOK, EosMeansAll

\* close_ok comes after the last batch.
LEMMA StreamFinish ==
    ASSUME QShape, StreamOK, NEW f \in Finsts, DriversFinish(f)
    PROVE  StreamOK'
<1>a. frag \in [Finsts -> Thread] /\ block \in Block /\ Root \in Finsts
    BY QAssumption DEF QShape
<1>b. UNCHANGED <<plan, client>> BY DEF DriversFinish, FragRest
<1>1. SameSent BY <1>a DEF DriversFinish, SameSent, Thread
<1>2. CASE f # Root
    <2>1. UNCHANGED block BY <1>2 DEF DriversFinish
    <2> QED BY <1>1, <1>b, <2>1, StreamKeep
<1>3. CASE f = Root
    <2>1. /\ block'.queue = block.queue /\ block'.cancelled = block.cancelled
          /\ block'.failed = block.failed /\ frag[Root].sent = plan.batches
        BY <1>a, <1>3 DEF DriversFinish, Block
    <2> QED BY <1>1, <1>a, <1>b, <2>1 DEF StreamOK, Streamed, EosMeansAll, SameSent
<1> QED BY <1>2, <1>3

\* The client reads the head of the queue, or is told of an error, or of the end when
\* nothing is queued and the sink has closed.
LEMMA StreamFetch ==
    ASSUME QShape, StreamOK, Fetch
    PROVE  StreamOK'
<1>a. /\ frag \in [Finsts -> Thread] /\ block \in Block /\ Root \in Finsts
      /\ client \in [pc : {"wait", "eos", "error"}, got : Seq(Nat)]
    BY QAssumption DEF QShape
<1>b. UNCHANGED <<plan, frag>> /\ client.pc = "wait" BY DEF Fetch
<1>c. plan.batches \in Nat BY PlanFacts DEF QShape
<1> DEFINE q == block.queue
           g == client.got
<1>d. q \in Seq(Nat) /\ g \in Seq(Nat) BY <1>a DEF Block
<1>1. CASE block' = NoBlock /\ client' = [client EXCEPT !.pc = "error"]
    <2>1. client'.pc = "error" /\ ~block'.closed BY <1>1, <1>a DEF NoBlock
    <2> QED BY <2>1, <1>b DEF StreamOK, EosMeansAll
<1>2. CASE /\ q # <<>> /\ ~block.cancelled /\ ~block.failed
           /\ block' = [block EXCEPT !.queue = Tail(@)]
           /\ client' = [client EXCEPT !.got = Append(@, Head(block.queue))]
    <2>1. block'.queue = Tail(q) /\ block'.closed = block.closed
        BY <1>2, <1>a DEF Block
    <2>2. client'.got = Append(g, Head(q)) /\ client'.pc = "wait"
        BY <1>2, <1>a, <1>b
    <2>3. Streamed BY <1>2, <1>b DEF StreamOK
    <2>4. /\ Len(q) \in Nat \ {0} /\ Len(g) \in Nat /\ Len(Tail(q)) = Len(q) - 1
          /\ \A i \in 1..(Len(q) - 1) : Tail(q)[i] = q[i + 1]
          /\ Head(q) = q[1]
        BY <1>2, <1>d
    <2>5. /\ Len(Append(g, Head(q))) = Len(g) + 1
          /\ Append(g, Head(q))[Len(g) + 1] = Head(q)
          /\ \A i \in 1..Len(g) : Append(g, Head(q))[i] = g[i]
        <3>1. Head(q) \in Nat BY <1>2, <1>d
        <3> QED BY <1>d, <3>1
    <2>6. Head(q) = Len(g) + 1 BY <2>3, <2>4 DEF Streamed
    <2>7. \A i \in 1..(Len(g) + 1) : Append(g, Head(q))[i] = i
        <3> TAKE i \in 1..(Len(g) + 1)
        <3>1. CASE i = Len(g) + 1 BY <2>5, <2>6, <3>1
        <3>2. CASE i \in 1..Len(g) BY <2>3, <2>5, <3>2 DEF Streamed
        <3> QED BY <2>4, <3>1, <3>2
    <2>8. \A i \in 1..(Len(q) - 1) : Tail(q)[i] = (Len(g) + 1) + i
        <3> TAKE i \in 1..(Len(q) - 1)
        <3>1. i + 1 \in 1..Len(q) BY <2>4
        <3>2. q[i + 1] = Len(g) + (i + 1) BY <2>3, <3>1 DEF Streamed
        <3>3. Tail(q)[i] = Len(g) + (i + 1) BY <2>4, <3>2
        <3> HIDE DEF q, g
        <3> QED BY <2>4, <3>3
    <2>9. (Len(g) + 1) + (Len(q) - 1) = frag[Root].sent
        <3>1. Len(g) + Len(q) = frag[Root].sent BY <2>3 DEF Streamed
        <3> HIDE DEF q, g
        <3> QED BY <2>4, <3>1
    <2>10. Streamed'
        BY <1>b, <2>1, <2>2, <2>4, <2>5, <2>7, <2>8, <2>9 DEF Streamed
    <2> QED BY <1>b, <2>1, <2>2, <2>10 DEF StreamOK, EosMeansAll
<1>3. CASE /\ q = <<>> /\ ~block.cancelled /\ ~block.failed /\ block.closed
           /\ UNCHANGED block /\ client' = [client EXCEPT !.pc = "eos"]
    <2>1. Streamed /\ frag[Root].sent = plan.batches BY <1>3, <1>b DEF StreamOK
    <2>2. Len(g) = plan.batches /\ \A i \in 1..Len(g) : g[i] = i
        <3>1. Len(q) = 0 /\ Len(g) \in Nat BY <1>3, <1>d
        <3> QED BY <2>1, <3>1 DEF Streamed
    <2>3. g = [i \in 1..plan.batches |-> i]
        <3>1. DOMAIN g = 1..plan.batches /\ g = [i \in DOMAIN g |-> g[i]]
            BY <2>2, <1>d
        <3> QED BY <2>2, <3>1
    <2>4. client'.pc = "eos" /\ client'.got = g BY <1>3, <1>a
    <2> QED BY <1>3, <1>b, <2>3, <2>4 DEF StreamOK, EosMeansAll
<1> QED BY <1>1, <1>2, <1>3 DEF Fetch

LEMMA StreamStep ==
    ASSUME QShape, ReqOK, TellOK, StreamOK, QNext
    PROVE  StreamOK'
<1>a. block \in Block /\ frag \in [Finsts -> Thread] BY DEF QShape
<1>1. ASSUME NEW r \in DOMAIN plan.reqs, RequestStep(r) \/ Invalid(r) PROVE StreamOK'
    <2>1. UNCHANGED <<plan, client>>
        BY <1>1 DEF RequestStep, Missing, EnsureContext, SetTable, CountFragment,
              ObserveTotal, Spawn, Invalid, QRest
    <2>2. /\ block'.queue = block.queue /\ block'.closed = block.closed
          /\ block'.cancelled = block.cancelled /\ block'.failed = block.failed
        BY <1>1, <1>a DEF RequestStep, Missing, EnsureContext, SetTable, CountFragment,
              ObserveTotal, Spawn, Invalid, Block
    <2>3. SameSent
        <3>1. CASE UNCHANGED frag BY <3>1 DEF SameSent
        <3>2. CASE ~UNCHANGED frag
            <4>1. FragTo(At(r), "counted") \/ FragTo(At(r), "lost") \/ FragTo(At(r), "spawned")
                BY <1>1, <3>2 DEF RequestStep, Missing, EnsureContext, SetTable,
                      CountFragment, ObserveTotal, Spawn, Invalid, FragTo
            <4> QED BY <4>1, <1>a DEF FragTo, Thread, SameSent
        <3> QED BY <3>1, <3>2
    <2> QED BY <2>1, <2>2, <2>3, StreamKeep
<1>2. ASSUME NEW f \in Finsts,
             ThreadStep(f) \/ BuildFails(f) \/ DriverFails(f) \/ DriversFinish(f)
      PROVE  StreamOK'
    <2>1. CASE DriversFinish(f) BY <2>1, StreamFinish
    <2>2. CASE ~DriversFinish(f)
        <3>1. UNCHANGED <<plan, client>> /\ (UNCHANGED block \/ block' = Closed(f))
            BY <1>2, <2>2 DEF ThreadStep, RegisterCompletion, CheckCanceled, DriversAbort,
                  WaitReturns, CloseOwn, Unregister, EndFragment, BuildFails, DriverFails,
                  FragRest
        <3>2. SameSent
            <4>1. CASE EndFragment(f) BY <4>1, <1>a, PcAfter DEF EndFragment, Moved, SameSent
            <4> QED BY <1>2, <4>1, CalmThread
        <3> QED BY <1>a, <3>1, <3>2, StreamKeep, StreamMarked
    <2> QED BY <2>1, <2>2
<1>3. ASSUME NEW c \in Cancellers, CancelStep(c) PROVE StreamOK'
    <2>1. SameSent BY <1>3, CalmCancel
    <2>2. UNCHANGED <<plan, client>> /\ (UNCHANGED block \/ block' = Closed(c))
        BY <1>3 DEF CancelStep, CancelQuery, AbortOne, FragmentTells, CancelTells,
              CancelUnregisters, CancelRest
    <2> QED BY <1>a, <2>1, <2>2, StreamKeep, StreamMarked
<1>4. ASSUME NEW f \in Finsts, CancelLookup(f) PROVE StreamOK'
    BY <1>4, StreamKeep DEF CancelLookup, CancelRest, SameSent
<1>5. CASE CleanExpired
    BY <1>5, StreamKeep DEF CleanExpired, SameSent
<1> QED BY <1>1, <1>2, <1>3, <1>4, <1>5, StreamInsert, StreamFetch DEF QNext, Reqs

-----------------------------------------------------------------------------
(* The theorems.                                                           *)

\* The inductive invariant holds in every reachable state.
THEOREM QueryInvariance == QSpec => []QInv
<1>1. QInit => QInv
    <2> SUFFICES ASSUME QInit PROVE QInv OBVIOUS
    <2>1. TellOK BY DEF QInit, TellOK, NoCancel
    <2> QED BY <2>1, ShapeInit, ReqInit, CtxInit, StreamInit DEF QInv
<1>2. QInv /\ [QNext]_queryVars => QInv'
    <2> SUFFICES ASSUME QInv, [QNext]_queryVars PROVE QInv' OBVIOUS
    <2>1. CASE QNext
        BY <2>1, ShapeStep, ReqStep, TellStep, CtxStep, StreamStep DEF QInv
    <2>2. CASE UNCHANGED queryVars
        BY <2>2 DEF queryVars, QInv, QShape, ReqOK, Named, At, TellOK, CtxOK, ContextHeld,
              Counted, StreamOK, Streamed, EosMeansAll
    <2> QED BY <2>1, <2>2
<1> QED BY <1>1, <1>2, PTL DEF QSpec

\* QueryContextManager: a query whose instances have not all ended has its context, in
\* active, and the context's count is the number of those instances, through second
\* chances, cancellations, failed submissions and clean_expired.
THEOREM ContextIsHeld == QSpec => []ContextHeld
<1>1. QInv => ContextHeld BY DEF QInv, CtxOK
<1> QED BY <1>1, QueryInvariance, PTL

\* The result buffer: a client that is told eos has read every batch of the result, in
\* order.
THEOREM EosIsComplete == QSpec => []EosMeansAll
<1>1. QInv => EosMeansAll BY DEF QInv, StreamOK
<1> QED BY <1>1, QueryInvariance, PTL

\* Contexts, buffers, instances and cancellations are well formed; no context counts
\* more instances than the query has.
THEOREM QueryTypeCorrect == QSpec => []QTypeOK
<1>1. QInv => QTypeOK
    <2> SUFFICES ASSUME QInv PROVE QTypeOK OBVIOUS
    <2>1. QShape /\ CtxOK /\ StreamOK BY DEF QInv
    <2>2. /\ active.count \in 0..Cardinality(Finsts) /\ active.num >= active.count
          /\ second.count \in 0..Cardinality(Finsts) /\ second.num >= second.count
        BY <2>1, CountedFinite DEF CtxOK, ContextHeld
    <2>3. \A f \in Finsts : frag[f].pc \in Pcs /\ frag[f].sent \in 0..plan.batches
        BY <2>1, PlanFacts DEF QShape, StreamOK, Thread
    <2>4. \A c \in Cancellers : /\ canceller[c].pc \in {"idle", "lock", "tell", "drop"}
                                /\ canceller[c].aborts \subseteq Finsts
                                /\ canceller[c].closes \in BOOLEAN
        BY <2>1 DEF QShape, Cancel
    <2> QED BY <2>1, <2>2, <2>3, <2>4 DEF QTypeOK, QShape
<1> QED BY <1>1, QueryInvariance, PTL

====
