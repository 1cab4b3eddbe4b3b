--------------------------- MODULE QueryLifecycle ---------------------------
(***************************************************************************)
(* One query on a compute node: the requests of the FE that bring its      *)
(* fragment instances, the query's context in QueryContextManager, the     *)
(* thread that runs each instance, the calls that cancel the query (the    *)
(* FE's, a failing driver's, a failed fragment's) and the result buffer    *)
(* that the client reads.                                                  *)
(*                                                                         *)
(* Each method of the manager and of the result buffers is one section of  *)
(* a lock, hence one step.  Between cancel_query's section and the aborts  *)
(* that follow it the query goes on.  How drivers run is the subject of    *)
(* PipelineScheduler: here they end once the fragment is aborted, and may  *)
(* end by themselves.                                                      *)
(***************************************************************************)
EXTENDS Naturals, Sequences, FiniteSets

CONSTANTS
    Finsts,    \* the fragment instances of the query on this node
    Root,      \* the instance with the RESULT_SINK
    QRequests, \* bound: the identifiers of requests
    QPlans     \* what a behaviour does: [reqs, batches, cancels, fails, invalid]

\* reqs: the requests of the FE, each [finsts, batch, cached]: exec_batch_plan_fragments
\* or exec_plan_fragment, with a descriptor table of its own or the cached one;
\* batches: the length of the result; cancels: the instances that the FE may cancel,
\* each once; fails, invalid: bounds on failing fragments and on submissions that
\* fail after the fragment was counted.  The FE names an instance in one request, once:
\* nothing in the service looks for an instance that has come before.
SentOnce(reqs) ==
    \A r, s \in DOMAIN reqs : \A i \in DOMAIN reqs[r].finsts, j \in DOMAIN reqs[s].finsts :
        reqs[r].finsts[i] = reqs[s].finsts[j] => r = s /\ i = j

ASSUME QAssumption ==
    /\ IsFiniteSet(Finsts) /\ Finsts \subseteq Nat \ {0} /\ Root \in Finsts
    /\ \A p \in QPlans : /\ DOMAIN p.reqs \subseteq QRequests
                         /\ p.batches \in Nat /\ p.cancels \subseteq Finsts
                         /\ p.fails \in Nat /\ p.invalid \in Nat
                         /\ \A r \in DOMAIN p.reqs : p.reqs[r].finsts \in Seq(Finsts)
                         /\ SentOnce(p.reqs)

VARIABLES
    plan,     \* the behaviour's requests and bounds
    active,   \* the query's entry in active
    second,   \* its entry in second_chance
    known,    \* the instances in finst_to_query
    comps,    \* the instances in fragment_completions
    block,    \* the root's BufferControlBlock; nobody reads the others
    req,      \* the requests: the next call and the instance it is at
    frag,     \* each instance: its thread, its completion's error, batches inserted
    canceller, \* the cancellation that the FE, or an instance's thread, is carrying out
    client,   \* the reader of the root's results
    doomed,   \* history: instances in the context when a cancel_query marked it
    orphaned, \* history: instances that a cancel of an unknown instance unregistered
    spent     \* the cancels, fails and invalid so far

ctxVars == <<active, second>>
regVars == <<known, comps>>
histVars == <<doomed, orphaned>>
queryVars == <<plan, ctxVars, regVars, block, req, frag, canceller, client, histVars, spent>>

NoCtx == [count |-> 0, num |-> 0, total |-> 0, cancelled |-> FALSE, there |-> FALSE]
NewCtx == [NoCtx EXCEPT !.there = TRUE]
NoBlock == [there |-> FALSE, queue |-> <<>>, closed |-> FALSE, failed |-> FALSE,
            cancelled |-> FALSE]
NoCancel == [pc |-> "idle", at |-> Root, known |-> TRUE, aborts |-> {}, closes |-> FALSE]
FE == 0
Cancellers == {FE} \cup Finsts

QInit ==
    /\ plan \in QPlans
    /\ active = NoCtx /\ second = NoCtx /\ known = {} /\ comps = {}
    /\ block = NoBlock
    /\ req = [r \in DOMAIN plan.reqs |->
                [pc |-> IF plan.reqs[r].batch THEN "ensure" ELSE "count", i |-> 1]]
    /\ frag = [f \in Finsts |-> [pc |-> "none", error |-> FALSE, ok |-> FALSE, sent |-> 0]]
    /\ canceller = [c \in Cancellers |-> NoCancel]
    /\ client = [pc |-> "wait", got |-> <<>>]
    /\ doomed = {} /\ orphaned = {}
    /\ spent = [cancels |-> {}, fails |-> 0, invalid |-> 0]

-----------------------------------------------------------------------------
(* QueryContextManager.                                                    *)

\* Mutant: only the active instances are counted.
ActiveOnly(ctx, by) == [ctx EXCEPT !.count = @ + by]

\* increment_num_fragments
Incremented(ctx, by) == [ctx EXCEPT !.num = @ + by, !.count = @ + by]

\* Mutant: a context that comes back from its second chance is not counted up.
ReviveUncounted(by) ==
    /\ active' = IF active.there THEN Incremented(active, by)
                 ELSE IF second.there THEN second ELSE Incremented(NewCtx, by)
    /\ second' = IF active.there THEN second ELSE NoCtx

\* get_or_register_internal, when it finds or may create the context.
GetOrRegister(by) ==
    /\ active' = IF active.there THEN Incremented(active, by)
                 ELSE IF second.there THEN Incremented(second, by)
                 ELSE Incremented(NewCtx, by)
    /\ second' = IF active.there THEN second ELSE NoCtx

IsDead(ctx) ==
    ctx.count = 0 /\ (ctx.cancelled \/ (ctx.total > 0 /\ ctx.num >= ctx.total))

\* Mutant: a dead context goes back to active.
KeepDead ==
    IF ~active.there THEN UNCHANGED ctxVars
    ELSE LET n == IF active.count > 0 THEN active.count - 1 ELSE 0
             left == [active EXCEPT !.count = n]
         IN  IF n = 0 /\ ~IsDead(left) THEN active' = NoCtx /\ second' = left
             ELSE active' = left /\ UNCHANGED second

\* finish_fragment
FinishFragment ==
    IF ~active.there THEN UNCHANGED ctxVars
    ELSE LET n == IF active.count > 0 THEN active.count - 1 ELSE 0
             left == [active EXCEPT !.count = n]
         IN  IF IsDead(left) THEN active' = NoCtx /\ UNCHANGED second
             ELSE IF n = 0 THEN active' = NoCtx /\ second' = left
             ELSE active' = left /\ UNCHANGED second

IsQueryCanceled == IF active.there THEN active.cancelled ELSE second.cancelled

\* clean_expired: the context's delivery deadline has passed.
CleanExpired ==
    /\ second.there /\ second.count = 0
    /\ second' = NoCtx
    /\ UNCHANGED <<plan, active, regVars, block, req, frag, canceller, client, histVars, spent>>

-----------------------------------------------------------------------------
(* The requests: submit_exec_batch_plan_fragments and                      *)
(* submit_exec_plan_fragment.                                              *)

Reqs == DOMAIN plan.reqs
At(r) == plan.reqs[r].finsts[req[r].i]
QStep(r, pc) == req' = [req EXCEPT ![r].pc = pc]
QRest == UNCHANGED <<plan, canceller, client, histVars>>

\* The FE's table is cached, but the context that holds it has gone.
Missing(r) ==
    /\ req[r].pc = "ensure" \/ (req[r].pc = "count" /\ ~plan.reqs[r].batch)
    /\ plan.reqs[r].cached /\ ~active.there /\ ~second.there
    /\ QStep(r, "failed")
    /\ QRest /\ UNCHANGED <<ctxVars, regVars, block, frag, spent>>

\* ensure_context
EnsureContext(r) ==
    /\ req[r].pc = "ensure"
    /\ plan.reqs[r].cached => active.there \/ second.there
    /\ GetOrRegister(0)
    /\ QStep(r, IF plan.reqs[r].cached THEN "count" ELSE "table")
    /\ QRest /\ UNCHANGED <<regVars, block, frag, spent>>

\* with_context_mut stores the descriptor table; the context may have left active.
SetTable(r) ==
    /\ req[r].pc = "table"
    /\ QStep(r, IF active.there THEN "count" ELSE "failed")
    /\ QRest /\ UNCHANGED <<ctxVars, regVars, block, frag, spent>>

\* get_or_register for one instance
CountFragment(r) ==
    /\ req[r].pc = "count" /\ req[r].i <= Len(plan.reqs[r].finsts)
    /\ plan.reqs[r].cached /\ ~plan.reqs[r].batch => active.there \/ second.there
    /\ GetOrRegister(1)
    /\ frag' = [frag EXCEPT ![At(r)].pc = "counted"]
    /\ QStep(r, "observe")
    /\ QRest /\ UNCHANGED <<regVars, block, spent>>

\* set_cache_options, observe_total_fragments and the other uses of the context
ObserveTotal(r) ==
    /\ req[r].pc = "observe"
    /\ IF active.there
       THEN /\ active' = [active EXCEPT !.total = Cardinality(Finsts)]
            /\ QStep(r, "spawn") /\ UNCHANGED frag
       ELSE /\ QStep(r, "failed") /\ frag' = [frag EXCEPT ![At(r)].pc = "lost"]
            /\ UNCHANGED active
    /\ QRest /\ UNCHANGED <<second, regVars, block, spent>>

\* validate_internal_addresses or another check fails: the request returns and the
\* instance stays counted.
Invalid(r) ==
    /\ req[r].pc = "spawn" /\ spent.invalid < plan.invalid
    /\ spent' = [spent EXCEPT !.invalid = @ + 1]
    /\ QStep(r, "failed") /\ frag' = [frag EXCEPT ![At(r)].pc = "lost"]
    /\ QRest /\ UNCHANGED <<ctxVars, regVars, block>>

\* spawn_exec_fragment: create_sender, register_finst, the thread.
Spawn(r) ==
    /\ req[r].pc = "spawn"
    /\ block' = IF At(r) = Root THEN [block EXCEPT !.there = TRUE] ELSE block
    /\ known' = known \cup {At(r)}
    /\ frag' = [frag EXCEPT ![At(r)].pc = "spawned"]
    /\ req' = [req EXCEPT ![r].pc = "count", ![r].i = @ + 1]
    /\ QRest /\ UNCHANGED <<ctxVars, comps, spent>>

-----------------------------------------------------------------------------
(* The thread of an instance: execute_fragment, then the tail of           *)
(* spawn_exec_fragment.                                                    *)

\* Mutant: the FE's cancel empties the result buffer without marking it.
ClosedUnmarked(c) ==
    [block EXCEPT !.there = TRUE, !.queue = <<>>, !.failed = @ \/ c # FE]

\* result_buffer::cancel by the FE, close_error by a fragment: the root's block is
\* emptied and marked, and created when the client has removed it.
Closed(c) ==
    [block EXCEPT !.there = TRUE, !.queue = <<>>,
                  !.cancelled = @ \/ c = FE, !.failed = @ \/ c # FE]

FragTo(f, pc) == frag' = [frag EXCEPT ![f].pc = pc]
FragRest == UNCHANGED <<plan, req, client, histVars>>

\* Lowering the plan or preparing an operator fails.
BuildFails(f) ==
    /\ frag[f].pc = "spawned" /\ spent.fails < plan.fails
    /\ spent' = [spent EXCEPT !.fails = @ + 1]
    /\ FragTo(f, "err")
    /\ FragRest /\ UNCHANGED <<ctxVars, regVars, block, canceller>>

\* register_fragment_completion
RegisterCompletion(f) ==
    /\ frag[f].pc = "spawned"
    /\ comps' = comps \cup {f}
    /\ FragTo(f, "registered")
    /\ FragRest /\ UNCHANGED <<ctxVars, known, block, canceller, spent>>

\* Mutant: the query is not asked again once the completion is registered.
CheckSkipped(f) ==
    /\ frag[f].pc = "registered"
    /\ FragTo(f, "running")
    /\ FragRest /\ UNCHANGED <<ctxVars, regVars, block, canceller, spent>>

\* is_query_canceled; the drivers are submitted in any case.
CheckCanceled(f) ==
    /\ frag[f].pc = "registered"
    /\ frag' = [frag EXCEPT ![f].pc = "running", ![f].error = @ \/ IsQueryCanceled]
    /\ FragRest /\ UNCHANGED <<ctxVars, regVars, block, canceller, spent>>

\* The result sink hands a batch to result_buffer::insert.
InsertBatch ==
    /\ frag[Root].pc = "running" /\ frag[Root].sent < plan.batches
    /\ frag' = [frag EXCEPT ![Root].sent = @ + 1]
    /\ block' = [block EXCEPT !.there = TRUE, !.queue = Append(@, frag[Root].sent + 1)]
    /\ FragRest /\ UNCHANGED <<ctxVars, regVars, canceller, spent>>

\* The drivers finish; the root's wait for the other instances' data, and its sink
\* calls close_ok.
DriversFinish(f) ==
    /\ frag[f].pc = "running"
    /\ f = Root => frag[f].sent = plan.batches /\ \A g \in Finsts \ {Root} : frag[g].ok
    /\ frag' = [frag EXCEPT ![f].pc = "ended", ![f].ok = TRUE]
    /\ block' = IF f = Root THEN [block EXCEPT !.there = TRUE, !.closed = TRUE] ELSE block
    /\ FragRest /\ UNCHANGED <<ctxVars, regVars, canceller, spent>>

DriversAbort(f) ==
    /\ frag[f].pc = "running" /\ frag[f].error
    /\ FragTo(f, "ended")
    /\ FragRest /\ UNCHANGED <<ctxVars, regVars, block, canceller, spent>>

\* A driver fails: FragmentCompletion::fail, which cancels the query if it is the
\* first to set the fragment's status.
DriverFails(f) ==
    /\ frag[f].pc = "running" /\ ~frag[f].error /\ spent.fails < plan.fails
    /\ spent' = [spent EXCEPT !.fails = @ + 1]
    /\ frag' = [frag EXCEPT ![f].error = TRUE, ![f].pc = "failing"]
    /\ canceller' = [canceller EXCEPT ![f] = [NoCancel EXCEPT !.pc = "lock"]]
    /\ FragRest /\ UNCHANGED <<ctxVars, regVars, block>>

\* FragmentCompletion::wait returns; unregister_fragment_completion.
WaitReturns(f) ==
    /\ frag[f].pc = "ended"
    /\ comps' = comps \ {f}
    /\ FragTo(f, IF frag[f].error THEN "err" ELSE "leave")
    /\ FragRest /\ UNCHANGED <<ctxVars, known, block, canceller, spent>>

\* The fragment failed: close_error of its own results, then cancel_query.
CloseOwn(f) ==
    /\ frag[f].pc = "err"
    /\ block' = IF f = Root THEN Closed(f) ELSE block
    /\ canceller' = [canceller EXCEPT ![f] = [NoCancel EXCEPT !.pc = "lock"]]
    /\ FragTo(f, "telling")
    /\ FragRest /\ UNCHANGED <<ctxVars, regVars, spent>>

\* unregister_finst, after the report
Unregister(f) ==
    /\ frag[f].pc = "leave"
    /\ known' = known \ {f} /\ comps' = comps \ {f}
    /\ FragTo(f, "finish")
    /\ FragRest /\ UNCHANGED <<ctxVars, block, canceller, spent>>

EndFragment(f) ==
    /\ frag[f].pc = "finish"
    /\ FinishFragment
    /\ FragTo(f, "over")
    /\ FragRest /\ UNCHANGED <<regVars, block, canceller, spent>>

-----------------------------------------------------------------------------
(* Cancellation.                                                           *)

CancelRest == UNCHANGED <<plan, req, client>>
Counted == {f \in Finsts : frag[f].pc \notin {"none", "over"}}

\* The FE's cancel looks the instance up; an unknown one is the only target.
CancelLookup(f) ==
    /\ canceller[FE].pc = "idle" /\ f \in plan.cancels \ spent.cancels
    /\ spent' = [spent EXCEPT !.cancels = @ \cup {f}]
    /\ canceller' = [canceller EXCEPT ![FE] =
                       IF f \in known THEN [NoCancel EXCEPT !.pc = "lock", !.at = f]
                       ELSE [NoCancel EXCEPT !.pc = "tell", !.at = f, !.known = FALSE,
                                             !.closes = (f = Root)]]
    /\ CancelRest /\ UNCHANGED <<ctxVars, regVars, block, frag, histVars>>

\* cancel_query, under the lock: mark the context and collect what there is to abort.
\* If the FE's instance has gone since it was looked up it is still a target.
CancelQuery(c) ==
    /\ canceller[c].pc = "lock"
    /\ active' = [active EXCEPT !.cancelled = @ \/ active.there]
    /\ second' = [second EXCEPT !.cancelled = @ \/ second.there]
    /\ canceller' = [canceller EXCEPT ![c].pc = "tell", ![c].aborts = known \cap comps,
                       ![c].closes = \/ Root \in known
                                     \/ c = FE /\ known = {} /\ canceller[c].at = Root]
    /\ doomed' = IF active.there \/ second.there THEN doomed \cup Counted ELSE doomed
    /\ CancelRest /\ UNCHANGED <<regVars, block, frag, orphaned, spent>>

\* abort_from_query, for one completion after the other
AbortOne(c, f) ==
    /\ canceller[c].pc = "tell" /\ f \in canceller[c].aborts
    /\ canceller' = [canceller EXCEPT ![c].aborts = @ \ {f}]
    /\ frag' = [frag EXCEPT ![f].error = @ \/ frag[f].pc \in
                  {"registered", "running", "failing", "ended"}]
    /\ CancelRest /\ UNCHANGED <<ctxVars, regVars, block, histVars, spent>>

Tells(c) == canceller[c].pc = "tell" /\ canceller[c].aborts = {}

\* then close_error of the results; the failing driver ends, or the fragment's
\* thread goes on to its report.
FragmentTells(f) ==
    /\ Tells(f)
    /\ block' = IF canceller[f].closes THEN Closed(f) ELSE block
    /\ canceller' = [canceller EXCEPT ![f] = NoCancel]
    /\ FragTo(f, IF frag[f].pc = "failing" THEN "running" ELSE "leave")
    /\ CancelRest /\ UNCHANGED <<ctxVars, regVars, histVars, spent>>

\* or result_buffer::cancel, and the FE's call ends.
CancelTells ==
    /\ Tells(FE)
    /\ block' = IF canceller[FE].closes THEN Closed(FE) ELSE block
    /\ canceller' = [canceller EXCEPT ![FE] =
                       IF canceller[FE].known THEN NoCancel ELSE [@ EXCEPT !.pc = "drop"]]
    /\ CancelRest /\ UNCHANGED <<ctxVars, regVars, frag, histVars, spent>>

\* A call for an unknown instance ends with unregister_finst, and the instance may
\* have come meanwhile.
CancelUnregisters ==
    /\ canceller[FE].pc = "drop"
    /\ LET f == canceller[FE].at
       IN  /\ known' = known \ {f} /\ comps' = comps \ {f}
           /\ orphaned' = orphaned \cup (known \cap {f})
    /\ canceller' = [canceller EXCEPT ![FE] = NoCancel]
    /\ CancelRest /\ UNCHANGED <<ctxVars, block, frag, doomed, spent>>

-----------------------------------------------------------------------------
(* The client: fetch_data until eos or an error.                           *)

\* try_fetch; the FE fetches once the root's request has returned.
Fetch ==
    LET b == block IN
    /\ client.pc = "wait" /\ frag[Root].pc \notin {"none", "counted", "lost"}
    /\ \/ /\ b.cancelled \/ b.failed \/ ~b.there
          /\ client' = [client EXCEPT !.pc = "error"]
          /\ block' = NoBlock
       \/ /\ b.there /\ ~b.cancelled /\ ~b.failed /\ b.queue # <<>>
          /\ client' = [client EXCEPT !.got = Append(@, Head(b.queue))]
          /\ block' = [block EXCEPT !.queue = Tail(@)]
       \/ /\ b.there /\ ~b.cancelled /\ ~b.failed /\ b.queue = <<>> /\ b.closed
          /\ client' = [client EXCEPT !.pc = "eos"]
          /\ UNCHANGED block
    /\ UNCHANGED <<plan, ctxVars, regVars, req, frag, canceller, histVars, spent>>

-----------------------------------------------------------------------------
RequestStep(r) ==
    \/ Missing(r) \/ EnsureContext(r) \/ SetTable(r) \/ CountFragment(r) \/ ObserveTotal(r)
    \/ Spawn(r)

\* What an instance's thread and its drivers do without being made to fail, once
\* aborted; drivers that are not aborted need not end.
ThreadStep(f) ==
    \/ RegisterCompletion(f) \/ CheckCanceled(f) \/ DriversAbort(f) \/ WaitReturns(f)
    \/ CloseOwn(f) \/ Unregister(f) \/ EndFragment(f)

CancelStep(c) ==
    \/ CancelQuery(c)
    \/ \E f \in Finsts : AbortOne(c, f)
    \/ c = FE /\ (CancelTells \/ CancelUnregisters)
    \/ c # FE /\ FragmentTells(c)

QNext ==
    \/ \E r \in Reqs : RequestStep(r) \/ Invalid(r)
    \/ \E f \in Finsts : ThreadStep(f) \/ BuildFails(f) \/ DriverFails(f) \/ DriversFinish(f)
    \/ InsertBatch
    \/ \E f \in Finsts : CancelLookup(f)
    \/ \E c \in Cancellers : CancelStep(c)
    \/ Fetch \/ CleanExpired

\* Threads run, aborted drivers end and the clean-up thread comes round.  Nothing has
\* to fail or be cancelled, a client need not fetch, drivers that nobody aborts need
\* not end.
QFairness ==
    /\ \A r \in QRequests : WF_queryVars(r \in Reqs /\ RequestStep(r))
    /\ \A f \in Finsts : WF_queryVars(ThreadStep(f))
    /\ \A c \in Cancellers : WF_queryVars(CancelStep(c))
    /\ WF_queryVars(CleanExpired)

QSpec == QInit /\ [][QNext]_queryVars /\ QFairness

-----------------------------------------------------------------------------
Pcs == {"none", "counted", "lost", "spawned", "registered", "running", "failing", "ended",
        "err", "telling", "leave", "finish", "over"}

\* Contexts, buffers, instances and cancellations are well formed.
QTypeOK ==
    /\ \A ctx \in {active, second} : /\ ctx.count \in 0..Cardinality(Finsts)
                                     /\ ctx.num >= ctx.count
    /\ known \subseteq Finsts /\ comps \subseteq Finsts
    /\ \A f \in Finsts : frag[f].pc \in Pcs /\ frag[f].sent \in 0..plan.batches
    /\ \A c \in Cancellers : /\ canceller[c].pc \in {"idle", "lock", "tell", "drop"}
                             /\ canceller[c].aborts \subseteq Finsts
                             /\ canceller[c].closes \in BOOLEAN
    /\ client.pc \in {"wait", "eos", "error"} /\ doomed \subseteq Finsts

\* As long as an instance that was counted has not ended the query has one context,
\* it is active, and its count is the number of those instances: no instance loses
\* its context to another's finish_fragment or to clean_expired, whatever comes back
\* from its second chance.
ContextHeld ==
    /\ ~(active.there /\ second.there)
    /\ second.count = 0
    /\ active.count = Cardinality(Counted)
    /\ Counted # {} => active.there

\* A client that is told eos has read every batch, in order: a cancellation or an
\* error that empties the result buffer is seen before the sink's close_ok.
EosMeansAll ==
    client.pc = "eos" => client.got = [i \in 1..plan.batches |-> i]

\* A cancellation reaches every instance counted in the context that it marks,
\* wherever the instance is between its registration and the end of its drivers,
\* unless a cancel of the yet unknown instance has unregistered it.
CancelReaches ==
    \A f \in Finsts : f \in doomed ~> (frag[f].pc \in {"over", "lost"} \/ f \in orphaned)

Settled == \A f \in Finsts : frag[f].pc \in {"none", "over"}

\* Once the requests have returned without an error and their instances have ended,
\* the query's context goes away.
ContextsReclaimed ==
    (Settled /\ \A r \in Reqs : req[r].pc = "count" /\ req[r].i > Len(plan.reqs[r].finsts))
        ~> (~active.there /\ ~second.there)
=============================================================================
