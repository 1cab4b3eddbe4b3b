------------------------- MODULE PipelineScheduler -------------------------
(***************************************************************************)
(* The pipeline execution core of one fragment instance: the worker        *)
(* threads of the global driver executor, the event scheduler thread that  *)
(* wakes parked drivers, the pending-finish poller, the observers that     *)
(* producers and consumers fire, and the fragment completion that counts   *)
(* drivers down and spreads a failure.                                     *)
(*                                                                         *)
(* A driver task is owned by one place at a time: the run queue, a thread, *)
(* the blocked map, the poller, or nobody once it has been counted done.   *)
(* Operators are abstracted to the facts the scheduler asks of them: does  *)
(* the source have output, does the sink need input, is a chunk buffered   *)
(* on the edge between them, is asynchronous I/O still running.            *)
(***************************************************************************)
EXTENDS Naturals, Sequences, FiniteSets

CONSTANTS
    Drivers,          \* driver tasks of the fragment
    Workers,          \* threads of the GlobalDriverExecutor
    NoDriver,         \* a thread that holds no task; also "no build side"
    BuildOf,          \* BuildOf[d]: driver whose finishing readies d's dependency
    Observed,         \* drivers whose source and sink expose an observable
    ExchangeSourced,  \* drivers whose source is an exchange receiver
    AsyncIo,          \* drivers whose sink works asynchronously
    Chunks,           \* bound: Chunks[d] chunks are produced for driver d
    MayFail,          \* operators may return an error
    MayPanic,         \* operators may panic (caught by worker_loop)
    MayCancel         \* the query may be cancelled from outside

Sched == "sched"          \* the event_scheduler thread
Poller == "poller"        \* the blocked_driver_poller thread
Canceller == "canceller"  \* a thread that cancels the query
Threads == Workers \cup {Sched, Poller, Canceller}

ASSUME SchedulerAssumption ==
    /\ IsFiniteSet(Drivers) /\ Drivers # {} /\ NoDriver \notin Drivers
    /\ Workers \cap {Sched, Poller, Canceller} = {}
    /\ BuildOf \in [Drivers -> Drivers \cup {NoDriver}]
    /\ Observed \subseteq Drivers /\ ExchangeSourced \subseteq Drivers
    /\ AsyncIo \subseteq Drivers /\ Chunks \in [Drivers -> Nat]
    /\ MayFail \in BOOLEAN /\ MayPanic \in BOOLEAN /\ MayCancel \in BOOLEAN

VARIABLES
    runq,       \* executor queue: sequence of drivers
    blocked,    \* EventScheduler.blocked: drivers parked in the map
    rq,         \* EventScheduler.reschedule_queue: driver keys, stale ones too
    shutdown,   \* EventScheduler.shutdown
    pc,         \* what each thread does next
    task,       \* the driver each thread holds
    snap,       \* keys a thread has copied out of the blocked map
    first,      \* whether the thread was first to set the final status
    poll,       \* the poller's [pending, aborted, ready] tasks
    dstate,     \* PipelineDriver.state
    final,      \* PipelineDriver.pending_finish_state
    inBlocked,  \* DriverScheduleState.in_blocked
    events,     \* notifications whose PipelineObserver.do_update has not run
    src,        \* per source: [left, avail, eos] chunks to come, to read, end
    edge,       \* chunk buffered on the driver's edge
    sink,       \* per sink: [full, finishing]
    io,         \* Operator::pending_finish() of the driver's operators
    dep,        \* per build driver: [ready, waiters] of its Dependency
    ctxError,   \* FragmentContext.final_error, also RuntimeState error
    compl,      \* FragmentCompletion: [remaining, aborting]
    done,       \* history: drivers for which driver_finished() was called
    result      \* what FragmentCompletion::wait returned to the caller

schedVars == <<runq, blocked, rq, shutdown, inBlocked, events>>
threadVars == <<pc, task, snap, first, poll>>
driverVars == <<dstate, final, src, edge, sink, io, dep>>
complVars == <<ctxError, compl, done, result>>
vars == <<schedVars, threadVars, driverVars, complVars>>

BlockedReasons == {"InputEmpty", "OutputFull", "Dependency"}
DriverStates == {"Ready", "Running", "PendingFinish", "Finished", "Failed"}
                    \cup BlockedReasons
PCs == {"idle", "check", "run", "slice", "classify", "depnotify", "requeue",
        "park", "mark", "markdep", "wait", "recheck", "self", "probe", "reinsert",
        "status", "snap", "push", "abort", "query", "fin", "shut", "join",
        "exit"}

Keys(q) == {q[i] : i \in DOMAIN q}

\* All the orders in which the members of S can be pushed (HashMap order).
Orderings(S) == {f \in [1..Cardinality(S) -> S] : Keys(f) = S}

-----------------------------------------------------------------------------
(* Initial state: submit() has pushed every task and registered observers.  *)
Init ==
    /\ runq \in Orderings(Drivers)
    /\ blocked = {} /\ rq = << >> /\ shutdown = FALSE
    /\ pc = [t \in Threads |-> "idle"]
    /\ task = [t \in Threads |-> NoDriver]
    /\ snap = [t \in Threads |-> {}]
    /\ first = [t \in Threads |-> FALSE]
    /\ poll = [pending |-> {}, aborted |-> {}, ready |-> {}]
    /\ dstate = [d \in Drivers |-> "Ready"]
    /\ final = [d \in Drivers |-> "none"]
    /\ inBlocked = [d \in Drivers |-> FALSE]
    /\ events = [d \in Drivers |-> 0]
    /\ src = [d \in Drivers |-> [left |-> Chunks[d], avail |-> 0, eos |-> FALSE]]
    /\ edge = [d \in Drivers |-> FALSE]
    /\ sink = [d \in Drivers |-> [full |-> FALSE, finishing |-> FALSE]]
    /\ io = [d \in Drivers |-> FALSE]
    /\ dep = [b \in Drivers |-> [ready |-> FALSE, waiters |-> {}]]
    /\ ctxError = FALSE
    /\ compl = [remaining |-> Cardinality(Drivers), aborting |-> FALSE]
    /\ done = {} /\ result = "waiting"

-----------------------------------------------------------------------------
(* What the scheduler asks of a driver's operators.                         *)
HasOutput(d) == src[d].avail > 0
SourceFinished(d) == src[d].eos /\ src[d].avail = 0
SinkFinished(d) == sink[d].finishing /\ ~sink[d].full
NeedInput(d) == ~sink[d].full /\ ~sink[d].finishing
DepBlocked(d) == BuildOf[d] # NoDriver /\ ~dep[BuildOf[d]].ready

\* PipelineDriver::check_is_ready. has_ready_finishing_work() is left out: an
\* edge closes and its sink is told to finish in one pass of the loop, so no
\* parked two-operator driver has such work.
CheckIsReady(d) ==
    CASE dstate[d] = "InputEmpty" ->
            HasOutput(d) \/ SourceFinished(d) \/ SinkFinished(d)
      [] dstate[d] = "OutputFull" ->
            NeedInput(d) \/ SinkFinished(d)
      [] dstate[d] = "Dependency" -> ~DepBlocked(d)
      [] dstate[d] = "PendingFinish" -> ~io[d]
      [] OTHER -> TRUE

\* Mutant: the abort test forgets pending I/O.
AbortEvenWithIo(d) == compl.aborting

\* DriverTask::should_abort_immediately.
ShouldAbortImmediately(d) == compl.aborting /\ ~io[d]

\* EventScheduler::enqueue is a no-op after shutdown.
Enqueue(k) == rq' = IF shutdown THEN rq ELSE Append(rq, k)
EnqueueEach(S) ==
    IF shutdown THEN UNCHANGED rq ELSE \E s \in Orderings(S) : rq' = rq \o s

\* A deferred notification reaches the drivers registered with the observable.
Notify(S) ==
    events' = [d \in Drivers |->
                 IF d \in S \cap Observed THEN events[d] + 1 ELSE events[d]]

Goto(t, to) == pc' = [pc EXCEPT ![t] = to]
SetState(d, s) == dstate' = [dstate EXCEPT ![d] = s]

-----------------------------------------------------------------------------
(* worker_loop: take a task, give it a time slice, dispatch on the state.   *)
WorkerPop(w) ==
    /\ pc[w] = "idle" /\ runq # << >>
    /\ task' = [task EXCEPT ![w] = Head(runq)]
    /\ runq' = Tail(runq)
    /\ Goto(w, "check")
    /\ UNCHANGED <<blocked, rq, shutdown, inBlocked, events, snap, first, poll,
                   driverVars, complVars>>

\* The abort test made before process().
WorkerCheck(w) ==
    /\ pc[w] = "check"
    /\ Goto(w, IF ShouldAbortImmediately(task[w]) THEN "fin" ELSE "run")
    /\ UNCHANGED <<schedVars, task, snap, first, poll, driverVars, complVars>>

\* Mutant: a failed driver is counted down without failing the fragment.
FinishSilently(w, d, s) ==
    /\ final' = [final EXCEPT ![d] = "none"]
    /\ SetState(d, s)
    /\ Goto(w, "fin")
    /\ UNCHANGED <<poll, task>>

\* finish_with_state: park in the poller while an operator has pending I/O,
\* otherwise close the operators and report.
FinishWithState(w, d, s) ==
    IF io[d] /\ final[d] = "none"
    THEN /\ final' = [final EXCEPT ![d] = s]
         /\ SetState(d, "PendingFinish")
         /\ poll' = [poll EXCEPT !.pending = @ \cup {d}]
         /\ task' = [task EXCEPT ![w] = NoDriver]
         /\ Goto(w, "idle")
    ELSE /\ final' = [final EXCEPT ![d] = "none"]
         /\ SetState(d, s)
         /\ Goto(w, IF s = "Finished" THEN "fin" ELSE "status")
         /\ UNCHANGED <<poll, task>>

\* process_inner re-entered after PendingFinish.
ProcessPendingFinish(w) ==
    /\ pc[w] = "run" /\ final[task[w]] # "none"
    /\ LET d == task[w] IN
       IF io[d]
       THEN /\ SetState(d, "PendingFinish")
            /\ poll' = [poll EXCEPT !.pending = @ \cup {d}]
            /\ task' = [task EXCEPT ![w] = NoDriver]
            /\ Goto(w, "idle")
            /\ UNCHANGED final
       ELSE FinishWithState(w, d, final[d])
    /\ UNCHANGED <<schedVars, snap, first, src, edge, sink, io, dep, complVars>>

\* Top of the loop of process_inner, up to the precondition check: a runtime
\* error fails the driver, an expired slice yields, a finished sink finishes.
ProcessTop(w) ==
    /\ pc[w] \in {"run", "slice"} /\ final[task[w]] = "none"
    /\ LET d == task[w] IN
       \/ /\ ctxError
          /\ FinishWithState(w, d, "Failed")
       \/ /\ ~ctxError /\ pc[w] = "slice"
          /\ SetState(d, "Ready") /\ Goto(w, "requeue")
          /\ UNCHANGED <<final, poll, task>>
       \/ /\ ~ctxError /\ pc[w] = "run" /\ SinkFinished(d)
          /\ FinishWithState(w, d, "Finished")
       \/ /\ ~ctxError /\ pc[w] = "run" /\ ~SinkFinished(d) /\ DepBlocked(d)
          /\ SetState(d, "Dependency") /\ Goto(w, "park")
          /\ UNCHANGED <<final, poll, task>>
    /\ UNCHANGED <<schedVars, snap, first, src, edge, sink, io, dep, complVars>>

\* The loop goes past its early returns.
Runs(w) ==
    /\ pc[w] = "run" /\ final[task[w]] = "none" /\ ~ctxError
    /\ ~SinkFinished(task[w]) /\ ~DepBlocked(task[w])

\* Mutant: pulls without asking the source for output.
PullUnasked(d) == ~edge[d] /\ NeedInput(d)

CanPush(d) == edge[d] /\ NeedInput(d)
CanPull(d) == ~edge[d] /\ HasOutput(d) /\ NeedInput(d)
CanFinishSink(d) == SourceFinished(d) /\ ~edge[d] /\ ~sink[d].finishing

\* drive_dataflow moved a chunk; the slice may be used up at the next loop top.
\* A sink may fill up at once, or between pull and push when it is shared with
\* other drivers (a local exchange); a push may start asynchronous I/O.
DriveDataflow(w) ==
    /\ Runs(w)
    /\ LET d == task[w] IN
       /\ \/ /\ CanPush(d)
             /\ edge' = [edge EXCEPT ![d] = FALSE]
             /\ \E full \in BOOLEAN, async \in {FALSE, (d \in AsyncIo)} :
                   /\ sink' = [sink EXCEPT ![d].full = full]
                   /\ io' = [io EXCEPT ![d] = @ \/ async]
             /\ UNCHANGED src
          \/ /\ CanPull(d)
             /\ edge' = [edge EXCEPT ![d] = TRUE]
             /\ src' = [src EXCEPT ![d].avail = @ - 1]
             /\ \E full \in BOOLEAN : sink' = [sink EXCEPT ![d].full = full]
             /\ UNCHANGED io
       /\ \E next \in {"run", "slice"} : Goto(w, next)
       /\ SetState(d, "Running")
    /\ UNCHANGED <<schedVars, task, snap, first, poll, final, dep, complVars>>

\* propagate_edge_closure and drive_set_finishing: the closed edge is empty,
\* so the sink is finished; a join build sink readies its dependency.
DriveSetFinishing(w) ==
    /\ Runs(w) /\ CanFinishSink(task[w])
    /\ LET d == task[w] IN
       /\ sink' = [sink EXCEPT ![d].finishing = TRUE]
       /\ dep' = [dep EXCEPT ![d].ready = TRUE]
       /\ Goto(w, IF dep[d].ready THEN "run" ELSE "depnotify")
       /\ SetState(d, "Running")
    /\ UNCHANGED <<schedVars, task, snap, first, poll, final, src, edge, io,
                   complVars>>

\* Mutant: the dependency becomes ready and nobody is told.
DepNotifyNobody(w) ==
    /\ pc[w] = "depnotify"
    /\ Goto(w, "run")
    /\ UNCHANGED <<schedVars, task, snap, first, poll, driverVars, complVars>>

\* Dependency::set_ready notifies the waiters it finds, once.
DepNotify(w) ==
    /\ pc[w] = "depnotify"
    /\ EnqueueEach(dep[task[w]].waiters)
    /\ Goto(w, "run")
    /\ UNCHANGED <<runq, blocked, shutdown, inBlocked, events, task, snap, first,
                   poll, driverVars, complVars>>

\* An operator returned an error, or panicked (caught by worker_loop, which
\* then skips finish_with_state).
OperatorFails(w) ==
    /\ Runs(w)
    /\ LET d == task[w] IN
       \/ /\ MayFail
          /\ FinishWithState(w, d, "Failed")
       \/ /\ MayPanic
          /\ SetState(d, "Failed") /\ Goto(w, "status")
          /\ UNCHANGED <<final, poll, task>>
    /\ UNCHANGED <<schedVars, snap, first, src, edge, sink, io, dep, complVars>>

\* No progress was made in this iteration of the loop.
NoProgress(w) ==
    /\ Runs(w)
    /\ LET d == task[w] IN ~CanPush(d) /\ ~CanPull(d) /\ ~CanFinishSink(d)
    /\ SetState(task[w], "Running")
    /\ Goto(w, "classify")
    /\ UNCHANGED <<schedVars, task, snap, first, poll, final, src, edge, sink,
                   io, dep, complVars>>

\* Why nothing moved. Without buffered data the source decides first.
Reason(d) ==
    LET noInput == ~SourceFinished(d) /\ ~HasOutput(d)
        noOutput == ~SinkFinished(d) /\ ~NeedInput(d)
    IN  IF ~edge[d] /\ noInput THEN "InputEmpty"
        ELSE IF noOutput THEN "OutputFull"
        ELSE IF noInput THEN "InputEmpty"
        ELSE "Ready"
Classify(w) ==
    /\ pc[w] = "classify"
    /\ LET r == Reason(task[w]) IN
       /\ SetState(task[w], r)
       /\ Goto(w, IF r = "Ready" THEN "requeue" ELSE "park")
    /\ UNCHANGED <<schedVars, task, snap, first, poll, final, src, edge, sink,
                   io, dep, complVars>>

\* worker_loop on Ready: abort, or back to the tail of the queue.
Requeue(w) ==
    /\ pc[w] = "requeue"
    /\ IF ShouldAbortImmediately(task[w])
       THEN /\ Goto(w, "fin") /\ UNCHANGED <<runq, task>>
       ELSE /\ runq' = Append(runq, task[w])
            /\ task' = [task EXCEPT ![w] = NoDriver]
            /\ Goto(w, "idle")
    /\ UNCHANGED <<blocked, rq, shutdown, inBlocked, events, snap, first, poll,
                   driverVars, complVars>>

-----------------------------------------------------------------------------
(* add_blocked / park_blocked: publish the task, then mark it, then enqueue *)
(* its own key so that an event missed in between is looked at again.       *)

\* add_blocked refuses a task whose source (or sink) cannot be observed.
MissingObservable(d) == dstate[d] # "Dependency" /\ d \notin Observed

ParkInsert(w) ==
    /\ pc[w] = "park"
    /\ LET d == task[w] IN
       IF ShouldAbortImmediately(d)
       THEN Goto(w, "fin") /\ UNCHANGED blocked
       ELSE IF MissingObservable(d)
       THEN Goto(w, "status") /\ UNCHANGED blocked
       ELSE /\ Goto(w, IF dstate[d] = "Dependency" THEN "markdep" ELSE "mark")
            /\ blocked' = blocked \cup {d}
    /\ UNCHANGED <<runq, rq, shutdown, inBlocked, events, task, snap, first, poll,
                   driverVars, complVars>>

\* From here the map owns the task and the thread keeps only its key.
ParkMark(w) ==
    /\ pc[w] \in {"mark", "markdep"}
    /\ inBlocked' = [inBlocked EXCEPT ![task[w]] = TRUE]
    /\ Goto(w, IF pc[w] = "mark" THEN "self" ELSE "wait")
    /\ UNCHANGED <<runq, blocked, rq, shutdown, events, task, snap, first, poll,
                   driverVars, complVars>>

\* Dependency::add_waiter: fire at once if ready, else register ...
AddWaiter(w) ==
    /\ pc[w] = "wait"
    /\ LET b == BuildOf[task[w]] IN
       IF dep[b].ready
       THEN Enqueue(task[w]) /\ Goto(w, "self") /\ UNCHANGED dep
       ELSE /\ dep' = [dep EXCEPT ![b].waiters = @ \cup {task[w]}]
            /\ Goto(w, "recheck") /\ UNCHANGED rq
    /\ UNCHANGED <<runq, blocked, shutdown, inBlocked, events, task, snap, first,
                   poll, dstate, final, src, edge, sink, io, complVars>>

\* ... and look again, because set_ready may have missed the new waiter.
RecheckWaiter(w) ==
    /\ pc[w] = "recheck"
    /\ LET b == BuildOf[task[w]] IN
       IF dep[b].ready THEN EnqueueEach(dep[b].waiters) ELSE UNCHANGED rq
    /\ Goto(w, "self")
    /\ UNCHANGED <<runq, blocked, shutdown, inBlocked, events, task, snap, first,
                   poll, driverVars, complVars>>

\* Mutant: parking does not look at the driver again.
ParkAndForget(w) ==
    /\ pc[w] = "self"
    /\ task' = [task EXCEPT ![w] = NoDriver]
    /\ Goto(w, "idle")
    /\ UNCHANGED <<schedVars, snap, first, poll, driverVars, complVars>>

ParkSelfEnqueue(w) ==
    /\ pc[w] = "self"
    /\ Enqueue(task[w])
    /\ task' = [task EXCEPT ![w] = NoDriver]
    /\ Goto(w, "idle")
    /\ UNCHANGED <<runq, blocked, shutdown, inBlocked, events, snap, first, poll,
                   driverVars, complVars>>

-----------------------------------------------------------------------------
(* The event scheduler thread.                                              *)

\* Mutant: the task is looked up but left in the map.
SchedPeek ==
    /\ pc[Sched] = "idle" /\ rq # << >>
    /\ rq' = Tail(rq)
    /\ IF Head(rq) \in blocked
       THEN /\ task' = [task EXCEPT ![Sched] = Head(rq)]
            /\ Goto(Sched, "check")
       ELSE UNCHANGED <<task, pc>>
    /\ UNCHANGED <<runq, blocked, shutdown, inBlocked, events, snap, first, poll,
                   driverVars, complVars>>

\* run() pops a key and try_schedule_key takes its task out of the map; a key
\* without a parked task is stale.
SchedTake ==
    /\ pc[Sched] = "idle" /\ rq # << >>
    /\ rq' = Tail(rq)
    /\ IF Head(rq) \in blocked
       THEN /\ blocked' = blocked \ {Head(rq)}
            /\ task' = [task EXCEPT ![Sched] = Head(rq)]
            /\ Goto(Sched, "check")
       ELSE UNCHANGED <<blocked, task, pc>>
    /\ UNCHANGED <<runq, shutdown, inBlocked, events, snap, first, poll,
                   driverVars, complVars>>

SchedAbortCheck ==
    /\ pc[Sched] = "check"
    /\ IF ShouldAbortImmediately(task[Sched])
       THEN /\ inBlocked' = [inBlocked EXCEPT ![task[Sched]] = FALSE]
            /\ Goto(Sched, "fin")
       ELSE Goto(Sched, "probe") /\ UNCHANGED inBlocked
    /\ UNCHANGED <<runq, blocked, rq, shutdown, events, task, snap, first, poll,
                   driverVars, complVars>>

SchedProbe ==
    /\ pc[Sched] = "probe"
    /\ LET d == task[Sched] IN
       IF CheckIsReady(d)
       THEN /\ SetState(d, "Ready")
            /\ inBlocked' = [inBlocked EXCEPT ![d] = FALSE]
            /\ runq' = Append(runq, d)
            /\ task' = [task EXCEPT ![Sched] = NoDriver]
            /\ Goto(Sched, "idle")
       ELSE Goto(Sched, "reinsert") /\ UNCHANGED <<dstate, inBlocked, runq, task>>
    /\ UNCHANGED <<blocked, rq, shutdown, events, snap, first, poll, final, src,
                   edge, sink, io, dep, complVars>>

SchedReinsert ==
    /\ pc[Sched] = "reinsert"
    /\ blocked' = blocked \cup {task[Sched]}
    /\ task' = [task EXCEPT ![Sched] = NoDriver]
    /\ Goto(Sched, "idle")
    /\ UNCHANGED <<runq, rq, shutdown, inBlocked, events, snap, first, poll,
                   driverVars, complVars>>

SchedExit ==
    /\ pc[Sched] = "idle" /\ rq = << >> /\ shutdown
    /\ Goto(Sched, "exit")
    /\ UNCHANGED <<schedVars, task, snap, first, poll, driverVars, complVars>>

-----------------------------------------------------------------------------
(* The pending-finish poller: drain_blocked, then finish the aborted tasks, *)
(* then requeue the ready ones. "due" are the entries whose poll time came. *)
\* Mutant: aborted entries stay in the poller's list.
PollDrainKeepsAborted ==
    /\ pc[Poller] = "idle" /\ poll.aborted = {} /\ poll.ready = {}
    /\ LET aborted == {d \in poll.pending : ShouldAbortImmediately(d)} IN
       /\ aborted # {}
       /\ poll' = [poll EXCEPT !.aborted = aborted]
    /\ UNCHANGED <<schedVars, pc, task, snap, first, driverVars, complVars>>

PollDrain ==
    /\ pc[Poller] = "idle" /\ poll.aborted = {} /\ poll.ready = {}
    /\ \E due \in SUBSET poll.pending :
          LET aborted == {d \in poll.pending : ShouldAbortImmediately(d)}
              ready == {d \in due \ aborted : CheckIsReady(d)}
          IN  /\ aborted \cup ready # {}
              /\ poll' = [pending |-> poll.pending \ (aborted \cup ready),
                          aborted |-> aborted, ready |-> ready]
              /\ dstate' = [d \in Drivers |->
                               IF d \in ready THEN "Ready" ELSE dstate[d]]
    /\ UNCHANGED <<schedVars, pc, task, snap, first, final, src, edge, sink, io,
                   dep, complVars>>

PollFinishAborted ==
    /\ pc[Poller] = "idle"
    /\ \E d \in poll.aborted :
          /\ poll' = [poll EXCEPT !.aborted = @ \ {d}]
          /\ task' = [task EXCEPT ![Poller] = d]
    /\ Goto(Poller, "fin")
    /\ UNCHANGED <<schedVars, snap, first, driverVars, complVars>>

PollRequeue ==
    /\ pc[Poller] = "idle" /\ poll.aborted = {}
    /\ \E d \in poll.ready :
          /\ poll' = [poll EXCEPT !.ready = @ \ {d}]
          /\ runq' = Append(runq, d)
    /\ UNCHANGED <<blocked, rq, shutdown, inBlocked, events, pc, task, snap,
                   first, driverVars, complVars>>

-----------------------------------------------------------------------------
(* FragmentCompletion::fail_internal, by a worker whose driver failed or by *)
(* a cancelling thread. The status is set before the abort flag.            *)
StartCancel ==
    /\ MayCancel /\ pc[Canceller] = "idle"
    /\ Goto(Canceller, "status")
    /\ UNCHANGED <<schedVars, task, snap, first, poll, driverVars, complVars>>

\* FragmentContext::set_final_status, until it reaches the event scheduler.
SetFinalStatus(t) ==
    /\ pc[t] = "status"
    /\ first' = [first EXCEPT ![t] = ~ctxError]
    /\ ctxError' = TRUE
    /\ Goto(t, IF ctxError THEN "abort" ELSE "snap")
    /\ UNCHANGED <<schedVars, task, snap, poll, driverVars, compl, done, result>>

\* enqueue_all_blocked: copy the keys under the map's lock ...
SnapBlocked(t) ==
    /\ pc[t] = "snap"
    /\ snap' = [snap EXCEPT ![t] = blocked]
    /\ Goto(t, IF blocked = {} THEN "abort" ELSE "push")
    /\ UNCHANGED <<schedVars, task, first, poll, driverVars, complVars>>

\* ... and push them under the queue's lock.
PushBlocked(t) ==
    /\ pc[t] = "push"
    /\ \E s \in Orderings(snap[t]) : rq' = rq \o s
    /\ snap' = [snap EXCEPT ![t] = {}]
    /\ Goto(t, "abort")
    /\ UNCHANGED <<runq, blocked, shutdown, inBlocked, events, task, first, poll,
                   driverVars, complVars>>

\* The completion's error and abort flag, under its mutex.
SetAborting(t) ==
    /\ pc[t] = "abort"
    /\ compl' = [compl EXCEPT !.aborting = TRUE]
    /\ first' = [first EXCEPT ![t] = FALSE]
    /\ Goto(t, IF t = Canceller \/ first[t] THEN "query" ELSE "fin")
    /\ UNCHANGED <<schedVars, task, snap, poll, driverVars, ctxError, done, result>>

\* cancel_query and exchange::cancel_fragment: the fragment's own completion
\* is already aborting; cancelled receivers end their sources and notify.
CancelExchanges(t) ==
    /\ pc[t] = "query"
    /\ src' = [d \in Drivers |->
                 IF d \in ExchangeSourced THEN [src[d] EXCEPT !.left = 0, !.eos = TRUE]
                                          ELSE src[d]]
    /\ Notify({d \in ExchangeSourced : ~src[d].eos})
    /\ Goto(t, IF t = Canceller THEN "exit" ELSE "fin")
    /\ UNCHANGED <<runq, blocked, rq, shutdown, inBlocked, task, snap, first, poll,
                   dstate, final, edge, sink, io, dep, complVars>>

-----------------------------------------------------------------------------
(* FragmentCompletion::driver_finished and wait.                            *)

\* Mutant: shuts the scheduler down one driver early.
DriverFinishedEarly(t) ==
    /\ pc[t] = "fin"
    /\ compl' = [compl EXCEPT !.remaining = IF @ = 0 THEN 0 ELSE @ - 1]
    /\ done' = done \cup {task[t]}
    /\ task' = [task EXCEPT ![t] = NoDriver]
    /\ Goto(t, IF compl.remaining <= 2 THEN "shut" ELSE "idle")
    /\ UNCHANGED <<schedVars, snap, first, poll, driverVars, ctxError, result>>

DriverFinished(t) ==
    /\ pc[t] = "fin"
    /\ compl' = [compl EXCEPT !.remaining = IF @ = 0 THEN 0 ELSE @ - 1]
    /\ done' = done \cup {task[t]}
    /\ task' = [task EXCEPT ![t] = NoDriver]
    /\ Goto(t, IF compl.remaining = 1 THEN "shut" ELSE "idle")
    /\ UNCHANGED <<schedVars, snap, first, poll, driverVars, ctxError, result>>

\* EventScheduler::shutdown joins the scheduler thread unless it is that thread.
Shutdown(t) ==
    /\ pc[t] = "shut"
    /\ shutdown' = TRUE
    /\ Goto(t, IF t = Sched THEN "idle" ELSE "join")
    /\ UNCHANGED <<runq, blocked, rq, inBlocked, events, task, snap, first, poll,
                   driverVars, complVars>>

Join(t) ==
    /\ pc[t] = "join" /\ pc[Sched] = "exit"
    /\ Goto(t, "idle")
    /\ UNCHANGED <<schedVars, task, snap, first, poll, driverVars, complVars>>

\* wait() returns the error recorded with the abort flag.
Wait ==
    /\ result = "waiting" /\ compl.remaining = 0
    /\ result' = IF compl.aborting THEN "error" ELSE "ok"
    /\ UNCHANGED <<schedVars, threadVars, driverVars, ctxError, compl, done>>

-----------------------------------------------------------------------------
(* Producers, consumers and I/O threads: a state change arms a deferred     *)
(* notification, which PipelineObserver::update turns into one do_update.   *)
Produce(d) ==
    /\ src[d].left > 0
    /\ src' = [src EXCEPT ![d].left = @ - 1, ![d].avail = @ + 1]
    /\ Notify({d})
    /\ UNCHANGED <<runq, blocked, rq, shutdown, inBlocked, threadVars, dstate,
                   final, edge, sink, io, dep, complVars>>

EndOfStream(d) ==
    /\ src[d].left = 0 /\ ~src[d].eos
    /\ src' = [src EXCEPT ![d].eos = TRUE]
    /\ Notify({d})
    /\ UNCHANGED <<runq, blocked, rq, shutdown, inBlocked, threadVars, dstate,
                   final, edge, sink, io, dep, complVars>>

Drain(d) ==
    /\ sink[d].full
    /\ sink' = [sink EXCEPT ![d].full = FALSE]
    /\ Notify({d})
    /\ UNCHANGED <<runq, blocked, rq, shutdown, inBlocked, threadVars, dstate,
                   final, src, edge, io, dep, complVars>>

IoDone(d) ==
    /\ io[d]
    /\ io' = [io EXCEPT ![d] = FALSE]
    /\ UNCHANGED <<schedVars, threadVars, dstate, final, src, edge, sink, dep,
                   complVars>>

\* PipelineObserver::do_update: only a parked driver is worth a key.
DoUpdate(d) ==
    /\ events[d] > 0
    /\ events' = [events EXCEPT ![d] = @ - 1]
    /\ IF inBlocked[d] THEN Enqueue(d) ELSE UNCHANGED rq
    /\ UNCHANGED <<runq, blocked, shutdown, inBlocked, threadVars, driverVars,
                   complVars>>

-----------------------------------------------------------------------------
Process(w) ==
    \/ ProcessPendingFinish(w) \/ ProcessTop(w) \/ DriveDataflow(w)
    \/ DriveSetFinishing(w) \/ DepNotify(w) \/ NoProgress(w) \/ Classify(w)

Park(w) ==
    \/ ParkInsert(w) \/ ParkMark(w) \/ AddWaiter(w) \/ RecheckWaiter(w)
    \/ ParkSelfEnqueue(w)

Fail(t) ==
    \/ SetFinalStatus(t) \/ SnapBlocked(t) \/ PushBlocked(t) \/ SetAborting(t)
    \/ CancelExchanges(t)

Complete(t) == DriverFinished(t) \/ Shutdown(t) \/ Join(t)

Worker(w) ==
    \/ WorkerPop(w) \/ WorkerCheck(w) \/ Process(w) \/ Requeue(w) \/ Park(w)
    \/ Fail(w) \/ Complete(w)

EventScheduler ==
    \/ SchedTake \/ SchedAbortCheck \/ SchedProbe \/ SchedReinsert \/ SchedExit
    \/ Complete(Sched)

PollerThread == PollDrain \/ PollFinishAborted \/ PollRequeue \/ Complete(Poller)

Environment(d) == Produce(d) \/ EndOfStream(d) \/ Drain(d) \/ IoDone(d)

Next ==
    \/ \E w \in Workers : Worker(w) \/ OperatorFails(w)
    \/ EventScheduler
    \/ PollerThread
    \/ StartCancel \/ Fail(Canceller)
    \/ Wait
    \/ \E d \in Drivers : Environment(d) \/ DoUpdate(d)

Spec == Init /\ [][Next]_vars

\* Every thread keeps running, sources end, sinks drain, I/O completes; no
\* fairness is assumed of failures and cancellations.
Fairness ==
    /\ \A w \in Workers : WF_vars(Worker(w))
    /\ WF_vars(EventScheduler)
    /\ WF_vars(PollerThread)
    /\ WF_vars(Fail(Canceller))
    /\ WF_vars(Wait)
    /\ \A d \in Drivers :
          /\ WF_vars(Produce(d)) /\ WF_vars(EndOfStream(d)) /\ WF_vars(Drain(d))
          /\ WF_vars(IoDone(d)) /\ WF_vars(DoUpdate(d))

FairSpec == Spec /\ Fairness

-----------------------------------------------------------------------------
(* Properties.                                                              *)

(* Every variable is in its set. The readable chunks of a source are a      *)
(* natural number: drive_dataflow never pulls from an empty source.         *)
TypeOK ==
    /\ runq \in Seq(Drivers) /\ rq \in Seq(Drivers)
    /\ blocked \subseteq Drivers /\ shutdown \in BOOLEAN
    /\ pc \in [Threads -> PCs]
    /\ task \in [Threads -> Drivers \cup {NoDriver}]
    /\ snap \in [Threads -> SUBSET Drivers]
    /\ first \in [Threads -> BOOLEAN]
    /\ poll \in [pending : SUBSET Drivers, aborted : SUBSET Drivers,
                 ready : SUBSET Drivers]
    /\ dstate \in [Drivers -> DriverStates]
    /\ final \in [Drivers -> {"none", "Finished", "Failed"}]
    /\ inBlocked \in [Drivers -> BOOLEAN]
    /\ events \in [Drivers -> Nat]
    /\ src \in [Drivers -> [left : Nat, avail : Nat, eos : BOOLEAN]]
    /\ edge \in [Drivers -> BOOLEAN]
    /\ sink \in [Drivers -> [full : BOOLEAN, finishing : BOOLEAN]]
    /\ io \in [Drivers -> BOOLEAN]
    /\ dep \in [Drivers -> [ready : BOOLEAN, waiters : SUBSET Drivers]]
    /\ ctxError \in BOOLEAN
    /\ compl \in [remaining : Nat, aborting : BOOLEAN]
    /\ done \subseteq Drivers
    /\ result \in {"waiting", "ok", "error"}

\* The steps of a thread during which it owns the task it holds; in the others
\* it only has a key.
OwningPCs == {"check", "run", "slice", "classify", "depnotify", "requeue",
              "park", "probe", "reinsert", "status", "snap", "push", "abort",
              "query", "fin"}
Owns(t, d) == task[t] = d /\ pc[t] \in OwningPCs

\* Everywhere the task of driver d is.
Places(d) ==
    {<<"runq", i>> : i \in {j \in DOMAIN runq : runq[j] = d}}
    \cup {<<"thread", t>> : t \in {u \in Threads : Owns(u, d)}}
    \cup {<<"map", 0>> : x \in {d} \cap blocked}
    \cup {<<"pending", 0>> : x \in {d} \cap poll.pending}
    \cup {<<"aborted", 0>> : x \in {d} \cap poll.aborted}
    \cup {<<"ready", 0>> : x \in {d} \cap poll.ready}
    \cup {<<"done", 0>> : x \in {d} \cap done}

(* A driver task is in exactly one place: never run by two threads, never   *)
(* both parked and runnable, never dropped without driver_finished().       *)
OwnedOnce == \A d \in Drivers : \E p \in Places(d) : Places(d) = {p}

(* FragmentCompletion.remaining counts exactly the drivers not yet finished,*)
(* so its saturating decrement never hides a second call for one driver.    *)
RemainingExact == compl.remaining = Cardinality(Drivers \ done)

(* The event scheduler is shut down only when no driver is left, so keys    *)
(* that enqueue() drops after shutdown belong to nobody.                    *)
ShutdownLast == shutdown => done = Drivers

\* Driver d's key is on its way to the event scheduler: queued, or owed by a
\* notification, by the thread that parked d, or by the thread that readied
\* d's dependency.
ParkingPCs == {"mark", "markdep", "wait", "recheck", "self"}
WakeupDue(d) ==
    \/ d \in Keys(rq)
    \/ events[d] > 0 /\ inBlocked[d]
    \/ \E w \in Workers : task[w] = d /\ pc[w] \in ParkingPCs
    \/ \E w \in Workers : /\ pc[w] = "depnotify" /\ task[w] = BuildOf[d]
                          /\ d \in dep[BuildOf[d]].waiters

(* No lost wake-up: a parked driver that could run has a wake-up under way. *)
(* park_blocked publishes the task before in_blocked is set, and observers  *)
(* drop events of drivers that are not in_blocked; the key a parking thread *)
(* enqueues for itself closes that window.                                  *)
NoLostWakeup == \A d \in blocked : CheckIsReady(d) => WakeupDue(d)

(* A driver that finished, or that was sent to the pending-finish poller,   *)
(* is let go only when its operators' asynchronous I/O is over, also when   *)
(* the fragment aborts. (A panic and a failed park drop it without.)        *)
ReleasedQuiescent ==
    \A d \in done : dstate[d] \in {"Finished", "PendingFinish"} => ~io[d]

(* wait() reports success only if every driver reached Finished: a failure, *)
(* or a driver dropped by an abort, is never reported as success.           *)
OkMeansFinished == result = "ok" => \A d \in Drivers : dstate[d] = "Finished"

-----------------------------------------------------------------------------
(* The inductive invariant behind the safety properties.                    *)

\* Each kind of thread stays within its own steps and holds a driver in the
\* steps that need one.
PcOK ==
    /\ pc[Sched] \in {"idle", "check", "probe", "reinsert", "fin", "shut", "exit"}
    /\ pc[Poller] \in {"idle", "fin", "shut", "join"}
    /\ pc[Canceller] \in {"idle", "status", "snap", "push", "abort", "query", "exit"}
    /\ task[Canceller] = NoDriver
    /\ \A w \in Workers : pc[w] \notin {"probe", "reinsert", "exit"}
    /\ \A t \in Threads \ {Canceller} :
          pc[t] \in OwningPCs \cup ParkingPCs => task[t] \in Drivers
    /\ \A w \in Workers :
          pc[w] \in {"markdep", "wait", "recheck"} => BuildOf[task[w]] \in Drivers
    /\ \A w \in Workers :
          pc[w] = "park" => /\ dstate[task[w]] \in BlockedReasons
                            /\ dstate[task[w]] = "Dependency" =>
                                  BuildOf[task[w]] \in Drivers

\* The places a task can be in exclude each other.
Distinct(q) == \A i, j \in DOMAIN q : q[i] = q[j] => i = j
Apart(d) ==
    /\ \A t, u \in Threads : Owns(t, d) /\ Owns(u, d) => t = u
    /\ (\E t \in Threads : Owns(t, d)) =>
          d \notin Keys(runq) /\ d \notin blocked /\ d \notin poll.pending
            /\ d \notin poll.aborted /\ d \notin poll.ready /\ d \notin done
    /\ d \in Keys(runq) => d \notin blocked /\ d \notin poll.pending
                             /\ d \notin poll.aborted /\ d \notin poll.ready /\ d \notin done
    /\ d \in blocked => d \notin poll.pending /\ d \notin poll.aborted
                          /\ d \notin poll.ready /\ d \notin done
    /\ d \in poll.pending => d \notin poll.aborted /\ d \notin poll.ready /\ d \notin done
    /\ d \in poll.aborted => d \notin poll.ready /\ d \notin done
    /\ d \in poll.ready => d \notin done
OwnedApart == Distinct(runq) /\ \A d \in Drivers : Apart(d)

\* The countdown is exact and the shutdown comes after the last driver.
CountOK ==
    /\ RemainingExact
    /\ \A t \in Threads : pc[t] = "shut" => done = Drivers
    /\ ShutdownLast

\* A parked driver: in the map, or taken out by the scheduler thread, which is
\* about to probe it or has found it not ready and is about to put it back.
Probing(d) == task[Sched] = d /\ pc[Sched] \in {"check", "probe"}
Parked(d) == \/ d \in blocked
             \/ Probing(d)
             \/ task[Sched] = d /\ pc[Sched] = "reinsert"
ParkedBy(d, pcs) == \E w \in Workers : task[w] = d /\ pc[w] \in pcs

\* What has to hold of a parked driver for its wake-up not to be lost.
WakeFor(d) ==
    /\ dstate[d] \in BlockedReasons
    /\ dstate[d] # "Dependency" => d \in Observed
    /\ dstate[d] = "Dependency" => BuildOf[d] \in Drivers
    /\ inBlocked[d] \/ ParkedBy(d, {"mark", "markdep"})
    /\ dstate[d] = "Dependency" =>
          \/ d \in dep[BuildOf[d]].waiters
          \/ ParkedBy(d, {"markdep", "wait"})
          \/ dep[BuildOf[d]].ready
    /\ CheckIsReady(d) => WakeupDue(d) \/ Probing(d)
WakeOK == \A d \in Drivers : Parked(d) => WakeFor(d)

IInv == TypeOK /\ PcOK /\ OwnedApart /\ CountOK /\ WakeOK

-----------------------------------------------------------------------------
(* Without failures the fragment completes: every parked driver is woken,   *)
(* wait() returns ok and the scheduler thread is joined.                    *)
Completes == <>(result = "ok" /\ pc[Sched] = "exit")

(* An abort ends the fragment: once the completion is aborting, wait()      *)
(* returns.                                                                 *)
AbortCompletes == compl.aborting ~> (compl.remaining = 0)
=============================================================================
