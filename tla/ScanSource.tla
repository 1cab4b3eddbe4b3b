----------------------------- MODULE ScanSource -----------------------------
(***************************************************************************)
(* A scan node of one fragment: the morsel queue that its ScanSource       *)
(* drivers share (ScanDispatchState), the incremental scan ranges that the *)
(* FE sends while the fragment is built and runs, and for each driver the  *)
(* bounded chunk buffer (ScanAsyncState), the pool of async runners and    *)
(* the tasks on the scan executor that take runners from it.               *)
(*                                                                         *)
(* A task holds no lock from one step to the next, so a driver may refill  *)
(* the executor between any two steps of a task that is about to end.      *)
(***************************************************************************)
EXTENDS Naturals, Sequences, FiniteSets, SequencesExt

CONSTANTS
    ScanDrivers,  \* bound: the drivers that a scan's pipeline may have
    MaxBuffered,  \* max_buffered chunks of a driver
    TaskSlots,    \* bound: tasks of the scan that exist at a time
    ScanJobs      \* what a behaviour scans: [drivers, first, more, later, tasks,
                  \* limit, rejects, stops]

\* A chunk is a number and a morsel the sequence of its chunks; 0 is no chunk.
NoChunk == 0
Morsels == Seq(Nat \ {NoChunk})

\* drivers: the drivers of the scan's pipeline; first: the morsels of the plan, each
\* the sequence of its chunks; more: whether ranges follow; later: the ranges that
\* follow, [morsels, more]; tasks: connector_io_tasks_per_scan_operator; limit: the
\* scan's limit in chunks, 0 for none; rejects, stops: bounds on refused submissions,
\* and on read errors and cancellations.
ASSUME ScanAssumption ==
    /\ IsFiniteSet(ScanDrivers) /\ ScanDrivers # {}
    /\ MaxBuffered \in Nat \ {0} /\ IsFiniteSet(TaskSlots)
    /\ \A j \in ScanJobs :
         /\ j.drivers \subseteq ScanDrivers /\ j.first \in Seq(Morsels) /\ j.more \in BOOLEAN
         /\ j.later \in Seq([morsels : Seq(Morsels), more : BOOLEAN])
         /\ j.drivers = {} => j.first = <<>>
         /\ j.tasks \in Nat \ {0} /\ j.limit \in Nat /\ j.rejects \in Nat /\ j.stops \in Nat

VARIABLES
    job,     \* the scan of this behaviour
    morsels, \* DynamicMorselQueue.queue
    more,    \* DynamicMorselQueue.has_more
    counted, \* output_rows: chunks counted against the limit
    full,    \* reach_limit
    src,     \* the state of each driver's source operator
    task,    \* the tasks on the scan executor
    handle,  \* the node has an entry in incremental_scan_nodes
    waiting, \* pending_incremental_scan_ranges
    rpc,     \* the ranges that an exec_plan_fragment call is appending, and how many it has sent
    given,   \* history: the chunks that the drivers pulled
    popped,  \* history: the morsels popped
    used     \* refused submissions and stops so far

dispatchVars == <<morsels, more, counted, full>>
rangeVars == <<handle, waiting, rpc>>
scanVars == <<job, dispatchVars, src, task, rangeVars, given, popped, used>>

Drivers == job.drivers

NewRunner == [open |-> FALSE, iter |-> <<>>, pend |-> NoChunk]
NoTask == [pc |-> "free", drv |-> CHOOSE d \in ScanDrivers : TRUE, run |-> NewRunner,
           chunk |-> NoChunk, last |-> FALSE]
NewSource(n) == [pc |-> "bind", take |-> <<>>, buf |-> <<>>, fin |-> FALSE, err |-> FALSE,
                 stop |-> FALSE, pool |-> [i \in 1..n |-> NewRunner], inflight |-> 0,
                 empty |-> FALSE, back |-> "output", wake |-> TRUE, asked |-> FALSE,
                 listed |-> FALSE]

ScanInit ==
    /\ job \in ScanJobs
    /\ morsels = job.first /\ more = job.more /\ counted = 0 /\ full = FALSE
    /\ src = [d \in Drivers |-> NewSource(job.tasks)]
    /\ task = [t \in TaskSlots |-> NoTask]
    /\ handle = FALSE /\ waiting = <<>> /\ rpc = [sent |-> 0, adds |-> <<>>]
    /\ given = {} /\ popped = <<>> /\ used = [rejects |-> 0, stops |-> 0]

-----------------------------------------------------------------------------
(* Incremental scan ranges: QueryContextManager.                           *)

Over == {"done", "failed"}
AllAwake(s) == [d \in Drivers |-> [s[d] EXCEPT !.wake = @ \/ s[d].pc \notin Over]]

\* IncrementalScanNodeHandle::append_scan_ranges for the ranges of some calls: the
\* last has_more counts, and the queue's observers are notified.
AppendRanges(adds) ==
    /\ morsels' = morsels \o FlattenSeq([i \in DOMAIN adds |-> adds[i].morsels])
    /\ more' = Last(adds).more
    /\ UNCHANGED <<counted, full>>

\* append_incremental_scan_ranges, under the lock: to the node's handle, or kept
\* until there is one; ranges for a fragment that has ended are dropped.
SendRanges ==
    /\ rpc.sent < Len(job.later) /\ rpc.adds = <<>>
    /\ LET add == job.later[rpc.sent + 1]
       IN  /\ rpc' = [sent |-> rpc.sent + 1, adds |-> IF handle THEN <<add>> ELSE <<>>]
           /\ waiting' = IF handle THEN waiting ELSE Append(waiting, add)
    /\ UNCHANGED <<job, dispatchVars, src, task, handle, given, popped, used>>

\* ... and outside of it.
AppendSent ==
    /\ rpc.adds # <<>>
    /\ AppendRanges(rpc.adds)
    /\ rpc' = [rpc EXCEPT !.adds = <<>>]
    /\ src' = AllAwake(src)
    /\ UNCHANGED <<job, task, handle, waiting, given, popped, used>>

\* instantiate_drivers binds one driver after the other, before any runs.
\* register_incremental_scan_node: publish the handle, ...
Register(d) ==
    /\ src[d].pc = "bind" /\ \A q \in Drivers : src[q].pc \notin {"registered", "taken"}
    /\ handle' = TRUE
    /\ src' = [src EXCEPT ![d].pc = "registered"]
    /\ UNCHANGED <<job, dispatchVars, task, waiting, rpc, given, popped, used>>

\* Mutant: the pending ranges are read but not removed.
TakeCopy(d) ==
    /\ src[d].pc = "registered"
    /\ src' = [src EXCEPT ![d].pc = IF waiting = <<>> THEN "bound" ELSE "taken",
                          ![d].take = waiting]
    /\ UNCHANGED <<job, dispatchVars, task, rangeVars, given, popped, used>>

\* ... take what waits for it, ...
TakePending(d) ==
    /\ src[d].pc = "registered"
    /\ src' = [src EXCEPT ![d].pc = IF waiting = <<>> THEN "bound" ELSE "taken",
                          ![d].take = waiting]
    /\ waiting' = <<>>
    /\ UNCHANGED <<job, dispatchVars, task, handle, rpc, given, popped, used>>

\* ... and append it.
AppendTaken(d) ==
    /\ src[d].pc = "taken"
    /\ AppendRanges(src[d].take)
    /\ src' = [src EXCEPT ![d].pc = "bound", ![d].take = <<>>]
    /\ UNCHANGED <<job, task, rangeVars, given, popped, used>>

RunDrivers ==
    /\ \A d \in Drivers : src[d].pc = "bound"
    /\ src' = [d \in Drivers |-> [src[d] EXCEPT !.pc = "ready"]]
    /\ UNCHANGED <<job, dispatchVars, task, rangeVars, given, popped, used>>

-----------------------------------------------------------------------------
(* The driver: is_finished, has_output with maybe_start_async_scan,        *)
(* pull_chunk.                                                             *)

QueueEmpty == full \/ morsels = <<>>
HasMore == ~full /\ more

\* Mutant: an idle runner with an open morsel counts as done.
PendingOnly(p) == \E i \in DOMAIN p : p[i].pend # NoChunk

PoolBusy(p) == \E i \in DOMAIN p : p[i].pend # NoChunk \/ p[i].open
HasCapacity(s) == Len(s.buf) < MaxBuffered
HasOutput(s) == s.err \/ s.buf # <<>>
StateFinished(s) == s.fin /\ s.buf = <<>> /\ ~s.err

Exhausted(s) == s.inflight = 0 /\ ~HasMore /\ QueueEmpty /\ ~PoolBusy(s.pool)

\* A finished operator is closed, whatever it has buffered, which cancels its tasks.
SourceDone(s) == [s EXCEPT !.pc = "done", !.fin = TRUE, !.stop = TRUE, !.wake = FALSE]

SourceStep(d, s) ==
    /\ src' = [src EXCEPT ![d] = s]
    /\ UNCHANGED <<job, dispatchVars, rangeVars, popped>>

\* is_finished looks at the driver's own state first, ...
CheckFinished(d) ==
    /\ src[d].pc = "ready"
    /\ SourceStep(d, IF StateFinished(src[d]) THEN SourceDone(src[d])
                     ELSE IF HasOutput(src[d]) THEN [src[d] EXCEPT !.pc = "look", !.back = "output"]
                     ELSE [src[d] EXCEPT !.pc = "closing"])
    /\ UNCHANGED <<task, given, used>>

\* ... then at the inflight count, has_more, the queue and the pool: a task may have
\* buffered chunks and left in between. These reads are one step: with no task in
\* flight only this driver can start one, and what is not to come stays so.
CheckExhausted(d) ==
    /\ src[d].pc = "closing"
    /\ SourceStep(d, IF Exhausted(src[d]) THEN SourceDone(src[d])
                     ELSE [src[d] EXCEPT !.pc = "look", !.back = "output"])
    /\ UNCHANGED <<task, given, used>>

\* maybe_start_async_scan returns: to has_output, and the driver goes on with what is
\* buffered, or to pull_chunk, and it starts over.
Returned(s) == [s EXCEPT !.pc = s.back, !.back = "output", !.empty = FALSE]

\* maybe_start_async_scan reads the queue and the inflight count first, ...
LookAtQueue(d) ==
    /\ src[d].pc = "look"
    /\ SourceStep(d, IF StateFinished(src[d]) THEN Returned(src[d])
                     ELSE [src[d] EXCEPT !.pc = "start",
                                         !.empty = QueueEmpty /\ src[d].inflight = 0])
    /\ UNCHANGED <<task, given, used>>

\* ... then the pool, the buffer and has_more.
StartScan(d) ==
    /\ src[d].pc = "start"
    /\ LET s == src[d]
       IN  SourceStep(d, IF s.empty /\ ~PoolBusy(s.pool) /\ ~HasOutput(s) /\ ~HasMore
                         THEN [Returned(s) EXCEPT !.fin = TRUE, !.wake = TRUE]
                         ELSE [s EXCEPT !.pc = "submit"])
    /\ UNCHANGED <<task, given, used>>

\* Mutant: one task too many.
MaySubmitLoosely(s) ==
    ~StateFinished(s) /\ HasCapacity(s) /\ s.pool # <<>> /\ s.inflight <= job.tasks

MaySubmit(s) == ~StateFinished(s) /\ HasCapacity(s) /\ s.pool # <<>> /\ s.inflight < job.tasks

SubmitTask(d) ==
    /\ src[d].pc = "submit" /\ MaySubmit(src[d])
    /\ \E t \in TaskSlots :
         /\ task[t].pc = "free" /\ \A u \in TaskSlots : task[u].pc = "free" => t <= u
         /\ task' = [task EXCEPT ![t] = [NoTask EXCEPT !.pc = "pop", !.drv = d]]
    /\ SourceStep(d, [src[d] EXCEPT !.inflight = @ + 1, !.asked = FALSE])
    /\ UNCHANGED <<given, used>>

\* Mutant: a refused driver does not register for capacity.
RejectedUnlisted(d) ==
    /\ src[d].pc = "submit" /\ MaySubmit(src[d]) /\ used.rejects < job.rejects
    /\ used' = [used EXCEPT !.rejects = @ + 1]
    /\ SourceStep(d, [Returned(src[d]) EXCEPT !.asked = TRUE])
    /\ UNCHANGED <<task, given>>

\* The executor's queue is full: the driver registers as a capacity waiter unless
\* it has since its last successful submission; with nothing buffered it may have
\* failed for too long.
SubmitRejected(d) ==
    /\ src[d].pc = "submit" /\ MaySubmit(src[d]) /\ used.rejects < job.rejects
    /\ used' = [used EXCEPT !.rejects = @ + 1]
    /\ \E e \in {FALSE, ~HasOutput(src[d])} :
         SourceStep(d, [Returned(src[d]) EXCEPT !.asked = TRUE,
                                      !.listed = @ \/ ~src[d].asked, !.err = @ \/ e,
                                      !.fin = @ \/ e, !.wake = @ \/ e])
    /\ UNCHANGED <<task, given>>

\* A task of the executor was taken, and one capacity waiter is notified.
CapacityFreed(d) ==
    /\ src[d].listed
    /\ SourceStep(d, [src[d] EXCEPT !.listed = FALSE, !.wake = TRUE])
    /\ UNCHANGED <<task, given, used>>

NothingToSubmit(d) ==
    /\ src[d].pc = "submit" /\ ~MaySubmit(src[d])
    /\ SourceStep(d, Returned(src[d]))
    /\ UNCHANGED <<task, given, used>>

\* pop_chunk, after which the driver refills the executor before it looks whether
\* it has finished; without output it blocks until an observable notifies it.
PullOrBlock(d) ==
    /\ src[d].pc = "output"
    /\ LET s == src[d]
       IN  IF s.err
           THEN /\ SourceStep(d, [s EXCEPT !.pc = "failed", !.err = FALSE, !.stop = TRUE])
                /\ UNCHANGED given
           ELSE IF s.buf # <<>>
           THEN /\ given' = given \cup {Head(s.buf)}
                /\ SourceStep(d, [s EXCEPT !.pc = "look", !.back = "ready", !.buf = Tail(s.buf)])
           ELSE SourceStep(d, [s EXCEPT !.pc = "blocked"]) /\ UNCHANGED given
    /\ UNCHANGED <<task, used>>

WakeUp(d) ==
    /\ src[d].pc = "blocked" /\ src[d].wake
    /\ SourceStep(d, [src[d] EXCEPT !.pc = "ready", !.wake = FALSE])
    /\ UNCHANGED <<task, given, used>>

\* The fragment is aborted.
CancelSource(d) ==
    /\ used.stops < job.stops /\ src[d].pc \in {"ready", "blocked"}
    /\ used' = [used EXCEPT !.stops = @ + 1]
    /\ SourceStep(d, [src[d] EXCEPT !.pc = "failed", !.stop = TRUE])
    /\ UNCHANGED <<task, given>>

-----------------------------------------------------------------------------
(* A task: run_scan_worker.                                                *)

\* The task continues, or it ends and wakes every driver through the inflight
\* observable.
TaskStep(t, x, s) ==
    /\ task' = [task EXCEPT ![t] = x]
    /\ src' = IF x = NoTask THEN AllAwake([src EXCEPT ![task[t].drv] = s])
              ELSE [src EXCEPT ![task[t].drv] = s]
    /\ UNCHANGED <<job, rangeVars, given>>

Finish(s) == [s EXCEPT !.fin = TRUE, !.wake = TRUE]

\* A runner from the end of the pool; without one, or cancelled, the task ends.
TakeRunner(t) ==
    LET s == src[task[t].drv] IN
    /\ task[t].pc = "pop"
    /\ IF s.pool = <<>> THEN TaskStep(t, NoTask, [s EXCEPT !.inflight = @ - 1])
       ELSE LET left == [s EXCEPT !.pool = Front(s.pool)]
            IN  IF s.stop THEN TaskStep(t, NoTask, Finish([left EXCEPT !.inflight = @ - 1]))
                ELSE TaskStep(t, [task[t] EXCEPT !.pc = "top", !.run = Last(s.pool)], left)
    /\ UNCHANGED <<dispatchVars, popped, used>>

TaskTop(t) ==
    LET s == src[task[t].drv] IN
    /\ task[t].pc = "top"
    /\ IF s.stop THEN TaskStep(t, [task[t] EXCEPT !.pc = "leave"], Finish(s))
       ELSE TaskStep(t, [task[t] EXCEPT !.pc = IF HasCapacity(s) THEN "next" ELSE "keep"], s)
    /\ UNCHANGED <<dispatchVars, popped, used>>

\* next_chunk: the kept chunk, or the next of the open morsel.
NextOfMorsel(t) ==
    LET r == task[t].run
        s == src[task[t].drv]
        kept == r.pend # NoChunk
        chunk == IF kept THEN r.pend ELSE Head(r.iter)
        over == ~kept /\ job.limit > 0 /\ counted >= job.limit
        reached == ~kept /\ job.limit > 0 /\ counted + 1 >= job.limit
    IN
    /\ task[t].pc = "next" /\ (kept \/ r.iter # <<>>)
    /\ counted' = IF kept \/ job.limit = 0 THEN counted ELSE counted + 1
    /\ full' = (full \/ reached)
    /\ TaskStep(t, IF over THEN [task[t] EXCEPT !.pc = "leave", !.last = TRUE]
                   ELSE [task[t] EXCEPT !.pc = "push", !.chunk = chunk,
                            !.run.pend = NoChunk,
                            !.run.iter = IF kept THEN r.iter ELSE Tail(r.iter)], s)
    /\ UNCHANGED <<morsels, more, popped, used>>

\* pop_morsel; an empty queue notifies its observers and ends the runner.
NextMorsel(t) ==
    LET r == task[t].run
        none == QueueEmpty
        rest == IF none THEN morsels ELSE Tail(morsels)
    IN
    /\ task[t].pc = "next" /\ r.pend = NoChunk /\ r.iter = <<>>
    /\ morsels' = rest
    /\ task' = [task EXCEPT ![t] =
                  IF none THEN [@ EXCEPT !.pc = "leave", !.last = TRUE]
                  ELSE [@ EXCEPT !.run = [open |-> TRUE, iter |-> Head(morsels),
                                          pend |-> NoChunk]]]
    /\ src' = IF rest = <<>> /\ ~full THEN AllAwake(src) ELSE src
    /\ popped' = IF none THEN popped ELSE Append(popped, Head(morsels))
    /\ UNCHANGED <<job, more, counted, full, rangeVars, given, used>>

\* Opening or reading the morsel fails.
ReadFails(t) ==
    /\ task[t].pc = "next" /\ task[t].run.pend = NoChunk
    /\ used.stops < job.stops /\ used' = [used EXCEPT !.stops = @ + 1]
    /\ TaskStep(t, [task[t] EXCEPT !.pc = "leave"],
                [Finish(src[task[t].drv]) EXCEPT !.err = TRUE])
    /\ UNCHANGED <<dispatchVars, popped>>

\* Mutant: a chunk that finds the buffer full is dropped.
PushOrDrop(t) ==
    LET s == src[task[t].drv] IN
    /\ task[t].pc = "push"
    /\ IF s.stop THEN TaskStep(t, [task[t] EXCEPT !.pc = "leave", !.chunk = NoChunk], Finish(s))
       ELSE IF HasCapacity(s)
       THEN TaskStep(t, [task[t] EXCEPT !.pc = "top", !.chunk = NoChunk],
                     [s EXCEPT !.buf = Append(@, task[t].chunk), !.wake = TRUE])
       ELSE TaskStep(t, [task[t] EXCEPT !.pc = "keep", !.chunk = NoChunk], s)
    /\ UNCHANGED <<dispatchVars, popped, used>>

\* push_chunk; a chunk that finds the buffer full stays with its runner.
PushScanned(t) ==
    LET s == src[task[t].drv] IN
    /\ task[t].pc = "push"
    /\ IF s.stop THEN TaskStep(t, [task[t] EXCEPT !.pc = "leave", !.chunk = NoChunk], Finish(s))
       ELSE IF HasCapacity(s)
       THEN TaskStep(t, [task[t] EXCEPT !.pc = "top", !.chunk = NoChunk],
                     [s EXCEPT !.buf = Append(@, task[t].chunk), !.wake = TRUE])
       ELSE TaskStep(t, [task[t] EXCEPT !.pc = "keep", !.chunk = NoChunk,
                                        !.run.pend = task[t].chunk], s)
    /\ UNCHANGED <<dispatchVars, popped, used>>

KeepRunner(t) ==
    LET s == src[task[t].drv] IN
    /\ task[t].pc = "keep"
    /\ TaskStep(t, [task[t] EXCEPT !.pc = "leave"], [s EXCEPT !.pool = Append(@, task[t].run)])
    /\ UNCHANGED <<dispatchVars, popped, used>>

\* inflight.fetch_sub; the last task that met an empty queue looks at the pool.
LeaveInflight(t) ==
    LET s == src[task[t].drv] IN
    /\ task[t].pc = "leave"
    /\ TaskStep(t, IF task[t].last /\ s.inflight = 1
                   THEN [NoTask EXCEPT !.pc = "judge", !.drv = task[t].drv] ELSE NoTask,
                [s EXCEPT !.inflight = @ - 1])
    /\ UNCHANGED <<dispatchVars, popped, used>>

JudgePool(t) ==
    LET s == src[task[t].drv] IN
    /\ task[t].pc = "judge"
    /\ TaskStep(t, NoTask, IF PoolBusy(s.pool) THEN s ELSE Finish(s))
    /\ UNCHANGED <<dispatchVars, popped, used>>

-----------------------------------------------------------------------------
DriverStep(d) ==
    \/ Register(d) \/ TakePending(d) \/ AppendTaken(d)
    \/ CheckFinished(d) \/ CheckExhausted(d) \/ LookAtQueue(d) \/ StartScan(d)
    \/ SubmitTask(d) \/ NothingToSubmit(d) \/ PullOrBlock(d) \/ WakeUp(d)

RunTask(t) ==
    \/ TakeRunner(t) \/ TaskTop(t) \/ NextOfMorsel(t) \/ NextMorsel(t) \/ PushScanned(t)
    \/ KeepRunner(t) \/ LeaveInflight(t) \/ JudgePool(t)

ScanNext ==
    \/ SendRanges \/ AppendSent \/ RunDrivers
    \/ \E d \in Drivers :
         DriverStep(d) \/ SubmitRejected(d) \/ CapacityFreed(d) \/ CancelSource(d)
    \/ \E t \in TaskSlots : RunTask(t) \/ ReadFails(t)

\* Drivers and executor threads keep running, tasks of the executor keep being
\* taken; nothing has to fail, and the FE need not send what it announced.
ScanFairness ==
    /\ WF_scanVars(RunDrivers) /\ WF_scanVars(AppendSent)
    /\ \A d \in ScanDrivers : /\ WF_scanVars(d \in Drivers /\ DriverStep(d))
                              /\ WF_scanVars(d \in Drivers /\ CapacityFreed(d))
    /\ \A t \in TaskSlots : WF_scanVars(RunTask(t))

ScanSpec == ScanInit /\ [][ScanNext]_scanVars

-----------------------------------------------------------------------------
Chunks(ms) == UNION {ToSet(ms[i]) : i \in DOMAIN ms}
ScanOver == \A d \in Drivers : src[d].pc = "done"

\* The buffers, pools, tasks and counters are well formed; a driver never has more
\* tasks in flight than connector_io_tasks_per_scan_operator allows, nor more
\* chunks buffered than max_buffered.
ScanTypeOK ==
    /\ job \in ScanJobs /\ more \in BOOLEAN /\ full \in BOOLEAN /\ counted \in Nat
    /\ \A d \in Drivers :
         /\ src[d].inflight \in 0..job.tasks /\ Len(src[d].buf) <= MaxBuffered
         /\ Len(src[d].pool) <= job.tasks
    /\ \A t \in TaskSlots : task[t].drv \in ScanDrivers
    /\ used.rejects \in 0..job.rejects /\ used.stops \in 0..job.stops

\* The steps of a task with a runner, and the tasks of a driver that are in them.
HoldPcs == {"top", "next", "push", "keep"}
Holding(d) == {t \in TaskSlots : task[t].drv = d /\ task[t].pc \in HoldPcs}

\* What a runner, a pool, a task and a driver still have of the morsels popped.
RunChunks(r) == ToSet(r.iter) \cup {r.pend}
PoolChunks(p) == UNION {RunChunks(p[i]) : i \in DOMAIN p}
TaskChunks(x) == IF x.pc \in HoldPcs THEN RunChunks(x.run) \cup {x.chunk} ELSE {}
Held(d) ==
    ToSet(src[d].buf) \cup PoolChunks(src[d].pool)
      \cup UNION {TaskChunks(task[t]) : t \in Holding(d)}

\* While no driver has ended or met an error and the limit is not reached, a chunk of
\* a popped morsel is pulled, buffered, or with a runner in a pool or a task, however
\* many tasks push into full buffers and hand their runners back (run_scan_worker,
\* next_chunk, push_chunk).
ChunksKept ==
    ~full /\ (\A d \in Drivers : ~src[d].stop /\ ~src[d].err)
      => Chunks(popped) \subseteq given \cup UNION {Held(d) : d \in Drivers}

\* A scan that is over has read its whole plan: no driver finishes while a runner still
\* keeps a chunk or an open morsel, as the comment and the test of run_scan_worker have
\* it.  What was read is pulled or buffered, unless a read failed.
PlanScanned ==
    ScanOver /\ job.limit = 0 /\ (\A d \in Drivers : ~src[d].err)
      => Chunks(job.first) \subseteq given \cup UNION {ToSet(src[d].buf) : d \in Drivers}

\* ... and so it is with one task per operator, whatever is refused, read in part or
\* handed back (run_scan_worker, is_finished, maybe_start_async_scan).
SoloPlanScanned == job.tasks = 1 => PlanScanned

\* A scan that finishes has handed on every row it was planned with: what the tests of
\* ScanSource expect of it.
NoRowsDropped == ScanOver /\ job.limit = 0 => Chunks(job.first) \subseteq given

\* Every range that the FE sent is in one place: waiting for the node, taken or
\* being appended, in the queue, or popped once, whenever the node registers.
RangesOnce ==
    LET flat(adds) == FlattenSeq([i \in DOMAIN adds |-> adds[i].morsels])
        held == popped \o morsels \o flat(waiting) \o flat(rpc.adds)
                  \o FlattenSeq([i \in DOMAIN SetToSeq(Drivers) |->
                                   flat(src[SetToSeq(Drivers)[i]].take)])
        sent == job.first \o flat(SubSeq(job.later, 1, rpc.sent))
    IN  /\ Len(held) = Len(sent)
        /\ ToSet(held) = ToSet(sent)

\* Every scan ends: no driver is left blocked when its last task ends, when the
\* executor was full, or when the queue ran dry.
ScanEnds == <>(\A d \in Drivers : src[d].pc \in Over)
=============================================================================
