# NovaRocks: a TLA+ verification project

NovaRocks is an analytical execution engine in Rust. It runs in two ways: as a
backend that answers a StarRocks FE, and as a *standalone* SQL server with its own
optimizer, coordinator, Iceberg connector and "managed lake" tables. This directory
models the parts of it whose correctness depends on the order in which threads,
calls, failures and restarts happen, checks them with TLC on small instances, and
proves most of the safety properties, and the refinement of an abstract table by an Iceberg
table in a REST catalog, with TLAPS for every instance.

Paths below are relative to the repository root (`src/src/...` is its Rust code).
`PROJECT.json` holds the machine-readable side: components, runs, the map from
definitions to source lines, the mutants that show that each property can fail,
hazards, findings and theorems.

- [1. Inventory of the system](#1-inventory-of-the-system)
- [2. Plan](#2-plan)
- [3. Pipeline scheduler](#3-pipeline-scheduler)
- [4. Exchange](#4-exchange)
- [5. Managed lake tables](#5-managed-lake-tables)
- [6. Iceberg tables](#6-iceberg-tables)
- [7. Scans](#7-scans)
- [8. Queries on a compute node](#8-queries-on-a-compute-node)
- [9. Runs](#9-runs)
- [10. Where code and documentation disagree](#10-where-code-and-documentation-disagree)
- [11. Proofs](#11-proofs)
- [12. What is not modelled](#12-what-is-not-modelled)
- [13. Running the checks](#13-running-the-checks)

## 1. Inventory of the system

A query becomes fragments; a fragment instance becomes pipelines; a pipeline becomes
*drivers*, the schedulable units. Fragments talk through *exchanges*. Tables are
external (Iceberg), or managed by the server itself in an object store with SQLite as
the control plane.

| Component | State | Operations | Talks to | What is hard | What makes it correct |
|---|---|---|---|---|---|
| **Pipeline scheduler** (`exec/pipeline/`) | run queue, blocked map, reschedule queue, pending-finish lists, per-driver state and `in_blocked`, dependencies, `FragmentCompletion` | pop, process, park, wake, reprobe, abort, count down, shut down, join | operators (observers), exchanges (cancel), query context | wake-ups that race with parking; aborts that race with probing; shutdown with keys in the queue | a task is in exactly one place; no wake-up is lost; the countdown is exact; a fragment always completes; failure is never reported as success |
| **Exchange** (`runtime/exchange.rs`, `service/exchange_sender.rs`, `exec/operators/data_stream_sink.rs`, `exec/operators/exchange_source.rs`) | send queue with lanes and in-flight bytes, trackers, sink buffers; receiver map, tombstones, receiver states | push, flush, reserve, enqueue, send, complete, end-of-stream; get-or-create, push, pop, cancel, remove | scheduler (observables), coordinator or backend service (tear-down) | end-of-stream among several drivers; backpressure; keys removed while a call is under way | end means all data arrived; per-driver order; exact accounting; senders always drain |
| **Managed lake tables** (`connector/starrocks/managed/`, `connector/starrocks/lake/transactions.rs`) | SQLite: txns, partitions, erase jobs; object store: txn logs, metadata bundles; memory: catalogs, tablet runtime registry | INSERT, TRUNCATE, DROP, erase, crash, reopen, recovery | SQL sessions, object store, SQLite | no transaction spans SQLite, object store and memory; concurrent sessions; a crash between any two steps | transactions are whole and durable; readers see only committed data; the server opens again; retired data is erased |
| **Scan dispatch** (`exec/operators/scan/`, `runtime/scan_executor.rs`) | morsel queue, `has_more`, limit; per driver a bounded chunk buffer, a runner pool, in-flight tasks; pending incremental ranges | register, append ranges, submit, refuse, take runner, read, push, pull, leave, finish | query context (ranges), scheduler (observables), I/O threads | the driver refills the executor between any two steps of a task that ends | no planned row is dropped, every range is scanned once, the scan ends |
| **Query contexts** (`runtime/query_context.rs`, `service/internal_service.rs`) | active and second-chance maps, fragment counts, deadlines, known instances, completions | ensure, register, finish_fragment, cancel, clean_expired | backend service, scheduler | late fragments, expiry racing with registration, cancels racing with arrivals | a cancel reaches every fragment; contexts are neither leaked nor dropped in use |
| **Result buffers** (`runtime/result_buffer.rs`) | one block per instance: batches, end, error, cancellation | create, insert, close, fetch, cancel | root fragment, client | `entry().or_insert` re-creates a removed block | eos means that the client has every batch |
| Standalone coordinator (`runtime/coordinator.rs`) | background threads and their outcomes | launch fragments, run the root, cancel exchanges on failure | scheduler, exchange | errors before all fragments run | a failure ends every fragment |
| **Iceberg commit** (`connector/iceberg/commit/`, `connector/iceberg/catalog/`, `engine/*_flow.rs`) | metadata versions and hint, snapshots, refs, row ids; staged files, abort log | load, write files, build a snapshot, update the table, retry, classify the error, clean up | REST catalog, file system, object store | an answer that is lost; a catalog that checks against cached metadata; retries on another base | acknowledged writes stay; files of a commit that may succeed are never deleted; a statement takes effect at most once, whole |
| **Iceberg maintenance** (same directory) | refs, snapshots, file listings | create and drop branch, expire, remove orphans by age | Iceberg commit | plans made from loaded metadata | no reachable snapshot and no needed file goes |
| Materialized views (`engine/mv_flow.rs`) | refresh metadata, staged partitions | full and incremental refresh | managed lake, Iceberg | crash between swap and metadata | a view shows the state of one snapshot of its bases |
| Lake background operations (`connector/starrocks/lake/`) | metadata versions, logs | abort, vacuum, compaction, schema change, primary-key apply | publish | conflicts with publish | readers keep their version |
| Runtime filters (`runtime/runtime_filter_hub.rs`, `..._worker.rs`) | partial and merged filters, waiters | publish, merge, wait with timeout | scans, exchange service | late partial filters | a filter is complete before it is used |
| Operators, expressions, SQL front end and lowering, file formats, caches, memory tracking and spill, MySQL server, FE reports, C++ shim | local | sequential data processing or I/O | – | little concurrency of their own | value-level tests fit them better |

Each hazard found during the survey is listed in `PROJECT.json` at its source line,
with the properties that would catch it or a note.

## 2. Plan

In order of importance; the first six are built.

1. **`PipelineScheduler`** – everything a query does runs on it. Model, runs; all its safety
   properties are proved.
2. **`Exchange`** = `ExchangeSetup` → `ExchangeSend`, `ExchangeReceive` → the call between
   them. Model, runs; all its safety properties are proved.
3. **`ManagedLake`** = `ManagedStore` → `ManagedInsert` → `ManagedDdl` → `ManagedLake`.
   Model, runs; all its safety properties are proved, those that fail when statements overlap
   under the hypothesis `Calm` that they do not.
4. **`Iceberg`** = `IcebergTable` → `IcebergCommit` → `IcebergCatalog` →
   `IcebergMaintenance` → `Iceberg`, and the abstract `VersionedTable` that it implements.
   Model and runs; for tables in a REST catalog all its properties and the refinement are
   proved. Next: the Hadoop catalog with one committing session.
5. **`ScanSource`** – model and runs; all the properties of its passing run are proved.
   Next: `NoRowsDropped`, once the two races of section 10 are closed.
6. **`QueryLifecycle`** with the root's result buffer – model, runs; all its safety
   properties are proved.
7. **The standalone coordinator's launch**, composed with `QueryLifecycle`'s threads.
8. **Extensions of `ManagedStore`**: publish batches, abort, vacuum, MV refresh.
9. **Runtime filters**.

Every module takes its sizes as `CONSTANTS` with named assumptions, has one action per
operation or critical section, and declares no `RECURSIVE` operator, so that it can be
proved about. Where one run covers several instances of a component, the instance is a
variable that `Init` chooses from a constant set and no step changes: `setup` (exchange),
`budget` (managed lake), `load` (Iceberg), `job` (scan), `plan` (query).

## 3. Pipeline scheduler

`PipelineScheduler.tla`, instantiated by `MCPipelineScheduler.tla`, proved about in
`PipelineScheduler_proofs.tla`.

**What it models.** One fragment instance: the worker threads of
`global_driver_executor.rs`, the event-scheduler thread and blocked map of
`event_scheduler.rs`, the pending-finish poller of `blocked_driver_poller.rs`, the
observers of `schedule/observer.rs`, the dependencies a hash join's probe waits for,
the driver's `process` loop in `driver.rs`, and the fragment completion
(`fail_internal`, `driver_finished`, `wait`).

**State.** `runq`, `blocked`, `rq` and `shutdown` are the queues and the map; `pc`,
`task`, `snap`, `first` say what each thread is doing and holds; `poll` is the
poller's three lists; `dstate`, `final`, `inBlocked` belong to the driver; `events`
are notifications whose `do_update` has not yet run; `src`, `edge`, `sink`, `io`,
`dep` are what the scheduler can ask of operators; `ctxError`, `compl`, `done`,
`result` are the completion.

**Actions.** Every lock section and every atomic is a step of its own where another
thread can observe the difference. Parking is therefore four or five steps
(`ParkInsert`, `ParkMark` or `AddWaiter`/`RecheckWaiter`, `ParkSelfEnqueue`), failing
is five (`SetFinalStatus`, `SnapBlocked`, `PushBlocked`, `SetAborting`,
`CancelExchanges`), the event scheduler's loop is `SchedTake` … `SchedReinsert`, and
completion is `DriverFinished`, `Shutdown`, `Join`. `DriveDataflow`,
`DriveSetFinishing`, `NoProgress`, `Classify`, `Requeue` are a slice of
`process_inner`. `Produce`, `EndOfStream`, `Drain`, `IoDone` are the outside world: a
scan or an exchange receiver that gets data, a sink that makes room, asynchronous I/O
that ends. `OperatorFails` is an operator that returns an error or panics, at any call.

**Abstractions.** Operators are reduced to the questions the scheduler asks. A driver
has one source, one edge and one sink. The list of a dependency's waiters is a set.
`enqueue`'s test of the shutdown flag and its push are one step. `has_ready_finishing_work`
is left out. A driver that makes no progress always parks; in the code it stays ready when
`find_precondition_dependency` meets an unfinished operator without a dependency first
(`driver.rs` 517–530), which only adds turns through the run queue. No operator in the
repository overrides `pending_finish` to return true today; the model follows the trait's
contract (`exec/pipeline/operator.rs` 86–88), so the poller is exercised. A panic, or a driver
that cannot be parked because it exposes no observable, drops a driver without waiting for its
I/O; that is what the code does, and `ReleasedQuiescent` is stated accordingly.

**Bounds.** Two drivers, the build and the probe side of a hash join: the smallest
fragment in which one driver waits for another. Two workers, so that the two drivers
really run at the same time as the event scheduler and the poller. One chunk per
source: enough for data to arrive before, while and after a driver parks.

**Fairness.** Weak fairness of each worker, the event scheduler, the poller, a
cancellation that has begun, and `wait`: they are operating-system threads in loops.
Weak fairness of sources, sinks, I/O and notification delivery: they are what the
fragment waits for. None for failures and cancellations.

**Properties.**
- `OwnedOnce`: a task is in exactly one of the run queue, a thread, the map, the
  poller's lists or done.
- `NoLostWakeup`: a parked driver that could run has a key queued or owed. The danger
  is the window between publishing a task in the map and setting `in_blocked`, in
  which observers drop events.
- `RemainingExact`, `ShutdownLast`: `driver_finished` is called once per driver; the
  scheduler is not shut down under a parked driver.
- `ReleasedQuiescent`: a driver that finished is dropped only when its I/O is over.
- `OkMeansFinished`: `wait` reports success only when every driver finished.
- `Completes`: without failures, the fragment completes and the threads are joined.
- `AbortCompletes`: *violated*, see section 10.

## 4. Exchange

`ExchangeSetup.tla` (the shape of an exchange and what may go wrong in it),
`ExchangeSend.tla` (sink drivers and send queue), `ExchangeReceive.tla` (receiver map
and sources), `Exchange.tla` (the call between them and the fragments' tear-down),
instantiated by `MCExchange.tla`, proved about in `Exchange_proofs.tla` (what arrives) and
`ExchangeAccounting_proofs.tla` (what is reserved).

**Sending.** A sink driver asks for input only if the queue has room for a batch
(`NeedInput`), buffers and flushes (`PushChunk`, with `TryEnqueuePayload` and the
forced flush of `set_finishing` as functions of the buffers), counts its fragment's
finish state down (`CountDown`, the last one sends end-of-stream), checks the error
state (`CheckError`) and then asks whether it is idle (`MaybeMarkFinished`); the gap
between the last two is real and is why they are two steps. The queue starts a lane
with `EnqueueTasks` and `OnTaskComplete` takes the next task or retires the lane.

**The call.** `transmit_chunk` decodes under one look-up of the receiver, without
testing the tombstone (`DecodeLookup`, `DecodeMeta`), then tests the tombstone
(`PushCheck`), looks the receiver up again (`PushLookup`) and pushes (`PushChunks`).
Each is a critical section; the key can be cancelled or removed between any two.
Calls fail on the way there (`SendFails`) or back (`ResponseLost`).

**Receiving.** Receivers are shared by reference, so they are numbered by creation and
a source keeps the one it looked up. `PrepareCheck`/`PrepareGet`, `PullChunk`,
`PullTimeout`, `StopEarly`, `AbortSource` are a source's life.

**Tear-down.** `Standalone` selects who tears down: the standalone coordinator, which
cancels the other fragments' exchanges when one fails (`CancelPeers`), or the backend
service, which reacts to the FE (`FeCancel`, `AbortFromQuery`) and removes the
fragment's keys at its end (`TailCancel`, `TailRemove`).

**Abstractions.** One destination, one exchange key, chunks of size one.
`expected_senders` is a constant. Encoding is left out but for the wire metadata that
must precede the first data of a receiver. Standalone fragments have no memory
tracker. Registration tests the tombstone and creates the receiver in one step. Not modelled: the
blocking readers (`exchange_scan`, `take_all`),
`cancel_exchange_key`, the multicast sink, hash partitioning. `driver_finished`'s
`force_eos` branch cannot be reached. `BatchBytes <= MaxInflight` is assumed (the
defaults are 256 KiB and 64 MiB); otherwise `need_input` asks for more than can ever
be reserved.

**Bounds.** Two drivers of one sender and room for one batch make them compete; two
sources share a receiver; two senders are needed for the end-of-stream count; two
chunks per driver for order. `MCExchange` gives the four setups: `Crowd` and `Readers`
without failures, `Pair` with a failing sender, `Rough` with everything that can go wrong
for one driver. A call that `MaxReceivers` cut off would stall its lane for ever, so
`Settles` passing shows that the bound is large enough.

**Fairness.** Weak fairness per sink driver, per lane on the I/O executor, per source,
of a failing fragment's cancellations and of the receiving fragment. None for
failures, cancels, LIMITs, timeouts.

**Properties.** `EndMeansAll`, `PerSinkOrder`, `AccountingExact`, `Backpressure`,
`OneSendPerLane` and the liveness property `Settles`: every sender ends and returns what it
reserved, and where nothing fails everything is delivered. `SendsReported` is *violated*.

## 5. Managed lake tables

`ManagedStore.tla` (SQLite and object store), `ManagedInsert.tla` (INSERT),
`ManagedDdl.tla` (TRUNCATE, DROP of another table, erase worker), `ManagedLake.tla`
(crash, reopen, recovery; the whole server), instantiated by `MCManagedLake.tla`. Each
extends the one before. `ManagedLake_proofs.tla` and `ManagedCalm_proofs.tla` hold the proofs.

**State.** Durable: the SQLite rows `txns`, `parts`, `jobs` and their id counters
(`managed/store.rs`); the object store's `logs` and `bundle`, one metadata bundle per
partition and version with an entry per tablet. In memory: `lake`, the
`ManagedLakeCatalog` from which statements plan; `view`, the catalog entry from which
SELECT scans; `reg`, the process-wide tablet runtime registry. `ws`, `ddl`, `eraser`,
`rec` are the statements and workers in progress. `routed`, `acked`, `truncated` are
history variables.

**Actions.** One per SQLite transaction, object-store step or catalog lock section,
because nothing is held from one to the next. An INSERT is `Plan`, `Prepare`,
`WriteLog` per tablet, `MarkWritten`, `PublishRead`, `PublishWrite`, `PublishCleanup`,
`MarkVisible`, `AdvanceCatalog`, `RegisterView`, with the error path of each
(`Abort`, or a return that leaves the row as it is). TRUNCATE stages a partition,
bootstraps it, activates it, removes the old runtimes, reloads the catalog from SQLite,
swaps it in and registers the table (`TruncStage` … `TruncRegister`, `TruncCleanup`).
DROP of another table appears because it reloads and swaps the same catalog
(`DropReload`, `DropSwap`). The erase worker claims a job, deletes the partition's
root, purges the metadata, finishes (`EraseClaim` … `EraseFinish`, `EraseFail`).
`Crash` is the death of the process at any point; `Reopen` closes and reopens the
engine in the same process, where the runtime registry survives. Opening is `Start`
(`reconcile_on_open`), then `ReplayPublish` and `ReplayVisible` per WRITTEN
transaction, then `FinishOpen`.

`Publish*` follow `publish_version` in `lake/transactions.rs`: every tablet reads its
base and its log, or finds the version already published; the outcomes are merged into
one bundle together with metadata synthesised for siblings; the logs are deleted.

**Abstractions.** One table with append (duplicate-key) semantics. A rowset is the id
of the transaction that wrote it, so a tablet's metadata is a set of transactions. One
DDL statement at a time. Recovery publishes a transaction's tablets in one step, as
nothing else runs then. The partial failures of `Start` are folded into one, because
its parts are idempotent and repeated by the next open; `FinishOpen` has no storage fault
either (`load_tablet_snapshot`, `managed/catalog.rs` 357), whose effect is that of a failed
`Start`. CREATE and DROP of the modelled table itself, CREATE TABLE of another table
(`managed/ddl.rs` 112–312), DROP DATABASE (467–496), MV refresh writes and optimize jobs are
not modelled.

**Bounds.** Two tablets, so that a transaction can be half applied; two transactions,
so that the second builds on the first; two partitions, one before and one after a
TRUNCATE; one failing object-store call, one failing SQLite transaction, one crash, at
any point; one DROP of another table and one reopen. A budget (`Limits`) says how much of
each a behaviour may contain. Tablets and sessions are symmetric in `managed_serial`, whose
properties need no fairness.

**Calm.** `CalmSpec` is `Spec` with a hypothesis on the clients, which the server does not
enforce: one INSERT at a time, no INSERT between the reload and the swap of a DROP, and no
engine reopened in a process in which a SQLite transaction failed. TRUNCATE may start and end
anywhere in an INSERT, the erase worker runs, storage calls fail and the process dies at any
point. No conjunct can be left out: without the first or the second, TLC finds `VisibleTxnWhole`,
`AckedRowsKept`, `ReadsOnlyVisible` and `SnapshotsStable` violated by two INSERTs (and a DROP);
without the third, `VisibleTxnWhole` by two INSERTs, a failed SQLite transaction and a reopen, and
`RecoveredAgrees` by three. Under `Calm` no replay of a WRITTEN transaction succeeds: after a
crash the open fails (`managed_recover`), and a reopened engine finds none. What a successful
replay does is in the runs `tables` (`OpenSettles`, `ActiveReadable`) and in their theorems, which
are about `Spec`.

**Fairness.** Weak fairness of a statement that has begun, of the erase worker and of a
server that opens. Nobody has to issue statements and nothing has to fail or crash.
`TxnsSettle` makes no claim once a SQLite transaction has failed, because then a
transaction may stay as it is until the engine is reopened.

**Properties.** `ActiveReadable` and `OpenSettles` of `Spec`; `VisibleTxnWhole`, `AckedRowsKept`,
`ReadsOnlyVisible`, `SnapshotsStable` and `RecoveredAgrees` of `CalmSpec`; liveness `EraseCompletes`, `TxnsSettle`, `Recovers`.
`ReadsOnlyVisible` is *violated* with two sessions and `Recovers` is *violated* after a
crash.

## 6. Iceberg tables

`IcebergTable.tla` (metadata, snapshots, files), `IcebergCommit.tla` (statements up to the
catalog call, clean-up), `IcebergCatalog.tla` (the REST and the Hadoop catalog),
`IcebergMaintenance.tla` (branches, OPTIMIZE, EXPIRE, REMOVE ORPHAN FILES, death of the process),
`Iceberg.tla` (the table as a whole, its properties and its refinement),
`VersionedTable.tla` (what it promises), instantiated by `MCIceberg.tla` and, together with
the managed lake, by `MCTables.tla`.

**State.** `meta[v]` are the metadata files (for REST, the successive states of the
server), `hint` is `version-hint.text` (or the server's current state). A metadata value
has the snapshots, the refs `main` and `dev`, `next-row-id` and the last sequence number. A
snapshot records its parent, its row-id range and, as sets of statements, which data and
delete files are alive, which manifests are listed and which files their entries name.
`disk` is the set of files that exist, `body` the rows in a statement's data file or the
rows its delete file hides. `st[s]` is statement `s`.

**Actions.** A statement begins (`Begin`; DELETE scans then, `DeleteScan`), writes its files
(`WriteFiles`), reloads and builds a snapshot (`Build`, with one operator per commit action:
`Appended`, `Overwritten`, `PositionDeleted`, `VectorDeleted`, `Rewritten`, `Emptied`) and
updates the table. Through REST the server checks and applies in one step (`RestUpdate`);
the request or its answer may be lost (`RestLost`) and a request may take effect after its
client gave up (`RestLate`). Through the Hadoop catalog it is three steps (`HadoopApply`,
`HadoopWriteMeta`, `HadoopWriteHint`). A conflict is retried (`Conflict`); a definite failure
deletes what the abort log names (`Cleanup`), an unknown one nothing. ALTER TABLE OPTIMIZE
queues a job with main's snapshot as its base, unless the table has an active one
(`OptimizeQueue`); the worker claims it and validates the base (`OptimizeClaim`,
`BaseValid`), writes what a SELECT returns (`RowsToWrite`), and validates again
(`OptimizeReload`), after which a failure cleans up the files it wrote. `RefBegin`,
`ExpireBegin`/`ExpirePlan`/`ExpireDelete` and `OrphanBegin`/`OrphanDelete` are the other
maintenance statements. Every call that can fail does so within the bound `slips`, and `Die`
ends the process.

**Abstractions.** A statement adds at most one data or delete file of two rows. Time is left
out: EXPIRE's threshold is a sequence number, REMOVE ORPHAN FILES' an age that no running
statement reaches. DELETE, TRUNCATE, OPTIMIZE, EXPIRE and REMOVE ORPHAN FILES build a Hadoop
catalog whatever the table's is. The Hadoop catalog of a statement reads the hint, except that
`insert_rows`, the path of literal INSERTs, registers the metadata that SELECT reads
(`registry.rs` 742–776), the highest version there is (`Newest`). The table cache of the
registry is left out. The outcome of an OPTIMIZE is its job's: `acked` is FINISHED. The job table's
own failures after the commit are left out.

**Refinement.** `MainIsVersioned` says that `main`, seen through `MainTable`, is a
`VersionedTable`: a statement takes effect at most once and in one step, is acknowledged only
after that, and never takes effect when it was refused. Its rows are the *committed* ones, those
of `main` in the metadata that the hint names and on which the next statement builds; the
statements done are those in `main`'s history. Through Hadoop this is not always what a query sees:
after a hint write that failed SELECT reads the metadata that was written and not committed, until
the next commit replaces it. Two statements read it too. An OPTIMIZE whose job was queued before
commits the rows of the failed statement (section 10, known deviations), and a literal INSERT
builds on it and so commits the failed statement with itself. The workloads in which OPTIMIZE or
INSERT through Hadoop follows other statements therefore have no faults; OPTIMIZE alone, with orphan
removal, has two.

**Bounds.** Three statements on a table that two statements made, one retry. Two sessions
through REST, one committing session through Hadoop (with two `AckedKept` and `NoDanglingFiles` fail, section 10)
with orphan removal and a queued OPTIMIZE beside it; one fault, two where a fault must first leave
orphans.

**Properties.** `AckedKept`, `NoDanglingFiles`, `RowIdsUnique`, `MainIsVersioned`. What fails outside
these bounds, EXPIRE beside a second session and OPTIMIZE after a failed hint write, is in section 10.
There is no liveness property: nothing makes a client retry.

## 7. Scans

`ScanSource.tla`, instantiated by `MCScan.tla` and `MCFragments.tla`, proved about in
`ScanSource_proofs.tla`.

**State.** `morsels`, `more`, `counted`, `full` are the `ScanDispatchState` that the drivers
share; `src[d]` is a driver's operator: its place in `is_finished`/`has_output`/`pull_chunk`,
the chunk buffer, the runner pool, the in-flight count, whether it is finished, failed,
cancelled, registered for capacity, and whether its observable has fired; `task[t]` are tasks
of the scan executor; `handle`, `waiting`, `rpc` are the incremental ranges of
`QueryContextManager`.

**Actions.** Ranges arrive (`SendRanges`, `AppendSent`) while each driver registers the node
(`Register`, `TakePending`, `AppendTaken`). A driver asks `is_finished` (`CheckFinished` for its
own state and buffer, `CheckExhausted` for the in-flight count, the queue and the pool, read later
and without a lock across the two), then
`maybe_start_async_scan` in the order in which the code reads (`LookAtQueue`, `StartScan`,
`SubmitTask`, `SubmitRejected`, `NothingToSubmit`), then pulls or blocks (`PullOrBlock`,
`WakeUp`, `CapacityFreed`). A task is `TakeRunner`, `TaskTop`, `NextOfMorsel`, `NextMorsel`,
`PushScanned`, `KeepRunner`, `LeaveInflight`, `JudgePool`: `run_scan_worker` holds no lock from
one to the next.

`CheckExhausted` reads the in-flight count, the queue and the pool in one step: the first of
them says that no task is left, and only the driver itself submits new ones.

**Abstractions.** The early return of `append_incremental_scan_ranges` for an unknown instance
(`query_context.rs` 809–820) and a failing append (321) are left out of `SendRanges`: the FE
addresses instances that it has submitted.

**Bounds.** A chunk buffer of two and three chunks in two morsels, so that tasks meet a full buffer
and a chunk may stay in one; one or two drivers or tasks; one refused submission. The violation
has an instance of its own: one task with one chunk, or two tasks.

**Fairness.** Weak fairness of drivers, of tasks and of the executor's taking of tasks. None for
refusals, failures and the FE.

**Properties.** `ChunksKept`: until a driver ends or fails, a chunk of a popped morsel is pulled,
buffered, or with a runner. `PlanScanned`: a scan that is over has read the morsels of its plan (ranges
that follow are the subject of `RangesOnce`); it is *violated* with two tasks, and
`SoloPlanScanned` says it for one. `NoRowsDropped`: a scan that is over has handed on every chunk; it
is *violated* with one task already. `RangesOnce`, `ScanEnds`.

## 8. Queries on a compute node

`QueryLifecycle.tla`, instantiated by `MCFragments.tla`, proved about in
`QueryLifecycle_proofs.tla`.

**State.** `active` and `second` are the query's entries in the two maps; `known` and `comps`
the registries of instances and completions; `block` the root's result buffer; `req` the FE's
submissions, `frag` the instances, `canceller` the cancellations under way (of the FE and of each
failing instance), `client` the reader.

**Actions.** A submission ensures the context, stores the descriptor table, counts the instance
in, observes the total and spawns (`EnsureContext` … `Spawn`, `Missing`, `Invalid`). An
instance's thread registers its completion, asks whether the query was cancelled, runs, and
unregisters (`RegisterCompletion` … `EndFragment`). `cancel_query` marks the contexts and collects
what to abort in one lock section (`CancelQuery`); the aborts and the result buffers follow
outside of it (`AbortOne`, `CancelTells`, `FragmentTells`, `CancelUnregisters`). `CleanExpired` is
the clean-up thread.

**Abstractions.** One query; time is left out, so a context in its second chance may expire at
any moment. No fragment instance id is submitted twice (`SentOnce`): the FE gives every instance
an id of its own. `IsDead` asks for a total above zero where the code has an optional one, and
`Spawn` merges `create_sender` with `register_finst` (`internal_service.rs` 1035, 1042), which
no other step tells apart. Drivers are the subject of `PipelineScheduler`: here they end once
their fragment is aborted and may end by themselves; the root's finish after the others'.
Exchanges that a cancel tears down are the subject of `Exchange`.

**Bounds.** Two instances, the smallest query in which one instance's end and another's arrival
meet; two requests; two batches; one cancel, one failure, one invalid submission.

**Fairness.** Weak fairness of requests, of instance threads (an aborted driver ends), of
cancellations that have begun and of the clean-up thread. A client need not fetch and drivers that
nobody aborts need not end.

**Properties.** `ContextHeld`, `EosMeansAll`; liveness `CancelReaches`, `ContextsReclaimed`.

## 9. Runs

`CHECK_DEADLOCK FALSE` appears in every configuration because each system may rightly
stop: a fragment that is over, an exchange that has been delivered or torn down, a
server without statements. Where stopping early would be wrong, a liveness property
says so.

| Run | Configuration | Shows |
|---|---|---|
| `scheduler_live` | join of two drivers, two workers, no failures, fairness | `NoLostWakeup`, `Completes` |
| `scheduler_fail` | the same with errors, panics, cancellation, a driver without an observable, asynchronous I/O | `TypeOK`, `OwnedOnce`, `RemainingExact`, `ShutdownLast`, `ReleasedQuiescent`, `OkMeansFinished` |
| `scheduler_hang` | one worker, operators may fail, fairness | **violation** of `AbortCompletes` |
| `exchange` | four setups, see section 4, fairness | `TypeOK`, `EndMeansAll`, `PerSinkOrder`, `AccountingExact`, `Backpressure`, `OneSendPerLane`, `Settles` |
| `exchange_report` | one driver, one chunk, calls fail | **violation** of `SendsReported` |
| `managed_serial` | `CalmSpec`, two sessions; TRUNCATE, erase worker, one fault of each kind and a crash, or DROP of another table, a failing object-store call, a crash and a reopen | `TypeOK`, `VisibleTxnWhole`, `AckedRowsKept`, `ReadsOnlyVisible`, `SnapshotsStable` |
| `managed_concurrent` | two sessions, no faults | **violation** of `ReadsOnlyVisible` |
| `managed_recover` | one INSERT, one crash, fairness | **violation** of `Recovers` |
| `tables` | a managed-lake table whose engine is reopened, or with TRUNCATE, DROP of another table and a failing object-store call, with fairness; or an Iceberg table under one of fourteen workloads | `ActiveReadable`, `OpenSettles`, `Recovers`, `EraseCompletes`, `TxnsSettle`; `IceTypeOK`, `AckedKept`, `NoDanglingFiles`, `RowIdsUnique`, `MainIsVersioned` |
| `iceberg_hadoop` | two sessions append through the Hadoop catalog | **violation** of `AckedKept` |
| `fragments` | one of five scans or one of five queries, fairness | `ScanTypeOK`, `ChunksKept`, `SoloPlanScanned`, `RangesOnce`, `ScanEnds`; `QTypeOK`, `ContextHeld`, `EosMeansAll`, `CancelReaches`, `ContextsReclaimed` |
| `scan_closed` | one driver, with one task and one chunk or with two tasks | **violation** of `NoRowsDropped` |

`tables` and `fragments` combine two components that share no state: a behaviour has something
to do in one of them, so the states are the sum and not the product, and each property is checked
over the workloads of its own component.

Each property of a passing run has a mutant in `PROJECT.json`: a definition of the model
changed the way a bug would change the code, under which TLC finds the property violated.
The mutated forms stand beside the definitions they replace (`AbortEvenWithIo`,
`PullUnasked`, `RetireAlways`, `ForgetBase`, `CleanUnknown`, `PendingOnly`, …) and are used by nothing
else.

## 10. Where code and documentation disagree

Six disagreements are checked by runs; `PROJECT.json` quotes the sources.

- **An abort can miss a parked driver** (`scheduler_hang`).
  `global_driver_executor.rs:96`: `fail_internal` enqueues every blocked driver before it
  sets `aborting` (line 101). The event scheduler can handle the key in between, find no
  abort and an unready dependency, and put the driver back. If the dependency is a build
  side that failed, nothing enqueues the driver again and `wait` never returns.
- **A failed send can go unreported** (`exchange_report`). `driver.rs:435`: the driver
  reads the error state, then asks `is_finished` (line 443). A send that fails in between
  sets the error and makes the sink idle; the driver finishes and the fragment reports
  success.
- **Concurrent INSERTs share a version** (`managed_concurrent`). `managed/store.rs:1655`:
  the commit version is the planned base plus one and is not checked against other
  transactions. The second publish overwrites the bundle the first made visible.
- **A crash between WRITTEN and VISIBLE keeps the server from opening**
  (`managed_recover`). `engine/mod.rs:1525` replays before the tablet runtimes are
  registered (line 1556), so the replay fails, and fails again at every open.
- **A concurrent commit through the Hadoop catalog loses an acknowledged write**
  (`iceberg_hadoop`). `hadoop_catalog.rs:343`: requirements are checked against the metadata that
  the statement's own catalog instance resolved first; the next version is hint + 1 and the last
  writer wins.
- **A scan can finish with a chunk in its buffer** (`scan_closed`). `scan/source.rs:613`:
  `is_finished` finds the buffer empty; the only task pushes its last chunk and leaves; `is_finished`
  then finds nothing in flight, nothing queued and nothing pending, marks the scan finished and
  returns true. The driver closes the edge (`driver.rs` 1060–1066, 1107) and the chunk is lost. A
  read error recorded in the same window is lost likewise: the scan ends as if it had succeeded.

**Known deviations.** Further ones were found with the same models. Their properties are defined in
the modules; no configuration under which they fail is kept. The setup, budget, job or workload that
shows each is given here; the limits not mentioned are zero.

| Property | Instance | Source and text |
|---|---|---|
| `Exchange!RemovedForGood` | `Rough` | `runtime/exchange.rs:1340`: the decoding look-up ignores the tombstone, so a late payload re-creates a removed receiver; the comment at `:320` says late data is rejected |
| `Exchange!FailureUnblocks` | `Pair`, with `FairSpec` | `runtime/coordinator.rs:479`: a cancel that comes before the receiver exists leaves neither receiver nor tombstone, and one that comes between a source's tombstone test and its look-up is followed by a fresh receiver; the comment at `:477` says blocked receivers unblock |
| `ManagedLake!AckedRowsKept` | one writer, 2 txns, 1 part, 1 drop | `managed/ddl.rs:444`: DROP of another table swaps in a catalog it loaded before an INSERT advanced it, so the next INSERT plans from an old version; `docs/superpowers/specs/2026-04-21-standalone-managed-lake-lifecycle-design.md:157` |
| `ManagedLake!TruncatedStaysEmpty` | 1 txn, 2 parts | `managed/txn.rs:876`: an INSERT that planned before a TRUNCATE registers the old partition for SELECT after it; same document `:197` |
| `ManagedLake!EraseCompletes` | `EraseBudget` with `Writers = {}` and 1 crash | `managed/store.rs:1798`: a job left RUNNING by a crash is never listed again; same document `:389`. A failing `finish_erase_job` after the purge likewise leaves the job FAILED |
| `ManagedLake!VisibleTxnWhole` | 1 txn, 1 obj, 1 sql, 1 reopen | `lake/transactions.rs:631`: metadata synthesised for a failed sibling is taken for a published version when the transaction is replayed; design document `2026-04-20-standalone-lake-metadata-design.md:313`, `managed/txn.rs:758-760` |
| `ManagedLake!RecoveredAgrees` | one tablet, 3 txns, 1 sql, 1 reopen | `managed/store.rs:1708` advances the version in SQLite, while `managed/catalog.rs:464` keeps the snapshot's; comment `catalog.rs:382-384` |
| `ManagedLake!Recovers` | `ReopenBudget` with 2 parts | a WRITTEN transaction of a partition that a TRUNCATE retired cannot be replayed |
| `Iceberg!NoDanglingFiles` | `Workload("hadoop", 3, {"create", "drop", "expire"}, 2, 0)` | `commit/expire_snapshots.rs:173`: EXPIRE requires main's head only, which CREATE BRANCH does not move, and both commit on metadata they loaded before; the new branch may point to a snapshot whose files EXPIRE deletes. The comment at `:165-166` says "no current ref snapshot ids are removed", `docs/iceberg-v3/maintenance.md:61` that a snapshot a branch or tag points to never expires |
| `Iceberg!MainIsVersioned` | `Workload("hadoop", 3, {"append", "rewrite"}, 1, 1)` | `iceberg/compact.rs:251`: OPTIMIZE validates its base on the hinted metadata, before and after, but its rows come from a SELECT, which reads the newest; after a hint write that failed in between, the replacement holds rows that were not committed. `docs/superpowers/specs/2026-05-04-iceberg-v3-compact-data-files-design.md:347` says a replacement leaves the logical data unchanged. A job queued after the failure is refused, because its base was read from the newest metadata |
| `ScanSource!PlanScanned` | `TwoTasks` | `scan/runner.rs:1467`: the last task leaves `inflight` and only then looks at the runner pool; the driver may have handed the pending runner to a new task in between, and the scan is marked finished while that runner still has rows. The comment at `:1469-1471` says "Marking finished too early drops those buffered rows"; the test at `:1838` asserts that it does not happen |
| `ScanSource!ScanEnds` | `OneDriver` with 2 rejects | `scan/source.rs:412`: `waiting_on_capacity` stays set after the waiter was notified, so a second refusal in a row registers no waiter and nothing wakes the driver |

Behaviours that the models contain, or that were met while reading, and that a reader may want to
know of; no document promises otherwise unless one is named:

- *Scan.* `run_scan_worker` marks the scan finished on an empty queue without asking `has_more`, and
  `maybe_start_async_scan` reads the queue before `has_more`; ranges that arrive in between are
  appended to a scan that has finished. A registration that appends pending ranges after a newer
  direct append puts the older `has_more` back.
- *Query.* A cancel of an instance that has not arrived ends with `unregister_finst`
  (`internal_service.rs:1608-1611`); if the instance arrives meanwhile, later cancels do not find
  it. `CancelReaches` excepts these instances. A submission that fails after counting its instance
  leaves the count up for ever (`rollback_inc_fragments` has no caller), hence the condition in
  `ContextsReclaimed`. A batch whose context moves to its second chance between two calls fails
  with "QueryContext not found". Only a fetch that ends in an error removes a block.
- *Iceberg.* An append or overwrite of a branch builds on `main`'s manifest list. The design
  document `2026-05-05-iceberg-time-travel-and-branch-tag-design.md:364` calls writes to different
  refs independent, but they share sequence numbers and row ids, and a version 3 append that loses
  this race is refused. An INSERT into a branch dropped meanwhile, or never made, creates it (`:366`
  says it is rejected). An unreadable hint counts as version 0, so the commit writes `v1`. After a
  failed hint write SELECT reads the new metadata and the next commit replaces it. A retried
  OPTIMIZE deletes files it never read. Definite and unknown outcomes are told apart by words in the
  message. A literal INSERT after a failed hint write commits the failed statement too.

## 11. Proofs

Eight modules prove safety properties for every value of the constants, from the named
assumptions of the modules they extend. Each proof finds an inductive invariant, shows that
`Init` implies it and that every action preserves it (one lemma per action), and derives the
properties from it. Where a property holds only of part of the instances, the theorem says so in
its statement.

| Module | Theorem | States |
|---|---|---|
| `PipelineScheduler_proofs` | `Invariance` | `Spec => []IInv` |
| | `TypeCorrect` | `[]TypeOK`; the source's count of readable chunks never goes below zero, so `drive_dataflow` never pulls from an empty source |
| | `WakeupNeverLost` | `[]NoLostWakeup` |
| | `CountdownExact` | `[]RemainingExact` |
| | `ShutdownComesLast` | `[]ShutdownLast` |
| | `OutcomeInvariance` | `Spec => [](IInv /\ Outcome)` |
| | `TaskOwnedOnce` | `[]OwnedOnce` |
| | `ReleasedIsQuiescent` | `[]ReleasedQuiescent` |
| | `OkIsFinished` | `[]OkMeansFinished` |
| `Exchange_proofs` | `ExchangeInvariance` | `Spec => []ExInv` |
| | `EndIsComplete` | `[]EndMeansAll` |
| | `SinkOrderKept` | `[]PerSinkOrder` |
| | `OneSendAtATime` | `[]OneSendPerLane` |
| `ExchangeAccounting_proofs` | `AccountedInvariance` | `Spec => [](ExInv /\ Accounted)` |
| | `AccountsAreExact` | `[]AccountingExact` |
| | `LimitIsKept` | `[]Backpressure` |
| | `ExchangeTypeCorrect` | `[]TypeOK`; the in-flight bytes and the trackers never go below zero |
| `ManagedLake_proofs` | `LakeInvariance` | `Spec => []LInv` |
| | `LakeTypeCorrect` | `[]TypeOK` |
| | `ActiveIsReadable` | `[]ActiveReadable` |
| | `OpenIsSettled` | `OpenSettles`, an action property |
| `ManagedCalm_proofs` | `CalmInvariance` | `CalmSpec => [](LInv /\ CInv /\ Calm)` |
| | `TxnsAreWhole` | `CalmSpec => []VisibleTxnWhole` |
| | `AckedRowsStay` | `CalmSpec => []AckedRowsKept` |
| | `ReadersSeeCommitted` | `CalmSpec => []ReadsOnlyVisible` |
| | `SnapshotsAreStable` | `CalmSpec => SnapshotsStable`, an action property |
| | `OpenAgrees` | `CalmSpec => RecoveredAgrees`, an action property that no run keeps |
| `QueryLifecycle_proofs` | `QueryInvariance` | `QSpec => []QInv` |
| | `QueryTypeCorrect` | `[]QTypeOK` |
| | `ContextIsHeld` | `[]ContextHeld` |
| | `EosIsComplete` | `[]EosMeansAll` |
| `IcebergRest_proofs` | `RestTypes` | `[]IceTypeOK`, of a table in a REST catalog, as the others below |
| | `RestAckedKept` | `[]AckedKept` |
| | `RestNoDanglingFiles` | `[]NoDanglingFiles` |
| | `RestRowIdsUnique` | `[]RowIdsUnique` |
| | `RestMainIsVersioned` | `MainIsVersioned`: `main` implements `VersionedTable` |
| `ScanSource_proofs` | `ScanInvariant` | `ScanSpec => []ScanInv` |
| | `ScanTypes` | `[]ScanTypeOK` |
| | `ScanRangesOnce` | `[]RangesOnce` |
| | `ScanChunksKept` | `[]ChunksKept`, with any number of tasks |
| | `ScanPlanScanned` | `[]SoloPlanScanned`: one task per scan operator, no limit |

### The scheduler

From `SchedulerAssumption`: a finite non-empty set of drivers, any workers, any wiring of build
sides, any subset of drivers with observables, exchange sources and asynchronous I/O, with or
without failures, panics and cancellation.

`NoLostWakeup` is not inductive. `IInv` strengthens it with

- `PcOK`: which steps each kind of thread can be in, and that it holds a driver in those
  that need one. A worker about to park holds a driver with a blocked reason.
- `OwnedApart`: the places of a task exclude each other. Without it a step of one thread
  could change the state of a driver that another has parked.
- `CountOK`: the exact countdown; a thread at the shutdown step has seen every driver done.
  With `OwnedApart` it gives that a parked driver is not done, hence that the reschedule
  queue still accepts its key.
- `WakeOK`: of every parked driver, including one the event scheduler has taken out and not
  yet put back: `in_blocked` is set or its parker is about to set it; if it waits for a
  dependency it is registered as a waiter, or is about to register, or the dependency is
  ready; and if it could run, a key is queued or owed, or it is being probed. The middle
  clause is the argument for the second look at the dependency in `RecheckWaiter`; the last
  one for the key that a parking thread enqueues for itself.

Frame lemmas carry what most actions share: a worker that keeps its task and touches only it
(`WorkerKeeps`), one that gives it away (`WorkerReleases`), the steps of a failing or completing
thread (`FailKeeps`, `CompleteWake`), ownership that stays, is taken or is put back (`OwnKeep`,
`OwnTake`, `OwnPut`), and wake-ups that survive a step (`WakeFrame`, `WakeKeep`,
`WakeNotified`).

`Outcome` is inductive relative to `IInv`. `AllPlaced` is the other half of `OwnedOnce`: no step
drops a task without counting it down. `FinalOK` says in which states a driver may be let go: it
has finished, or the abort flag is already set, and if it finished or went to the poller its I/O
is over. The clause that matters is that a failing thread sets `aborting` *before* it lets its
driver go; with it, a count of zero without the flag means that all drivers finished, which is
what `wait` relies on.

### The exchange

From `ExchangeSetupAssumption` and `NoPayloadAssumption` (the mark for an empty slot is not a payload): any
setups, that is any finite sets of sinks, senders and sources, any chunks, batch size and capacity,
any number of receivers, with every fault.

`EndMeansAll` speaks of the last step of a long way: buffer, payload, lane, call, receiver,
source. `ExInv` describes that way.

- `SinkOK`: the chunks a sink holds are a consecutive run behind what it has sent; a sink past
  `set_finishing` holds nothing; a sender's countdown is at least the number of its sinks that may
  still send. This is what lets the *last* driver send the end-of-stream for all.
- `TasksOK`, `QueueOK`: a task carries a run that was sent; an end-of-stream exists only after
  the countdown and nothing is behind it in its lane; a lane has one task on the I/O executor while
  its key is in the map, and waiting tasks are in the order of their runs.
- `OrderOK`: what has arrived is behind every task that has not. Hence appending a task's chunks
  keeps the order, and a chunk cannot arrive twice.
- `RecvOK`: while the receiving fragment is up every receiver but the one in the map is cancelled,
  so a source that kept an old receiver fails instead of popping from it.
- `LiveOK`: until a cancellation or the end of the receiving fragment there is at most one
  receiver, and every sent chunk has arrived or is on its way, unless a call of its sender failed.

`Accounted` is inductive relative to `ExInv`: the in-flight bytes are the sum over the reserved
tasks, the part of it that respects the limit is within the limit, and each tracker is the number
of its driver's tasks. `ExInv` is needed because tasks form a set: two equal tasks would be counted
once, and it is the runs that keep them apart. The sum is a fold of the community modules, and
induction over data is not available. `SumPlus`, `SumMinus` and `SumMono` are therefore derived from
what one unfolding of the fold gives, by taking a counterexample of the least cardinality. The limit
is kept because `reserve_bytes` checks and adds in one step.

### The managed lake

From `StoreAssumption`: any sessions, tablets, partitions, transactions, failing calls, crashes,
reopens and drops within any budget of at least one partition.

`ActiveReadable` holds although INSERT, TRUNCATE and the erase worker read SQLite, the catalog and
the object store at different moments. The argument in `LInv`:

- `SqlOK`: an erase job only ever names a partition that is neither active nor being staged, and
  no partition comes back from there.
- `MemOK`, `WriterOK`: copies of the partitions table (the catalog, a DDL's snapshot, the
  recovery's) may be behind it, but what they call active was opened, and a session works on an
  opened partition.
- `Kept`: metadata that a statement has seen or written is still there when it advances the
  version, or the partition has an erase job and is not active. `PublishOK` says this of a session
  between `PublishRead` and `MarkVisible`; `OpenOK` says it of the recovery between `ReplayPublish`
  and `ReplayVisible`.
- `OpenOK`: while a server opens, the transactions still in flight are among those the recovery
  has to do. `OpenSettles` follows, because `FinishOpen` needs that set to be empty.

The other safety properties are proved of `CalmSpec` (section 5), from the same assumption and on
top of `LInv`. What makes them hard is that TRUNCATE and the erase worker are not kept out of an
INSERT: it may publish into a partition that has been retired, with its logs or its base deleted
under it, and go on to advance the catalog and register the old partition for readers. `CInv` says
what still holds then:

- `TableOK`: the visible version of an active partition holds the rows of its VISIBLE transactions
  (`Whole`) and of no transaction in flight (`Clean`); a purged row belongs to a partition that is
  not active; the first version of every partition is empty, which is what `publish_one_tablet`
  takes missing metadata at version 1 to mean.
- `SessionOK`: what an INSERT has reached, by its position. While its partition is active, its base
  is the visible version, its logs are its own rows (`LogsOK`), what `PublishRead` computed and
  `PublishWrite` wrote is the base plus these rows (`OutOK`, `NewOK`). Once the partition is retired
  all that is left is that the rows are of settled transactions or its own (`Fresh`), which is
  enough for readers who are still sent there.
- `UpOK`: every version that a reader, the catalog, a DDL's copy or an INSERT about to register
  may hold is one that nobody is going to write (`ReaderOK`); the catalog that plans read is behind
  SQLite only while the INSERT that committed advances it.
- `LeftOK`, `RecoverOK`: a WRITTEN transaction without its INSERT needs a failed SQLite transaction
  or a crash, and after a crash the registry is empty, so no replay publishes.

Each step changes metadata only at a version that nobody reads, or in a partition that is not active
(`StoreMoves`; the steps that write are `PublishMoves`, `BootstrapMoves` and `EraseMoves`). With
`VisibleIsRead` (the visible versions of an active partition are read) it gives `SnapshotsStable`,
and it is what the frame lemmas of `CInv` rest on.

### Queries

From `QAssumption`: any finite set of instances, any requests in which no instance is submitted
twice, any batches, cancels, failures and invalid submissions.

`ContextHeld` needs `ReqOK` (a request has its instance counted while it is at it, and has not
touched those behind it), because `finish_fragment` counts down whichever context is there: the
count is exact only if each instance is counted in once and out once. `EosMeansAll` needs `Streamed`: what
the client has read followed by what is queued is what the sink has inserted, until the buffer is
marked. `TellOK` separates the cancellation that a failing instance carries out from its own steps.

### Iceberg tables in a REST catalog

From `TableAssumption`: any number of statements (the first two made the table), sessions, retries
and failing calls. A workload chooses its catalog once and for all, so the theorems are about the
behaviours with `load.cat = "rest"`: INSERT by fast append, by the V3 fast path and by overwrite,
on `main` and on a branch, CREATE and DROP BRANCH, conflicts and retries, lost and late requests,
clean-up and the death of the process.

`RestInv` joins three kinds of facts.

- `TableOK`: every snapshot is made of files of statements that have a snapshot, refs name
  snapshots, needed files exist, row ranges are disjoint and below `nextRow`. It also bounds the
  number of commits by the statements that can no longer commit, so that a version number is
  always left.
- `StmtOK`: a statement that may still commit, or was refused, has no snapshot, so a second attempt,
  a late request or a refusal cannot meet an effect that is already there.
- `PrepOK`: the snapshot of a pending commit, also of one whose client has given up, is built of
  files that exist and of row ids that were free when it was built. With the server's check of the
  ref (`Requirement`) its parent is the head of the branch when it is applied.

`AckedKept` and the refinement are about `main`'s history, which `Ancestors` computes with a recursive
function. Induction over it is not available; a `Walk` is that function up to any length, its
existence and uniqueness follow from a least counterexample, and `HistoryWithin` and the lemmas
after it give what the proofs need: a history stays inside the metadata, is closed under parents, and
a commit adds its own snapshot to that of its parent. `RestStepRefines` maps each step to one of
`VersionedTable` or a stutter: a `RestUpdate` on `main` that is answered is effect and acknowledgement in
one step, `RestLate` and an update whose answer is lost are the effect without the acknowledgement, and a
statement that ends as refused, as in `Cleanup`, is the refusal.

### Scans

From `ScanAssumption`: any drivers, morsels, later ranges, tasks per operator, buffer size, limit,
refused submissions, read errors and cancellations.

- `ScanInv`: the in-flight count of a driver is the number of its tasks, a runner is in the pool
  or with one task, only a task about to push has a chunk of its own, drivers are bound one after the
  other, and a driver has taken ranges only while it is about to append them.
- `RangesOnce` compares two concatenations over all places where a range can be. `OnceTally` says the
  same with lengths and sets added up, so that a step moves morsels from one summand to another
  (`TallyMoves`). What `FlattenSeq`, a recursive function of the community modules, returns is proved
  from its definition with a least counterexample (`JoinExists`, `FlattenIs`, `FlattenFacts`). The
  clause that matters is that one driver binds at a time and that taking empties `waiting`.
- `ChunksKept` is nearly inductive: `HeldOK` states it with `Accounted`, and every step of a task has
  one form (`Hands`): it moves chunks between the queue, the task's runner, the pool and the buffer of
  its driver, and loses none. With any number of tasks this needs that a runner is in one place
  (`CountOK`).
- `SoloPlanScanned` is `PlanScanned` for one task per operator; with two it fails (section 10, known deviations).
  `SoloOK` is inductive relative to `ScanInv`: `FirstOK` (the plan's morsels are popped first),
  `Covered` (a chunk of a popped morsel was pulled or is in a buffer, a pooled runner or with a task,
  unless a driver failed), `LastOK` (the task that met the empty queue is its driver's only one, and
  the pool has nothing), `FinOK` (a finished state has no runner with work, and if its pool is not
  empty, then no task, and a chunk in its buffer only if the driver is done), `EndOK` (what a driver
  that is done or looks at an empty queue has seen). `FinOK` is where the second task breaks the
  argument: it may hold the runner while the first looks at the pool. Its last disjunct is what
  remains of `NoRowsDropped`: the chunk that `scan_closed` shows in the buffer of a driver that is
  done.

### Only model-checked

- The managed lake with overlapping INSERTs, and after a replay that succeeds: beyond
  `ActiveReadable` and `OpenSettles` the properties fail there (sections 5 and 10).
- The Hadoop side of Iceberg: `AckedKept` fails with two committing sessions there (section 10), and
  DELETE, TRUNCATE, OPTIMIZE, EXPIRE and REMOVE ORPHAN FILES run on it only.
- All liveness properties, because the prover treats neither fairness nor `ENABLED`.

## 12. What is not modelled

The repository has about 365,000 lines of implementation, most of them sequential data
processing. The models cover the few thousand in which threads, failures and restarts meet; the
share of all lines that the map names is therefore small (about two percent) and cannot become
large with state machines that are faithful to the code.

Planned: the coordinator's launch; MV refresh; abort, vacuum, compaction and schema change of
lake tablets; runtime filters.

Within the modelled components: of Iceberg, equality deletes, merge-on-read and copy-on-write
UPDATE, partition overwrites, `rewrite_manifests`, `add_files`, schema changes, tags, deletes on
branches, empty sources and the OR REPLACE / IF EXISTS variants; of scans, runtime-filter waits and
the removal of a node's handle when its fragment ends; of queries, `execute_plan_fragment_sync` and
the query deadline; of the managed lake and the exchange, see sections 4 and 5.

Left out: operators (data processing behind the interface that `PipelineScheduler` models),
expressions and file formats (pure functions), SQL analysis and lowering (sequential tree
transformations), caches, memory tracking and spill (counters and content-addressed stores behind
single locks), the MySQL server, FE reports and heartbeat (best-effort I/O), the C++ shim (a
transport adapter).

Two behaviours outside the models that matter to a reader of them: the standalone
coordinator never calls `remove_fragment`, so receivers of a finished standalone query stay
in the map; and a panic in a background fragment's thread does not cancel the exchanges of
the others.

## 13. Running the checks

In this directory:

    tlc -workers 2 -config Exchange_settles.cfg MCExchange
    tlapm PipelineScheduler_proofs.tla
    tlapm Exchange_proofs.tla
    tlapm ExchangeAccounting_proofs.tla
    tlapm ManagedLake_proofs.tla
    tlapm ManagedCalm_proofs.tla
    tlapm QueryLifecycle_proofs.tla
    tlapm IcebergRest_proofs.tla
    tlapm ScanSource_proofs.tla

The largest runs are `managed_serial` (2.5 million states), `scheduler_fail` (1.0 million) and
`exchange` (0.5 million). `exchange`, `tables` and `fragments` take two to three minutes, most of it
for the temporal properties. The proofs have about 27 000 obligations, almost half
of them in the scan and exchange modules.
