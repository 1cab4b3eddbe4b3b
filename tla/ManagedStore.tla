---------------------------- MODULE ManagedStore ----------------------------
(***************************************************************************)
(* The durable state behind a standalone managed-lake table and the        *)
(* operations on it: the SQLite control plane (managed/store.rs: txns,     *)
(* partitions, erase_jobs) and the object store under the partition roots  *)
(* (the txn logs of every tablet and one bundle of tablet metadata per     *)
(* version).  One table is modelled.  A partition replaces the previous    *)
(* one at every TRUNCATE and holds one tablet per bucket; a rowset is      *)
(* identified by the transaction that wrote it, so the metadata of a       *)
(* tablet is the set of transactions whose rows it shows.                  *)
(*                                                                         *)
(* Every operation is one SQLite transaction or one object-store step; the *)
(* actors that call them in sequence are in ManagedInsert, ManagedDdl and  *)
(* ManagedLake.                                                            *)
(***************************************************************************)
EXTENDS Integers, FiniteSets

CONSTANTS
    Tablets,     \* the buckets of a partition
    MaxTxns,     \* bound: transaction ids handed out by next_txn_id
    MaxParts,    \* bound: partition ids handed out by next_partition_id
    Budgets      \* the bounds that a behaviour may run under: records of Limits

\* Transaction and partition ids; failing object-store calls and failing SQLite
\* transactions; DROP statements on other tables; deaths of the process; engines
\* closed and opened again in one process.
Limits == {"txns", "parts", "obj", "sql", "drops", "crashes", "reopens"}

ASSUME StoreAssumption ==
    /\ IsFiniteSet(Tablets) /\ Tablets # {}
    /\ MaxTxns \in Nat \ {0}
    /\ MaxParts \in Nat \ {0}
    /\ \A b \in Budgets :
          /\ DOMAIN b = Limits /\ b.txns <= MaxTxns /\ b.parts \in 1..MaxParts
          /\ \A k \in Limits : b[k] \in Nat

TxnIds == 1..MaxTxns
Parts == 1..MaxParts
Versions == 1..(MaxTxns + 1)

\* No metadata object at a version: a function on no tablet.
NoMeta == [t \in {} |-> {}]

VARIABLES
    budget,    \* the bounds of this behaviour
    txns,      \* txn_id -> row of the txns table
    nextTxn,   \* global_meta.next_txn_id
    parts,     \* partition_id -> row of the partitions table
    nextPart,  \* global_meta.next_partition_id
    jobs,      \* partition_id -> state of its DROP_PARTITION erase job
    logs,      \* txn_id -> tablet -> its txn log object
    bundle     \* partition_id -> version -> tablet -> rowsets, or NoMeta

sqlVars == <<txns, nextTxn, parts, nextPart, jobs>>
objVars == <<logs, bundle>>

NoTxn == [state |-> "NONE", part |-> 1, base |-> 1, commit |-> 2]
NoPart == [state |-> "NONE", visible |-> 1]

TxnRows == [state : {"NONE", "PREPARED", "WRITTEN", "VISIBLE", "ABORTED"},
            part : Parts, base : Versions, commit : Versions]
PartRows == [state : {"NONE", "CREATING", "ACTIVE", "RETIRED"},
             visible : Versions]
Metas == [Tablets -> SUBSET TxnIds]

StoreTypeOK ==
    /\ budget \in Budgets
    /\ txns \in [TxnIds -> TxnRows]
    /\ nextTxn \in 1..(budget.txns + 1)
    /\ nextPart \in 2..(budget.parts + 1)
    /\ parts \in [Parts -> PartRows]
    /\ jobs \in [Parts -> {"NONE", "PENDING", "RUNNING", "FAILED", "FINISHED"}]
    /\ logs \in [TxnIds -> [Tablets -> {"none", "rows", "empty"}]]
    /\ \A p \in Parts, v \in Versions : bundle[p][v] \in Metas \cup {NoMeta}

EmptyMeta == [t \in Tablets |-> {}]

\* A freshly created table: partition 1 is active at version 1, whose initial
\* metadata shows no rowset.
StoreInit ==
    /\ budget \in Budgets
    /\ txns = [i \in TxnIds |-> NoTxn]
    /\ nextTxn = 1
    /\ nextPart = 2
    /\ parts = [p \in Parts |-> IF p = 1 THEN [NoPart EXCEPT !.state = "ACTIVE"]
                                         ELSE NoPart]
    /\ jobs = [p \in Parts |-> "NONE"]
    /\ logs = [i \in TxnIds |-> [t \in Tablets |-> "none"]]
    /\ bundle = [p \in Parts |-> [v \in Versions |->
                    IF p = 1 /\ v = 1 THEN EmptyMeta ELSE NoMeta]]

ActiveParts(ps) == {p \in Parts : ps[p].state = "ACTIVE"}

-----------------------------------------------------------------------------
(* SQLite: the txns table.                                                 *)

\* Mutant: the commit version repeats the base version.
PrepareInPlace(p, base) ==
    /\ nextTxn <= budget.txns
    /\ txns' = [txns EXCEPT ![nextTxn] =
                   [state |-> "PREPARED", part |-> p, base |-> base,
                    commit |-> base]]
    /\ nextTxn' = nextTxn + 1
    /\ UNCHANGED <<parts, nextPart, jobs>>

\* prepare_txn: takes next_txn_id and inserts a PREPARED row; the commit
\* version is the base version plus one, whatever other rows hold.
prepare_txn(p, base) ==
    /\ nextTxn <= budget.txns
    /\ txns' = [txns EXCEPT ![nextTxn] =
                   [state |-> "PREPARED", part |-> p, base |-> base,
                    commit |-> base + 1]]
    /\ nextTxn' = nextTxn + 1
    /\ UNCHANGED <<parts, nextPart, jobs>>

\* UPDATE txns SET state ... WHERE txn_id: touches no row when a purge has
\* deleted it.
SetTxn(i, s) ==
    txns' = IF txns[i].state = "NONE" THEN txns
            ELSE [txns EXCEPT ![i].state = s]

mark_txn_written(i) == SetTxn(i, "WRITTEN") /\ UNCHANGED <<nextTxn, parts, nextPart, jobs>>
mark_txn_aborted(i) == SetTxn(i, "ABORTED") /\ UNCHANGED <<nextTxn, parts, nextPart, jobs>>

\* Mutant: next_version is stored as the visible version.
StoreNextVersion(i) ==
    /\ txns[i].state # "NONE"
    /\ SetTxn(i, "VISIBLE")
    /\ parts' = [parts EXCEPT ![txns[i].part].visible = txns[i].commit + 1]
    /\ UNCHANGED <<nextTxn, nextPart, jobs>>

\* mark_txn_visible: one transaction sets the row VISIBLE and the partition's
\* visible_version to the commit version, unconditionally.  It fails when the
\* row is gone.
mark_txn_visible(i) ==
    /\ txns[i].state # "NONE"
    /\ SetTxn(i, "VISIBLE")
    /\ parts' = [parts EXCEPT ![txns[i].part].visible = txns[i].commit]
    /\ UNCHANGED <<nextTxn, nextPart, jobs>>

InflightTxns == {i \in TxnIds : txns[i].state \in {"PREPARED", "WRITTEN"}}

-----------------------------------------------------------------------------
(* SQLite: partitions and erase jobs.                                      *)

\* stage_truncate_partition: refused while a transaction of the table is in
\* flight; allocates the next partition id in CREATING state at version 1.
stage_truncate_partition ==
    /\ nextPart <= budget.parts
    /\ InflightTxns = {}
    /\ parts' = [parts EXCEPT ![nextPart] = [state |-> "CREATING", visible |-> 1]]
    /\ nextPart' = nextPart + 1
    /\ UNCHANGED <<txns, nextTxn, jobs>>

\* activate_truncate_partition: one transaction switches both partitions and
\* inserts the erase job of the old one.
activate_truncate_partition(old, new) ==
    /\ parts' = [parts EXCEPT ![new].state = "ACTIVE", ![old].state = "RETIRED"]
    /\ jobs' = [jobs EXCEPT ![old] = "PENDING"]
    /\ UNCHANGED <<txns, nextTxn, nextPart>>

\* delete_creating_partition
DropCreating(ps, P) ==
    [p \in Parts |-> IF p \in P /\ ps[p].state = "CREATING" THEN NoPart ELSE ps[p]]

delete_creating_partition(p) ==
    /\ parts' = DropCreating(parts, {p})
    /\ UNCHANGED <<txns, nextTxn, nextPart, jobs>>

\* purge_retired_partition_metadata: refused unless the partition is RETIRED;
\* deletes its row and its transactions (state NONE: the other fields of a
\* deleted row only say under which root its objects lie).
purge_retired_partition_metadata(p) ==
    /\ parts[p].state = "RETIRED"
    /\ parts' = [parts EXCEPT ![p] = NoPart]
    /\ txns' = [i \in TxnIds |-> IF txns[i].part = p
                                 THEN [txns[i] EXCEPT !.state = "NONE"] ELSE txns[i]]
    /\ UNCHANGED <<nextTxn, nextPart, jobs>>

SetJob(p, s) == jobs' = [jobs EXCEPT ![p] = s] /\ UNCHANGED <<txns, nextTxn, parts, nextPart>>

-----------------------------------------------------------------------------
(* The object store: publish_version of lake/transactions.rs for a single  *)
(* transaction, split where other actors can run in between.               *)

\* load_tablet_metadata_at_version with the bootstrap rule of
\* initialize_publish_state: missing metadata counts as empty at version 1.
HasBase(p, base) == bundle[p][base] # NoMeta \/ base = 1
BaseRowsets(p, base, t) == IF bundle[p][base] = NoMeta THEN {} ELSE bundle[p][base][t]

\* What publish_one_tablet returns for a tablet: metadata to persist, the
\* metadata another publish already wrote (only when the txn log is gone), or
\* an error.  is_existing_metadata_published_for_target_txn never accepts,
\* because the standalone request carries gtid 0.
Persist(rs) == [kind |-> "persist", rows |-> rs]
Published == [kind |-> "published", rows |-> {}]
Failed == [kind |-> "failed", rows |-> {}]

\* Mutant: a log with rows is applied to an empty tablet, not to the base.
ForgetBase(i, p, base, commit, t) ==
    IF ~HasBase(p, base) THEN Failed
    ELSE CASE logs[i][t] = "rows" -> Persist({i})
           [] logs[i][t] = "empty" -> Persist(BaseRowsets(p, base, t))
           [] logs[i][t] = "none" ->
                 IF bundle[p][commit] # NoMeta THEN Published
                 ELSE IF base = 1 THEN Persist(BaseRowsets(p, base, t))
                 ELSE Failed

publish_one_tablet(i, p, base, commit, t) ==
    IF ~HasBase(p, base) THEN Failed
    ELSE CASE logs[i][t] = "rows" -> Persist(BaseRowsets(p, base, t) \cup {i})
           [] logs[i][t] = "empty" -> Persist(BaseRowsets(p, base, t))
           [] logs[i][t] = "none" ->
                 IF bundle[p][commit] # NoMeta THEN Published
                 ELSE IF base = 1 THEN Persist(BaseRowsets(p, base, t))
                 ELSE Failed

\* finalize_publish_outputs writes one bundle: the tablets to persist, and for
\* every other tablet of the partition whose runtime is registered the latest
\* metadata below the new version (synthesize_missing_bundle_siblings); what
\* the file already holds survives only for the rest
\* (load_bundle_meta_write_state).
MergedBundle(p, base, commit, out, registered) ==
    [t \in Tablets |->
        CASE out[t].kind = "persist" -> out[t].rows
          [] out[t].kind # "persist" /\ registered -> BaseRowsets(p, base, t)
          [] out[t].kind # "persist" /\ ~registered
                -> IF bundle[p][commit] = NoMeta THEN BaseRowsets(p, base, t)
                   ELSE bundle[p][commit][t]]

PersistTablets(out) == {t \in Tablets : out[t].kind = "persist"}
FailedTablets(out) == {t \in Tablets : out[t].kind = "failed"}

BundleAfter(p, base, commit, out, registered) ==
    IF PersistTablets(out) = {} THEN bundle
    ELSE [bundle EXCEPT ![p][commit] = MergedBundle(p, base, commit, out, registered)]

\* The logs of the tablets just persisted are deleted (a failed delete is only
\* logged, so any of them may stay).
LogsAfterCleanup(i, T) ==
    [logs EXCEPT ![i] = [t \in Tablets |-> IF t \in T THEN "none" ELSE @[t]]]

\* create_lake_tablet_from_req writes the version-1 metadata of each tablet.
BootstrapPartition(p) == bundle' = [bundle EXCEPT ![p][1] = EmptyMeta] /\ UNCHANGED logs

\* Mutant: erasing a partition removes the table root.
EraseTableRoot(p) ==
    /\ bundle' = [q \in Parts |-> [v \in Versions |-> NoMeta]]
    /\ logs' = [i \in TxnIds |-> [t \in Tablets |-> "none"]]

\* erase_root: remove_all under the partition's root.
erase_root(p) ==
    /\ bundle' = [bundle EXCEPT ![p] = [v \in Versions |-> NoMeta]]
    /\ logs' = [i \in TxnIds |-> IF txns[i].part = p
                                 THEN [t \in Tablets |-> "none"] ELSE logs[i]]
=============================================================================
