----------------------------- MODULE ManagedLake ----------------------------
(***************************************************************************)
(* A standalone NovaRocks server over one managed-lake table: sessions     *)
(* that INSERT and TRUNCATE, DROP statements on other tables, the erase    *)
(* worker, failing storage calls, a process that dies at any point, and    *)
(* the recovery that runs when the engine opens (reconcile_on_open in      *)
(* managed/catalog.rs, restore_managed_lake in engine/mod.rs).             *)
(***************************************************************************)
EXTENDS ManagedDdl, FiniteSetsExt

VARIABLES
    rec,       \* the recovery in progress: its snapshot and the txns to replay
    crashes, reopens

recVars == <<rec, crashes, reopens, budget>>
vars == <<sqlVars, objVars, memVars, insertVars, faults, ddlVars, eraser, recVars>>

NoRec == [snap |-> [p \in Parts |-> NoPart], todo |-> {}, published |-> FALSE]

\* The rows, objects, catalogs and statements in progress are well formed; the
\* counts of deaths and reopens stay within their bounds.
TypeOK ==
    /\ StoreTypeOK /\ InsertTypeOK /\ DdlTypeOK
    /\ rec \in [snap : [Parts -> PartRows], todo : SUBSET TxnIds, published : BOOLEAN]
    /\ crashes \in 0..budget.crashes /\ reopens \in 0..budget.reopens

Init ==
    /\ StoreInit
    /\ mode = "up" /\ reg = {1} /\ lake = parts
    /\ view = [part |-> 1, version |-> 1]
    /\ ws = [w \in Writers |-> Idle]
    /\ routed = [i \in TxnIds |-> {}] /\ acked = {} /\ truncated = {}
    /\ faults = [obj |-> 0, sql |-> 0]
    /\ ddl = NoDdl /\ drops = 0
    /\ eraser = NoErase
    /\ rec = NoRec /\ crashes = 0 /\ reopens = 0

-----------------------------------------------------------------------------
\* The process dies: everything in memory is gone, the runtime registry too.
Crash ==
    /\ mode # "down" /\ crashes < budget.crashes
    /\ crashes' = crashes + 1
    /\ mode' = "down" /\ reg' = {}
    /\ ws' = [w \in Writers |-> Idle]
    /\ ddl' = NoDdl /\ eraser' = NoErase /\ rec' = NoRec
    /\ UNCHANGED <<sqlVars, objVars, lake, view, histVars, faults, drops, truncated,
                   reopens>>

\* The engine is closed and opened again in the same process, as an embedding
\* program does: the process-wide runtime registry survives.
Reopen ==
    /\ mode = "up" /\ reopens < budget.reopens
    /\ \A w \in Writers : ws[w].pc = "idle"
    /\ ddl.pc = "idle" /\ eraser.pc = "idle"
    /\ reopens' = reopens + 1
    /\ mode' = "down"
    /\ UNCHANGED <<sqlVars, objVars, reg, lake, view, insertVars, faults, ddlVars,
                   eraser, rec, crashes>>

\* Mutant: WRITTEN transactions are not collected for replay.
StartSkipsWritten ==
    /\ mode = "down"
    /\ mode' = "opening"
    /\ parts' = DropCreating(parts, Parts)
    /\ txns' = [i \in TxnIds |-> IF txns[i].state = "PREPARED"
                                 THEN [txns[i] EXCEPT !.state = "ABORTED"] ELSE txns[i]]
    /\ rec' = [snap |-> parts', published |-> FALSE, todo |-> {}]
    /\ UNCHANGED <<nextTxn, nextPart, jobs, objVars, reg, lake, view, insertVars, faults,
                   ddlVars, eraser, crashes, reopens>>

\* reconcile_on_open up to the replays: staged partitions are deleted, PREPARED
\* transactions aborted, WRITTEN ones collected.
Start ==
    /\ mode = "down"
    /\ mode' = "opening"
    /\ parts' = DropCreating(parts, Parts)
    /\ txns' = [i \in TxnIds |-> IF txns[i].state = "PREPARED"
                                 THEN [txns[i] EXCEPT !.state = "ABORTED"] ELSE txns[i]]
    /\ rec' = [snap |-> parts', published |-> FALSE,
               todo |-> {i \in TxnIds : txns[i].state = "WRITTEN"}]
    /\ UNCHANGED <<nextTxn, nextPart, jobs, objVars, reg, lake, view, insertVars, faults,
                   ddlVars, eraser, crashes, reopens>>

OpenFails == mode' = "down" /\ rec' = NoRec

\* Mutant: the replay marks the version visible without publishing it.
SkipPublish ==
    /\ mode = "opening" /\ rec.todo # {} /\ ~rec.published
    /\ rec' = [rec EXCEPT !.published = TRUE]
    /\ UNCHANGED <<sqlVars, objVars, memVars, insertVars, faults, ddlVars, eraser,
                   crashes, reopens>>

\* The replay closure of restore_managed_lake: publish_tablets_at_version for
\* the next WRITTEN transaction.  Runtimes are registered only after all
\* replays, so in a new process every tablet fails and so does the open.
ReplayPublish ==
    /\ mode = "opening" /\ rec.todo # {} /\ ~rec.published
    /\ LET i == Min(rec.todo)
           x == txns[i]
           out == [t \in Tablets |-> IF x.part \in reg
                      THEN publish_one_tablet(i, x.part, x.base, x.commit, t)
                      ELSE Failed]
       IN  \/ /\ bundle' = BundleAfter(x.part, x.base, x.commit, out, x.part \in reg)
              /\ logs' = LogsAfterCleanup(i, PersistTablets(out))
              /\ IF FailedTablets(out) = {}
                 THEN rec' = [rec EXCEPT !.published = TRUE] /\ UNCHANGED mode
                 ELSE OpenFails
              /\ UNCHANGED faults
           \/ ObjFault /\ OpenFails /\ UNCHANGED objVars
    /\ UNCHANGED <<sqlVars, reg, lake, view, insertVars, ddlVars, eraser, crashes, reopens>>

\* Mutant: a replay that does not raise the version fails the open.
RefuseOldVersion ==
    /\ mode = "opening" /\ rec.published
    /\ LET i == Min(rec.todo)
       IN  IF txns[i].commit > rec.snap[txns[i].part].visible
           THEN /\ mark_txn_visible(i)
                /\ rec' = [rec EXCEPT !.todo = @ \ {i}, !.published = FALSE,
                           !.snap[txns[i].part].visible = txns[i].commit]
                /\ UNCHANGED mode
           ELSE OpenFails /\ UNCHANGED sqlVars
    /\ UNCHANGED <<objVars, reg, lake, view, insertVars, faults, ddlVars, eraser,
                   crashes, reopens>>

\* The replayed transaction is marked visible; the snapshot's version only rises.
ReplayVisible ==
    /\ mode = "opening" /\ rec.published
    /\ LET i == Min(rec.todo)
       IN  \/ /\ mark_txn_visible(i)
              /\ rec' = [rec EXCEPT !.todo = @ \ {i}, !.published = FALSE,
                         !.snap[txns[i].part].visible = Max({@, txns[i].commit})]
              /\ UNCHANGED <<mode, faults>>
           \/ SqlFault /\ OpenFails /\ UNCHANGED sqlVars
    /\ UNCHANGED <<objVars, reg, lake, view, insertVars, ddlVars, eraser, crashes, reopens>>

\* rebuild, re_register_active_tablet_runtimes (reads the visible metadata of
\* each active tablet) and the swap; the erase worker starts afterwards.
FinishOpen ==
    /\ mode = "opening" /\ rec.todo = {}
    /\ LET v == ViewOf(rec.snap)
       IN  IF bundle[v.part][v.version] # NoMeta
           THEN /\ lake' = rec.snap /\ view' = v
                /\ reg' = reg \cup {v.part}
                /\ mode' = "up" /\ rec' = NoRec
           ELSE OpenFails /\ UNCHANGED <<reg, lake, view>>
    /\ UNCHANGED <<sqlVars, objVars, insertVars, faults, ddlVars, eraser, crashes, reopens>>

OpenStep == Start \/ ReplayPublish \/ ReplayVisible \/ FinishOpen

Next ==
    \/ \E w \in Writers : (Plan(w) \/ InsertStep(w)) /\ UNCHANGED <<ddlVars, eraser, recVars>>
    \/ (TruncStage \/ DropReload \/ DdlStep) /\ UNCHANGED recVars
    \/ ((\E p \in Parts : EraseClaim(p)) \/ EraseStep) /\ UNCHANGED recVars
    \/ (Crash \/ Reopen \/ OpenStep) /\ UNCHANGED budget

Spec == Init /\ [][Next]_vars

\* A session's statement, the erase worker and a starting server keep running;
\* nobody is obliged to issue statements, and nothing has to fail.
Fairness ==
    /\ \A w \in Writers : WF_vars(InsertStep(w) /\ UNCHANGED <<ddlVars, eraser, recVars>>)
    /\ WF_vars(DdlStep /\ UNCHANGED recVars)
    /\ WF_vars(((\E p \in Parts : EraseClaim(p)) \/ EraseStep) /\ UNCHANGED recVars)
    /\ WF_vars(OpenStep /\ UNCHANGED budget)

FairSpec == Spec /\ Fairness

Busy(w) == ws[w].pc # "idle"

\* Clients that keep out of each other's way: one INSERT at a time, none between
\* the reload and the swap of a DROP, and no engine reopened in a process in
\* which a SQLite transaction failed.  TRUNCATE, the erase worker, storage
\* failures and crashes are not restricted.  The server enforces none of this:
\* it is the hypothesis of the properties that fail without it.
Calm ==
    /\ \A w, u \in Writers : Busy(w) /\ Busy(u) => w = u
    /\ ddl.pc = "dropping" => \A w \in Writers : ~Busy(w)
    /\ reopens = 0 \/ faults.sql = 0

CalmSpec == Init /\ [][Next /\ Calm']_vars

-----------------------------------------------------------------------------
(* Safety.                                                                 *)

ActiveMeta(p) == bundle[p][parts[p].visible]
Shows(p, i) == \A t \in routed[i] : i \in ActiveMeta(p)[t]

\* Transactions are atomic across tablets and none is lost: while the server is
\* up, every VISIBLE transaction of the active partition shows all its rows, on
\* every tablet they were routed to, at the partition's visible version.
VisibleTxnWhole ==
    mode = "up" =>
        \A i \in TxnIds, p \in ActiveParts(parts) :
            txns[i].state = "VISIBLE" /\ txns[i].part = p
                => ActiveMeta(p) # NoMeta /\ Shows(p, i)

\* An INSERT that returned Ok into a partition that is still active keeps its
\* rows there at the visible version, whatever other statements run.
AckedRowsKept ==
    \A i \in acked, p \in ActiveParts(parts) :
        txns[i].part = p => ActiveMeta(p) # NoMeta /\ Shows(p, i)

\* SELECT never returns rows of a transaction that is in flight or aborted: the
\* snapshot the catalog points to holds no rowset of a transaction whose row in
\* SQLite says PREPARED, WRITTEN or ABORTED (a purged row says nothing).
ReadsOnlyVisible ==
    mode = "up" /\ bundle[view.part][view.version] # NoMeta
        => \A t \in Tablets : \A i \in bundle[view.part][view.version][t] :
              txns[i].state \in {"VISIBLE", "NONE"}

\* The control plane never points at missing data: every active partition has
\* its metadata at the visible version, whatever the erase worker deleted and
\* whenever the process died.
ActiveReadable == \A p \in ActiveParts(parts) : ActiveMeta(p) # NoMeta

\* Readers hold a version while they scan: a version at or below the visible one
\* of a partition that stays active is never rewritten.
SnapshotsStable ==
    [][\A p \in ActiveParts(parts) \cap ActiveParts(parts') :
          \A v \in 1..parts[p].visible : bundle'[p][v] = bundle[p][v]]_vars

\* No transaction is left in flight by an open: when restore_managed_lake
\* succeeds, every PREPARED or WRITTEN transaction has reached a final state.
OpenSettles == [][mode = "opening" /\ mode' = "up" => InflightTxns = {}]_vars

\* After an open, SQLite and the catalog in memory agree on every partition and
\* its visible version.
RecoveredAgrees == [][mode = "opening" /\ mode' = "up" => lake' = parts']_vars

\* Once TRUNCATE has returned, SELECT does not go back to the old partition.
TruncatedStaysEmpty == mode = "up" => view.part \notin truncated

-----------------------------------------------------------------------------
(* Liveness, under FairSpec.                                               *)

\* A retired partition's erase job is carried through.
EraseCompletes == \A p \in Parts : jobs[p] = "PENDING" ~> jobs[p] = "FINISHED"

\* A transaction does not stay in flight, where it would block TRUNCATE and DROP,
\* unless a SQLite transaction failed: then the row waits for the next open.
TxnsSettle ==
    \A i \in TxnIds : i \in InflightTxns ~> i \notin InflightTxns \/ faults.sql > 0

\* A server that went down opens again.
Recovers == mode = "down" ~> mode = "up"
=============================================================================
