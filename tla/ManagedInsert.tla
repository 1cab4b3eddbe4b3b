---------------------------- MODULE ManagedInsert ---------------------------
(***************************************************************************)
(* INSERT into a managed-lake table (managed/txn.rs): load_insert_plan,    *)
(* then write_chunks_into_managed_partition_inner, one action per SQLite   *)
(* transaction, object-store step or catalog lock section, because nothing *)
(* is held from one to the next.  Any number of sessions run it.           *)
(*                                                                         *)
(* The process memory it works on: the ManagedLakeCatalog (lake) that      *)
(* plans read, the InMemoryCatalog entry that SELECT reads (view), and the *)
(* process-wide tablet runtime registry (reg).                             *)
(***************************************************************************)
EXTENDS ManagedStore

CONSTANT Writers   \* sessions that run INSERT

ASSUME InsertAssumption == IsFiniteSet(Writers)

VARIABLES
    mode,      \* "up", "opening" or "down"
    reg,       \* partitions whose tablets are in the tablet runtime registry
    lake,      \* ManagedLakeCatalog: its copy of the partitions table
    view,      \* what SELECT scans: a partition and a version
    ws,        \* writer -> its INSERT
    routed,    \* history: the tablets that each transaction's rows went to
    acked,     \* history: transactions whose INSERT returned Ok
    faults     \* failures so far, by kind

histVars == <<routed, acked>>
insertVars == <<ws, histVars>>
memVars == <<mode, reg, lake, view>>

Idle == [pc |-> "idle", part |-> 1, base |-> 1, txn |-> 1, rows |-> {},
         out |-> [t \in Tablets |-> Failed], view |-> [part |-> 1, version |-> 1]]

Views == [part : Parts, version : Versions]
PcSet == {"idle", "planned", "writing", "logged", "read", "bundled", "abort",
          "published", "visible", "register"}
Outputs == [kind : {"persist", "published", "failed"}, rows : SUBSET TxnIds]

InsertTypeOK ==
    /\ mode \in {"up", "opening", "down"}
    /\ reg \subseteq Parts
    /\ lake \in [Parts -> PartRows]
    /\ view \in Views
    /\ acked \subseteq TxnIds
    /\ routed \in [TxnIds -> SUBSET Tablets]
    /\ faults \in [obj : 0..budget.obj, sql : 0..budget.sql]
    /\ \A w \in Writers :
          /\ ws[w].pc \in PcSet
          /\ ws[w].part \in Parts /\ ws[w].base \in Versions
          /\ ws[w].txn \in TxnIds /\ ws[w].rows \subseteq Tablets
          /\ ws[w].view \in Views
          /\ \A t \in Tablets : ws[w].out[t] \in Outputs

\* What a catalog copy shows to a SELECT: the active partition's version.
ViewOf(ps) == LET p == CHOOSE q \in ActiveParts(ps) : TRUE
              IN  [part |-> p, version |-> ps[p].visible]

ObjFault == /\ faults.obj < budget.obj
            /\ faults' = [faults EXCEPT !.obj = @ + 1]
SqlFault == /\ faults.sql < budget.sql
            /\ faults' = [faults EXCEPT !.sql = @ + 1]

Goto(w, pc) == ws' = [ws EXCEPT ![w].pc = pc]
Commit(w) == txns[ws[w].txn].commit

\* The statement returns an error; its locals are gone.
Return(w) == ws' = [ws EXCEPT ![w] = Idle]

-----------------------------------------------------------------------------
\* load_insert_plan under the read lock of the managed catalog: the active
\* partition and its visible version there become the target and the base
\* version.  The lock is released, and a query may run, before the rest.
Plan(w) ==
    /\ mode = "up" /\ ws[w].pc = "idle"
    /\ nextTxn <= budget.txns
    /\ \E rows \in SUBSET Tablets \ {{}} :
          ws' = [ws EXCEPT ![w].pc = "planned", ![w].rows = rows,
                           ![w].part = ViewOf(lake).part,
                           ![w].base = ViewOf(lake).version]
    /\ UNCHANGED <<sqlVars, objVars, memVars, histVars, faults>>

Prepare(w) ==
    /\ ws[w].pc = "planned"
    /\ \/ /\ prepare_txn(ws[w].part, ws[w].base)
          /\ ws' = [ws EXCEPT ![w].pc = "writing", ![w].txn = nextTxn]
          /\ routed' = [routed EXCEPT ![nextTxn] = ws[w].rows]
          /\ UNCHANGED faults
       \/ SqlFault /\ Return(w) /\ UNCHANGED <<sqlVars, routed>>
    /\ UNCHANGED <<objVars, memVars, acked>>

\* One tablet's txn log: the tablets that got rows first, then an empty log for
\* each of the others (append_empty_txn_logs_for_unwritten_tablets).  The
\* tablet's runtime must still be registered (update_tablet_runtime_schema).
WriteLog(w, t) ==
    /\ ws[w].pc = "writing"
    /\ logs[ws[w].txn][t] = "none"
    /\ t \in ws[w].rows \/ \A u \in ws[w].rows : logs[ws[w].txn][u] = "rows"
    /\ \/ /\ ws[w].part \in reg
          /\ logs' = [logs EXCEPT ![ws[w].txn][t] =
                         IF t \in ws[w].rows THEN "rows" ELSE "empty"]
          /\ UNCHANGED <<ws, faults>>
       \/ /\ IF ws[w].part \in reg THEN ObjFault ELSE UNCHANGED faults
          /\ Goto(w, "abort") /\ UNCHANGED logs
    /\ UNCHANGED <<sqlVars, bundle, memVars, histVars>>

\* Mutant: a failed statement returns without aborting its transaction.
ReturnUnmarked(w) ==
    /\ ws[w].pc = "abort"
    /\ Return(w)
    /\ UNCHANGED <<sqlVars, faults, objVars, memVars, histVars>>

\* mark_txn_aborted after a failed write or publish; its own failure is only
\* reported, and the statement fails either way.
Abort(w) ==
    /\ ws[w].pc = "abort"
    /\ \/ mark_txn_aborted(ws[w].txn) /\ UNCHANGED faults
       \/ SqlFault /\ UNCHANGED sqlVars
    /\ Return(w)
    /\ UNCHANGED <<objVars, memVars, histVars>>

MarkWritten(w) ==
    /\ ws[w].pc = "writing"
    /\ \A t \in Tablets : logs[ws[w].txn][t] # "none"
    /\ \/ mark_txn_written(ws[w].txn) /\ Goto(w, "logged") /\ UNCHANGED faults
       \/ SqlFault /\ Return(w) /\ UNCHANGED sqlVars
    /\ UNCHANGED <<objVars, memVars, histVars>>

\* publish_version, first half: publish_one_tablet for every tablet on the
\* publish workers.  A tablet fails when its runtime is not registered or when
\* a read fails.
PublishRead(w) ==
    /\ ws[w].pc = "logged"
    /\ \E T \in SUBSET Tablets :
          /\ T = {} \/ (ws[w].part \in reg /\ Cardinality(T) = 1)
          /\ IF T = {} THEN UNCHANGED faults ELSE ObjFault
          /\ ws' = [ws EXCEPT ![w].pc = "read", ![w].out = [t \in Tablets |->
                       IF ws[w].part \notin reg \/ t \in T THEN Failed
                       ELSE publish_one_tablet(ws[w].txn, ws[w].part, ws[w].base,
                                               Commit(w), t)]]
    /\ UNCHANGED <<sqlVars, objVars, memVars, histVars>>

\* finalize_publish_outputs, the bundle write; a failed write fails all tablets
\* of the batch.
PublishWrite(w) ==
    /\ ws[w].pc = "read"
    /\ \/ /\ bundle' = BundleAfter(ws[w].part, ws[w].base, Commit(w), ws[w].out,
                                   ws[w].part \in reg)
          /\ Goto(w, "bundled") /\ UNCHANGED faults
       \/ /\ PersistTablets(ws[w].out) # {}
          /\ ObjFault /\ Goto(w, "abort") /\ UNCHANGED bundle
    /\ UNCHANGED <<sqlVars, logs, memVars, histVars>>

\* The logs of the persisted tablets are deleted; publish_tablets_at_version
\* then fails the statement if any tablet failed.
PublishCleanup(w) ==
    /\ ws[w].pc = "bundled"
    /\ LET P == PersistTablets(ws[w].out)
       IN  \/ logs' = LogsAfterCleanup(ws[w].txn, P) /\ UNCHANGED faults
           \/ \E t \in P : logs' = LogsAfterCleanup(ws[w].txn, P \ {t}) /\ ObjFault
    /\ Goto(w, IF FailedTablets(ws[w].out) = {} THEN "published" ELSE "abort")
    /\ UNCHANGED <<sqlVars, bundle, memVars, histVars>>

\* Mutant: the version is published to readers before SQLite has it.
SkipMarkVisible(w) ==
    /\ ws[w].pc = "published"
    /\ Goto(w, "visible")
    /\ UNCHANGED <<sqlVars, faults, objVars, memVars, histVars>>

\* mark_txn_visible; when it fails the statement fails and the transaction
\* stays WRITTEN.
MarkVisible(w) ==
    /\ ws[w].pc = "published"
    /\ \/ mark_txn_visible(ws[w].txn) /\ Goto(w, "visible") /\ UNCHANGED faults
       \/ /\ IF txns[ws[w].txn].state = "NONE" THEN UNCHANGED faults ELSE SqlFault
          /\ Return(w) /\ UNCHANGED sqlVars
    /\ UNCHANGED <<objVars, memVars, histVars>>

\* commit_catalog_visible_version, first lock section: advance_partition_version
\* refuses to go back and needs the partition in its snapshot; then the
\* table's runtime is cloned.
AdvanceCatalog(w) ==
    /\ ws[w].pc = "visible"
    /\ LET p == ws[w].part
       IN  IF lake[p].state # "NONE" /\ Commit(w) > lake[p].visible
           THEN /\ lake' = [lake EXCEPT ![p].visible = Commit(w)]
                /\ ws' = [ws EXCEPT ![w].pc = "register", ![w].view = ViewOf(lake')]
           ELSE Return(w) /\ UNCHANGED lake
    /\ UNCHANGED <<sqlVars, objVars, mode, reg, view, histVars, faults>>

\* Second lock section: the clone is registered in the catalog SELECT reads and
\* the INSERT returns Ok.
RegisterView(w) ==
    /\ ws[w].pc = "register"
    /\ view' = ws[w].view
    /\ acked' = acked \cup {ws[w].txn}
    /\ Return(w)
    /\ UNCHANGED <<sqlVars, objVars, mode, reg, lake, routed, faults>>

\* Every step of an INSERT once it is planned.
InsertStep(w) ==
    \/ Prepare(w) \/ Abort(w) \/ MarkWritten(w)
    \/ \E t \in Tablets : WriteLog(w, t)
    \/ PublishRead(w) \/ PublishWrite(w) \/ PublishCleanup(w)
    \/ MarkVisible(w) \/ AdvanceCatalog(w) \/ RegisterView(w)
=============================================================================
