----------------------------- MODULE ManagedDdl -----------------------------
(***************************************************************************)
(* The statements and the worker that change a managed table's partitions: *)
(* TRUNCATE TABLE (managed/ddl.rs), which replaces the active partition,   *)
(* DROP of another table, which rebuilds and swaps the same shared         *)
(* catalog, and the erase worker (managed/erase.rs), which deletes the     *)
(* root of a retired partition and then its metadata.                      *)
(***************************************************************************)
EXTENDS ManagedInsert

VARIABLES
    ddl,        \* the DDL statement in progress
    drops,      \* DROP statements so far
    truncated,  \* history: partitions whose TRUNCATE returned Ok
    eraser      \* the erase worker

ddlVars == <<ddl, drops, truncated>>

NoDdl == [pc |-> "idle", old |-> 1, new |-> 1, snap |-> [p \in Parts |-> NoPart]]
NoErase == [pc |-> "idle", job |-> 1]

DdlTypeOK ==
    /\ ddl.pc \in {"idle", "staged", "bootstrapped", "cleanup", "activated",
                   "removed", "reloaded", "swapped", "dropping"}
    /\ ddl.old \in Parts /\ ddl.new \in Parts /\ ddl.snap \in [Parts -> PartRows]
    /\ drops \in 0..budget.drops
    /\ truncated \subseteq Parts
    /\ eraser \in [pc : {"idle", "claimed", "erased", "purged", "failing"}, job : Parts]

-----------------------------------------------------------------------------
(* TRUNCATE TABLE: truncate_managed_table_with_hooks.                      *)

TruncStage ==
    /\ mode = "up" /\ ddl.pc = "idle"
    /\ stage_truncate_partition
    /\ ddl' = [ddl EXCEPT !.pc = "staged", !.old = ViewOf(lake).part, !.new = nextPart]
    /\ UNCHANGED <<objVars, memVars, insertVars, faults, drops, truncated, eraser>>

\* bootstrap_truncated_partition creates the tablets, which registers them.
TruncBootstrap ==
    /\ ddl.pc = "staged"
    /\ \/ /\ BootstrapPartition(ddl.new)
          /\ ddl' = [ddl EXCEPT !.pc = "bootstrapped"]
          /\ UNCHANGED faults
       \/ ObjFault /\ ddl' = [ddl EXCEPT !.pc = "cleanup"] /\ UNCHANGED objVars
    /\ reg' = reg \cup {ddl.new}
    /\ UNCHANGED <<sqlVars, mode, lake, view, insertVars, drops, truncated, eraser>>

TruncActivate ==
    /\ ddl.pc = "bootstrapped"
    /\ \/ /\ activate_truncate_partition(ddl.old, ddl.new)
          /\ ddl' = [ddl EXCEPT !.pc = "activated"]
          /\ UNCHANGED faults
       \/ SqlFault /\ ddl' = [ddl EXCEPT !.pc = "cleanup"] /\ UNCHANGED sqlVars
    /\ UNCHANGED <<objVars, memVars, insertVars, drops, truncated, eraser>>

\* cleanup_staged_truncate after a failed bootstrap or activation; when it
\* fails too, the CREATING row stays until the next open.
TruncCleanup ==
    /\ ddl.pc = "cleanup"
    /\ reg' = reg \ {ddl.new}
    /\ \/ delete_creating_partition(ddl.new) /\ UNCHANGED faults
       \/ SqlFault /\ UNCHANGED sqlVars
    /\ ddl' = NoDdl
    /\ UNCHANGED <<objVars, mode, lake, view, insertVars, drops, truncated, eraser>>

TruncRemoveRuntimes ==
    /\ ddl.pc = "activated"
    /\ reg' = reg \ {ddl.old}
    /\ ddl' = [ddl EXCEPT !.pc = "removed"]
    /\ UNCHANGED <<sqlVars, objVars, mode, lake, view, insertVars, faults, drops,
                   truncated, eraser>>

\* load_snapshot, rebuild, and re_register_active_tablet_runtimes, which reads
\* each active tablet's metadata at its visible version.  A failure returns
\* before the catalog is swapped.
TruncReload ==
    /\ ddl.pc = "removed"
    /\ \/ /\ ddl' = [ddl EXCEPT !.pc = "reloaded", !.snap = parts]
          /\ reg' = reg \cup ActiveParts(parts)
          /\ UNCHANGED faults
       \/ ObjFault /\ ddl' = NoDdl /\ UNCHANGED reg
    /\ UNCHANGED <<sqlVars, objVars, mode, lake, view, insertVars, drops, truncated,
                   eraser>>

TruncSwap ==
    /\ ddl.pc = "reloaded"
    /\ lake' = ddl.snap
    /\ ddl' = [ddl EXCEPT !.pc = "swapped"]
    /\ UNCHANGED <<sqlVars, objVars, mode, reg, view, insertVars, faults, drops,
                   truncated, eraser>>

\* The rebuilt runtime is registered for SELECT and TRUNCATE returns Ok.
TruncRegister ==
    /\ ddl.pc = "swapped"
    /\ view' = ViewOf(ddl.snap)
    /\ truncated' = truncated \cup {ddl.old}
    /\ ddl' = NoDdl
    /\ UNCHANGED <<sqlVars, objVars, mode, reg, lake, insertVars, faults, drops, eraser>>

-----------------------------------------------------------------------------
(* DROP TABLE on another table: drop_managed_table reloads the snapshot    *)
(* after its SQLite transaction and replaces the whole catalog with it.    *)

DropReload ==
    /\ mode = "up" /\ ddl.pc = "idle" /\ drops < budget.drops
    /\ ddl' = [ddl EXCEPT !.pc = "dropping", !.snap = parts]
    /\ drops' = drops + 1
    /\ UNCHANGED <<sqlVars, objVars, memVars, insertVars, faults, truncated, eraser>>

DropSwap ==
    /\ ddl.pc = "dropping"
    /\ lake' = ddl.snap
    /\ ddl' = NoDdl
    /\ UNCHANGED <<sqlVars, objVars, mode, reg, view, insertVars, faults, drops,
                   truncated, eraser>>

DdlStep ==
    \/ TruncBootstrap \/ TruncActivate \/ TruncCleanup \/ TruncRemoveRuntimes \/ TruncReload
    \/ TruncSwap \/ TruncRegister \/ DropSwap

-----------------------------------------------------------------------------
(* The erase worker: run_erase_jobs_once.                                  *)

\* Mutant: a job that failed once is not listed again.
ClaimPendingOnly(p) ==
    /\ mode = "up" /\ eraser.pc = "idle"
    /\ jobs[p] = "PENDING"
    /\ SetJob(p, "RUNNING")
    /\ eraser' = [pc |-> "claimed", job |-> p]
    /\ UNCHANGED <<objVars, memVars, insertVars, faults, ddlVars>>

\* list_runnable_erase_jobs and claim_erase_job.
EraseClaim(p) ==
    /\ mode = "up" /\ eraser.pc = "idle"
    /\ jobs[p] \in {"PENDING", "FAILED"}
    /\ SetJob(p, "RUNNING")
    /\ eraser' = [pc |-> "claimed", job |-> p]
    /\ UNCHANGED <<objVars, memVars, insertVars, faults, ddlVars>>

EraseRoot ==
    /\ eraser.pc = "claimed"
    /\ \/ /\ erase_root(eraser.job)
          /\ eraser' = [eraser EXCEPT !.pc = "erased"]
          /\ UNCHANGED faults
       \/ ObjFault /\ eraser' = [eraser EXCEPT !.pc = "failing"] /\ UNCHANGED objVars
    /\ UNCHANGED <<sqlVars, memVars, insertVars, ddlVars>>

ErasePurge ==
    /\ eraser.pc = "erased"
    /\ \/ /\ purge_retired_partition_metadata(eraser.job)
          /\ eraser' = [eraser EXCEPT !.pc = "purged"]
          /\ UNCHANGED faults
       \/ /\ IF parts[eraser.job].state = "RETIRED" THEN SqlFault ELSE UNCHANGED faults
          /\ eraser' = [eraser EXCEPT !.pc = "failing"]
          /\ UNCHANGED sqlVars
    /\ UNCHANGED <<objVars, memVars, insertVars, ddlVars>>

EraseFinish ==
    /\ eraser.pc = "purged"
    /\ \/ SetJob(eraser.job, "FINISHED") /\ eraser' = NoErase /\ UNCHANGED faults
       \/ /\ SqlFault /\ eraser' = [eraser EXCEPT !.pc = "failing"]
          /\ UNCHANGED sqlVars
    /\ UNCHANGED <<objVars, memVars, insertVars, ddlVars>>

\* fail_erase_job: FAILED, to be retried; if that fails too the iteration ends
\* and the job stays RUNNING.
EraseFail ==
    /\ eraser.pc = "failing"
    /\ \/ SetJob(eraser.job, "FAILED") /\ UNCHANGED faults
       \/ SqlFault /\ UNCHANGED sqlVars
    /\ eraser' = NoErase
    /\ UNCHANGED <<objVars, memVars, insertVars, ddlVars>>

EraseStep == EraseRoot \/ ErasePurge \/ EraseFinish \/ EraseFail
=============================================================================
