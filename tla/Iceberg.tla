------------------------------- MODULE Iceberg ------------------------------
(***************************************************************************)
(* Sessions of a NovaRocks server that change one Iceberg table: DML,      *)
(* branches, EXPIRE SNAPSHOTS and REMOVE ORPHAN FILES through one catalog, *)
(* with failing calls and a process that may die.                          *)
(***************************************************************************)
EXTENDS IcebergMaintenance

iceVars == <<load, meta, hint, disk, body, st, slips>>

\* Statement 1 filled the table.  In version 3 statement 2 appended to a branch
\* made there; in version 2, where branches take no writes, to main.
FirstMeta(f) ==
    LET one == [NoSnapshot EXCEPT !.seq = 1, !.added = IF f = 3 THEN 2 ELSE 0,
                                  !.data = {1}, !.man = {1}, !.names = {1}]
        two == [NoSnapshot EXCEPT !.parent = <<1, 0>>, !.seq = 2,
                                  !.row0 = IF f = 3 THEN 2 ELSE 0, !.added = one.added,
                                  !.data = {1, 2}, !.man = {1, 2}, !.names = {1, 2}]
    IN  [NoTableMeta EXCEPT !.snaps = [id \in {<<1, 0>>, <<2, 0>>} |->
                                         IF id = <<1, 0>> THEN one ELSE two],
                            !.refs = IF f = 3 THEN [main |-> <<1, 0>>, dev |-> <<2, 0>>]
                                     ELSE [main |-> <<2, 0>>, dev |-> <<1, 0>>],
                            !.nextRow = IF f = 3 THEN 4 ELSE 0, !.lastSeq = 2, !.by = 1]

IceInit ==
    /\ load \in Workloads
    /\ meta = [v \in MetaVersions |-> IF v = 1 THEN FirstMeta(load.fmt) ELSE NoTableMeta]
    /\ hint = 1
    /\ disk = FilesOf(meta[1], DOMAIN meta[1].snaps)
    /\ body = [s \in Stmts |-> [rows |-> IF s <= 2 THEN New(s) ELSE {}, target |-> 0]]
    /\ st = [s \in Stmts |-> IF s <= 2 THEN [NoStmt EXCEPT !.pc = "acked", !.kind = "append",
                                             !.ref = IF load.fmt = 3 /\ s = 2 THEN "dev"
                                                     ELSE "main"]
                             ELSE NoStmt]
    /\ slips = 0

CommitStep(s) == WriteFiles(s) \/ Build(s) \/ Cleanup(s)
CatalogStep(s) ==
    \/ RestUpdate(s) \/ RestLost(s) \/ RestLate(s)
    \/ HadoopApply(s) \/ HadoopWriteMeta(s) \/ HadoopWriteHint(s)
OptimizeStep(s) == OptimizeQueue(s) \/ OptimizeClaim(s) \/ OptimizeReload(s)
MaintenanceStep(s) == ExpirePlan(s) \/ ExpireDelete(s) \/ OrphanDelete(s)

IceNext ==
    \/ \E s \in Stmts, k \in Dml, r \in Refs : Begin(s, k, r) /\ UNCHANGED load
    \/ \E s \in Stmts, k \in {"create", "drop"} : RefBegin(s, k) /\ UNCHANGED load
    \/ \E s \in Stmts : (ExpireBegin(s) \/ OrphanBegin(s)) /\ UNCHANGED load
    \/ \E s \in Stmts : CommitStep(s) /\ UNCHANGED load
    \/ \E s \in Stmts : CatalogStep(s) /\ UNCHANGED load
    \/ \E s \in Stmts : OptimizeStep(s) /\ UNCHANGED load
    \/ \E s \in Stmts : MaintenanceStep(s) /\ UNCHANGED load
    \/ Die /\ UNCHANGED load

IceSpec == IceInit /\ [][IceNext]_iceVars

-----------------------------------------------------------------------------
TableMetas == {meta[v] : v \in MetaVersions}

\* Metadata files, table files and statements are well formed, and every ref
\* names a snapshot that its metadata holds.
IceTypeOK ==
    /\ load \in Workloads /\ hint \in MetaVersions /\ disk \subseteq Files
    /\ body \in [Stmts -> [rows : SUBSET RowSet, target : Stmts \cup {0}]]
    /\ \A m \in TableMetas : /\ DOMAIN m.snaps \subseteq Ids
                        /\ \A id \in DOMAIN m.snaps : m.snaps[id] \in Snapshots
                        /\ \A r \in Refs : m.refs[r] \in DOMAIN m.snaps \cup {NoSnap}
                        /\ m.log \subseteq MetaVersions /\ m.by \in Stmts \cup {0}
    /\ \A s \in Stmts : /\ st[s].kind \in Kinds \cup {"none"} /\ st[s].ref \in Refs
                        /\ st[s].try \in 0..MaxRetries /\ st[s].prep \in Snapshots
                        /\ st[s].log \subseteq Files
    /\ slips \in 0..load.slips

MainDml(s) == st[s].kind \in Dml /\ st[s].ref = "main"
MainChain == {id[1] : id \in Ancestors(Current, RefHead(Current, "main"))}
NoOps == {s \in Stmts : st[s].pc = "noop" /\ MainDml(s)}

\* No acknowledged write is lost: a statement on main that returned Ok and
\* committed a snapshot is in main's history ever after, whatever other
\* statements run, fail, retry, expire or clean up (run_iceberg_commit).
AckedKept ==
    \A s \in Stmts : st[s].pc = "acked" /\ MainDml(s) => s \in MainChain

\* Clean-up after an abort, EXPIRE and REMOVE ORPHAN FILES delete no file that a
\* snapshot of the table needs: each one can be read, on every branch.
NoDanglingFiles ==
    \A id \in DOMAIN Current.snaps : NeededFiles(Current, id) \subseteq disk

\* Row ids of a version 3 table are assigned once: the ranges of its snapshots
\* are disjoint and below next-row-id, although a statement takes its first row
\* id when it loads the table and may commit after others.
RowIdsUnique ==
    load.fmt = 3 =>
        \A i, j \in DOMAIN Current.snaps :
            LET x == Current.snaps[i]
                y == Current.snaps[j]
            IN  /\ x.row0 + x.added <= Current.nextRow
                /\ i # j => x.row0 + x.added <= y.row0 \/ y.row0 + y.added <= x.row0
                            \/ x.added = 0 \/ y.added = 0

-----------------------------------------------------------------------------
(* main as a VersionedTable: the committed table, which the hint names.    *)
(* SELECT through Hadoop reads the newest metadata, which is another after *)
(* a hint that could not be written; OPTIMIZE then commits what it read.   *)

AbstractKind(s) ==
    IF s <= 2 \/ ~MainDml(s) THEN "none"
    ELSE IF st[s].kind = "insert" THEN "append" ELSE st[s].kind

MainTable == INSTANCE VersionedTable WITH
    Statements <- Stmts, Fresh <- New,
    rows <- Visible(Current, RefHead(Current, "main")),
    kind <- [s \in Stmts |-> AbstractKind(s)],
    done <- (MainChain \ {1, 2}) \cup NoOps,
    acked <- {s \in Stmts \ {1, 2} : st[s].pc \in {"acked", "noop"} /\ MainDml(s)},
    refused <- {s \in Stmts \ {1, 2} : st[s].pc = "refused" /\ MainDml(s)}

\* The statements on main are atomic and happen at most once: the committed rows of
\* main change as a VersionedTable's do, through REST with retries and unknown
\* outcomes, through Hadoop with calls that fail and crashes between its steps.
MainIsVersioned == MainTable!TSpec
=============================================================================
