---------------------------- MODULE IcebergTable ----------------------------
(***************************************************************************)
(* The metadata of an Iceberg table as NovaRocks and the vendored          *)
(* iceberg-rust read and change it: snapshots with their parents, the refs *)
(* main and dev, row-id and sequence-number allocation, and which files a  *)
(* snapshot is made of.                                                    *)
(*                                                                         *)
(* A statement adds at most one data (or delete) file and one group of     *)
(* manifests, both named by the statement: the paths carry its commit_uuid *)
(* and every attempt of the statement reuses them.  A manifest list is     *)
(* named by the snapshot, which an attempt names afresh.                   *)
(***************************************************************************)
EXTENDS Integers, FiniteSets

CONSTANTS
    Stmts,      \* the statements, 1..n; 1 and 2 made the table the model starts from
    MaxRetries  \* bound: commit.retry.num-retries, retries after a conflict

ASSUME TableAssumption ==
    /\ Stmts = 1..Cardinality(Stmts) /\ IsFiniteSet(Stmts) /\ {1, 2} \subseteq Stmts
    /\ MaxRetries \in Nat

Ids == Stmts \X (0..MaxRetries)
NoSnap == <<0, 0>>
Refs == {"main", "dev"}

\* A data file that a statement writes from its own input holds two rows.
New(s) == {s} \X {1, 2}
RowSet == Stmts \X {1, 2}

DataFile(s) == <<"data", s, 0>>
Manifest(s) == <<"manifest", s, 0>>
ManifestList(id) == <<"list", id[1], id[2]>>
Files == {DataFile(s) : s \in Stmts} \cup {Manifest(s) : s \in Stmts}
            \cup {ManifestList(id) : id \in Ids}

\* data and dels: the statements whose data and delete files are alive; man:
\* whose manifests are listed; names: every file that an entry of those manifests
\* names, also the entries with status DELETED.
Snapshots == [parent : Ids \cup {NoSnap}, seq : Nat, row0 : Nat, added : 0..2,
              data : SUBSET Stmts, dels : SUBSET Stmts, man : SUBSET Stmts,
              names : SUBSET Stmts]

\* A metadata file, with the statement that wrote it and the versions of its
\* metadata log.
NoTableMeta == [snaps |-> <<>>, refs |-> [r \in Refs |-> NoSnap], nextRow |-> 0, lastSeq |-> 0,
           by |-> 0, log |-> {}]

RefHead(m, r) == m.refs[r]
Main(m) == m.snaps[RefHead(m, "main")]

\* The snapshots from id back along the parents that the metadata still holds.
Ancestors(m, id) ==
    LET back[n \in 0..Cardinality(DOMAIN m.snaps)] ==
            IF n = 0 THEN {id} \cap DOMAIN m.snaps
            ELSE back[n - 1] \cup
                    ({m.snaps[x].parent : x \in back[n - 1]} \cap DOMAIN m.snaps)
    IN  back[Cardinality(DOMAIN m.snaps)]

\* compute_live_snapshot_set: reachable from some ref.
LiveSnapshots(m) == UNION {Ancestors(m, m.refs[r]) : r \in Refs}

\* enumerate_files_for_snapshots
FilesOf(m, ids) ==
    UNION {{ManifestList(id)} \cup {Manifest(s) : s \in m.snaps[id].man}
              \cup {DataFile(s) : s \in m.snaps[id].names} : id \in ids}

\* What a scan of the snapshot opens.
NeededFiles(m, id) ==
    {ManifestList(id)} \cup {Manifest(s) : s \in m.snaps[id].man}
        \cup {DataFile(s) : s \in m.snaps[id].data \cup m.snaps[id].dels}

-----------------------------------------------------------------------------
(* The updates of a commit (TableMetadataBuilder) and their checks.        *)

\* TableRequirement::RefSnapshotIdMatch
RefMatches(m, r, id) == RefHead(m, r) = id

\* Mutant: the check of the first row id is dropped.
AcceptsStaleRowIds(m, f, x) == x.seq > m.lastSeq \/ x.parent = NoSnap

\* add_snapshot refuses a sequence number or a first row id behind the table's.
Accepts(m, f, x) ==
    /\ x.seq > m.lastSeq \/ x.parent = NoSnap
    /\ f = 3 => x.row0 >= m.nextRow

\* add_snapshot and SetSnapshotRef
WithSnapshot(m, id, x, r) ==
    [m EXCEPT !.snaps = [i \in DOMAIN m.snaps \cup {id} |-> IF i = id THEN x ELSE m.snaps[i]],
              !.refs = [m.refs EXCEPT ![r] = id],
              !.nextRow = m.nextRow + x.added, !.lastSeq = x.seq]

\* remove_snapshots: refs to a removed snapshot go too.
WithoutSnapshots(m, ids) ==
    [m EXCEPT !.snaps = [id \in DOMAIN m.snaps \ ids |-> m.snaps[id]],
              !.refs = [r \in Refs |-> IF m.refs[r] \in ids THEN NoSnap ELSE m.refs[r]]]

\* set_ref and RemoveSnapshotRef
WithRef(m, r, id) == [m EXCEPT !.refs[r] = id]

-----------------------------------------------------------------------------
(* The snapshots that the commit actions build on the table's current one. *)
(* The base is main's snapshot for every target ref: read_base_manifest_   *)
(* list and enumerate_live_data_files ask for current_snapshot.            *)

Built(m, r, row0, added, data, dels, man, names) ==
    [parent |-> RefHead(m, r), seq |-> m.lastSeq + 1, row0 |-> row0, added |-> added,
     data |-> data, dels |-> dels, man |-> man, names |-> names]

\* FastAppendV3TxnAction, and iceberg-rust's FastAppendAction
Appended(m, r, s, row0, added) ==
    LET base == Main(m)
    IN  Built(m, r, row0, added, base.data \cup {s}, base.dels, base.man \cup {s},
              base.names \cup {s})

\* OverwriteTxnAction: the base's data files are entered as deleted, its
\* manifests, the delete manifests with them, are not listed again.
Overwritten(m, r, s, row0, added) ==
    LET base == Main(m)
    IN  Built(m, r, row0, added, {s}, {}, {s}, base.data \cup {s})

\* RowDeltaTxnAction: a position-delete file beside everything the base lists.
PositionDeleted(m, s) ==
    LET base == Main(m)
    IN  Built(m, "main", 0, 0, base.data, base.dels \cup {s}, base.man \cup {s},
              base.names \cup {s})

\* RowDeltaDvTxnAction: the deletion vectors of the touched file, and their
\* manifests, give way to the merged one.
VectorDeleted(m, s, row0, old) ==
    LET base == Main(m)
    IN  Built(m, "main", row0, 0, base.data, (base.dels \ old) \cup {s},
              (base.man \ old) \cup {s}, (base.names \ old) \cup {s})

\* RewriteDataFilesTxnAction: every live data and delete file is entered as
\* deleted; wrote says whether there was a row to write.
Rewritten(m, s, row0, wrote) ==
    LET base == Main(m)
        out == IF wrote THEN {s} ELSE {}
    IN  Built(m, "main", row0, 0, out, {}, {s}, base.data \cup base.dels \cup out)

\* TruncateTxnAction
Emptied(m, s, row0) ==
    LET base == Main(m)
    IN  Built(m, "main", row0, 0, {}, {}, IF base.data \cup base.dels = {} THEN {} ELSE {s},
              base.data \cup base.dels)
=============================================================================
