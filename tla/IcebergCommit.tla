---------------------------- MODULE IcebergCommit ---------------------------
(***************************************************************************)
(* DML statements on an Iceberg table: load, write files, build a snapshot *)
(* (run_iceberg_commit and the commit actions), and commit it through the  *)
(* REST catalog or the Hadoop catalog, with the retry after a conflict and *)
(* the abort clean-up.                                                     *)
(*                                                                         *)
(* Statements: insert (registry::insert_rows, literal rows into main),     *)
(* append and overwrite (execute_iceberg_insert_or_overwrite, into main or *)
(* a branch), delete, truncate and rewrite (the worker of OPTIMIZE).  The  *)
(* last three build a Hadoop catalog whatever the table's catalog is.      *)
(***************************************************************************)
EXTENDS IcebergTable

CONSTANTS
    Workloads   \* what a behaviour may contain: [cat, fmt, kinds, sessions, slips]

Dml == {"insert", "append", "overwrite", "delete", "truncate", "rewrite"}
Kinds == Dml \cup {"create", "drop", "expire", "orphan"}

ASSUME WorkloadAssumption ==
    \A w \in Workloads :
        /\ w.cat \in {"rest", "hadoop"} /\ w.fmt \in {2, 3} /\ w.kinds \subseteq Kinds
        /\ w.sessions \in Nat /\ w.slips \in Nat
        /\ w.cat = "rest" => w.kinds \subseteq {"insert", "append", "overwrite", "create", "drop"}

MetaVersions == 1..(Cardinality(Stmts) - 1)

VARIABLES
    load,    \* the workload of this behaviour
    meta,    \* meta[v]: vN.metadata.json, or the v-th metadata of the REST catalog
    hint,    \* version-hint.text, or the REST catalog's current metadata
    disk,    \* the data, delete, manifest and manifest-list files that exist
    body,    \* body[s]: the rows in s's data file, or the rows its delete file hides in target
    st,      \* st[s]: statement s
    slips    \* the calls that failed and the deaths of the process so far

tableVars == <<meta, hint, disk, body>>

\* Returned Ok with or without a commit; returned an error that says that nothing
\* was committed, or one that does not; died.
Ended == {"acked", "noop", "refused", "error", "gone"}
NoSnapshot == [parent |-> NoSnap, seq |-> 0, row0 |-> 0, added |-> 0,
               data |-> {}, dels |-> {}, man |-> {}, names |-> {}]

\* at: the metadata version its Hadoop catalog caches; row0: next_row_id when it
\* loaded the table; prep: the snapshot of the pending commit (of DDL, only the
\* required ref head, as parent); new, next: the metadata to write and its version,
\* of an orphan removal the metadata it loaded; log: the files it deletes at its
\* end; pick: the snapshots it names, of an orphan removal the statements that
\* ended before it; late: its request is under way although its client gave up.
NoStmt == [pc |-> "free", kind |-> "none", ref |-> "main", at |-> 0, row0 |-> 0,
           try |-> 0, prep |-> NoSnapshot, new |-> NoTableMeta, next |-> 0, log |-> {},
           pick |-> {}, late |-> FALSE]

\* An OPTIMIZE whose job is PENDING is queued; its job is in the metadata store.
Running == {s \in Stmts : st[s].pc \notin Ended \cup {"free", "queued"}}
Current == meta[hint]
Slip == slips < load.slips /\ slips' = slips + 1

Goes(s, pc) == st' = [st EXCEPT ![s].pc = pc]
Ends(s, pc) == st' = [st EXCEPT ![s] = [NoStmt EXCEPT !.pc = pc, !.kind = st[s].kind,
                                                      !.ref = st[s].ref]]

\* Visible rows of a snapshot: each data file without what its delete files hide.
Visible(m, id) ==
    UNION {body[f].rows \ UNION {body[d].rows : d \in {e \in m.snaps[id].dels :
                                                          body[e].target = f}} :
              f \in m.snaps[id].data}

\* Where SELECT looks: the highest metadata version there is.
Newest == CHOOSE v \in MetaVersions :
              meta[v] # NoTableMeta /\ \A w \in MetaVersions : w > v => meta[w] = NoTableMeta

\* catalog.load_table: a Hadoop catalog keeps the location it first resolved.
Loaded(s) == IF load.cat = "rest" THEN Current ELSE meta[st[s].at]

\* A statement starts when a session is free for it; the ids are taken in order.
SessionFree == Cardinality({q \in Running : st[q].kind # "orphan"}) < load.sessions
Starts(s) ==
    /\ st[s].pc = "free" /\ \A q \in Stmts : q < s => st[q].pc # "free"
    /\ SessionFree

\* insert_rows registers the metadata that SELECT reads with its Hadoop catalog; the
\* others have theirs read the hint.
With(s, k, r, pc) ==
    [NoStmt EXCEPT !.pc = pc, !.kind = k, !.ref = r, !.row0 = Current.nextRow,
                   !.at = IF k = "insert" /\ load.cat = "hadoop" THEN Newest ELSE hint]

-----------------------------------------------------------------------------
(* Load, and write the files.                                              *)

\* DELETE scans the table it loaded: it hides some visible rows of one data file,
\* or none match and it returns Ok.
DeleteScan(s) ==
    \/ \E f \in Main(Current).data :
         \E P \in SUBSET (body[f].rows \cap Visible(Current, RefHead(Current, "main"))) :
            /\ P # {}
            /\ body' = [body EXCEPT ![s] = [rows |-> P, target |-> f]]
            /\ st' = [st EXCEPT ![s] = With(s, "delete", "main", "loaded")]
    \/ /\ st' = [st EXCEPT ![s] = [NoStmt EXCEPT !.pc = "noop", !.kind = "delete"]]
       /\ UNCHANGED body

Begin(s, k, r) ==
    /\ Starts(s) /\ k \in load.kinds \cap (Dml \ {"rewrite"})
    /\ r = "dev" => k \in {"append", "overwrite"} /\ load.fmt = 3
    /\ \/ /\ IF k = "delete" THEN DeleteScan(s)
             ELSE st' = [st EXCEPT ![s] = With(s, k, r, "loaded")] /\ UNCHANGED body
          /\ UNCHANGED slips
       \* The catalog does not answer; a hint that cannot be read is "table not found".
       \/ /\ Slip
          /\ st' = [st EXCEPT ![s] = [NoStmt EXCEPT !.pc = "refused", !.kind = k, !.ref = r]]
          /\ UNCHANGED body
    /\ UNCHANGED <<meta, hint, disk>>

\* The rows that the statement puts into a file before it commits; OPTIMIZE gets
\* them from a SELECT, which reads the newest metadata and not the hinted one.
RowsToWrite(s) ==
    CASE st[s].kind \in {"insert", "append", "overwrite"} -> New(s)
      [] st[s].kind = "rewrite" -> Visible(meta[Newest], RefHead(meta[Newest], "main"))
      [] st[s].kind = "delete" /\ load.fmt = 2 -> body[s].rows
      [] OTHER -> {}

\* The files are written and injected into the collector, which records them in
\* the abort log (insert_rows has none); a failure leaves them behind.  OPTIMIZE
\* looks at the table once more before it commits.
WriteFiles(s) ==
    /\ st[s].pc = "loaded" /\ st[s].kind \in Dml
    /\ LET file == IF RowsToWrite(s) = {} THEN {} ELSE {DataFile(s)}
       IN  /\ disk' = disk \cup file
           /\ body' = IF st[s].kind = "delete" THEN body
                      ELSE [body EXCEPT ![s].rows = RowsToWrite(s)]
           /\ \/ /\ st' = [st EXCEPT ![s].pc = IF st[s].kind = "rewrite" THEN "reload"
                                              ELSE "written",
                                     ![s].log = IF st[s].kind = "insert" THEN {} ELSE file]
                 /\ UNCHANGED slips
              \/ file # {} /\ Slip /\ Ends(s, "refused")
    /\ UNCHANGED <<meta, hint>>

-----------------------------------------------------------------------------
(* Transaction::do_commit: reload, build the snapshot, check it locally.   *)

\* Rows get ids in version 3 only; a delete, a rewrite and a truncate assign none.
Added == IF load.fmt = 3 THEN 2 ELSE 0

\* The deletion vectors of the file that DELETE touches.
OldVectors(m, s) == {d \in Main(m).dels : body[d].target = body[s].target}

NewSnapshot(s, m) ==
    LET x == st[s]
    IN  CASE x.kind = "insert" -> Appended(m, "main", s, m.nextRow, Added)
          [] x.kind = "append" -> Appended(m, x.ref, s, x.row0, Added)
          [] x.kind = "overwrite" -> Overwritten(m, x.ref, s, x.row0, Added)
          [] x.kind = "delete" /\ load.fmt = 2 -> PositionDeleted(m, s)
          [] x.kind = "delete" /\ load.fmt = 3 -> VectorDeleted(m, s, x.row0, OldVectors(m, s))
          [] x.kind = "rewrite" -> Rewritten(m, s, x.row0, DataFile(s) \in disk)
          [] x.kind = "truncate" -> Emptied(m, s, m.nextRow)

\* What the attempt writes: a manifest, the list and, of a DELETE in version 3,
\* the Puffin file with the merged vector.
AttemptFiles(s, x) ==
    {ManifestList(<<s, st[s].try>>)} \cup {Manifest(q) : q \in x.man \cap {s}}
        \cup (IF st[s].kind = "delete" THEN {DataFile(s)} ELSE {})

\* iceberg-rust's own append keeps its manifests out of the abort log.
Logged(s, files) ==
    IF st[s].kind = "insert" \/ (st[s].kind = "append" /\ load.fmt = 2) THEN {} ELSE files

\* Mutant: the new deletion vector does not take in the old ones.
OnlyOwnPositions(s, m) == body[s].rows

MergedPositions(s, m) ==
    IF load.fmt = 3 THEN body[s].rows \cup UNION {body[d].rows : d \in OldVectors(m, s)}
    ELSE body[s].rows

\* A definite failure: run_iceberg_commit cleans up; insert_rows only reports it.
FailsDefinitely(s) == IF st[s].kind = "insert" THEN Ends(s, "error") ELSE Goes(s, "cleanup")

Build(s) ==
    /\ st[s].pc = "written"
    /\ LET m == Loaded(s)
           x == NewSnapshot(s, m)
           files == AttemptFiles(s, x)
           st1 == [st EXCEPT ![s].prep = x, ![s].log = @ \cup Logged(s, files)]
       IN  \/ \* Unexpected: the touched file left the table, or a file cannot be
              \* read or written; the outcome counts as unknown.
              /\ Ends(s, "error")
              /\ IF st[s].kind = "delete" /\ load.fmt = 3 /\ body[s].target \notin Main(m).data
                 THEN UNCHANGED <<disk, slips>>
                 ELSE Slip /\ \E F \in {{}, files \ {ManifestList(<<s, st[s].try>>)}} :
                                  disk' = disk \cup F
              /\ UNCHANGED body
           \/ /\ st[s].kind = "delete" /\ load.fmt = 3 => body[s].target \in Main(m).data
              /\ disk' = disk \cup files
              /\ body' = IF st[s].kind = "delete"
                         THEN [body EXCEPT ![s].rows = MergedPositions(s, m)] ELSE body
              /\ st' = [st1 EXCEPT ![s].pc = IF Accepts(m, load.fmt, x) THEN "built"
                                            ELSE "cleanup"]
              /\ UNCHANGED slips
    /\ UNCHANGED <<meta, hint>>

\* AbortLog::cleanup, best effort.
Cleanup(s) ==
    /\ st[s].pc = "cleanup"
    /\ \/ disk' = disk \ st[s].log /\ UNCHANGED slips
       \/ Slip /\ \E f \in st[s].log : disk' = disk \ (st[s].log \ {f})
    /\ Ends(s, "refused")
    /\ UNCHANGED <<meta, hint, body>>
=============================================================================
