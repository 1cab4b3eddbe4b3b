-------------------------- MODULE IcebergMaintenance ------------------------
(***************************************************************************)
(* ALTER TABLE CREATE/DROP BRANCH dev, OPTIMIZE, EXPIRE SNAPSHOTS and      *)
(* REMOVE ORPHAN FILES.  The last three build a Hadoop catalog.            *)
(***************************************************************************)
EXTENDS IcebergCatalog

\* execute_ref_action up to update_table: the action against the loaded refs.
\* The requirement is the head that the branch had, or its absence.
RefBegin(s, k) ==
    /\ Starts(s) /\ k \in load.kinds \cap {"create", "drop"}
    /\ IF (k = "create") = (RefHead(Current, "dev") = NoSnap)
       THEN \E id \in IF k = "create" THEN DOMAIN Current.snaps ELSE {NoSnap} :
                st' = [st EXCEPT ![s] =
                         [With(s, k, "dev", "built") EXCEPT
                             !.prep.parent = RefHead(Current, "dev"), !.pick = {id}]]
       ELSE st' = [st EXCEPT ![s] = [NoStmt EXCEPT !.pc = "refused", !.kind = k]]
    /\ UNCHANGED <<tableVars, slips>>

-----------------------------------------------------------------------------
\* ALTER TABLE OPTIMIZE inserts a job with the snapshot that SELECT would read as
\* its base, unless the table has an active job.
OptimizeQueue(s) ==
    /\ Starts(s) /\ "rewrite" \in load.kinds
    /\ LET refused == [NoStmt EXCEPT !.pc = "refused", !.kind = "rewrite"]
           job == [NoStmt EXCEPT !.pc = "queued", !.kind = "rewrite",
                                 !.pick = {RefHead(meta[Newest], "main")}]
           active == \E q \in Stmts : st[q].kind = "rewrite" /\ st[q].pc \notin Ended
       IN  \/ st' = [st EXCEPT ![s] = IF active THEN refused ELSE job] /\ UNCHANGED slips
           \/ Slip /\ st' = [st EXCEPT ![s] = refused]
    /\ UNCHANGED tableVars

\* validate_base_snapshot
BaseValid(m, s) == st[s].pick = {RefHead(m, "main")}

\* The worker claims the job and loads the table: nothing to do without live files.
OptimizeClaim(s) ==
    /\ st[s].pc = "queued" /\ SessionFree
    /\ \/ /\ IF ~BaseValid(Current, s) THEN Ends(s, "refused")
             ELSE IF Main(Current).data \cup Main(Current).dels = {} THEN Ends(s, "noop")
             ELSE st' = [st EXCEPT ![s].pc = "loaded", ![s].at = hint]
          /\ UNCHANGED slips
       \/ Slip /\ Ends(s, "refused")
    /\ UNCHANGED tableVars

\* The second load after the files are written; if it fails they are cleaned up.
OptimizeReload(s) ==
    /\ st[s].pc = "reload"
    /\ LET m == Loaded(s)
       IN  \/ /\ IF BaseValid(m, s)
                 THEN st' = [st EXCEPT ![s].pc = "written", ![s].row0 = m.nextRow]
                 ELSE Goes(s, "cleanup")
              /\ UNCHANGED slips
           \/ Slip /\ Goes(s, "cleanup")
    /\ UNCHANGED tableVars

-----------------------------------------------------------------------------
ExpireBegin(s) ==
    /\ Starts(s) /\ "expire" \in load.kinds
    /\ st' = [st EXCEPT ![s] = With(s, "expire", "main", "loaded")]
    /\ UNCHANGED <<tableVars, slips>>

\* compute_expire_candidates: unreachable, and older than the threshold.  RETAIN
\* LAST protects a part of main's chain, which is reachable anyway.
Candidates(m, before) ==
    {id \in DOMAIN m.snaps \ LiveSnapshots(m) : m.snaps[id].seq < before}

\* The files of the candidates that no other snapshot names; a Puffin file is
\* also kept for a data file that is kept.
ExpiredFiles(m, cand) ==
    LET kept == FilesOf(m, DOMAIN m.snaps \ cand)
    IN  {f \in FilesOf(m, cand) \ kept :
           ~(load.fmt = 3 /\ f[1] = "data" /\ body[f[2]].target # 0
               /\ DataFile(body[f[2]].target) \in kept)}

\* run_expire_one_attempt up to update_table.
ExpirePlan(s) ==
    /\ st[s].pc = "loaded" /\ st[s].kind = "expire"
    /\ LET m == Loaded(s)
       IN  \/ /\ UNCHANGED slips
              /\ \E before \in {m.lastSeq, m.lastSeq + 1} :
                   LET cand == Candidates(m, before)
                   IN  IF cand = {} THEN Ends(s, "noop")
                       ELSE st' = [st EXCEPT ![s].pc = "built", ![s].pick = cand,
                                             ![s].prep.parent = RefHead(m, "main"),
                                             ![s].log = ExpiredFiles(m, cand)]
           \/ Slip /\ Ends(s, "error")
    /\ UNCHANGED tableVars

\* best_effort_delete_files
ExpireDelete(s) ==
    /\ st[s].pc = "deleting"
    /\ \/ disk' = disk \ st[s].log /\ UNCHANGED slips
       \/ Slip /\ \E f \in st[s].log : disk' = disk \ (st[s].log \ {f})
    /\ Ends(s, "acked")
    /\ UNCHANGED <<meta, hint, body>>

-----------------------------------------------------------------------------
\* run_remove_orphan_files loads the table; OLDER THAN is an age that no running
\* statement reaches, so the old files are those of statements that have ended.
OrphanBegin(s) ==
    /\ st[s].pc = "free" /\ \A q \in Stmts : q < s => st[q].pc # "free"
    /\ "orphan" \in load.kinds
    /\ st' = [st EXCEPT ![s] = [With(s, "orphan", "main", "scanning") EXCEPT
                                   !.pick = {q \in Stmts : st[q].pc \in Ended},
                                   !.new = Current]]
    /\ UNCHANGED <<tableVars, slips>>

\* The live files: of every snapshot in the metadata.
OrphanLive(m) == FilesOf(m, DOMAIN m.snaps)

\* The listing, and the best-effort deletion of what is old and not live.  The
\* metadata log and the current version are live too.
OrphanDelete(s) ==
    /\ st[s].pc = "scanning"
    /\ LET m == st[s].new
           victims == {f \in disk \ OrphanLive(m) : f[2] \in st[s].pick}
       IN  /\ \/ disk' = disk \ victims /\ UNCHANGED slips
              \/ Slip /\ \E f \in victims : disk' = disk \ (victims \ {f})
           /\ meta' = [v \in MetaVersions |->
                         IF v \notin {st[s].at} \cup m.log /\ meta[v].by \in st[s].pick
                         THEN NoTableMeta ELSE meta[v]]
    /\ Ends(s, "acked")
    /\ UNCHANGED <<hint, body>>

-----------------------------------------------------------------------------
\* The process dies with its statements; a REST request may be under way.  A job
\* that is RUNNING is FAILED by the next process, a PENDING one stays.
Die ==
    /\ Slip /\ Running # {}
    /\ \E L \in SUBSET {s \in Running : load.cat = "rest" /\ st[s].pc = "built"} :
         st' = [s \in Stmts |->
                  IF s \in L THEN [st[s] EXCEPT !.pc = "gone", !.late = TRUE, !.log = {}]
                  ELSE IF s \in Running
                  THEN [NoStmt EXCEPT !.pc = "gone", !.kind = st[s].kind, !.ref = st[s].ref]
                  ELSE st[s]]
    /\ UNCHANGED tableVars
=============================================================================
