---------------------------- MODULE IcebergCatalog --------------------------
(***************************************************************************)
(* Catalog::update_table.  The REST catalog is a server that checks a      *)
(* commit's requirements and applies it in one step; a request or its      *)
(* answer may get lost, and a request may arrive after its client gave up. *)
(* The Hadoop catalog works on files: re-read the cached metadata version, *)
(* check, write version hint + 1, write the hint.                          *)
(***************************************************************************)
EXTENDS IcebergCommit

\* The pending commit of s against metadata m: its requirement, the builder's
\* checks, and the metadata that its updates make of m.
Requirement(m, s) == RefMatches(m, st[s].ref, st[s].prep.parent)

Valid(m, s) ==
    /\ st[s].kind \in Dml => Accepts(m, load.fmt, st[s].prep)
    /\ st[s].kind = "create" => st[s].pick \subseteq DOMAIN m.snaps

Updated(m, s) ==
    CASE st[s].kind \in Dml -> WithSnapshot(m, <<s, st[s].try>>, st[s].prep, st[s].ref)
      [] st[s].kind = "expire" -> WithoutSnapshots(m, st[s].pick)
      [] st[s].kind = "create" -> WithRef(m, "dev", CHOOSE id \in st[s].pick : TRUE)
      [] st[s].kind = "drop" -> WithRef(m, "dev", NoSnap)

NextMeta(m, v, s) == [Updated(m, s) EXCEPT !.by = s, !.log = @ \cup {v}]

\* EXPIRE deletes files once its commit is through, the others are done.
Committed(s) == IF st[s].kind = "expire" THEN Goes(s, "deleting") ELSE Ends(s, "acked")

\* Mutant: one retry too many.
OneMoreRetry(s) ==
    IF st[s].kind \in {"create", "drop"} THEN Ends(s, "error")
    ELSE IF st[s].try <= MaxRetries
    THEN st' = [st EXCEPT ![s].pc = IF st[s].kind = "expire" THEN "loaded" ELSE "written",
                          ![s].try = @ + 1, ![s].prep = NoSnapshot]
    ELSE FailsDefinitely(s)

\* A conflict is retryable: iceberg-rust rebuilds DML and commit_with_retry
\* EXPIRE on the reloaded table; a ref statement reports it.
Conflict(s) ==
    IF st[s].kind \in {"create", "drop"} THEN Ends(s, "error")
    ELSE IF st[s].try < MaxRetries
    THEN st' = [st EXCEPT ![s].pc = IF st[s].kind = "expire" THEN "loaded" ELSE "written",
                          ![s].try = @ + 1, ![s].prep = NoSnapshot]
    ELSE IF st[s].kind = "expire" THEN Ends(s, "error")
    ELSE FailsDefinitely(s)

-----------------------------------------------------------------------------
(* REST.                                                                   *)

Applies(s) ==
    /\ Requirement(Current, s) /\ Valid(Current, s)
    /\ meta' = [meta EXCEPT ![hint + 1] = NextMeta(Current, hint, s)]
    /\ hint' = hint + 1

\* The server's answer arrives: done, a conflict, or (a commit its builder
\* refuses) an error whose outcome counts as unknown.
RestUpdate(s) ==
    /\ load.cat = "rest" /\ st[s].pc = "built"
    /\ \/ Applies(s) /\ Committed(s)
       \/ ~Requirement(Current, s) /\ Conflict(s) /\ UNCHANGED <<meta, hint>>
       \/ /\ Requirement(Current, s) /\ ~Valid(Current, s)
          /\ Ends(s, "error") /\ UNCHANGED <<meta, hint>>
    /\ UNCHANGED <<disk, body, slips>>

\* Mutant: an unknown outcome is cleaned up like a definite failure.
CleanUnknown(s) ==
    /\ load.cat = "rest" /\ st[s].pc = "built" /\ Slip
    /\ \/ Goes(s, "cleanup") /\ UNCHANGED <<meta, hint>>
       \/ Applies(s) /\ Goes(s, "cleanup")
    /\ UNCHANGED <<disk, body>>

\* No answer: the request was lost, or it may still arrive.  The files stay.
RestLost(s) ==
    /\ load.cat = "rest" /\ st[s].pc = "built" /\ Slip
    /\ \/ Ends(s, "error")
       \/ st' = [st EXCEPT ![s].pc = "error", ![s].late = TRUE, ![s].log = {}]
    /\ UNCHANGED <<meta, hint, disk, body>>

\* A delayed request reaches the server.
RestLate(s) ==
    /\ st[s].late
    /\ \/ Applies(s)
       \/ ~(Requirement(Current, s) /\ Valid(Current, s)) /\ UNCHANGED <<meta, hint>>
    /\ Ends(s, st[s].pc)
    /\ UNCHANGED <<disk, body, slips>>

-----------------------------------------------------------------------------
(* Hadoop: HadoopFileSystemCatalog::update_table.                          *)

\* load_table, the checks, the new metadata and the next version; a hint that
\* cannot be read counts as version 0.
HadoopApply(s) ==
    /\ load.cat = "hadoop" /\ st[s].pc = "built"
    /\ LET m == meta[st[s].at]
           Ready(v) == st' = [st EXCEPT ![s].pc = "applied", ![s].next = v + 1,
                                        ![s].new = NextMeta(m, st[s].at, s)]
       IN  IF Requirement(m, s) /\ Valid(m, s)
           THEN (Ready(hint) /\ UNCHANGED slips) \/ (Ready(0) /\ Slip)
           ELSE /\ IF Requirement(m, s) THEN FailsDefinitely(s) ELSE Conflict(s)
                /\ UNCHANGED slips
    /\ UNCHANGED <<meta, hint, disk, body>>

\* write_metadata, first half; a failed write is Unexpected, so unknown.
HadoopWriteMeta(s) ==
    /\ st[s].pc = "applied"
    /\ \/ /\ meta' = [meta EXCEPT ![st[s].next] = st[s].new]
          /\ Goes(s, "saved") /\ UNCHANGED slips
       \/ Slip /\ Ends(s, "error") /\ UNCHANGED meta
    /\ UNCHANGED <<hint, disk, body>>

\* Mutant: an error of write_version_hint is ignored.
HintIgnored(s) ==
    /\ st[s].pc = "saved"
    /\ \/ hint' = st[s].next /\ UNCHANGED slips
       \/ Slip /\ UNCHANGED hint
    /\ Committed(s)
    /\ UNCHANGED <<meta, disk, body>>

\* write_metadata, second half: write_version_hint is the commit.
HadoopWriteHint(s) ==
    /\ st[s].pc = "saved"
    /\ \/ hint' = st[s].next /\ Committed(s) /\ UNCHANGED slips
       \/ Slip /\ Ends(s, "error") /\ UNCHANGED hint
    /\ UNCHANGED <<meta, disk, body>>
=============================================================================
