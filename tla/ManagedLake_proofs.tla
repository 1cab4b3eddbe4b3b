-------------------------- MODULE ManagedLake_proofs ------------------------
(***************************************************************************)
(* Proofs about ManagedLake, for any number of sessions, tablets,          *)
(* partitions, transactions, failures, deaths and reopens: the control     *)
(* plane never points at missing metadata, and an open leaves no           *)
(* transaction in flight.                                                  *)
(***************************************************************************)
EXTENDS ManagedLake, FiniteSetTheorems, WellFoundedInduction, TLAPS

-----------------------------------------------------------------------------
(* The inductive invariant.                                                *)

SqlShape ==
    /\ budget \in Budgets /\ txns \in [TxnIds -> TxnRows] /\ parts \in [Parts -> PartRows]
    /\ nextTxn \in 1..(budget.txns + 1) /\ nextPart \in 2..(budget.parts + 1)
    /\ jobs \in [Parts -> {"NONE", "PENDING", "RUNNING", "FAILED", "FINISHED"}]

ObjShape ==
    /\ logs \in [TxnIds -> [Tablets -> {"none", "rows", "empty"}]]
    /\ bundle \in [Parts -> [Versions -> Metas \cup {NoMeta}]]

MemShape ==
    /\ mode \in {"up", "opening", "down"} /\ reg \subseteq Parts
    /\ lake \in [Parts -> PartRows] /\ view \in Views
    /\ acked \subseteq TxnIds /\ routed \in [TxnIds -> SUBSET Tablets]
    /\ faults \in [obj : 0..budget.obj, sql : 0..budget.sql]

WriterRecs == [pc : PcSet, part : Parts, base : Versions, txn : TxnIds,
               rows : SUBSET Tablets, out : [Tablets -> Outputs], view : Views]
WsShape == ws \in [Writers -> WriterRecs]

DdlRecs == [pc : {"idle", "staged", "bootstrapped", "cleanup", "activated",
                  "removed", "reloaded", "swapped", "dropping"},
            old : Parts, new : Parts, snap : [Parts -> PartRows]]
DdlShape ==
    /\ ddl \in DdlRecs /\ drops \in 0..budget.drops /\ truncated \subseteq Parts
    /\ eraser \in [pc : {"idle", "claimed", "erased", "purged", "failing"}, job : Parts]

RecShape ==
    /\ rec \in [snap : [Parts -> PartRows], todo : SUBSET TxnIds, published : BOOLEAN]
    /\ crashes \in 0..budget.crashes /\ reopens \in 0..budget.reopens

Shape == SqlShape /\ ObjShape /\ MemShape /\ WsShape /\ DdlShape /\ RecShape

\* A partition whose id was handed out and which no TRUNCATE is still staging.
Opened(p) == p < nextPart /\ parts[p].state # "CREATING"

\* The ids are behind their counters, versions behind the transactions, and an
\* erase job names a partition that is not in use.
SqlOK ==
    /\ \A i \in TxnIds : txns[i].state # "NONE" => i < nextTxn
    /\ \A i \in TxnIds : i < nextTxn => txns[i].commit <= nextTxn /\ Opened(txns[i].part)
    /\ \A p \in Parts : p >= nextPart => parts[p].state = "NONE" /\ jobs[p] = "NONE"
    /\ \A p \in Parts : parts[p].visible <= nextTxn
    /\ \A p \in Parts : parts[p].state = "CREATING" => parts[p].visible = 1
    /\ \A p \in Parts : jobs[p] # "NONE" => parts[p].state \notin {"ACTIVE", "CREATING"}
    /\ ActiveParts(parts) # {}

\* A copy of the partitions table, which may be behind it.
CopyOK(ps) ==
    /\ ActiveParts(ps) # {}
    /\ \A p \in Parts : ps[p].visible <= nextTxn /\ (ps[p].state = "ACTIVE" => Opened(p))

MemOK ==
    /\ CopyOK(lake)
    /\ ddl.pc \in {"reloaded", "swapped", "dropping"} => CopyOK(ddl.snap)
    /\ ddl.pc \in {"staged", "bootstrapped"} =>
          parts[ddl.new].state = "CREATING" /\ Opened(ddl.old)
    /\ eraser.pc # "idle" => jobs[eraser.job] # "NONE"
    /\ mode # "up" => /\ \A w \in Writers : ws[w].pc = "idle"
                      /\ ddl.pc = "idle" /\ eraser.pc = "idle"

\* An INSERT works on an opened partition and, once prepared, for its own row.
WriterOK(w) ==
    /\ ws[w].pc # "idle" => Opened(ws[w].part) /\ ws[w].base <= nextTxn
    /\ ws[w].pc \notin {"idle", "planned"} =>
          ws[w].txn < nextTxn /\ txns[ws[w].txn].part = ws[w].part

\* Metadata once seen stays, until the partition is to be erased.
Kept(p, v) == bundle[p][v] # NoMeta \/ jobs[p] # "NONE"
Publishing(w) ==
    \/ ws[w].pc = "read" /\ \E t \in Tablets : ws[w].out[t].kind = "published"
    \/ ws[w].pc = "bundled" /\ FailedTablets(ws[w].out) = {}
    \/ ws[w].pc = "published"
PublishOK(w) == Publishing(w) => Kept(ws[w].part, Commit(w))

WritersOK == \A w \in Writers : WriterOK(w) /\ PublishOK(w)

StoreOK ==
    /\ ActiveReadable
    /\ ddl.pc = "bootstrapped" => bundle[ddl.new][1] # NoMeta

\* The recovery works on the WRITTEN transactions, which are the only ones left.
OpenOK ==
    /\ mode = "opening" =>
          /\ CopyOK(rec.snap)
          /\ \A i \in InflightTxns : i \in rec.todo
          /\ \A i \in rec.todo : txns[i].state = "WRITTEN"
    /\ rec.published => /\ mode = "opening" /\ rec.todo # {}
                        /\ Kept(txns[Min(rec.todo)].part, txns[Min(rec.todo)].commit)

LInv == Shape /\ SqlOK /\ MemOK /\ WritersOK /\ StoreOK /\ OpenOK

-----------------------------------------------------------------------------
(* Basic facts.                                                            *)

\* The smallest transaction of a nonempty set is one of them.
LEMMA MinIsMember ==
    ASSUME NEW S, S \subseteq TxnIds, S # {}
    PROVE  Min(S) \in S
<1>1. S \subseteq Nat BY DEF TxnIds
<1>2. PICK x \in S : \A y \in S : <<y, x>> \notin OpToRel(<, Nat)
    BY <1>1, NatLessThanWellFounded, WFMin
<1>3. \A y \in S : ~(y < x) BY <1>1, <1>2 DEF OpToRel
<1>4. \A y \in S : x <= y BY <1>1, <1>3
<1> QED BY <1>4 DEF Min

\* The metadata of a partition with tablets is not the absence of metadata.
LEMMA MetaIsThere ==
    ASSUME NEW m \in Metas
    PROVE  m # NoMeta
<1>1. DOMAIN m = Tablets /\ DOMAIN NoMeta = {} BY DEF Metas, NoMeta
<1> QED BY <1>1, StoreAssumption

\* Ids and versions fit their sets.
LEMMA Bounds ==
    ASSUME SqlShape
    PROVE  /\ nextTxn \in Nat /\ nextPart \in Nat /\ nextTxn >= 1 /\ nextPart >= 2
           /\ nextTxn <= budget.txns => nextTxn \in TxnIds
           /\ nextPart <= budget.parts => nextPart \in Parts
           /\ \A b \in Versions : b <= nextTxn /\ nextTxn <= budget.txns =>
                 b + 1 \in Versions /\ b + 1 <= nextTxn + 1
           /\ 1 \in Versions /\ 1 \in Parts /\ 1 \in TxnIds /\ 2 \in Versions
<1>1. /\ MaxTxns \in Nat /\ MaxTxns >= 1 /\ MaxParts \in Nat /\ MaxParts >= 1
      /\ budget.txns \in Nat /\ budget.parts \in Nat
      /\ budget.txns <= MaxTxns /\ budget.parts <= MaxParts
    BY StoreAssumption DEF SqlShape, Limits
<1> QED BY <1>1 DEF SqlShape, TxnIds, Parts, Versions

\* What a step does to the control plane never takes these facts back.
Grows ==
    /\ nextTxn <= nextTxn' /\ nextTxn' \in Nat
    /\ \A p \in Parts : Opened(p) => Opened(p)'
    /\ \A i \in TxnIds : i < nextTxn =>
          txns'[i].part = txns[i].part /\ txns'[i].commit = txns[i].commit
    /\ \A p \in Parts : jobs[p] # "NONE" => jobs'[p] # "NONE"

LEMMA CopyStays ==
    ASSUME SqlShape, Grows, NEW ps \in [Parts -> PartRows], CopyOK(ps)
    PROVE  /\ ActiveParts(ps) # {}
           /\ \A p \in Parts : ps[p].visible <= nextTxn' /\ (ps[p].state = "ACTIVE" => Opened(p)')
<1>1. \A p \in Parts : ps[p].visible \in Nat BY DEF PartRows, Versions
<1>2. nextTxn \in Nat BY Bounds
<1>3. \A p \in Parts : ps[p].visible <= nextTxn' BY <1>1, <1>2 DEF CopyOK, Grows
<1> QED BY <1>3 DEF CopyOK, Grows

-----------------------------------------------------------------------------
(* The SQLite transactions.                                                *)

SqlStep == SqlShape' /\ SqlOK' /\ Grows

LEMMA SqlStill ==
    ASSUME SqlShape, SqlOK, UNCHANGED <<budget, sqlVars>>
    PROVE  SqlStep
<1>1. UNCHANGED <<budget, txns, nextTxn, parts, nextPart, jobs>> BY DEF sqlVars
<1>2. SqlShape' BY <1>1 DEF SqlShape
<1>3. \A p : Opened(p)' = Opened(p) BY <1>1 DEF Opened
<1>4. SqlOK' BY <1>1, <1>3 DEF SqlOK, ActiveParts
<1>5. nextTxn \in Nat BY Bounds
<1>6. Grows BY <1>1, <1>3, <1>5 DEF Grows
<1> QED BY <1>2, <1>4, <1>6 DEF SqlStep

LEMMA PrepareSql ==
    ASSUME SqlShape, SqlOK, NEW p \in Parts, NEW b \in Versions, Opened(p), b <= nextTxn,
           prepare_txn(p, b), budget' = budget
    PROVE  /\ SqlStep /\ parts' = parts /\ nextPart' = nextPart /\ nextTxn < nextTxn'
           /\ nextTxn \in TxnIds /\ txns'[nextTxn].part = p
<1>1. nextTxn <= budget.txns /\ UNCHANGED <<parts, nextPart, jobs>> /\ nextTxn' = nextTxn + 1
    BY DEF prepare_txn
<1>2. nextTxn \in TxnIds /\ b + 1 \in Versions /\ b + 1 <= nextTxn + 1 /\ nextTxn \in Nat
    BY <1>1, Bounds
<1> DEFINE r == [state |-> "PREPARED", part |-> p, base |-> b, commit |-> b + 1]
<1>3. r \in TxnRows BY <1>2 DEF TxnRows
<1>4. txns' = [txns EXCEPT ![nextTxn] = r] /\ txns \in [TxnIds -> TxnRows]
    BY DEF prepare_txn, SqlShape
<1>5. r.state = "PREPARED" /\ r.part = p /\ r.commit = b + 1 OBVIOUS
<1> HIDE DEF r
<1>6. /\ txns' \in [TxnIds -> TxnRows] /\ txns'[nextTxn] = r
      /\ \A i \in TxnIds : i # nextTxn => txns'[i] = txns[i]
    BY <1>2, <1>3, <1>4
<1>7. SqlShape'
    <2>1. budget.txns \in Nat BY StoreAssumption DEF SqlShape, Limits
    <2>2. nextTxn' \in 1..(budget.txns + 1) BY <1>1, <1>2, <2>1
    <2> QED BY <1>1, <1>6, <2>2 DEF SqlShape
<1>8. \A q : Opened(q)' = Opened(q) BY <1>1 DEF Opened
<1>9. \A i \in TxnIds : i \in Nat /\ txns[i].commit \in Nat
    BY DEF SqlShape, TxnRows, TxnIds, Versions
<1>10. \A q \in Parts : parts[q].visible \in Nat
    BY DEF SqlShape, PartRows, Versions
<1>11. \A i \in TxnIds : txns'[i].state # "NONE" => i < nextTxn'
    BY <1>1, <1>2, <1>6, <1>9 DEF SqlOK
<1>12. (\A i \in TxnIds : i < nextTxn => txns[i].commit <= nextTxn /\ Opened(txns[i].part))'
    <2> SUFFICES ASSUME NEW i \in TxnIds, i < nextTxn'
                 PROVE  txns'[i].commit <= nextTxn' /\ Opened(txns'[i].part)
        BY <1>1 DEF Opened
    <2>1. CASE i = nextTxn BY <1>1, <1>2, <1>5, <1>6, <2>1
    <2>2. CASE i # nextTxn
        <3>0. i \in Nat /\ nextTxn \in Nat /\ i < nextTxn + 1 BY <1>1, <1>2, <1>9
        <3>1. i < nextTxn BY <2>2, <3>0
        <3>2. txns[i].commit <= nextTxn /\ Opened(txns[i].part) BY <3>1 DEF SqlOK
        <3>3. txns'[i] = txns[i] BY <1>6, <2>2
        <3>4. txns[i].commit \in Nat BY <1>9
        <3>5. txns[i].commit <= nextTxn' BY <1>1, <1>2, <3>2, <3>4
        <3> QED BY <3>2, <3>3, <3>5
    <2> QED BY <2>1, <2>2
<1>13. \A q \in Parts : parts'[q].visible <= nextTxn'
    BY <1>1, <1>2, <1>10 DEF SqlOK
<1>14. SqlOK' BY <1>1, <1>11, <1>12, <1>13 DEF SqlOK, ActiveParts
<1>15. Grows BY <1>1, <1>2, <1>6, <1>8 DEF Grows
<1> QED BY <1>1, <1>2, <1>5, <1>6, <1>7, <1>14, <1>15 DEF SqlStep

\* Rows keep their ids, partitions and versions while their states change; a row may be
\* set VISIBLE together with its partition's version.
LEMMA RowsSql ==
    ASSUME SqlShape, SqlOK, UNCHANGED <<budget, nextTxn, nextPart, jobs>>,
           txns' \in [TxnIds -> TxnRows],
           \A i \in TxnIds : /\ txns'[i].part = txns[i].part /\ txns'[i].commit = txns[i].commit
                             /\ txns'[i].state # "NONE" => txns[i].state # "NONE",
           parts' \in [Parts -> PartRows],
           \A p \in Parts : /\ parts'[p].state = parts[p].state
                            /\ \/ parts'[p].visible = parts[p].visible
                               \/ parts'[p].visible <= nextTxn /\ parts[p].state # "CREATING"
    PROVE  SqlStep
<1>1. SqlShape' BY DEF SqlShape
<1>2. \A p \in Parts : Opened(p)' = Opened(p) BY DEF Opened
<1>3. \A i \in TxnIds : txns[i].part \in Parts BY DEF SqlShape, TxnRows
<1>4. ActiveParts(parts') = ActiveParts(parts) BY DEF ActiveParts
<1>5. SqlOK'
    <2>1. (\A i \in TxnIds : i < nextTxn => txns[i].commit <= nextTxn /\ Opened(txns[i].part))'
        BY <1>3 DEF SqlOK, Opened
    <2>2. \A p \in Parts : parts'[p].visible <= nextTxn BY DEF SqlOK
    <2>3. \A p \in Parts : parts'[p].state = "CREATING" => parts'[p].visible = 1 BY DEF SqlOK
    <2> QED BY <1>4, <2>1, <2>2, <2>3 DEF SqlOK
<1>6. nextTxn \in Nat BY Bounds
<1>7. Grows BY <1>2, <1>6 DEF Grows
<1> QED BY <1>1, <1>5, <1>7 DEF SqlStep

LEMMA SetTxnRows ==
    ASSUME SqlShape, NEW i \in TxnIds,
           NEW s \in {"PREPARED", "WRITTEN", "VISIBLE", "ABORTED"}, SetTxn(i, s)
    PROVE  /\ txns' \in [TxnIds -> TxnRows]
           /\ \A j \in TxnIds : /\ txns'[j].part = txns[j].part
                                /\ txns'[j].commit = txns[j].commit
                                /\ txns'[j].base = txns[j].base
                                /\ txns'[j].state # "NONE" => txns[j].state # "NONE"
                                /\ j # i => txns'[j] = txns[j]
           /\ txns[i].state # "NONE" => txns'[i].state = s
<1>1. txns \in [TxnIds -> TxnRows] BY DEF SqlShape
<1>2. CASE txns[i].state = "NONE" BY <1>1, <1>2 DEF SetTxn
<1>3. CASE txns[i].state # "NONE"
    <2>1. txns' = [txns EXCEPT ![i].state = s] BY <1>3 DEF SetTxn
    <2>2. [txns[i] EXCEPT !.state = s] \in TxnRows BY <1>1 DEF TxnRows
    <2>3. /\ [txns[i] EXCEPT !.state = s].part = txns[i].part
          /\ [txns[i] EXCEPT !.state = s].commit = txns[i].commit
          /\ [txns[i] EXCEPT !.state = s].base = txns[i].base
          /\ [txns[i] EXCEPT !.state = s].state = s
        BY <1>1 DEF TxnRows
    <2>4. /\ txns'[i] = [txns[i] EXCEPT !.state = s]
          /\ \A j \in TxnIds : j # i => txns'[j] = txns[j]
          /\ txns' \in [TxnIds -> TxnRows]
        BY <1>1, <2>1, <2>2
    <2> QED BY <1>3, <2>3, <2>4
<1> QED BY <1>2, <1>3

LEMMA MarkSql ==
    ASSUME SqlShape, SqlOK, NEW i \in TxnIds, mark_txn_written(i) \/ mark_txn_aborted(i),
           budget' = budget
    PROVE  SqlStep /\ UNCHANGED <<nextTxn, parts, nextPart, jobs>>
<1>1. UNCHANGED <<nextTxn, parts, nextPart, jobs>> BY DEF mark_txn_written, mark_txn_aborted
<1>2. SetTxn(i, "WRITTEN") \/ SetTxn(i, "ABORTED") BY DEF mark_txn_written, mark_txn_aborted
<1>3. parts' \in [Parts -> PartRows] BY <1>1 DEF SqlShape
<1> QED BY <1>1, <1>2, <1>3, SetTxnRows, RowsSql

LEMMA VisibleSql ==
    ASSUME SqlShape, SqlOK, NEW i \in TxnIds, mark_txn_visible(i), budget' = budget
    PROVE  /\ SqlStep /\ UNCHANGED <<nextTxn, nextPart, jobs>>
           /\ txns[i].part \in Parts /\ txns[i].commit \in Versions /\ i < nextTxn
           /\ txns[i].state # "NONE" /\ txns'[i].state = "VISIBLE"
           /\ \A j \in TxnIds \ {i} : txns'[j] = txns[j]
           /\ \A p \in Parts : p # txns[i].part => parts'[p] = parts[p]
           /\ parts'[txns[i].part].visible = txns[i].commit
           /\ parts'[txns[i].part].state = parts[txns[i].part].state
<1> DEFINE q == txns[i].part
           c == txns[i].commit
<1>1. /\ UNCHANGED <<nextTxn, nextPart, jobs>> /\ txns[i].state # "NONE" /\ SetTxn(i, "VISIBLE")
      /\ parts' = [parts EXCEPT ![q].visible = c]
    BY DEF mark_txn_visible
<1>2. q \in Parts /\ c \in Versions /\ parts \in [Parts -> PartRows]
    BY DEF SqlShape, TxnRows
<1>3. i < nextTxn /\ c <= nextTxn /\ Opened(q) BY <1>1 DEF SqlOK
<1> HIDE DEF q, c
<1>4. /\ [parts[q] EXCEPT !.visible = c] \in PartRows
      /\ [parts[q] EXCEPT !.visible = c].visible = c
      /\ [parts[q] EXCEPT !.visible = c].state = parts[q].state
    BY <1>2 DEF PartRows
<1>5. /\ parts' \in [Parts -> PartRows] /\ \A p \in Parts : p # q => parts'[p] = parts[p]
      /\ parts'[q].visible = c /\ parts'[q].state = parts[q].state
    BY <1>1, <1>2, <1>4
<1>6. \A p \in Parts : /\ parts'[p].state = parts[p].state
                       /\ \/ parts'[p].visible = parts[p].visible
                          \/ parts'[p].visible <= nextTxn /\ parts[p].state # "CREATING"
    BY <1>3, <1>5 DEF Opened
<1>7. SqlStep BY <1>1, <1>5, <1>6, SetTxnRows, RowsSql
<1>8. txns'[i].state = "VISIBLE" /\ \A j \in TxnIds \ {i} : txns'[j] = txns[j]
    BY <1>1, SetTxnRows
<1> QED BY <1>1, <1>2, <1>3, <1>5, <1>7, <1>8 DEF q, c

LEMMA StageSql ==
    ASSUME SqlShape, SqlOK, stage_truncate_partition, budget' = budget
    PROVE  /\ SqlStep /\ UNCHANGED <<txns, nextTxn, jobs>> /\ nextPart \in Parts
           /\ parts'[nextPart].state = "CREATING"
           /\ \A p \in Parts : p # nextPart => parts'[p] = parts[p]
<1> DEFINE r == [state |-> "CREATING", visible |-> 1]
<1>1. /\ UNCHANGED <<txns, nextTxn, jobs>> /\ nextPart <= budget.parts /\ nextPart' = nextPart + 1
      /\ parts' = [parts EXCEPT ![nextPart] = r]
    BY DEF stage_truncate_partition
<1>2. nextPart \in Parts /\ nextPart \in Nat /\ nextPart >= 2 /\ nextTxn \in Nat /\ nextTxn >= 1
      /\ 1 \in Versions
    BY <1>1, Bounds
<1>3. r \in PartRows /\ r.state = "CREATING" /\ r.visible = 1 BY <1>2 DEF PartRows
<1> HIDE DEF r
<1>4. parts \in [Parts -> PartRows] BY DEF SqlShape
<1>5. /\ parts' \in [Parts -> PartRows] /\ parts'[nextPart] = r
      /\ \A p \in Parts : p # nextPart => parts'[p] = parts[p]
    BY <1>1, <1>2, <1>3, <1>4
<1>6. SqlShape'
    <2>1. budget.parts \in Nat BY StoreAssumption DEF SqlShape, Limits
    <2>2. nextPart' \in 2..(budget.parts + 1) BY <1>1, <1>2, <2>1
    <2> QED BY <1>1, <1>5, <2>2 DEF SqlShape
<1>7. \A p \in Parts : p \in Nat BY DEF Parts
<1>8. \A p \in Parts : Opened(p) => Opened(p)'
    BY <1>1, <1>2, <1>5, <1>7 DEF Opened
<1>9. \A i \in TxnIds : txns[i].part \in Parts BY DEF SqlShape, TxnRows
<1>10. (\A i \in TxnIds : i < nextTxn => txns[i].commit <= nextTxn /\ Opened(txns[i].part))'
    BY <1>1, <1>8, <1>9 DEF SqlOK
<1>11. \A p \in Parts : p >= nextPart' => parts'[p].state = "NONE" /\ jobs'[p] = "NONE"
    <2> SUFFICES ASSUME NEW p \in Parts, p >= nextPart'
                 PROVE  parts'[p].state = "NONE" /\ jobs'[p] = "NONE"
        OBVIOUS
    <2>1. p >= nextPart /\ p # nextPart BY <1>1, <1>2, <1>7
    <2> QED BY <1>1, <1>5, <2>1 DEF SqlOK
<1>12. jobs[nextPart] = "NONE" /\ parts[nextPart].state = "NONE" BY <1>2 DEF SqlOK
<1>13. ActiveParts(parts') # {}
    <2>1. PICK p \in Parts : parts[p].state = "ACTIVE" BY DEF SqlOK, ActiveParts
    <2>2. p # nextPart BY <2>1, <1>12
    <2> QED BY <1>5, <2>1, <2>2 DEF ActiveParts
<1>14. \A p \in Parts : /\ parts'[p].visible <= nextTxn
                        /\ parts'[p].state = "CREATING" => parts'[p].visible = 1
                        /\ jobs[p] # "NONE" => parts'[p].state \notin {"ACTIVE", "CREATING"}
    BY <1>2, <1>3, <1>5, <1>12 DEF SqlOK
<1>15. SqlOK' BY <1>1, <1>10, <1>11, <1>13, <1>14 DEF SqlOK
<1>16. Grows BY <1>1, <1>2, <1>8 DEF Grows
<1> QED BY <1>1, <1>2, <1>3, <1>5, <1>6, <1>15, <1>16 DEF SqlStep

LEMMA ActivateSql ==
    ASSUME SqlShape, SqlOK, NEW old \in Parts, NEW new \in Parts, Opened(old),
           parts[new].state = "CREATING", activate_truncate_partition(old, new), budget' = budget
    PROVE  /\ SqlStep /\ UNCHANGED <<txns, nextTxn, nextPart>>
           /\ \A p \in Parts \ {old, new} : parts'[p] = parts[p]
           /\ parts'[old].state = "RETIRED" /\ parts'[new].visible = parts[new].visible
<1>1. /\ UNCHANGED <<txns, nextTxn, nextPart>> /\ jobs' = [jobs EXCEPT ![old] = "PENDING"]
      /\ parts' = [parts EXCEPT ![new].state = "ACTIVE", ![old].state = "RETIRED"]
    BY DEF activate_truncate_partition
<1>2. old # new BY DEF Opened
<1>3. parts \in [Parts -> PartRows] BY DEF SqlShape
<1>4. \A p \in Parts, s \in {"ACTIVE", "RETIRED"} :
         /\ [parts[p] EXCEPT !.state = s] \in PartRows
         /\ [parts[p] EXCEPT !.state = s].state = s
         /\ [parts[p] EXCEPT !.state = s].visible = parts[p].visible
    BY <1>3 DEF PartRows
<1>5. /\ parts'[new] = [parts[new] EXCEPT !.state = "ACTIVE"]
      /\ parts'[old] = [parts[old] EXCEPT !.state = "RETIRED"]
      /\ \A p \in Parts \ {old, new} : parts'[p] = parts[p]
      /\ DOMAIN parts' = Parts
    BY <1>1, <1>2, <1>3
<1>6. parts' \in [Parts -> PartRows]
    <2>1. \A p \in Parts : parts'[p] \in PartRows
        <3>1. parts'[new] \in PartRows /\ parts'[old] \in PartRows BY <1>4, <1>5
        <3> QED BY <1>3, <1>5, <3>1
    <2>2. parts' = [p \in Parts |-> parts'[p]] BY <1>1, <1>3
    <2> QED BY <2>1, <2>2
<1>7. /\ jobs' \in [Parts -> {"NONE", "PENDING", "RUNNING", "FAILED", "FINISHED"}]
      /\ jobs'[old] = "PENDING" /\ \A p \in Parts : p # old => jobs'[p] = jobs[p]
    BY <1>1 DEF SqlShape
<1>8. SqlShape' BY <1>1, <1>6, <1>7 DEF SqlShape
<1>9. /\ parts'[new].state = "ACTIVE" /\ parts'[new].visible = parts[new].visible
      /\ parts'[old].state = "RETIRED" /\ parts'[old].visible = parts[old].visible
    BY <1>4, <1>5
<1>10. \A p \in Parts : Opened(p) => Opened(p)' BY <1>1, <1>5, <1>9 DEF Opened
<1>11. \A i \in TxnIds : txns[i].part \in Parts BY DEF SqlShape, TxnRows
<1>12. (\A i \in TxnIds : i < nextTxn => txns[i].commit <= nextTxn /\ Opened(txns[i].part))'
    BY <1>1, <1>10, <1>11 DEF SqlOK
<1>13. \A p \in Parts : p >= nextPart => p # old /\ p # new
    <2>1. nextPart \in Nat /\ \A p \in Parts : p \in Nat BY Bounds DEF Parts
    <2> QED BY <2>1 DEF Opened, SqlOK
<1>14. \A p \in Parts : p >= nextPart => parts'[p].state = "NONE" /\ jobs'[p] = "NONE"
    BY <1>5, <1>7, <1>13 DEF SqlOK
<1>15. \A p \in Parts : /\ parts'[p].visible <= nextTxn
                        /\ parts'[p].state = "CREATING" => parts'[p].visible = 1
                        /\ jobs'[p] # "NONE" => parts'[p].state \notin {"ACTIVE", "CREATING"}
    <2> TAKE p \in Parts
    <2>1. CASE p = new
        <3>1. jobs'[new] = "NONE" BY <1>2, <1>7 DEF SqlOK
        <3> QED BY <1>9, <2>1, <3>1 DEF SqlOK
    <2>2. CASE p = old BY <1>9, <2>2 DEF SqlOK
    <2>3. CASE p \notin {old, new} BY <1>5, <1>7, <2>3 DEF SqlOK
    <2> QED BY <2>1, <2>2, <2>3
<1>16. ActiveParts(parts') # {} BY <1>9 DEF ActiveParts
<1>17. SqlOK' BY <1>1, <1>12, <1>14, <1>15, <1>16 DEF SqlOK
<1>18. nextTxn \in Nat BY Bounds
<1>19. Grows BY <1>1, <1>7, <1>10, <1>18 DEF Grows
<1> QED BY <1>1, <1>5, <1>8, <1>9, <1>17, <1>19 DEF SqlStep

\* Rows of transactions change as in RowsSql; rows of partitions not in use may go.
LEMMA ForgetSql ==
    ASSUME SqlShape, SqlOK, UNCHANGED <<budget, nextTxn, nextPart, jobs>>,
           txns' \in [TxnIds -> TxnRows],
           \A i \in TxnIds : /\ txns'[i].part = txns[i].part /\ txns'[i].commit = txns[i].commit
                             /\ txns'[i].state # "NONE" => txns[i].state # "NONE",
           parts' \in [Parts -> PartRows],
           \A p \in Parts : \/ parts'[p] = parts[p]
                            \/ parts'[p] = NoPart /\ parts[p].state \in {"CREATING", "RETIRED"}
    PROVE  SqlStep /\ ActiveParts(parts') = ActiveParts(parts)
                   /\ \A p \in ActiveParts(parts) : parts'[p] = parts[p]
<1>1. SqlShape' BY DEF SqlShape
<1>2. NoPart.state = "NONE" /\ NoPart.visible = 1 BY DEF NoPart
<1>3. \A p \in Parts : Opened(p) => Opened(p)' BY <1>2 DEF Opened
<1>4. \A i \in TxnIds : txns[i].part \in Parts BY DEF SqlShape, TxnRows
<1>5. /\ ActiveParts(parts') = ActiveParts(parts)
      /\ \A p \in ActiveParts(parts) : parts'[p] = parts[p]
    BY <1>2 DEF ActiveParts
<1>6. nextTxn \in Nat /\ nextTxn >= 1 BY Bounds
<1>7. (\A i \in TxnIds : i < nextTxn => txns[i].commit <= nextTxn /\ Opened(txns[i].part))'
    BY <1>3, <1>4 DEF SqlOK, Opened
<1>8. \A p \in Parts : /\ parts'[p].visible <= nextTxn
                       /\ parts'[p].state = "CREATING" => parts'[p].visible = 1
                       /\ jobs'[p] # "NONE" => parts'[p].state \notin {"ACTIVE", "CREATING"}
                       /\ p >= nextPart => parts'[p].state = "NONE"
    BY <1>2, <1>6 DEF SqlOK
<1>9. SqlOK' BY <1>5, <1>7, <1>8 DEF SqlOK
<1>10. Grows BY <1>3, <1>6 DEF Grows
<1> QED BY <1>1, <1>5, <1>9, <1>10 DEF SqlStep

LEMMA PartRowFacts ==
    ASSUME SqlShape
    PROVE  NoPart \in PartRows /\ \A P : DropCreating(parts, P) \in [Parts -> PartRows]
<1>1. NoPart \in PartRows BY Bounds DEF NoPart, PartRows
<1> QED BY <1>1 DEF DropCreating, SqlShape

LEMMA DeleteCreatingSql ==
    ASSUME SqlShape, SqlOK, NEW p \in Parts, delete_creating_partition(p), budget' = budget
    PROVE  /\ SqlStep /\ UNCHANGED <<txns, nextTxn, nextPart, jobs>>
           /\ ActiveParts(parts') = ActiveParts(parts)
           /\ \A q \in ActiveParts(parts) : parts'[q] = parts[q]
<1>1. UNCHANGED <<txns, nextTxn, nextPart, jobs>> /\ parts' = DropCreating(parts, {p})
    BY DEF delete_creating_partition
<1>2. parts' \in [Parts -> PartRows] /\ txns' \in [TxnIds -> TxnRows]
    BY <1>1, PartRowFacts DEF SqlShape
<1>3. \A q \in Parts : \/ parts'[q] = parts[q]
                       \/ parts'[q] = NoPart /\ parts[q].state \in {"CREATING", "RETIRED"}
    BY <1>1 DEF DropCreating
<1> QED BY <1>1, <1>2, <1>3, ForgetSql

LEMMA PurgeSql ==
    ASSUME SqlShape, SqlOK, NEW p \in Parts, purge_retired_partition_metadata(p), budget' = budget
    PROVE  /\ SqlStep /\ UNCHANGED <<nextTxn, nextPart, jobs>>
           /\ ActiveParts(parts') = ActiveParts(parts)
           /\ \A q \in Parts : q # p => parts'[q] = parts[q]
           /\ parts[p].state = "RETIRED"
<1>1. /\ UNCHANGED <<nextTxn, nextPart, jobs>> /\ parts[p].state = "RETIRED"
      /\ parts' = [parts EXCEPT ![p] = NoPart]
      /\ txns' = [i \in TxnIds |-> IF txns[i].part = p
                                   THEN [txns[i] EXCEPT !.state = "NONE"] ELSE txns[i]]
    BY DEF purge_retired_partition_metadata
<1>2. \A i \in TxnIds : /\ [txns[i] EXCEPT !.state = "NONE"] \in TxnRows
                        /\ [txns[i] EXCEPT !.state = "NONE"].state = "NONE"
                        /\ [txns[i] EXCEPT !.state = "NONE"].part = txns[i].part
                        /\ [txns[i] EXCEPT !.state = "NONE"].commit = txns[i].commit
    BY DEF SqlShape, TxnRows
<1>3. txns \in [TxnIds -> TxnRows] /\ parts \in [Parts -> PartRows] BY DEF SqlShape
<1>4. txns' \in [TxnIds -> TxnRows] BY <1>1, <1>2, <1>3
<1>5. \A i \in TxnIds : /\ txns'[i].part = txns[i].part /\ txns'[i].commit = txns[i].commit
                        /\ txns'[i].state # "NONE" => txns[i].state # "NONE"
    BY <1>1, <1>2
<1>6. /\ parts' \in [Parts -> PartRows] /\ parts'[p] = NoPart
      /\ \A q \in Parts : q # p => parts'[q] = parts[q]
    BY <1>1, <1>3, PartRowFacts
<1> QED BY <1>1, <1>4, <1>5, <1>6, ForgetSql

LEMMA JobSql ==
    ASSUME SqlShape, SqlOK, NEW p \in Parts, NEW s \in {"RUNNING", "FAILED", "FINISHED"},
           jobs[p] # "NONE", SetJob(p, s), budget' = budget
    PROVE  SqlStep /\ UNCHANGED <<txns, nextTxn, parts, nextPart>> /\ jobs'[p] # "NONE"
<1>1. UNCHANGED <<txns, nextTxn, parts, nextPart>> /\ jobs' = [jobs EXCEPT ![p] = s]
    BY DEF SetJob
<1>2. /\ jobs' \in [Parts -> {"NONE", "PENDING", "RUNNING", "FAILED", "FINISHED"}]
      /\ \A q \in Parts : jobs'[q] # "NONE" <=> jobs[q] # "NONE"
    BY <1>1 DEF SqlShape
<1>3. SqlShape' BY <1>1, <1>2 DEF SqlShape
<1>4. \A q \in Parts : Opened(q)' = Opened(q) BY <1>1 DEF Opened
<1>5. (\A i \in TxnIds : i < nextTxn => txns[i].commit <= nextTxn /\ Opened(txns[i].part))'
    BY <1>1 DEF SqlOK, Opened
<1>6. SqlOK' BY <1>1, <1>2, <1>5 DEF SqlOK, ActiveParts
<1>7. nextTxn \in Nat BY Bounds
<1>8. Grows BY <1>1, <1>2, <1>4, <1>7 DEF Grows
<1> QED BY <1>1, <1>2, <1>3, <1>6, <1>8 DEF SqlStep

-----------------------------------------------------------------------------
(* The object store.                                                       *)

\* No metadata goes, but under the root of a partition that is to be erased.
ObjStep ==
    /\ ObjShape'
    /\ \A p \in Parts, v \in Versions :
          bundle[p][v] # NoMeta => bundle'[p][v] # NoMeta \/ jobs[p] # "NONE"

LEMMA ObjStill ==
    ASSUME ObjShape, UNCHANGED objVars
    PROVE  ObjStep
<1>1. UNCHANGED <<logs, bundle>> BY DEF objVars
<1> QED BY <1>1 DEF ObjStep, ObjShape

LEMMA BaseType ==
    ASSUME ObjShape, NEW p \in Parts, NEW b \in Versions, NEW t \in Tablets
    PROVE  BaseRowsets(p, b, t) \subseteq TxnIds
<1>1. bundle[p][b] \in Metas \cup {NoMeta} BY DEF ObjShape
<1> QED BY <1>1 DEF BaseRowsets, Metas

\* publish_one_tablet answers "published" only when the bundle is there.
LEMMA PublishOne ==
    ASSUME ObjShape, NEW i \in TxnIds, NEW p \in Parts, NEW b \in Versions,
           NEW c \in Versions, NEW t \in Tablets
    PROVE  /\ publish_one_tablet(i, p, b, c, t) \in Outputs
           /\ publish_one_tablet(i, p, b, c, t).kind = "published" => bundle[p][c] # NoMeta
<1>1. BaseRowsets(p, b, t) \subseteq TxnIds BY BaseType
<1>2. Failed \in Outputs /\ Published \in Outputs /\ Failed.kind = "failed"
    BY DEF Failed, Published, Outputs
<1>3. \A rs \in SUBSET TxnIds : Persist(rs) \in Outputs /\ Persist(rs).kind = "persist"
    BY DEF Persist, Outputs
<1>4. logs[i][t] \in {"none", "rows", "empty"} BY DEF ObjShape
<1>5. BaseRowsets(p, b, t) \in SUBSET TxnIds /\ BaseRowsets(p, b, t) \cup {i} \in SUBSET TxnIds
    BY <1>1
<1>6. CASE ~HasBase(p, b) BY <1>2, <1>6 DEF publish_one_tablet
<1>7. CASE HasBase(p, b) /\ logs[i][t] = "rows" BY <1>3, <1>5, <1>7 DEF publish_one_tablet
<1>8. CASE HasBase(p, b) /\ logs[i][t] = "empty" BY <1>3, <1>5, <1>8 DEF publish_one_tablet
<1>9. CASE HasBase(p, b) /\ logs[i][t] = "none"
    BY <1>2, <1>3, <1>5, <1>9 DEF publish_one_tablet
<1> QED BY <1>4, <1>6, <1>7, <1>8, <1>9

\* finalize_publish_outputs adds a version and takes none away.
LEMMA BundleWritten ==
    ASSUME ObjShape, NEW p \in Parts, NEW b \in Versions, NEW c \in Versions,
           NEW out \in [Tablets -> Outputs], NEW registered \in BOOLEAN
    PROVE  /\ BundleAfter(p, b, c, out, registered) \in [Parts -> [Versions -> Metas \cup {NoMeta}]]
           /\ \A q \in Parts, v \in Versions : bundle[q][v] # NoMeta =>
                 BundleAfter(p, b, c, out, registered)[q][v] # NoMeta
           /\ PersistTablets(out) # {} => BundleAfter(p, b, c, out, registered)[p][c] # NoMeta
<1> DEFINE m == MergedBundle(p, b, c, out, registered)
<1>1. m \in Metas
    <2>1. bundle[p][c] \in Metas \cup {NoMeta} BY DEF ObjShape
    <2>2. \A t \in Tablets : /\ BaseRowsets(p, b, t) \subseteq TxnIds
                             /\ out[t].rows \subseteq TxnIds
                             /\ bundle[p][c] # NoMeta => bundle[p][c][t] \subseteq TxnIds
        BY <2>1, BaseType DEF Outputs, Metas
    <2>3. \A t \in Tablets : m[t] \in SUBSET TxnIds
        BY <2>2 DEF MergedBundle
    <2>4. m = [t \in Tablets |-> m[t]] BY DEF MergedBundle
    <2> QED BY <2>3, <2>4 DEF Metas
<1>2. m # NoMeta BY <1>1, MetaIsThere
<1> HIDE DEF m
<1>3. bundle \in [Parts -> [Versions -> Metas \cup {NoMeta}]] BY DEF ObjShape
<1>4. CASE PersistTablets(out) = {} BY <1>3, <1>4 DEF BundleAfter
<1>5. CASE PersistTablets(out) # {}
    <2>1. BundleAfter(p, b, c, out, registered) = [bundle EXCEPT ![p][c] = m]
        BY <1>5 DEF BundleAfter, m
    <2> QED BY <1>1, <1>2, <1>3, <2>1
<1> QED BY <1>4, <1>5

LEMMA BundlePublished ==
    ASSUME ObjShape, NEW p \in Parts, NEW b \in Versions, NEW c \in Versions,
           NEW out \in [Tablets -> Outputs],
           bundle' = BundleAfter(p, b, c, out, p \in reg)
    PROVE  /\ bundle' \in [Parts -> [Versions -> Metas \cup {NoMeta}]]
           /\ \A q \in Parts, v \in Versions : bundle[q][v] # NoMeta => bundle'[q][v] # NoMeta
           /\ PersistTablets(out) # {} => bundle'[p][c] # NoMeta
<1>1. \E r \in BOOLEAN : bundle' = BundleAfter(p, b, c, out, r)
    <2>1. CASE p \in reg
        <3>1. (p \in reg) = TRUE BY <2>1
        <3>2. bundle' = BundleAfter(p, b, c, out, TRUE) BY <3>1, Zenon
        <3> QED BY <3>2
    <2>2. CASE p \notin reg
        <3>1. (p \in reg) = FALSE BY <2>2
        <3>2. bundle' = BundleAfter(p, b, c, out, FALSE) BY <3>1, Zenon
        <3> QED BY <3>2
    <2> QED BY <2>1, <2>2
<1> QED BY <1>1, BundleWritten

LEMMA CleanupType ==
    ASSUME ObjShape, NEW i \in TxnIds, NEW T
    PROVE  LogsAfterCleanup(i, T) \in [TxnIds -> [Tablets -> {"none", "rows", "empty"}]]
BY DEF LogsAfterCleanup, ObjShape

LEMMA BootstrapObj ==
    ASSUME SqlShape, ObjShape, NEW p \in Parts, BootstrapPartition(p)
    PROVE  ObjStep /\ bundle'[p][1] # NoMeta
<1>1. bundle' = [bundle EXCEPT ![p][1] = EmptyMeta] /\ logs' = logs BY DEF BootstrapPartition
<1>2. EmptyMeta \in Metas BY DEF EmptyMeta, Metas
<1>3. EmptyMeta # NoMeta BY <1>2, MetaIsThere
<1>4. 1 \in Versions BY Bounds
<1> QED BY <1>1, <1>2, <1>3, <1>4 DEF ObjShape, ObjStep

LEMMA EraseObj ==
    ASSUME ObjShape, NEW p \in Parts, jobs[p] # "NONE", erase_root(p)
    PROVE  ObjStep
<1>1. bundle' = [bundle EXCEPT ![p] = [v \in Versions |-> NoMeta]] BY DEF erase_root
<1>2. bundle \in [Parts -> [Versions -> Metas \cup {NoMeta}]] BY DEF ObjShape
<1>3. /\ bundle' \in [Parts -> [Versions -> Metas \cup {NoMeta}]]
      /\ \A q \in Parts : q # p => bundle'[q] = bundle[q]
    BY <1>1, <1>2
<1>4. logs' \in [TxnIds -> [Tablets -> {"none", "rows", "empty"}]]
    BY DEF erase_root, ObjShape
<1> QED BY <1>3, <1>4 DEF ObjShape, ObjStep

-----------------------------------------------------------------------------
(* Frames.                                                                 *)

\* An INSERT that takes no step.
LEMMA WriterStays ==
    ASSUME LInv, SqlStep, ObjStep, NEW u \in Writers, ws'[u] = ws[u]
    PROVE  (WriterOK(u) /\ PublishOK(u))'
<1>1. /\ ws[u].part \in Parts /\ ws[u].txn \in TxnIds /\ ws[u].base \in Nat
      /\ WriterOK(u) /\ PublishOK(u)
    BY DEF LInv, Shape, WsShape, WriterRecs, WritersOK, Versions
<1>2. nextTxn \in Nat /\ nextTxn' \in Nat /\ nextTxn <= nextTxn'
    BY Bounds DEF SqlStep, Grows, LInv, Shape
<1>3. ws[u].txn \in Nat BY <1>1 DEF TxnIds
<1>4. WriterOK(u)'
    <2>1. ws[u].pc # "idle" => Opened(ws[u].part)' /\ ws[u].base <= nextTxn'
        <3>1. Opened(ws[u].part) => (Opened(ws[u].part))'
            BY <1>1 DEF SqlStep, Grows, Opened
        <3> QED BY <1>1, <1>2, <3>1 DEF WriterOK
    <2> QED BY <1>1, <1>2, <1>3, <2>1 DEF WriterOK, SqlStep, Grows, Opened
<1>5. PublishOK(u)'
    <2> SUFFICES ASSUME Publishing(u)' PROVE Kept(ws[u].part, Commit(u))'
        BY DEF PublishOK
    <2>1. Publishing(u) BY DEF Publishing
    <2>2. Kept(ws[u].part, Commit(u)) /\ ws[u].txn < nextTxn
        BY <1>1, <2>1 DEF PublishOK, Publishing, WriterOK
    <2>3. txns[ws[u].txn].commit \in Versions /\ txns'[ws[u].txn].commit = txns[ws[u].txn].commit
        BY <1>1, <2>2 DEF LInv, Shape, SqlShape, TxnRows, SqlStep, Grows
    <2> QED BY <1>1, <2>2, <2>3 DEF Kept, Commit, ObjStep, SqlStep, Grows
<1> QED BY <1>4, <1>5

\* Recovery state while the server is up and stays up.
LEMMA OpenIdle ==
    ASSUME OpenOK, mode = "up", mode' = "up", rec' = rec
    PROVE  OpenOK'
BY DEF OpenOK

\* The active partitions stay readable when their rows stay and metadata is kept.
LEMMA ReadableStays ==
    ASSUME LInv, ObjStep,
           \A p \in ActiveParts(parts') :
              \/ p \in ActiveParts(parts) /\ parts'[p].visible = parts[p].visible
              \/ bundle'[p][parts'[p].visible] # NoMeta
    PROVE  ActiveReadable'
<1> SUFFICES ASSUME NEW p \in ActiveParts(parts') PROVE bundle'[p][parts'[p].visible] # NoMeta
    BY DEF ActiveReadable, ActiveMeta
<1>1. CASE p \in ActiveParts(parts) /\ parts'[p].visible = parts[p].visible
    <2>1. p \in Parts /\ parts[p].visible \in Versions /\ jobs[p] = "NONE"
        BY <1>1 DEF ActiveParts, LInv, Shape, SqlShape, SqlOK, PartRows
    <2>2. bundle[p][parts[p].visible] # NoMeta
        BY <1>1 DEF LInv, StoreOK, ActiveReadable, ActiveMeta
    <2> QED BY <1>1, <2>1, <2>2 DEF ObjStep
<1> QED BY <1>1

LEMMA LakeStays ==
    ASSUME LInv, SqlStep, lake' = lake
    PROVE  CopyOK(lake)'
<1>1. lake \in [Parts -> PartRows] /\ CopyOK(lake) /\ SqlShape
    BY DEF LInv, Shape, MemShape, MemOK
<1>2. /\ ActiveParts(lake) # {}
      /\ \A p \in Parts : lake[p].visible <= nextTxn' /\ (lake[p].state = "ACTIVE" => Opened(p)')
    BY <1>1, CopyStays DEF SqlStep
<1> QED BY <1>2 DEF CopyOK

\* A copy held by a DDL statement.
LEMMA SnapStays ==
    ASSUME LInv, SqlStep, ddl'.snap = ddl.snap, CopyOK(ddl.snap)
    PROVE  CopyOK(ddl.snap)'
<1>1. ddl.snap \in [Parts -> PartRows] /\ SqlShape
    BY DEF LInv, Shape, DdlShape, DdlRecs
<1>2. /\ ActiveParts(ddl.snap) # {}
      /\ \A p \in Parts : ddl.snap[p].visible <= nextTxn' /\ (ddl.snap[p].state = "ACTIVE" => Opened(p)')
    BY <1>1, CopyStays DEF SqlStep
<1> QED BY <1>2 DEF CopyOK

\* A step of one INSERT.
LEMMA InsertFrame ==
    ASSUME LInv, NEW w \in Writers, mode = "up", SqlStep, ObjStep, MemShape', WsShape',
           UNCHANGED <<budget, mode, ddl, drops, truncated, eraser, rec, crashes, reopens>>,
           \A u \in Writers : u # w => ws'[u] = ws[u],
           (WriterOK(w) /\ PublishOK(w))', CopyOK(lake)',
           \A p \in Parts : parts'[p].state = parts[p].state,
           \A p \in ActiveParts(parts) : \/ parts'[p].visible = parts[p].visible
                                         \/ bundle'[p][parts'[p].visible] # NoMeta
    PROVE  LInv'
<1>1. Shape' BY DEF LInv, Shape, SqlStep, ObjStep, DdlShape, RecShape
<1>2. WritersOK' BY WriterStays DEF WritersOK
<1>3. ActiveParts(parts') = ActiveParts(parts) BY DEF ActiveParts
<1>4. ActiveReadable' BY <1>3, ReadableStays
<1>5. ddl.pc = "bootstrapped" => bundle'[ddl.new][1] # NoMeta
    <2> SUFFICES ASSUME ddl.pc = "bootstrapped" PROVE bundle'[ddl.new][1] # NoMeta
        OBVIOUS
    <2>1. ddl.new \in Parts /\ bundle[ddl.new][1] # NoMeta /\ parts[ddl.new].state = "CREATING"
        BY DEF LInv, Shape, DdlShape, DdlRecs, StoreOK, MemOK
    <2>2. jobs[ddl.new] = "NONE" BY <2>1 DEF LInv, SqlOK
    <2>3. 1 \in Versions BY Bounds DEF LInv, Shape
    <2> QED BY <2>1, <2>2, <2>3 DEF ObjStep
<1>6. MemOK'
    <2>1. ddl.pc \in {"reloaded", "swapped", "dropping"} => CopyOK(ddl.snap)'
        BY SnapStays DEF LInv, MemOK
    <2>2. ddl.pc \in {"staged", "bootstrapped"} =>
             parts'[ddl.new].state = "CREATING" /\ Opened(ddl.old)'
        BY DEF LInv, MemOK, SqlStep, Grows, Opened, Shape, DdlShape, DdlRecs
    <2>3. eraser.pc # "idle" => jobs'[eraser.job] # "NONE"
        BY DEF LInv, MemOK, SqlStep, Grows, Shape, DdlShape
    <2> QED BY <2>1, <2>2, <2>3 DEF MemOK
<1>7. OpenOK' BY OpenIdle DEF LInv
<1> QED BY <1>1, <1>2, <1>4, <1>5, <1>6, <1>7 DEF LInv, StoreOK, SqlStep

-----------------------------------------------------------------------------
(* INSERT.                                                                 *)

LEMMA FaultType ==
    ASSUME SqlShape, MemShape, budget' = budget,
           UNCHANGED faults \/ ObjFault \/ SqlFault
    PROVE  faults' \in [obj : 0..budget'.obj, sql : 0..budget'.sql]
<1>1. budget.obj \in Nat /\ budget.sql \in Nat BY StoreAssumption DEF SqlShape, Limits
<1>2. /\ faults \in [obj : 0..budget.obj, sql : 0..budget.sql]
      /\ faults.obj \in 0..budget.obj /\ faults.sql \in 0..budget.sql
    BY DEF MemShape
<1>3. CASE UNCHANGED faults BY <1>2, <1>3
<1>4. CASE ObjFault
    <2>1. faults' = [faults EXCEPT !.obj = faults.obj + 1] /\ faults.obj < budget.obj
        BY <1>4 DEF ObjFault
    <2>2. faults.obj + 1 \in 0..budget.obj BY <1>1, <1>2, <2>1
    <2> QED BY <1>2, <2>1, <2>2
<1>5. CASE SqlFault
    <2>1. faults' = [faults EXCEPT !.sql = faults.sql + 1] /\ faults.sql < budget.sql
        BY <1>5 DEF SqlFault
    <2>2. faults.sql + 1 \in 0..budget.sql BY <1>1, <1>2, <2>1
    <2> QED BY <1>2, <2>1, <2>2
<1> QED BY <1>3, <1>4, <1>5

LEMMA MemStill ==
    ASSUME SqlShape, MemShape, UNCHANGED <<budget, memVars, histVars>>,
           UNCHANGED faults \/ ObjFault \/ SqlFault
    PROVE  MemShape'
<1>1. UNCHANGED <<mode, reg, lake, view, routed, acked>> BY DEF memVars, histVars
<1> QED BY <1>1, FaultType DEF MemShape

LEMMA WriterFacts ==
    ASSUME LInv, NEW w \in Writers
    PROVE  /\ SqlShape /\ ObjShape /\ MemShape /\ SqlOK
           /\ ws \in [Writers -> WriterRecs] /\ ws[w] \in WriterRecs
           /\ ws[w].pc \in PcSet /\ ws[w].part \in Parts /\ ws[w].base \in Versions
           /\ ws[w].txn \in TxnIds /\ ws[w].rows \in SUBSET Tablets
           /\ ws[w].out \in [Tablets -> Outputs] /\ ws[w].view \in Views
           /\ Commit(w) \in Versions
           /\ ws[w].pc # "idle" => mode = "up"
           /\ WriterOK(w) /\ PublishOK(w)
<1>1. /\ SqlShape /\ ObjShape /\ MemShape /\ SqlOK /\ WriterOK(w) /\ PublishOK(w)
      /\ ws \in [Writers -> WriterRecs] /\ (ws[w].pc # "idle" => mode = "up")
    BY DEF LInv, Shape, WsShape, WritersOK, MemOK
<1>2. ws[w] \in WriterRecs BY <1>1
<1>3. /\ ws[w].pc \in PcSet /\ ws[w].part \in Parts /\ ws[w].base \in Versions
      /\ ws[w].txn \in TxnIds /\ ws[w].rows \in SUBSET Tablets
      /\ ws[w].out \in [Tablets -> Outputs] /\ ws[w].view \in Views
    BY <1>2 DEF WriterRecs
<1>4. Commit(w) \in Versions BY <1>1, <1>3 DEF Commit, SqlShape, TxnRows
<1> QED BY <1>1, <1>2, <1>3, <1>4

LEMMA WriterGoto ==
    ASSUME WsShape, NEW w \in Writers, NEW x \in PcSet, Goto(w, x)
    PROVE  /\ WsShape' /\ \A u \in Writers : u # w => ws'[u] = ws[u]
           /\ ws'[w].pc = x /\ ws'[w].part = ws[w].part /\ ws'[w].base = ws[w].base
           /\ ws'[w].txn = ws[w].txn /\ ws'[w].rows = ws[w].rows /\ ws'[w].out = ws[w].out
<1>1. ws' = [ws EXCEPT ![w].pc = x] BY DEF Goto
<1>2. ws \in [Writers -> WriterRecs] /\ ws[w] \in WriterRecs BY DEF WsShape
<1>3. [ws[w] EXCEPT !.pc = x] \in WriterRecs BY <1>2 DEF WriterRecs
<1>4. /\ [ws[w] EXCEPT !.pc = x].pc = x /\ [ws[w] EXCEPT !.pc = x].part = ws[w].part
      /\ [ws[w] EXCEPT !.pc = x].base = ws[w].base /\ [ws[w] EXCEPT !.pc = x].txn = ws[w].txn
      /\ [ws[w] EXCEPT !.pc = x].rows = ws[w].rows /\ [ws[w] EXCEPT !.pc = x].out = ws[w].out
    BY <1>2 DEF WriterRecs
<1>5. /\ ws'[w] = [ws[w] EXCEPT !.pc = x] /\ \A u \in Writers : u # w => ws'[u] = ws[u]
      /\ ws' \in [Writers -> WriterRecs]
    BY <1>1, <1>2, <1>3
<1> QED BY <1>4, <1>5 DEF WsShape

LEMMA IdleType ==
    ASSUME SqlShape
    PROVE  Idle \in WriterRecs /\ Idle.pc = "idle"
<1>1. Failed \in Outputs BY DEF Failed, Outputs
<1>2. 1 \in Parts /\ 1 \in Versions /\ 1 \in TxnIds BY Bounds
<1>3. [t \in Tablets |-> Failed] \in [Tablets -> Outputs] BY <1>1
<1>4. [part |-> 1, version |-> 1] \in Views BY <1>2 DEF Views
<1>5. {} \in SUBSET Tablets /\ "idle" \in PcSet BY DEF PcSet
<1> QED BY <1>2, <1>3, <1>4, <1>5 DEF Idle, WriterRecs

LEMMA WriterReturn ==
    ASSUME SqlShape, WsShape, NEW w \in Writers, Return(w)
    PROVE  /\ WsShape' /\ \A u \in Writers : u # w => ws'[u] = ws[u]
           /\ ws'[w].pc = "idle" /\ (WriterOK(w) /\ PublishOK(w))'
<1>1. Idle \in WriterRecs /\ Idle.pc = "idle" BY IdleType
<1>2. ws' = [ws EXCEPT ![w] = Idle] /\ ws \in [Writers -> WriterRecs] BY DEF Return, WsShape
<1>3. ws' \in [Writers -> WriterRecs] /\ ws'[w] = Idle /\ \A u \in Writers : u # w => ws'[u] = ws[u]
    BY <1>1, <1>2
<1> QED BY <1>1, <1>3 DEF WsShape, WriterOK, PublishOK, Publishing

\* The partition and version that a copy shows.
LEMMA ViewFacts ==
    ASSUME NEW ps \in [Parts -> PartRows], CopyOK(ps)
    PROVE  \E p \in Parts, v \in Versions :
               /\ p = ViewOf(ps).part /\ v = ViewOf(ps).version
               /\ v <= nextTxn /\ Opened(p) /\ ps[p].state = "ACTIVE" /\ v = ps[p].visible
<1> DEFINE p == CHOOSE q \in ActiveParts(ps) : TRUE
<1>1. p \in ActiveParts(ps) BY DEF CopyOK
<1>2. p \in Parts /\ ps[p].visible \in Versions /\ ps[p].visible <= nextTxn /\ Opened(p)
      /\ ps[p].state = "ACTIVE"
    BY <1>1 DEF ActiveParts, CopyOK, PartRows
<1>3. ViewOf(ps).part = p /\ ViewOf(ps).version = ps[p].visible BY DEF ViewOf
<1> HIDE DEF p
<1> QED BY <1>2, <1>3

\* What the writer's own step may do: to the control plane as SqlStep, to the store as
\* ObjStep, with its partition's metadata kept.
OthersStill == UNCHANGED <<budget, mode, ddl, drops, truncated, eraser, rec, crashes, reopens>>

LEMMA PlanLInv ==
    ASSUME LInv, NEW w \in Writers, Plan(w), UNCHANGED <<ddlVars, eraser, recVars>>
    PROVE  LInv'
<1>1. /\ mode = "up" /\ UNCHANGED <<sqlVars, objVars, memVars, histVars, faults>> /\ OthersStill
    BY DEF Plan, ddlVars, recVars, OthersStill, memVars
<1>2. PICK rows \in SUBSET Tablets : 
         ws' = [ws EXCEPT ![w].pc = "planned", ![w].rows = rows,
                          ![w].part = ViewOf(lake).part, ![w].base = ViewOf(lake).version]
    BY DEF Plan
<1>3. SqlStep /\ ObjStep /\ MemShape'
    BY <1>1, WriterFacts, SqlStill, ObjStill, MemStill DEF OthersStill
<1>4. CopyOK(lake) /\ lake \in [Parts -> PartRows] BY DEF LInv, MemOK, Shape, MemShape
<1>5. PICK p \in Parts, v \in Versions : /\ p = ViewOf(lake).part /\ v = ViewOf(lake).version
                                         /\ v <= nextTxn /\ Opened(p)
    BY <1>4, ViewFacts
<1>8. ws' = [ws EXCEPT ![w] = [ws[w] EXCEPT !.pc = "planned", !.rows = rows, !.part = p, !.base = v]]
    BY <1>2, <1>5, WriterFacts
<1>9. ws[w] \in WriterRecs /\ ws \in [Writers -> WriterRecs] BY WriterFacts
<1> DEFINE x == [ws[w] EXCEPT !.pc = "planned", !.rows = rows, !.part = p, !.base = v]
<1>10. x \in WriterRecs /\ x.pc = "planned" /\ x.part = p /\ x.base = v
    BY <1>5, <1>9 DEF WriterRecs, PcSet
<1> HIDE DEF x
<1>11. ws'[w] = x /\ WsShape' /\ \A u \in Writers : u # w => ws'[u] = ws[u]
    BY <1>8, <1>9, <1>10 DEF x, WsShape
<1>12. (WriterOK(w) /\ PublishOK(w))'
    <2>1. Opened(p)' /\ nextTxn' = nextTxn BY <1>1, <1>5 DEF sqlVars, Opened
    <2> QED BY <1>5, <1>10, <1>11, <2>1 DEF WriterOK, PublishOK, Publishing, Opened
<1>13. CopyOK(lake)' BY <1>1, <1>3, LakeStays DEF memVars
<1>14. parts' = parts BY <1>1 DEF sqlVars
<1> QED BY <1>1, <1>3, <1>11, <1>12, <1>13, <1>14, InsertFrame DEF OthersStill

PartsStill ==
    /\ \A p \in Parts : parts'[p].state = parts[p].state
    /\ \A p \in ActiveParts(parts) : \/ parts'[p].visible = parts[p].visible
                                     \/ bundle'[p][parts'[p].visible] # NoMeta

\* The statement ends.
LEMMA ReturnLInv ==
    ASSUME LInv, NEW w \in Writers, ws[w].pc # "idle", SqlStep, ObjStep, MemShape', CopyOK(lake)',
           OthersStill, PartsStill, Return(w)
    PROVE  LInv'
<1>1. /\ WsShape' /\ \A u \in Writers : u # w => ws'[u] = ws[u]
      /\ (WriterOK(w) /\ PublishOK(w))'
    BY WriterReturn DEF LInv, Shape
<1>2. mode = "up" BY WriterFacts
<1> QED BY <1>1, <1>2, InsertFrame DEF OthersStill, PartsStill

\* The statement goes on with its transaction.
LEMMA GotoLInv ==
    ASSUME LInv, NEW w \in Writers, NEW x \in PcSet, ws[w].pc \notin {"idle", "planned"},
           SqlStep, ObjStep, MemShape', CopyOK(lake)', OthersStill, PartsStill, Goto(w, x),
           x \in {"read", "bundled", "published"} => PublishOK(w)'
    PROVE  LInv'
<1>1. /\ WsShape' /\ \A u \in Writers : u # w => ws'[u] = ws[u]
      /\ ws'[w].pc = x /\ ws'[w].part = ws[w].part /\ ws'[w].base = ws[w].base
      /\ ws'[w].txn = ws[w].txn
    BY WriterGoto DEF LInv, Shape
<1>2. /\ mode = "up" /\ WriterOK(w) /\ ws[w].part \in Parts /\ ws[w].base \in Versions
      /\ ws[w].txn \in TxnIds
    BY WriterFacts
<1>3. WriterOK(w)'
    <2>1. nextTxn \in Nat /\ nextTxn' \in Nat /\ nextTxn <= nextTxn' /\ ws[w].base \in Nat
          /\ ws[w].txn \in Nat
        BY <1>2, Bounds DEF SqlStep, Grows, LInv, Shape, Versions, TxnIds
    <2>2. Opened(ws[w].part) /\ ws[w].base <= nextTxn /\ ws[w].txn < nextTxn
          /\ txns[ws[w].txn].part = ws[w].part
        BY <1>2 DEF WriterOK
    <2>3. ws[w].base <= nextTxn' /\ ws[w].txn < nextTxn' BY <2>1, <2>2
    <2>4. txns'[ws[w].txn].part = ws[w].part BY <1>2, <2>2 DEF SqlStep, Grows
    <2>5. \E p \in Parts : p = ws[w].part /\ Opened(p) /\ Opened(p)'
        BY <1>2, <2>2 DEF SqlStep, Grows
    <2> QED BY <1>1, <2>3, <2>4, <2>5 DEF WriterOK, Opened
<1>4. PublishOK(w)' BY <1>1 DEF PublishOK, Publishing
<1> QED BY <1>1, <1>2, <1>3, <1>4, InsertFrame DEF OthersStill, PartsStill

LEMMA PrepareLInv ==
    ASSUME LInv, NEW w \in Writers, Prepare(w), UNCHANGED <<ddlVars, eraser, recVars>>
    PROVE  LInv'
<1>1. /\ ws[w].pc = "planned" /\ UNCHANGED <<objVars, memVars, acked>> /\ OthersStill
    BY DEF Prepare, ddlVars, recVars, OthersStill, memVars
<1>2. /\ mode = "up" /\ SqlShape /\ SqlOK /\ ObjShape /\ MemShape /\ ObjStep
      /\ ws[w].part \in Parts /\ ws[w].base \in Versions
      /\ Opened(ws[w].part) /\ ws[w].base <= nextTxn /\ ws[w].rows \in SUBSET Tablets
      /\ ws[w] \in WriterRecs /\ ws \in [Writers -> WriterRecs]
    BY <1>1, WriterFacts, ObjStill DEF WriterOK
<1>3. CASE SqlFault /\ Return(w) /\ UNCHANGED <<sqlVars, routed>>
    <2>1. SqlStep /\ MemShape'
        BY <1>1, <1>2, <1>3, SqlStill, MemStill DEF OthersStill, histVars
    <2>2. CopyOK(lake)' BY <1>1, <2>1, LakeStays DEF memVars
    <2>3. PartsStill BY <1>3 DEF PartsStill, sqlVars
    <2> QED BY <1>1, <1>2, <1>3, <2>1, <2>2, <2>3, ReturnLInv
<1>4. CASE /\ prepare_txn(ws[w].part, ws[w].base)
           /\ ws' = [ws EXCEPT ![w].pc = "writing", ![w].txn = nextTxn]
           /\ routed' = [routed EXCEPT ![nextTxn] = ws[w].rows] /\ UNCHANGED faults
    <2>1. PICK p \in Parts, b \in Versions, n \in Nat, rows \in SUBSET Tablets :
             p = ws[w].part /\ b = ws[w].base /\ n = nextTxn /\ rows = ws[w].rows
        BY <1>2, Bounds
    <2>2. /\ SqlStep /\ parts' = parts /\ nextPart' = nextPart /\ n < nextTxn' /\ n \in TxnIds
          /\ txns'[n].part = p
        BY <1>1, <1>2, <1>4, <2>1, PrepareSql DEF OthersStill
    <2>3. MemShape'
        <3>1. routed' \in [TxnIds -> SUBSET Tablets]
            BY <1>2, <1>4, <2>1, <2>2 DEF MemShape
        <3> QED BY <1>1, <1>2, <1>4, <3>1 DEF MemShape, memVars, OthersStill
    <2>4. CopyOK(lake)' BY <1>1, <2>2, LakeStays DEF memVars
    <2>5. PartsStill BY <2>2 DEF PartsStill
    <2> DEFINE y == [ws[w] EXCEPT !.pc = "writing", !.txn = n]
    <2>6. y \in WriterRecs /\ y.pc = "writing" /\ y.part = p /\ y.base = b /\ y.txn = n
        BY <1>2, <2>1, <2>2 DEF WriterRecs, PcSet
    <2>7. ws' = [ws EXCEPT ![w] = y] BY <1>2, <1>4, <2>1
    <2> HIDE DEF y
    <2>8. ws'[w] = y /\ WsShape' /\ \A u \in Writers : u # w => ws'[u] = ws[u]
        BY <1>2, <2>6, <2>7 DEF WsShape
    <2>9. (WriterOK(w) /\ PublishOK(w))'
        <3>1. b \in Nat /\ nextTxn' \in Nat /\ b <= nextTxn' /\ Opened(p)'
            BY <1>2, <2>1, <2>2 DEF SqlStep, Grows, Versions
        <3> QED BY <2>2, <2>6, <2>8, <3>1 DEF WriterOK, PublishOK, Publishing, Opened
    <2> QED BY <1>1, <1>2, <2>2, <2>3, <2>4, <2>5, <2>8, <2>9, InsertFrame
            DEF OthersStill, PartsStill
<1> QED BY <1>3, <1>4 DEF Prepare

LEMMA WriteLogLInv ==
    ASSUME LInv, NEW w \in Writers, NEW t \in Tablets, WriteLog(w, t),
           UNCHANGED <<ddlVars, eraser, recVars>>
    PROVE  LInv'
<1>1. /\ ws[w].pc = "writing" /\ UNCHANGED <<sqlVars, bundle, memVars, histVars>> /\ OthersStill
    BY DEF WriteLog, ddlVars, recVars, OthersStill, memVars
<1>2. /\ SqlShape /\ SqlOK /\ ObjShape /\ MemShape /\ ws[w].txn \in TxnIds /\ WsShape
    BY WriterFacts DEF WsShape
<1>3. UNCHANGED faults \/ ObjFault BY DEF WriteLog
<1>4. SqlStep /\ MemShape' BY <1>1, <1>2, <1>3, SqlStill, MemStill DEF OthersStill
<1>5. CopyOK(lake)' /\ PartsStill
    BY <1>1, <1>4, LakeStays DEF memVars, PartsStill, sqlVars
<1>6. CASE UNCHANGED ws /\ logs' = [logs EXCEPT ![ws[w].txn][t] =
                                       IF t \in ws[w].rows THEN "rows" ELSE "empty"]
    <2>1. ObjStep BY <1>1, <1>2, <1>6 DEF ObjStep, ObjShape
    <2>2. (WriterOK(w) /\ PublishOK(w))' BY <1>4, <1>6, <2>1, WriterStays
    <2>3. WsShape' BY <1>2, <1>6 DEF WsShape
    <2>4. mode = "up" BY <1>1, WriterFacts
    <2> QED BY <1>1, <1>4, <1>5, <1>6, <2>1, <2>2, <2>3, <2>4, InsertFrame
            DEF OthersStill, PartsStill
<1>7. CASE Goto(w, "abort") /\ UNCHANGED logs
    <2>1. ObjStep BY <1>1, <1>2, <1>7, ObjStill DEF objVars
    <2>2. "abort" \in PcSet BY DEF PcSet
    <2> QED BY <1>1, <1>4, <1>5, <1>7, <2>1, <2>2, GotoLInv
<1> QED BY <1>6, <1>7 DEF WriteLog

LEMMA AbortLInv ==
    ASSUME LInv, NEW w \in Writers, Abort(w), UNCHANGED <<ddlVars, eraser, recVars>>
    PROVE  LInv'
<1>1. /\ ws[w].pc = "abort" /\ UNCHANGED <<objVars, memVars, histVars>> /\ OthersStill /\ Return(w)
    BY DEF Abort, ddlVars, recVars, OthersStill, memVars
<1>2. SqlShape /\ SqlOK /\ ObjShape /\ MemShape /\ ws[w].txn \in TxnIds BY WriterFacts
<1>3. SqlStep /\ parts' = parts
    <2>1. CASE mark_txn_aborted(ws[w].txn)
        BY <1>1, <1>2, <2>1, MarkSql DEF OthersStill
    <2>2. CASE UNCHANGED sqlVars BY <1>1, <1>2, <2>2, SqlStill DEF OthersStill, sqlVars
    <2> QED BY <2>1, <2>2 DEF Abort
<1>4. UNCHANGED faults \/ SqlFault BY DEF Abort
<1>5. MemShape' /\ ObjStep BY <1>1, <1>2, <1>4, MemStill, ObjStill DEF OthersStill
<1>6. CopyOK(lake)' /\ PartsStill BY <1>1, <1>3, LakeStays DEF memVars, PartsStill
<1> QED BY <1>1, <1>3, <1>5, <1>6, ReturnLInv

LEMMA MarkWrittenLInv ==
    ASSUME LInv, NEW w \in Writers, MarkWritten(w), UNCHANGED <<ddlVars, eraser, recVars>>
    PROVE  LInv'
<1>1. /\ ws[w].pc = "writing" /\ UNCHANGED <<objVars, memVars, histVars>> /\ OthersStill
    BY DEF MarkWritten, ddlVars, recVars, OthersStill, memVars
<1>2. SqlShape /\ SqlOK /\ ObjShape /\ MemShape /\ ws[w].txn \in TxnIds BY WriterFacts
<1>3. SqlStep /\ parts' = parts
    <2>1. CASE mark_txn_written(ws[w].txn)
        BY <1>1, <1>2, <2>1, MarkSql DEF OthersStill
    <2>2. CASE UNCHANGED sqlVars BY <1>1, <1>2, <2>2, SqlStill DEF OthersStill, sqlVars
    <2> QED BY <2>1, <2>2 DEF MarkWritten
<1>4. UNCHANGED faults \/ SqlFault BY DEF MarkWritten
<1>5. MemShape' /\ ObjStep BY <1>1, <1>2, <1>4, MemStill, ObjStill DEF OthersStill
<1>6. CopyOK(lake)' /\ PartsStill BY <1>1, <1>3, LakeStays DEF memVars, PartsStill
<1>7. CASE Return(w) BY <1>1, <1>3, <1>5, <1>6, <1>7, ReturnLInv
<1>8. CASE Goto(w, "logged")
    <2>1. "logged" \in PcSet BY DEF PcSet
    <2> QED BY <1>1, <1>3, <1>5, <1>6, <1>8, <2>1, GotoLInv
<1> QED BY <1>7, <1>8 DEF MarkWritten

LEMMA PublishReadLInv ==
    ASSUME LInv, NEW w \in Writers, PublishRead(w), UNCHANGED <<ddlVars, eraser, recVars>>
    PROVE  LInv'
<1>1. /\ ws[w].pc = "logged" /\ UNCHANGED <<sqlVars, objVars, memVars, histVars>> /\ OthersStill
    BY DEF PublishRead, ddlVars, recVars, OthersStill, memVars
<1>2. /\ SqlShape /\ SqlOK /\ ObjShape /\ MemShape /\ ws[w].txn \in TxnIds
      /\ ws[w].part \in Parts /\ ws[w].base \in Versions /\ Commit(w) \in Versions
      /\ ws[w] \in WriterRecs /\ ws \in [Writers -> WriterRecs] /\ WriterOK(w) /\ mode = "up"
    BY <1>1, WriterFacts
<1>3. SqlStep /\ ObjStep BY <1>1, <1>2, SqlStill, ObjStill DEF OthersStill
<1>4. MemShape'
    <2>1. UNCHANGED faults \/ ObjFault BY DEF PublishRead
    <2> QED BY <1>1, <1>2, <2>1, MemStill DEF OthersStill
<1>5. CopyOK(lake)' /\ PartsStill
    BY <1>1, <1>3, LakeStays DEF memVars, PartsStill, sqlVars
<1>6. PICK T \in SUBSET Tablets :
         ws' = [ws EXCEPT ![w].pc = "read", ![w].out = [t \in Tablets |->
                   IF ws[w].part \notin reg \/ t \in T THEN Failed
                   ELSE publish_one_tablet(ws[w].txn, ws[w].part, ws[w].base, Commit(w), t)]]
    BY DEF PublishRead
<1> DEFINE o == [t \in Tablets |->
                   IF ws[w].part \notin reg \/ t \in T THEN Failed
                   ELSE publish_one_tablet(ws[w].txn, ws[w].part, ws[w].base, Commit(w), t)]
<1>7. /\ o \in [Tablets -> Outputs]
      /\ \A t \in Tablets : o[t].kind = "published" => bundle[ws[w].part][Commit(w)] # NoMeta
    <2>1. Failed \in Outputs /\ Failed.kind # "published" BY DEF Failed, Outputs
    <2>2. \A t \in Tablets :
             /\ publish_one_tablet(ws[w].txn, ws[w].part, ws[w].base, Commit(w), t) \in Outputs
             /\ publish_one_tablet(ws[w].txn, ws[w].part, ws[w].base, Commit(w), t).kind
                   = "published" => bundle[ws[w].part][Commit(w)] # NoMeta
        BY <1>2, PublishOne
    <2> QED BY <2>1, <2>2
<1> HIDE DEF o
<1> DEFINE y == [ws[w] EXCEPT !.pc = "read", !.out = o]
<1>8. /\ y \in WriterRecs /\ y.pc = "read" /\ y.part = ws[w].part /\ y.base = ws[w].base
      /\ y.txn = ws[w].txn /\ y.out = o
    BY <1>2, <1>7 DEF WriterRecs, PcSet
<1>9. ws' = [ws EXCEPT ![w] = y] BY <1>2, <1>6 DEF o
<1> HIDE DEF y
<1>10. ws'[w] = y /\ WsShape' /\ \A u \in Writers : u # w => ws'[u] = ws[u]
    BY <1>2, <1>8, <1>9 DEF WsShape
<1>11. UNCHANGED <<txns, nextTxn, parts, nextPart, jobs, bundle>>
    BY <1>1 DEF sqlVars, objVars
<1>12. WriterOK(w)'
    BY <1>1, <1>2, <1>8, <1>10, <1>11 DEF WriterOK, Opened
<1>13. PublishOK(w)'
    <2>1. Commit(w)' = Commit(w) BY <1>8, <1>10, <1>11 DEF Commit
    <2> QED BY <1>7, <1>8, <1>10, <1>11, <2>1 DEF PublishOK, Publishing, Kept
<1> QED BY <1>1, <1>2, <1>3, <1>4, <1>5, <1>10, <1>12, <1>13, InsertFrame
        DEF OthersStill, PartsStill

LEMMA PublishWriteLInv ==
    ASSUME LInv, NEW w \in Writers, PublishWrite(w), UNCHANGED <<ddlVars, eraser, recVars>>
    PROVE  LInv'
<1>1. /\ ws[w].pc = "read" /\ UNCHANGED <<sqlVars, logs, memVars, histVars>> /\ OthersStill
    BY DEF PublishWrite, ddlVars, recVars, OthersStill, memVars
<1>2. /\ SqlShape /\ SqlOK /\ ObjShape /\ MemShape /\ WsShape
      /\ ws[w].part \in Parts /\ ws[w].base \in Versions /\ Commit(w) \in Versions
      /\ ws[w].out \in [Tablets -> Outputs] /\ PublishOK(w)
    BY <1>1, WriterFacts DEF WsShape
<1>3. SqlStep BY <1>1, <1>2, SqlStill DEF OthersStill
<1>4. MemShape'
    <2>1. UNCHANGED faults \/ ObjFault BY DEF PublishWrite
    <2> QED BY <1>1, <1>2, <2>1, MemStill DEF OthersStill
<1>5. CopyOK(lake)' /\ PartsStill
    BY <1>1, <1>3, LakeStays DEF memVars, PartsStill, sqlVars
<1>6. CASE Goto(w, "abort") /\ UNCHANGED bundle
    <2>1. ObjStep BY <1>1, <1>2, <1>6, ObjStill DEF objVars
    <2>2. "abort" \in PcSet BY DEF PcSet
    <2> QED BY <1>1, <1>3, <1>4, <1>5, <1>6, <2>1, <2>2, GotoLInv
<1>7. CASE /\ bundle' = BundleAfter(ws[w].part, ws[w].base, Commit(w), ws[w].out, ws[w].part \in reg)
           /\ Goto(w, "bundled")
    <2>1. /\ bundle' \in [Parts -> [Versions -> Metas \cup {NoMeta}]]
          /\ \A q \in Parts, v \in Versions : bundle[q][v] # NoMeta => bundle'[q][v] # NoMeta
          /\ PersistTablets(ws[w].out) # {} => bundle'[ws[w].part][Commit(w)] # NoMeta
        BY <1>2, <1>7, BundlePublished
    <2>2. ObjStep BY <1>1, <1>2, <2>1 DEF ObjStep, ObjShape
    <2>3. "bundled" \in PcSet BY DEF PcSet
    <2>4. /\ ws'[w].pc = "bundled" /\ ws'[w].part = ws[w].part /\ ws'[w].txn = ws[w].txn
          /\ ws'[w].out = ws[w].out
        BY <1>2, <1>7, <2>3, WriterGoto
    <2>5. txns' = txns /\ jobs' = jobs /\ Commit(w)' = Commit(w)
        BY <1>1, <2>4 DEF sqlVars, Commit
    <2>6. PublishOK(w)'
        <3> SUFFICES ASSUME FailedTablets(ws[w].out) = {}
                     PROVE  bundle'[ws[w].part][Commit(w)] # NoMeta \/ jobs[ws[w].part] # "NONE"
            BY <2>4, <2>5 DEF PublishOK, Publishing, Kept
        <3>1. CASE PersistTablets(ws[w].out) # {} BY <2>1, <3>1
        <3>2. CASE PersistTablets(ws[w].out) = {}
            <4>1. PICK t \in Tablets : TRUE BY StoreAssumption
            <4>2. ws[w].out[t].kind = "published"
                BY <1>2, <3>2 DEF FailedTablets, PersistTablets, Outputs
            <4>3. Publishing(w) BY <1>1, <4>2 DEF Publishing
            <4>4. Kept(ws[w].part, Commit(w)) BY <1>2, <4>3 DEF PublishOK
            <4> QED BY <1>2, <2>1, <4>4 DEF Kept
        <3> QED BY <3>1, <3>2
    <2> QED BY <1>1, <1>3, <1>4, <1>5, <1>7, <2>2, <2>3, <2>6, GotoLInv
<1> QED BY <1>6, <1>7 DEF PublishWrite

LEMMA PublishCleanupLInv ==
    ASSUME LInv, NEW w \in Writers, PublishCleanup(w), UNCHANGED <<ddlVars, eraser, recVars>>
    PROVE  LInv'
<1> DEFINE x == IF FailedTablets(ws[w].out) = {} THEN "published" ELSE "abort"
<1>1. /\ ws[w].pc = "bundled" /\ UNCHANGED <<sqlVars, bundle, memVars, histVars>> /\ OthersStill
      /\ Goto(w, x)
    BY DEF PublishCleanup, ddlVars, recVars, OthersStill, memVars
<1>2. /\ SqlShape /\ SqlOK /\ ObjShape /\ MemShape /\ WsShape /\ ws[w].txn \in TxnIds
      /\ PublishOK(w)
    BY <1>1, WriterFacts DEF WsShape
<1>3. SqlStep BY <1>1, <1>2, SqlStill DEF OthersStill
<1>4. MemShape'
    <2>1. UNCHANGED faults \/ ObjFault BY DEF PublishCleanup
    <2> QED BY <1>1, <1>2, <2>1, MemStill DEF OthersStill
<1>5. CopyOK(lake)' /\ PartsStill
    BY <1>1, <1>3, LakeStays DEF memVars, PartsStill, sqlVars
<1>6. ObjStep
    <2>1. \E T : logs' = LogsAfterCleanup(ws[w].txn, T) BY DEF PublishCleanup
    <2>2. logs' \in [TxnIds -> [Tablets -> {"none", "rows", "empty"}]]
        BY <1>2, <2>1, CleanupType
    <2> QED BY <1>1, <1>2, <2>2 DEF ObjStep, ObjShape
<1>7. x \in PcSet BY DEF PcSet
<1>8. x = "published" => FailedTablets(ws[w].out) = {} OBVIOUS
<1>9. x \in {"published", "abort"} OBVIOUS
<1> HIDE DEF x
<1>10. /\ ws'[w].pc = x /\ ws'[w].part = ws[w].part /\ ws'[w].txn = ws[w].txn
    BY <1>1, <1>2, <1>7, WriterGoto
<1>11. PublishOK(w)'
    <2>1. UNCHANGED <<bundle, jobs, txns>> BY <1>1 DEF sqlVars
    <2>2. Commit(w)' = Commit(w) BY <1>10, <2>1 DEF Commit
    <2>3. x = "published" => Kept(ws[w].part, Commit(w))
        BY <1>1, <1>2, <1>8 DEF PublishOK, Publishing
    <2> QED BY <1>9, <1>10, <2>1, <2>2, <2>3 DEF PublishOK, Publishing, Kept
<1> QED BY <1>1, <1>3, <1>4, <1>5, <1>6, <1>7, <1>11, GotoLInv

LEMMA MarkVisibleLInv ==
    ASSUME LInv, NEW w \in Writers, MarkVisible(w), UNCHANGED <<ddlVars, eraser, recVars>>
    PROVE  LInv'
<1>1. /\ ws[w].pc = "published" /\ UNCHANGED <<objVars, memVars, histVars>> /\ OthersStill
    BY DEF MarkVisible, ddlVars, recVars, OthersStill, memVars
<1>2. /\ SqlShape /\ SqlOK /\ ObjShape /\ MemShape /\ WsShape /\ ws[w].txn \in TxnIds
      /\ PublishOK(w) /\ WriterOK(w)
    BY <1>1, WriterFacts DEF WsShape
<1>3. MemShape' /\ ObjStep
    <2>1. UNCHANGED faults \/ SqlFault BY DEF MarkVisible
    <2> QED BY <1>1, <1>2, <2>1, MemStill, ObjStill DEF OthersStill
<1>4. CASE Return(w) /\ UNCHANGED sqlVars
    <2>1. SqlStep BY <1>1, <1>2, <1>4, SqlStill DEF OthersStill
    <2>2. CopyOK(lake)' /\ PartsStill
        BY <1>1, <1>4, <2>1, LakeStays DEF memVars, PartsStill, sqlVars
    <2> QED BY <1>1, <1>3, <1>4, <2>1, <2>2, ReturnLInv
<1>5. CASE mark_txn_visible(ws[w].txn) /\ Goto(w, "visible")
    <2> DEFINE i == ws[w].txn
               q == txns[i].part
    <2>1. /\ SqlStep /\ UNCHANGED <<nextTxn, nextPart, jobs>>
          /\ q \in Parts /\ txns[i].commit \in Versions
          /\ \A p \in Parts : p # q => parts'[p] = parts[p]
          /\ parts'[q].visible = txns[i].commit /\ parts'[q].state = parts[q].state
        BY <1>1, <1>2, <1>5, VisibleSql DEF OthersStill
    <2>2. CopyOK(lake)' BY <1>1, <2>1, LakeStays DEF memVars
    <2>3. q = ws[w].part BY <1>1, <1>2 DEF WriterOK
    <2>4. Kept(q, txns[i].commit) BY <1>1, <1>2, <2>3 DEF PublishOK, Publishing, Commit
    <2>5. bundle' = bundle BY <1>1 DEF objVars
    <2> HIDE DEF q, i
    <2>6. PartsStill
        <3>1. \A p \in Parts : parts'[p].state = parts[p].state BY <2>1
        <3>2. q \in ActiveParts(parts) => bundle'[q][parts'[q].visible] # NoMeta
            BY <1>2, <2>1, <2>4, <2>5 DEF Kept, ActiveParts, SqlOK
        <3>3. \A p \in ActiveParts(parts) : p # q => parts'[p].visible = parts[p].visible
            BY <2>1 DEF ActiveParts
        <3> QED BY <3>1, <3>2, <3>3 DEF PartsStill
    <2>7. "visible" \in PcSet BY DEF PcSet
    <2> QED BY <1>1, <1>3, <1>5, <2>1, <2>2, <2>6, <2>7, GotoLInv
<1> QED BY <1>4, <1>5 DEF MarkVisible

LEMMA AdvanceCatalogLInv ==
    ASSUME LInv, NEW w \in Writers, AdvanceCatalog(w), UNCHANGED <<ddlVars, eraser, recVars>>
    PROVE  LInv'
<1> DEFINE p == ws[w].part
           c == Commit(w)
<1>1. /\ ws[w].pc = "visible" /\ UNCHANGED <<sqlVars, objVars, mode, reg, view, histVars, faults>>
      /\ OthersStill
    BY DEF AdvanceCatalog, ddlVars, recVars, OthersStill
<1>2. /\ SqlShape /\ SqlOK /\ ObjShape /\ MemShape /\ ws[w].txn \in TxnIds /\ p \in Parts
      /\ c \in Versions /\ mode = "up" /\ WriterOK(w)
      /\ ws[w] \in WriterRecs /\ ws \in [Writers -> WriterRecs]
    BY <1>1, WriterFacts
<1>3. SqlStep /\ ObjStep /\ PartsStill
    BY <1>1, <1>2, SqlStill, ObjStill DEF OthersStill, PartsStill, sqlVars
<1>4. CASE Return(w) /\ UNCHANGED lake
    <2>1. MemShape' BY <1>1, <1>2, <1>4, MemStill DEF OthersStill, memVars
    <2>2. CopyOK(lake)' BY <1>3, <1>4, LakeStays
    <2> QED BY <1>1, <1>3, <1>4, <2>1, <2>2, ReturnLInv
<1>5. CASE /\ lake' = [lake EXCEPT ![p].visible = c]
           /\ ws' = [ws EXCEPT ![w].pc = "register", ![w].view = ViewOf(lake')]
    <2>1. lake \in [Parts -> PartRows] /\ CopyOK(lake) BY DEF LInv, MemOK, Shape, MemShape
    <2>2. c <= nextTxn BY <1>1, <1>2 DEF WriterOK, SqlOK, Commit
    <2> HIDE DEF c, p
    <2>3. /\ [lake[p] EXCEPT !.visible = c] \in PartRows
          /\ [lake[p] EXCEPT !.visible = c].visible = c
          /\ [lake[p] EXCEPT !.visible = c].state = lake[p].state
        BY <1>2, <2>1 DEF PartRows
    <2>4. /\ lake' \in [Parts -> PartRows] /\ lake'[p].visible = c
          /\ \A q \in Parts : lake'[q].state = lake[q].state /\ (q # p => lake'[q] = lake[q])
        BY <1>2, <1>5, <2>1, <2>3
    <2>5. ActiveParts(lake') = ActiveParts(lake) BY <2>4 DEF ActiveParts
    <2>6. CopyOK(lake')
        BY <2>1, <2>2, <2>4, <2>5 DEF CopyOK
    <2>7. UNCHANGED <<txns, nextTxn, parts, nextPart, jobs, bundle>>
        BY <1>1 DEF sqlVars, objVars
    <2>8. CopyOK(lake)' BY <2>6, <2>7 DEF CopyOK, Opened
    <2>9. MemShape' BY <1>1, <1>2, <2>4 DEF MemShape, OthersStill, histVars
    <2>10. ViewOf(lake') \in Views
        BY <2>4, <2>6, ViewFacts DEF Views, ViewOf
    <2> DEFINE y == [ws[w] EXCEPT !.pc = "register", !.view = ViewOf(lake')]
    <2>11. /\ y \in WriterRecs /\ y.pc = "register" /\ y.part = ws[w].part
           /\ y.base = ws[w].base /\ y.txn = ws[w].txn
        BY <1>2, <2>10 DEF WriterRecs, PcSet
    <2>12. ws' = [ws EXCEPT ![w] = y] BY <1>2, <1>5
    <2> HIDE DEF y
    <2>13. ws'[w] = y /\ WsShape' /\ \A u \in Writers : u # w => ws'[u] = ws[u]
        BY <1>2, <2>11, <2>12 DEF WsShape
    <2>14. (WriterOK(w) /\ PublishOK(w))'
        BY <1>1, <1>2, <2>7, <2>11, <2>13 DEF WriterOK, PublishOK, Publishing, Opened
    <2> QED BY <1>1, <1>2, <1>3, <2>8, <2>9, <2>13, <2>14, InsertFrame
            DEF OthersStill, PartsStill
<1> QED BY <1>4, <1>5 DEF AdvanceCatalog

LEMMA RegisterViewLInv ==
    ASSUME LInv, NEW w \in Writers, RegisterView(w), UNCHANGED <<ddlVars, eraser, recVars>>
    PROVE  LInv'
<1>1. /\ ws[w].pc = "register" /\ UNCHANGED <<sqlVars, objVars, mode, reg, lake, routed, faults>>
      /\ OthersStill /\ Return(w) /\ view' = ws[w].view /\ acked' = acked \cup {ws[w].txn}
    BY DEF RegisterView, ddlVars, recVars, OthersStill
<1>2. /\ SqlShape /\ SqlOK /\ ObjShape /\ MemShape /\ ws[w].txn \in TxnIds /\ ws[w].view \in Views
    BY WriterFacts
<1>3. SqlStep /\ ObjStep /\ PartsStill
    BY <1>1, <1>2, SqlStill, ObjStill DEF OthersStill, PartsStill, sqlVars
<1>4. MemShape' BY <1>1, <1>2 DEF MemShape, OthersStill
<1>5. CopyOK(lake)' BY <1>1, <1>3, LakeStays
<1> QED BY <1>1, <1>3, <1>4, <1>5, ReturnLInv

LEMMA InsertLInv ==
    ASSUME LInv, NEW w \in Writers, Plan(w) \/ InsertStep(w), UNCHANGED <<ddlVars, eraser, recVars>>
    PROVE  LInv'
BY PlanLInv, PrepareLInv, AbortLInv, MarkWrittenLInv, WriteLogLInv, PublishReadLInv,
   PublishWriteLInv, PublishCleanupLInv, MarkVisibleLInv, AdvanceCatalogLInv, RegisterViewLInv
   DEF InsertStep

-----------------------------------------------------------------------------
(* TRUNCATE and DROP.                                                      *)

\* A step of a DDL statement or of the erase worker.
LEMMA SideFrame ==
    ASSUME LInv, mode = "up", SqlStep, ObjStep, MemShape', DdlShape',
           UNCHANGED <<budget, ws, mode, rec, crashes, reopens>>,
           CopyOK(lake)', ActiveReadable',
           (ddl.pc \in {"reloaded", "swapped", "dropping"} => CopyOK(ddl.snap))',
           (ddl.pc \in {"staged", "bootstrapped"} =>
               parts[ddl.new].state = "CREATING" /\ Opened(ddl.old))',
           (ddl.pc = "bootstrapped" => bundle[ddl.new][1] # NoMeta)',
           (eraser.pc # "idle" => jobs[eraser.job] # "NONE")'
    PROVE  LInv'
<1>1. WsShape' /\ RecShape' BY DEF LInv, Shape, WsShape, RecShape
<1>2. Shape' BY <1>1 DEF Shape, SqlStep, ObjStep
<1>3. WritersOK' BY WriterStays DEF WritersOK
<1>4. MemOK' BY DEF MemOK
<1>5. OpenOK' BY OpenIdle DEF LInv
<1> QED BY <1>2, <1>3, <1>4, <1>5 DEF LInv, StoreOK, SqlStep

LEMMA SideFacts ==
    ASSUME LInv
    PROVE  /\ SqlShape /\ ObjShape /\ MemShape /\ DdlShape /\ SqlOK /\ RecShape
           /\ ddl.pc \in {"idle", "staged", "bootstrapped", "cleanup", "activated",
                          "removed", "reloaded", "swapped", "dropping"}
           /\ ddl.old \in Parts /\ ddl.new \in Parts /\ ddl.snap \in [Parts -> PartRows]
           /\ eraser.job \in Parts
           /\ ddl.pc # "idle" => mode = "up"
           /\ eraser.pc # "idle" => mode = "up" /\ jobs[eraser.job] # "NONE"
           /\ ddl.pc \in {"reloaded", "swapped", "dropping"} => CopyOK(ddl.snap)
           /\ ddl.pc \in {"staged", "bootstrapped"} =>
                 parts[ddl.new].state = "CREATING" /\ Opened(ddl.old)
           /\ ddl.pc = "bootstrapped" => bundle[ddl.new][1] # NoMeta
<1>1. SqlShape /\ ObjShape /\ MemShape /\ DdlShape /\ SqlOK /\ MemOK /\ StoreOK /\ RecShape
    BY DEF LInv, Shape
<1>2. ddl \in DdlRecs /\ eraser.job \in Parts BY <1>1 DEF DdlShape
<1> QED BY <1>1, <1>2 DEF DdlRecs, MemOK, StoreOK

LEMMA DdlGoto ==
    ASSUME DdlShape, NEW x, ddl' = [ddl EXCEPT !.pc = x],
           x \in {"idle", "staged", "bootstrapped", "cleanup", "activated",
                  "removed", "reloaded", "swapped", "dropping"}
    PROVE  /\ ddl' \in DdlRecs /\ ddl'.pc = x /\ ddl'.old = ddl.old /\ ddl'.new = ddl.new
           /\ ddl'.snap = ddl.snap
BY DEF DdlShape, DdlRecs

LEMMA DdlEnd ==
    ASSUME SqlShape, ddl' = NoDdl
    PROVE  ddl' \in DdlRecs /\ ddl'.pc = "idle"
<1>1. 1 \in Parts /\ NoPart \in PartRows BY Bounds, PartRowFacts
<1>2. [p \in Parts |-> NoPart] \in [Parts -> PartRows] BY <1>1
<1> QED BY <1>1, <1>2 DEF NoDdl, DdlRecs

\* The table in SQLite is a copy of itself.
LEMMA PartsCopy ==
    ASSUME SqlShape, SqlOK
    PROVE  CopyOK(parts)
<1>1. \A p \in Parts : parts[p].state = "ACTIVE" => Opened(p)
    <2>1. nextPart \in Nat /\ \A p \in Parts : p \in Nat BY Bounds DEF Parts
    <2> QED BY <2>1 DEF Opened, SqlOK
<1> QED BY <1>1 DEF CopyOK, SqlOK

\* The erase worker's part of the invariant while it rests.
LEMMA EraserRests ==
    ASSUME LInv, SqlStep, eraser' = eraser
    PROVE  (eraser.pc # "idle" => jobs[eraser.job] # "NONE")'
BY SideFacts DEF SqlStep, Grows

LEMMA TruncStageLInv ==
    ASSUME LInv, TruncStage, UNCHANGED recVars
    PROVE  LInv'
<1>1. /\ mode = "up" /\ ddl.pc = "idle" /\ stage_truncate_partition
      /\ ddl' = [ddl EXCEPT !.pc = "staged", !.old = ViewOf(lake).part, !.new = nextPart]
      /\ UNCHANGED <<objVars, memVars, ws, histVars, faults, drops, truncated, eraser>>
      /\ UNCHANGED <<budget, rec, crashes, reopens>>
    BY DEF TruncStage, recVars, insertVars
<1>2. SqlShape /\ ObjShape /\ MemShape /\ DdlShape /\ SqlOK BY SideFacts
<1>3. /\ SqlStep /\ UNCHANGED <<txns, nextTxn, jobs>> /\ nextPart \in Parts
      /\ parts'[nextPart].state = "CREATING"
      /\ \A p \in Parts : p # nextPart => parts'[p] = parts[p]
    BY <1>1, <1>2, StageSql
<1>4. ObjStep /\ MemShape' BY <1>1, <1>2, ObjStill, MemStill
<1>5. CopyOK(lake)' BY <1>1, <1>3, LakeStays DEF memVars
<1>6. CopyOK(lake) /\ lake \in [Parts -> PartRows] BY DEF LInv, MemOK, Shape, MemShape
<1>7. PICK o \in Parts : o = ViewOf(lake).part /\ Opened(o) BY <1>6, ViewFacts
<1>8. /\ ddl' \in DdlRecs /\ ddl'.pc = "staged" /\ ddl'.old = o /\ ddl'.new = nextPart
    BY <1>1, <1>2, <1>3, <1>7 DEF DdlShape, DdlRecs
<1>9. DdlShape' BY <1>1, <1>2, <1>8 DEF DdlShape
<1>10. Opened(o)' BY <1>3, <1>7 DEF SqlStep, Grows
<1>11. (ddl.pc \in {"staged", "bootstrapped"} =>
            parts[ddl.new].state = "CREATING" /\ Opened(ddl.old))'
    BY <1>3, <1>8, <1>10 DEF Opened
<1>12. ActiveReadable'
    <2>1. \A p \in ActiveParts(parts') : p \in ActiveParts(parts) /\ parts'[p] = parts[p]
        BY <1>3 DEF ActiveParts
    <2> QED BY <1>4, <2>1, ReadableStays
<1>13. (eraser.pc # "idle" => jobs[eraser.job] # "NONE")' BY <1>1, <1>3, EraserRests
<1> QED BY <1>1, <1>3, <1>4, <1>5, <1>8, <1>9, <1>11, <1>12, <1>13, SideFrame DEF memVars

LEMMA TruncBootstrapLInv ==
    ASSUME LInv, TruncBootstrap, UNCHANGED recVars
    PROVE  LInv'
<1>1. /\ ddl.pc = "staged" /\ reg' = reg \cup {ddl.new}
      /\ UNCHANGED <<sqlVars, mode, lake, view, ws, histVars, drops, truncated, eraser>>
      /\ UNCHANGED <<budget, rec, crashes, reopens>>
    BY DEF TruncBootstrap, recVars, insertVars
<1>2. /\ SqlShape /\ ObjShape /\ MemShape /\ DdlShape /\ SqlOK /\ mode = "up"
      /\ ddl.new \in Parts /\ ddl.old \in Parts
      /\ parts[ddl.new].state = "CREATING" /\ Opened(ddl.old)
    BY <1>1, SideFacts
<1>3. SqlStep BY <1>1, <1>2, SqlStill
<1>4. MemShape'
    <2>1. UNCHANGED faults \/ ObjFault BY DEF TruncBootstrap
    <2>2. faults' \in [obj : 0..budget'.obj, sql : 0..budget'.sql] BY <1>1, <1>2, <2>1, FaultType
    <2> QED BY <1>1, <1>2, <2>2 DEF MemShape, histVars
<1>5. CopyOK(lake)' BY <1>1, <1>3, LakeStays
<1>6. (eraser.pc # "idle" => jobs[eraser.job] # "NONE")' BY <1>1, <1>3, EraserRests
<1>7. UNCHANGED <<txns, nextTxn, parts, nextPart, jobs>> BY <1>1 DEF sqlVars
<1>8. CASE BootstrapPartition(ddl.new) /\ ddl' = [ddl EXCEPT !.pc = "bootstrapped"]
    <2>1. ObjStep /\ bundle'[ddl.new][1] # NoMeta BY <1>2, <1>8, BootstrapObj
    <2>2. /\ ddl' \in DdlRecs /\ ddl'.pc = "bootstrapped" /\ ddl'.old = ddl.old
          /\ ddl'.new = ddl.new
        BY <1>2, <1>8, DdlGoto
    <2>3. DdlShape' BY <1>1, <1>2, <2>2 DEF DdlShape
    <2>4. ActiveReadable' BY <1>7, <2>1, ReadableStays
    <2>5. (ddl.pc \in {"staged", "bootstrapped"} =>
               parts[ddl.new].state = "CREATING" /\ Opened(ddl.old))'
        BY <1>2, <1>7, <2>2 DEF Opened
    <2> QED BY <1>1, <1>2, <1>3, <1>4, <1>5, <1>6, <2>1, <2>2, <2>3, <2>4, <2>5, SideFrame
<1>9. CASE ddl' = [ddl EXCEPT !.pc = "cleanup"] /\ UNCHANGED objVars
    <2>1. ObjStep BY <1>2, <1>9, ObjStill
    <2>2. ddl' \in DdlRecs /\ ddl'.pc = "cleanup" BY <1>2, <1>9, DdlGoto
    <2>3. DdlShape' BY <1>1, <1>2, <2>2 DEF DdlShape
    <2>4. ActiveReadable' BY <1>7, <2>1, ReadableStays
    <2> QED BY <1>1, <1>2, <1>3, <1>4, <1>5, <1>6, <2>1, <2>2, <2>3, <2>4, SideFrame
<1> QED BY <1>8, <1>9 DEF TruncBootstrap

LEMMA TruncActivateLInv ==
    ASSUME LInv, TruncActivate, UNCHANGED recVars
    PROVE  LInv'
<1>1. /\ ddl.pc = "bootstrapped"
      /\ UNCHANGED <<objVars, memVars, ws, histVars, drops, truncated, eraser>>
      /\ UNCHANGED <<budget, rec, crashes, reopens>>
    BY DEF TruncActivate, recVars, insertVars
<1>2. /\ SqlShape /\ ObjShape /\ MemShape /\ DdlShape /\ SqlOK /\ mode = "up"
      /\ ddl.new \in Parts /\ ddl.old \in Parts
      /\ parts[ddl.new].state = "CREATING" /\ Opened(ddl.old) /\ bundle[ddl.new][1] # NoMeta
    BY <1>1, SideFacts
<1>3. ObjStep /\ MemShape'
    <2>1. UNCHANGED faults \/ SqlFault BY DEF TruncActivate
    <2> QED BY <1>1, <1>2, <2>1, ObjStill, MemStill
<1>4. ASSUME SqlStep, ActiveReadable', NEW x \in {"activated", "cleanup"},
             ddl' = [ddl EXCEPT !.pc = x]
      PROVE  LInv'
    <2>1. ddl' \in DdlRecs /\ ddl'.pc \in {"activated", "cleanup"} BY <1>2, <1>4, DdlGoto
    <2>2. DdlShape' BY <1>1, <1>2, <2>1 DEF DdlShape
    <2>3. (eraser.pc # "idle" => jobs[eraser.job] # "NONE")' BY <1>1, <1>4, EraserRests
    <2>4. CopyOK(lake)' BY <1>1, <1>4, LakeStays DEF memVars
    <2> QED BY <1>1, <1>2, <1>3, <1>4, <2>1, <2>2, <2>3, <2>4, SideFrame DEF memVars
<1>5. CASE activate_truncate_partition(ddl.old, ddl.new) /\ ddl' = [ddl EXCEPT !.pc = "activated"]
    <2>1. /\ SqlStep /\ \A p \in Parts \ {ddl.old, ddl.new} : parts'[p] = parts[p]
          /\ parts'[ddl.old].state = "RETIRED" /\ parts'[ddl.new].visible = parts[ddl.new].visible
        BY <1>1, <1>2, <1>5, ActivateSql
    <2>2. parts[ddl.new].visible = 1 BY <1>2 DEF SqlOK
    <2>3. \A p \in ActiveParts(parts') :
             \/ p \in ActiveParts(parts) /\ parts'[p].visible = parts[p].visible
             \/ bundle'[p][parts'[p].visible] # NoMeta
        <3> TAKE p \in ActiveParts(parts')
        <3>1. p \in Parts /\ p # ddl.old BY <2>1 DEF ActiveParts
        <3>2. CASE p = ddl.new BY <1>1, <1>2, <2>1, <2>2, <3>2 DEF objVars
        <3>3. CASE p # ddl.new BY <2>1, <3>1, <3>3 DEF ActiveParts
        <3> QED BY <3>2, <3>3
    <2>4. ActiveReadable' BY <1>3, <2>3, ReadableStays
    <2> QED BY <1>4, <1>5, <2>1, <2>4
<1>6. CASE ddl' = [ddl EXCEPT !.pc = "cleanup"] /\ UNCHANGED sqlVars
    <2>1. SqlStep BY <1>1, <1>2, <1>6, SqlStill
    <2>2. ActiveReadable' BY <1>3, <1>6, ReadableStays DEF sqlVars
    <2> QED BY <1>4, <1>6, <2>1, <2>2
<1> QED BY <1>5, <1>6 DEF TruncActivate

LEMMA TruncCleanupLInv ==
    ASSUME LInv, TruncCleanup, UNCHANGED recVars
    PROVE  LInv'
<1>1. /\ ddl.pc = "cleanup" /\ reg' = reg \ {ddl.new} /\ ddl' = NoDdl
      /\ UNCHANGED <<objVars, mode, lake, view, ws, histVars, drops, truncated, eraser>>
      /\ UNCHANGED <<budget, rec, crashes, reopens>>
    BY DEF TruncCleanup, recVars, insertVars
<1>2. /\ SqlShape /\ ObjShape /\ MemShape /\ DdlShape /\ SqlOK /\ mode = "up"
      /\ ddl.new \in Parts
    BY <1>1, SideFacts
<1>3. /\ SqlStep /\ ActiveParts(parts') = ActiveParts(parts)
      /\ \A q \in ActiveParts(parts) : parts'[q] = parts[q]
    <2>1. CASE delete_creating_partition(ddl.new) BY <1>1, <1>2, <2>1, DeleteCreatingSql
    <2>2. CASE UNCHANGED sqlVars BY <1>1, <1>2, <2>2, SqlStill DEF sqlVars
    <2> QED BY <2>1, <2>2 DEF TruncCleanup
<1>4. ObjStep BY <1>1, <1>2, ObjStill
<1>5. MemShape'
    <2>1. UNCHANGED faults \/ SqlFault BY DEF TruncCleanup
    <2>2. faults' \in [obj : 0..budget'.obj, sql : 0..budget'.sql] BY <1>1, <1>2, <2>1, FaultType
    <2> QED BY <1>1, <1>2, <2>2 DEF MemShape, histVars
<1>6. CopyOK(lake)' BY <1>1, <1>3, LakeStays
<1>7. (eraser.pc # "idle" => jobs[eraser.job] # "NONE")' BY <1>1, <1>3, EraserRests
<1>8. ddl' \in DdlRecs /\ ddl'.pc = "idle" BY <1>1, <1>2, DdlEnd
<1>9. DdlShape' BY <1>1, <1>2, <1>8 DEF DdlShape
<1>10. ActiveReadable' BY <1>3, <1>4, ReadableStays
<1> QED BY <1>1, <1>2, <1>3, <1>4, <1>5, <1>6, <1>7, <1>8, <1>9, <1>10, SideFrame

\* The steps that work on the copies of the table in memory.
LEMMA CatalogFrame ==
    ASSUME LInv, mode = "up", UNCHANGED <<sqlVars, objVars, mode, ws, histVars, eraser>>,
           UNCHANGED <<budget, rec, crashes, reopens>>, UNCHANGED faults \/ ObjFault,
           ddl' \in DdlRecs, drops' \in 0..budget.drops, truncated' \subseteq Parts,
           reg' \subseteq Parts, view' \in Views, lake' \in [Parts -> PartRows], CopyOK(lake'),
           ddl'.pc \notin {"staged", "bootstrapped"},
           ddl'.pc \in {"reloaded", "swapped", "dropping"} => CopyOK(ddl'.snap)
    PROVE  LInv'
<1>1. SqlShape /\ ObjShape /\ MemShape /\ DdlShape /\ SqlOK BY SideFacts
<1>2. SqlStep /\ ObjStep BY <1>1, SqlStill, ObjStill
<1>3. UNCHANGED <<nextTxn, nextPart, parts>> BY DEF sqlVars
<1>4. MemShape'
    <2>1. faults' \in [obj : 0..budget'.obj, sql : 0..budget'.sql] BY <1>1, FaultType
    <2> QED BY <1>1, <2>1 DEF MemShape, histVars
<1>5. DdlShape' BY <1>1 DEF DdlShape
<1>6. CopyOK(lake)' BY <1>3 DEF CopyOK, Opened
<1>7. (ddl.pc \in {"reloaded", "swapped", "dropping"} => CopyOK(ddl.snap))'
    BY <1>3 DEF CopyOK, Opened
<1>8. (eraser.pc # "idle" => jobs[eraser.job] # "NONE")' BY <1>2, EraserRests
<1>9. ActiveReadable' BY <1>2, <1>3, ReadableStays
<1> QED BY <1>2, <1>4, <1>5, <1>6, <1>7, <1>8, <1>9, SideFrame

LEMMA CatalogFacts ==
    ASSUME LInv
    PROVE  /\ lake \in [Parts -> PartRows] /\ CopyOK(lake) /\ view \in Views /\ reg \subseteq Parts
           /\ parts \in [Parts -> PartRows] /\ CopyOK(parts) /\ ActiveParts(parts) \subseteq Parts
           /\ drops \in 0..budget.drops /\ truncated \subseteq Parts
BY PartsCopy DEF LInv, Shape, MemShape, MemOK, SqlShape, DdlShape, ActiveParts

LEMMA TruncRemoveRuntimesLInv ==
    ASSUME LInv, TruncRemoveRuntimes, UNCHANGED recVars
    PROVE  LInv'
<1>1. /\ ddl.pc = "activated" /\ reg' = reg \ {ddl.old} /\ ddl' = [ddl EXCEPT !.pc = "removed"]
      /\ UNCHANGED <<sqlVars, objVars, mode, lake, view, ws, histVars, faults, drops,
                     truncated, eraser>>
      /\ UNCHANGED <<budget, rec, crashes, reopens>>
    BY DEF TruncRemoveRuntimes, recVars, insertVars
<1>2. DdlShape /\ mode = "up" BY <1>1, SideFacts
<1>3. ddl' \in DdlRecs /\ ddl'.pc = "removed" BY <1>1, <1>2, DdlGoto
<1>4. lake' \in [Parts -> PartRows] /\ CopyOK(lake') /\ view' \in Views /\ reg' \subseteq Parts
      /\ drops' \in 0..budget.drops /\ truncated' \subseteq Parts
    BY <1>1, CatalogFacts
<1> QED BY <1>1, <1>2, <1>3, <1>4, CatalogFrame

LEMMA TruncReloadLInv ==
    ASSUME LInv, TruncReload, UNCHANGED recVars
    PROVE  LInv'
<1>1. /\ ddl.pc = "removed" /\ (UNCHANGED faults \/ ObjFault)
      /\ UNCHANGED <<sqlVars, objVars, mode, lake, view, ws, histVars, drops, truncated, eraser>>
      /\ UNCHANGED <<budget, rec, crashes, reopens>>
    BY DEF TruncReload, recVars, insertVars
<1>2. SqlShape /\ DdlShape /\ mode = "up" BY <1>1, SideFacts
<1>3. lake' \in [Parts -> PartRows] /\ CopyOK(lake') /\ view' \in Views
      /\ drops' \in 0..budget.drops /\ truncated' \subseteq Parts
    BY <1>1, CatalogFacts
<1>4. CASE ddl' = NoDdl /\ UNCHANGED reg
    <2>1. ddl' \in DdlRecs /\ ddl'.pc = "idle" /\ reg' \subseteq Parts
        BY <1>2, <1>4, DdlEnd, CatalogFacts
    <2> QED BY <1>1, <1>2, <1>3, <2>1, CatalogFrame
<1>5. CASE /\ ddl' = [ddl EXCEPT !.pc = "reloaded", !.snap = parts]
           /\ reg' = reg \cup ActiveParts(parts)
    <2>1. parts \in [Parts -> PartRows] /\ CopyOK(parts) /\ reg' \subseteq Parts
        BY <1>5, CatalogFacts
    <2>2. ddl' \in DdlRecs /\ ddl'.pc = "reloaded" /\ ddl'.snap = parts
        BY <1>2, <1>5, <2>1 DEF DdlShape, DdlRecs
    <2>3. CopyOK(ddl'.snap) BY <2>1, <2>2
    <2> QED BY <1>1, <1>2, <1>3, <2>1, <2>2, <2>3, CatalogFrame
<1> QED BY <1>4, <1>5 DEF TruncReload

LEMMA TruncSwapLInv ==
    ASSUME LInv, TruncSwap, UNCHANGED recVars
    PROVE  LInv'
<1>1. /\ ddl.pc = "reloaded" /\ lake' = ddl.snap /\ ddl' = [ddl EXCEPT !.pc = "swapped"]
      /\ UNCHANGED <<sqlVars, objVars, mode, reg, view, ws, histVars, faults, drops,
                     truncated, eraser>>
      /\ UNCHANGED <<budget, rec, crashes, reopens>>
    BY DEF TruncSwap, recVars, insertVars
<1>2. DdlShape /\ mode = "up" /\ CopyOK(ddl.snap) /\ ddl.snap \in [Parts -> PartRows]
    BY <1>1, SideFacts
<1>3. ddl' \in DdlRecs /\ ddl'.pc = "swapped" /\ ddl'.snap = ddl.snap BY <1>1, <1>2, DdlGoto
<1>4. view' \in Views /\ reg' \subseteq Parts
      /\ drops' \in 0..budget.drops /\ truncated' \subseteq Parts
    BY <1>1, CatalogFacts
<1>5. lake' \in [Parts -> PartRows] /\ CopyOK(lake') /\ CopyOK(ddl'.snap) BY <1>1, <1>2, <1>3
<1> QED BY <1>1, <1>2, <1>3, <1>4, <1>5, CatalogFrame

LEMMA TruncRegisterLInv ==
    ASSUME LInv, TruncRegister, UNCHANGED recVars
    PROVE  LInv'
<1>1. /\ ddl.pc = "swapped" /\ view' = ViewOf(ddl.snap) /\ truncated' = truncated \cup {ddl.old}
      /\ ddl' = NoDdl
      /\ UNCHANGED <<sqlVars, objVars, mode, reg, lake, ws, histVars, faults, drops, eraser>>
      /\ UNCHANGED <<budget, rec, crashes, reopens>>
    BY DEF TruncRegister, recVars, insertVars
<1>2. SqlShape /\ mode = "up" /\ CopyOK(ddl.snap) /\ ddl.snap \in [Parts -> PartRows]
      /\ ddl.old \in Parts
    BY <1>1, SideFacts
<1>3. ddl' \in DdlRecs /\ ddl'.pc = "idle" BY <1>1, <1>2, DdlEnd
<1>4. lake' \in [Parts -> PartRows] /\ CopyOK(lake') /\ reg' \subseteq Parts
      /\ drops' \in 0..budget.drops /\ truncated' \subseteq Parts
    BY <1>1, <1>2, CatalogFacts
<1>5. view' \in Views BY <1>1, <1>2, ViewFacts DEF Views, ViewOf
<1> QED BY <1>1, <1>2, <1>3, <1>4, <1>5, CatalogFrame

LEMMA DropReloadLInv ==
    ASSUME LInv, DropReload, UNCHANGED recVars
    PROVE  LInv'
<1>1. /\ mode = "up" /\ drops < budget.drops /\ drops' = drops + 1
      /\ ddl' = [ddl EXCEPT !.pc = "dropping", !.snap = parts]
      /\ UNCHANGED <<sqlVars, objVars, mode, reg, lake, view, ws, histVars, faults,
                     truncated, eraser>>
      /\ UNCHANGED <<budget, rec, crashes, reopens>>
    BY DEF DropReload, recVars, insertVars, memVars
<1>2. SqlShape /\ DdlShape BY SideFacts
<1>3. lake' \in [Parts -> PartRows] /\ CopyOK(lake') /\ view' \in Views /\ reg' \subseteq Parts
      /\ truncated' \subseteq Parts
    BY <1>1, CatalogFacts
<1>4. drops' \in 0..budget.drops
    <2>1. budget.drops \in Nat BY <1>2, StoreAssumption DEF SqlShape, Limits
    <2> QED BY <1>1, <1>2, <2>1 DEF DdlShape
<1>5. parts \in [Parts -> PartRows] /\ CopyOK(parts) BY CatalogFacts
<1>6. ddl' \in DdlRecs /\ ddl'.pc = "dropping" /\ ddl'.snap = parts
    BY <1>1, <1>2, <1>5 DEF DdlShape, DdlRecs
<1>7. CopyOK(ddl'.snap) BY <1>5, <1>6
<1> QED BY <1>1, <1>3, <1>4, <1>6, <1>7, CatalogFrame

LEMMA DropSwapLInv ==
    ASSUME LInv, DropSwap, UNCHANGED recVars
    PROVE  LInv'
<1>1. /\ ddl.pc = "dropping" /\ lake' = ddl.snap /\ ddl' = NoDdl
      /\ UNCHANGED <<sqlVars, objVars, mode, reg, view, ws, histVars, faults, drops,
                     truncated, eraser>>
      /\ UNCHANGED <<budget, rec, crashes, reopens>>
    BY DEF DropSwap, recVars, insertVars
<1>2. SqlShape /\ mode = "up" /\ CopyOK(ddl.snap) /\ ddl.snap \in [Parts -> PartRows]
    BY <1>1, SideFacts
<1>3. ddl' \in DdlRecs /\ ddl'.pc = "idle" BY <1>1, <1>2, DdlEnd
<1>4. view' \in Views /\ reg' \subseteq Parts
      /\ drops' \in 0..budget.drops /\ truncated' \subseteq Parts
    BY <1>1, CatalogFacts
<1>5. lake' \in [Parts -> PartRows] /\ CopyOK(lake') BY <1>1, <1>2
<1> QED BY <1>1, <1>2, <1>3, <1>4, <1>5, CatalogFrame

LEMMA DdlLInv ==
    ASSUME LInv, TruncStage \/ DropReload \/ DdlStep, UNCHANGED recVars
    PROVE  LInv'
BY TruncStageLInv, TruncBootstrapLInv, TruncActivateLInv, TruncCleanupLInv,
   TruncRemoveRuntimesLInv, TruncReloadLInv, TruncSwapLInv, TruncRegisterLInv, DropReloadLInv,
   DropSwapLInv DEF DdlStep

-----------------------------------------------------------------------------
(* The erase worker.                                                       *)

LEMMA EraseFrame ==
    ASSUME LInv, mode = "up", SqlStep, ObjStep, UNCHANGED <<memVars, ws, histVars, ddlVars>>,
           UNCHANGED <<budget, rec, crashes, reopens>>, UNCHANGED faults \/ ObjFault \/ SqlFault,
           eraser' \in [pc : {"idle", "claimed", "erased", "purged", "failing"}, job : Parts],
           eraser'.pc # "idle" => jobs'[eraser'.job] # "NONE",
           ActiveParts(parts') = ActiveParts(parts),
           \A p \in Parts : parts[p].state # "RETIRED" => parts'[p] = parts[p]
    PROVE  LInv'
<1>1. SqlShape /\ ObjShape /\ MemShape /\ DdlShape /\ SqlOK BY SideFacts
<1>2. MemShape' BY <1>1, MemStill
<1>3. UNCHANGED <<mode, lake, ddl, drops, truncated>> BY DEF memVars, ddlVars
<1>4. DdlShape' BY <1>1, <1>3 DEF DdlShape
<1>5. CopyOK(lake)' BY <1>3, LakeStays
<1>6. (ddl.pc \in {"reloaded", "swapped", "dropping"} => CopyOK(ddl.snap))'
    BY <1>3, SideFacts, SnapStays
<1>7. (ddl.pc \in {"staged", "bootstrapped"} =>
           parts[ddl.new].state = "CREATING" /\ Opened(ddl.old))'
    BY <1>3, SideFacts DEF SqlStep, Grows, Opened
<1>8. (ddl.pc = "bootstrapped" => bundle[ddl.new][1] # NoMeta)'
    <2>1. ddl.pc = "bootstrapped" => bundle[ddl.new][1] # NoMeta /\ ddl.new \in Parts
                                     /\ jobs[ddl.new] = "NONE"
        BY <1>1, SideFacts DEF SqlOK
    <2>2. 1 \in Versions BY <1>1, Bounds
    <2> QED BY <1>3, <2>1, <2>2 DEF ObjStep
<1>9. ActiveReadable'
    <2>1. \A p \in ActiveParts(parts') : p \in ActiveParts(parts) /\ parts'[p] = parts[p]
        BY DEF ActiveParts
    <2> QED BY <2>1, ReadableStays
<1> QED BY <1>2, <1>3, <1>4, <1>5, <1>6, <1>7, <1>8, <1>9, SideFrame

LEMMA EraserGoto ==
    ASSUME DdlShape, NEW x \in {"idle", "claimed", "erased", "purged", "failing"},
           eraser' = [eraser EXCEPT !.pc = x]
    PROVE  /\ eraser' \in [pc : {"idle", "claimed", "erased", "purged", "failing"}, job : Parts]
           /\ eraser'.job = eraser.job
BY DEF DdlShape

LEMMA EraserEnd ==
    ASSUME SqlShape, eraser' = NoErase
    PROVE  /\ eraser' \in [pc : {"idle", "claimed", "erased", "purged", "failing"}, job : Parts]
           /\ eraser'.pc = "idle"
BY Bounds DEF NoErase

LEMMA EraseLInv ==
    ASSUME LInv, (\E p \in Parts : EraseClaim(p)) \/ EraseStep, UNCHANGED recVars
    PROVE  LInv'
<1>1. /\ UNCHANGED <<memVars, ws, histVars, ddlVars>> /\ UNCHANGED <<budget, rec, crashes, reopens>>
      /\ UNCHANGED faults \/ ObjFault \/ SqlFault
    BY DEF EraseClaim, EraseStep, EraseRoot, ErasePurge, EraseFinish, EraseFail, insertVars, recVars
<1>2. SqlShape /\ ObjShape /\ MemShape /\ DdlShape /\ SqlOK /\ eraser.job \in Parts
      /\ (eraser.pc # "idle" => mode = "up" /\ jobs[eraser.job] # "NONE")
    BY SideFacts
<1>3. ASSUME NEW p \in Parts, EraseClaim(p) PROVE LInv'
    <2>1. SqlStep /\ UNCHANGED parts /\ jobs'[p] # "NONE" /\ mode = "up"
        BY <1>1, <1>2, <1>3, JobSql DEF EraseClaim
    <2>2. ObjStep BY <1>2, <1>3, ObjStill DEF EraseClaim
    <2>3. eraser' = [pc |-> "claimed", job |-> p] BY <1>3 DEF EraseClaim
    <2> QED BY <1>1, <2>1, <2>2, <2>3, EraseFrame
<1>4. CASE EraseRoot
    <2>1. SqlStep /\ UNCHANGED <<parts, jobs>> /\ eraser.pc = "claimed"
        BY <1>1, <1>2, <1>4, SqlStill DEF EraseRoot, sqlVars
    <2>2. ObjStep BY <1>2, <1>4, <2>1, EraseObj, ObjStill DEF EraseRoot
    <2>3. \E x \in {"erased", "failing"} : eraser' = [eraser EXCEPT !.pc = x] BY <1>4 DEF EraseRoot
    <2>4. /\ eraser' \in [pc : {"idle", "claimed", "erased", "purged", "failing"}, job : Parts]
          /\ eraser'.job = eraser.job
        BY <1>2, <2>3, EraserGoto
    <2> QED BY <1>1, <1>2, <2>1, <2>2, <2>4, EraseFrame
<1>5. CASE ErasePurge
    <2>1. ObjStep /\ eraser.pc = "erased" BY <1>2, <1>5, ObjStill DEF ErasePurge
    <2>2. \E x \in {"purged", "failing"} : eraser' = [eraser EXCEPT !.pc = x] BY <1>5 DEF ErasePurge
    <2>3. /\ eraser' \in [pc : {"idle", "claimed", "erased", "purged", "failing"}, job : Parts]
          /\ eraser'.job = eraser.job
        BY <1>2, <2>2, EraserGoto
    <2>4. /\ SqlStep /\ UNCHANGED jobs /\ ActiveParts(parts') = ActiveParts(parts)
          /\ \A p \in Parts : parts[p].state # "RETIRED" => parts'[p] = parts[p]
        <3>1. CASE purge_retired_partition_metadata(eraser.job) BY <1>1, <1>2, <3>1, PurgeSql
        <3>2. CASE UNCHANGED sqlVars BY <1>1, <1>2, <3>2, SqlStill DEF sqlVars
        <3> QED BY <1>5, <3>1, <3>2 DEF ErasePurge
    <2> QED BY <1>1, <1>2, <2>1, <2>3, <2>4, EraseFrame
<1>6. CASE EraseFinish
    <2>1. ObjStep /\ eraser.pc = "purged" BY <1>2, <1>6, ObjStill DEF EraseFinish
    <2>2. CASE SetJob(eraser.job, "FINISHED") /\ eraser' = NoErase
        <3>1. SqlStep /\ UNCHANGED parts BY <1>1, <1>2, <2>1, <2>2, JobSql
        <3> QED BY <1>1, <1>2, <2>1, <2>2, <3>1, EraserEnd, EraseFrame
    <2>3. CASE eraser' = [eraser EXCEPT !.pc = "failing"] /\ UNCHANGED sqlVars
        <3>1. SqlStep /\ UNCHANGED <<parts, jobs>> BY <1>1, <1>2, <2>3, SqlStill DEF sqlVars
        <3>2. /\ eraser' \in [pc : {"idle", "claimed", "erased", "purged", "failing"}, job : Parts]
              /\ eraser'.job = eraser.job
            BY <1>2, <2>3, EraserGoto
        <3> QED BY <1>1, <1>2, <2>1, <3>1, <3>2, EraseFrame
    <2> QED BY <1>6, <2>2, <2>3 DEF EraseFinish
<1>7. CASE EraseFail
    <2>1. ObjStep /\ eraser.pc = "failing" /\ eraser' = NoErase
        BY <1>2, <1>7, ObjStill DEF EraseFail
    <2>2. SqlStep /\ UNCHANGED parts
        <3>1. CASE SetJob(eraser.job, "FAILED") BY <1>1, <1>2, <2>1, <3>1, JobSql
        <3>2. CASE UNCHANGED sqlVars BY <1>1, <1>2, <3>2, SqlStill DEF sqlVars
        <3> QED BY <1>7, <3>1, <3>2 DEF EraseFail
    <2> QED BY <1>1, <1>2, <2>1, <2>2, EraserEnd, EraseFrame
<1> QED BY <1>3, <1>4, <1>5, <1>6, <1>7 DEF EraseStep

-----------------------------------------------------------------------------
(* Deaths, reopens and the recovery.                                       *)

Resting == /\ \A w \in Writers : ws[w].pc = "idle"
           /\ ddl.pc = "idle" /\ eraser.pc = "idle"

LEMMA RestFrame ==
    ASSUME LInv, SqlStep, ObjStep, MemShape', WsShape', DdlShape', RecShape', Resting',
           CopyOK(lake)', ActiveReadable', OpenOK'
    PROVE  LInv'
<1>1. Shape' BY DEF Shape, SqlStep, ObjStep
<1>2. MemOK' BY DEF MemOK, Resting
<1>3. WritersOK' BY DEF WritersOK, WriterOK, PublishOK, Publishing, Resting
<1>4. StoreOK' BY DEF StoreOK, Resting
<1> QED BY <1>1, <1>2, <1>3, <1>4 DEF LInv, SqlStep

LEMMA NoRecType ==
    ASSUME SqlShape
    PROVE  /\ NoRec \in [snap : [Parts -> PartRows], todo : SUBSET TxnIds, published : BOOLEAN]
           /\ NoRec.published = FALSE /\ NoRec.todo = {}
<1>1. [p \in Parts |-> NoPart] \in [Parts -> PartRows] BY PartRowFacts
<1> QED BY <1>1 DEF NoRec

LEMMA CrashLInv ==
    ASSUME LInv, Crash, budget' = budget
    PROVE  LInv'
<1>1. /\ mode' = "down" /\ reg' = {} /\ ws' = [w \in Writers |-> Idle] /\ crashes < budget.crashes
      /\ crashes' = crashes + 1 /\ ddl' = NoDdl /\ eraser' = NoErase /\ rec' = NoRec
      /\ UNCHANGED <<sqlVars, objVars, lake, view, histVars, faults, drops, truncated, reopens>>
    BY DEF Crash
<1>2. SqlShape /\ ObjShape /\ MemShape /\ DdlShape /\ SqlOK /\ RecShape BY SideFacts
<1>3. SqlStep /\ ObjStep BY <1>1, <1>2, SqlStill, ObjStill
<1>4. MemShape' BY <1>1, <1>2 DEF MemShape, histVars
<1>5. /\ ddl' \in DdlRecs /\ ddl'.pc = "idle" /\ eraser'.pc = "idle"
      /\ eraser' \in [pc : {"idle", "claimed", "erased", "purged", "failing"}, job : Parts]
    BY <1>1, <1>2, DdlEnd, EraserEnd
<1>6. DdlShape' BY <1>1, <1>2, <1>5 DEF DdlShape
<1>7. RecShape' /\ rec'.published = FALSE
    <2>1. budget.crashes \in Nat BY <1>2, StoreAssumption DEF SqlShape, Limits
    <2>2. crashes' \in 0..budget.crashes BY <1>1, <1>2, <2>1 DEF RecShape
    <2> QED BY <1>1, <1>2, <2>2, NoRecType DEF RecShape
<1>8. Idle \in WriterRecs /\ Idle.pc = "idle" BY <1>2, IdleType
<1>9. WsShape' /\ Resting' BY <1>1, <1>5, <1>8 DEF WsShape, Resting
<1>10. CopyOK(lake)' BY <1>1, <1>3, LakeStays
<1>11. ActiveReadable' BY <1>1, <1>3, ReadableStays DEF sqlVars
<1>12. OpenOK' BY <1>1, <1>7 DEF OpenOK
<1> QED BY <1>3, <1>4, <1>6, <1>7, <1>9, <1>10, <1>11, <1>12, RestFrame

LEMMA ReopenLInv ==
    ASSUME LInv, Reopen, budget' = budget
    PROVE  LInv'
<1>1. /\ mode = "up" /\ mode' = "down" /\ reopens < budget.reopens /\ reopens' = reopens + 1
      /\ Resting
      /\ UNCHANGED <<sqlVars, objVars, reg, lake, view, ws, histVars, faults, ddlVars,
                     eraser, rec, crashes>>
    BY DEF Reopen, insertVars, Resting
<1>2. SqlShape /\ ObjShape /\ MemShape /\ DdlShape /\ SqlOK /\ RecShape /\ WsShape
    BY SideFacts DEF LInv, Shape
<1>3. SqlStep /\ ObjStep BY <1>1, <1>2, SqlStill, ObjStill
<1>4. MemShape' BY <1>1, <1>2 DEF MemShape, histVars
<1>5. DdlShape' /\ WsShape' /\ Resting' BY <1>1, <1>2 DEF DdlShape, WsShape, ddlVars, Resting
<1>6. RecShape'
    <2>1. budget.reopens \in Nat BY <1>2, StoreAssumption DEF SqlShape, Limits
    <2>2. reopens' \in 0..budget.reopens BY <1>1, <1>2, <2>1 DEF RecShape
    <2> QED BY <1>1, <1>2, <2>2 DEF RecShape
<1>7. CopyOK(lake)' BY <1>1, <1>3, LakeStays
<1>8. ActiveReadable' BY <1>1, <1>3, ReadableStays DEF sqlVars
<1>9. OpenOK' BY <1>1 DEF OpenOK, LInv
<1> QED BY <1>3, <1>4, <1>5, <1>6, <1>7, <1>8, <1>9, RestFrame

\* What holds while the server is not up.
LEMMA RestFacts ==
    ASSUME LInv, mode # "up"
    PROVE  /\ SqlShape /\ ObjShape /\ MemShape /\ DdlShape /\ SqlOK /\ RecShape /\ WsShape
           /\ Resting /\ OpenOK
BY DEF LInv, Shape, MemOK, Resting

LEMMA RestStays ==
    ASSUME LInv, mode # "up", UNCHANGED <<ws, ddlVars, eraser, budget>>
    PROVE  DdlShape' /\ WsShape' /\ Resting'
BY RestFacts DEF ddlVars, DdlShape, WsShape, Resting

\* The open fails: what recovery knew is gone.
LEMMA OpenFailsOK ==
    ASSUME LInv, OpenFails, UNCHANGED <<crashes, reopens, budget>>
    PROVE  OpenOK' /\ RecShape' /\ mode' = "down"
<1>1. rec' = NoRec /\ mode' = "down" /\ SqlShape /\ RecShape BY SideFacts DEF OpenFails
<1> QED BY <1>1, NoRecType DEF OpenOK, RecShape

LEMMA StartLInv ==
    ASSUME LInv, Start, budget' = budget
    PROVE  LInv'
<1>1. /\ mode = "down" /\ mode' = "opening" /\ parts' = DropCreating(parts, Parts)
      /\ txns' = [i \in TxnIds |-> IF txns[i].state = "PREPARED"
                                   THEN [txns[i] EXCEPT !.state = "ABORTED"] ELSE txns[i]]
      /\ rec' = [snap |-> parts', published |-> FALSE,
                 todo |-> {i \in TxnIds : txns[i].state = "WRITTEN"}]
      /\ UNCHANGED <<nextTxn, nextPart, jobs, objVars, reg, lake, view, ws, histVars, faults,
                     ddlVars, eraser, crashes, reopens>>
    BY DEF Start, insertVars
<1>2. SqlShape /\ ObjShape /\ MemShape /\ SqlOK /\ RecShape BY <1>1, RestFacts
<1>3. \A i \in TxnIds : /\ [txns[i] EXCEPT !.state = "ABORTED"] \in TxnRows
                        /\ [txns[i] EXCEPT !.state = "ABORTED"].state = "ABORTED"
                        /\ [txns[i] EXCEPT !.state = "ABORTED"].part = txns[i].part
                        /\ [txns[i] EXCEPT !.state = "ABORTED"].commit = txns[i].commit
                        /\ txns[i] \in TxnRows
    BY <1>2 DEF SqlShape, TxnRows
<1>4. /\ txns' \in [TxnIds -> TxnRows]
      /\ \A i \in TxnIds : /\ txns'[i].part = txns[i].part /\ txns'[i].commit = txns[i].commit
                           /\ txns'[i].state # "NONE" => txns[i].state # "NONE"
                           /\ txns'[i].state # "PREPARED"
                           /\ txns'[i].state = "WRITTEN" <=> txns[i].state = "WRITTEN"
    BY <1>1, <1>3
<1>5. parts' \in [Parts -> PartRows] BY <1>1, <1>2, PartRowFacts
<1>6. \A p \in Parts : \/ parts'[p] = parts[p]
                       \/ parts'[p] = NoPart /\ parts[p].state \in {"CREATING", "RETIRED"}
    BY <1>1 DEF DropCreating
<1>7. /\ SqlStep /\ ActiveParts(parts') = ActiveParts(parts)
      /\ \A p \in ActiveParts(parts) : parts'[p] = parts[p]
    BY <1>1, <1>2, <1>4, <1>5, <1>6, ForgetSql
<1>8. ObjStep BY <1>1, <1>2, ObjStill
<1>9. MemShape' BY <1>1, <1>2 DEF MemShape, histVars
<1>10. CopyOK(lake)' BY <1>1, <1>7, LakeStays
<1>11. ActiveReadable' BY <1>7, <1>8, ReadableStays
<1>12. /\ rec'.snap = parts' /\ rec'.published = FALSE
       /\ rec'.todo = {i \in TxnIds : txns[i].state = "WRITTEN"}
       /\ rec' \in [snap : [Parts -> PartRows], todo : SUBSET TxnIds, published : BOOLEAN]
    BY <1>1, <1>5
<1>13. RecShape' BY <1>1, <1>2, <1>12 DEF RecShape
<1>14. OpenOK'
    <2>1. CopyOK(rec.snap)'
        <3>1. SqlShape' /\ SqlOK' BY <1>7 DEF SqlStep
        <3>2. nextPart' \in Nat /\ \A p \in Parts : p \in Nat BY <1>1, <1>2, Bounds DEF Parts
        <3>3. \A p \in Parts : parts'[p].state = "ACTIVE" => Opened(p)'
            BY <3>1, <3>2 DEF Opened, SqlOK
        <3> QED BY <1>12, <3>1, <3>3 DEF CopyOK, SqlOK
    <2>2. \A i \in InflightTxns' : i \in rec'.todo BY <1>4, <1>12 DEF InflightTxns
    <2>3. \A i \in rec'.todo : txns'[i].state = "WRITTEN" BY <1>4, <1>12
    <2> QED BY <1>12, <2>1, <2>2, <2>3 DEF OpenOK
<1>15. DdlShape' /\ WsShape' /\ Resting' BY <1>1, RestStays
<1> QED BY <1>7, <1>8, <1>9, <1>10, <1>11, <1>13, <1>14, <1>15, RestFrame

LEMMA ReplayPublishLInv ==
    ASSUME LInv, ReplayPublish, budget' = budget
    PROVE  LInv'
<1> DEFINE i == Min(rec.todo)
           x == txns[i]
           out == [t \in Tablets |-> IF x.part \in reg
                      THEN publish_one_tablet(i, x.part, x.base, x.commit, t) ELSE Failed]
<1>1. /\ mode = "opening" /\ rec.todo # {} /\ ~rec.published
      /\ UNCHANGED <<sqlVars, reg, lake, view, ws, histVars, ddlVars, eraser, crashes, reopens>>
    BY DEF ReplayPublish, insertVars
<1>2. SqlShape /\ ObjShape /\ MemShape /\ SqlOK /\ RecShape /\ OpenOK BY <1>1, RestFacts
<1>3. i \in rec.todo /\ i \in TxnIds BY <1>1, <1>2, MinIsMember DEF RecShape
<1>4. x.part \in Parts /\ x.base \in Versions /\ x.commit \in Versions
    BY <1>2, <1>3 DEF SqlShape, TxnRows
<1>5. /\ out \in [Tablets -> Outputs]
      /\ \A t \in Tablets : out[t].kind = "published" => bundle[x.part][x.commit] # NoMeta
    <2>1. Failed \in Outputs /\ Failed.kind # "published" BY DEF Failed, Outputs
    <2>2. \A t \in Tablets :
             /\ publish_one_tablet(i, x.part, x.base, x.commit, t) \in Outputs
             /\ publish_one_tablet(i, x.part, x.base, x.commit, t).kind = "published"
                   => bundle[x.part][x.commit] # NoMeta
        BY <1>2, <1>3, <1>4, PublishOne
    <2> QED BY <2>1, <2>2
<1>6. SqlStep BY <1>1, <1>2, SqlStill
<1>7. DdlShape' /\ WsShape' /\ Resting' BY <1>1, RestStays
<1>8. CopyOK(lake)' BY <1>1, <1>6, LakeStays
<1>9. ASSUME mode' \in {"opening", "down"}, UNCHANGED faults \/ ObjFault PROVE MemShape'
    <2>1. faults' \in [obj : 0..budget'.obj, sql : 0..budget'.sql] BY <1>2, <1>9, FaultType
    <2> QED BY <1>1, <1>2, <1>9, <2>1 DEF MemShape, histVars
<1>10. ASSUME ObjStep PROVE ActiveReadable' BY <1>1, <1>10, ReadableStays DEF sqlVars
<1>11. CASE ObjFault /\ OpenFails /\ UNCHANGED objVars
    <2>1. ObjStep BY <1>2, <1>11, ObjStill
    <2>2. OpenOK' /\ RecShape' /\ mode' = "down" BY <1>1, <1>11, OpenFailsOK
    <2> QED BY <1>6, <1>7, <1>8, <1>9, <1>10, <1>11, <2>1, <2>2, RestFrame
<1>12. CASE /\ bundle' = BundleAfter(x.part, x.base, x.commit, out, x.part \in reg)
            /\ logs' = LogsAfterCleanup(i, PersistTablets(out))
            /\ IF FailedTablets(out) = {}
               THEN rec' = [rec EXCEPT !.published = TRUE] /\ UNCHANGED mode
               ELSE OpenFails
            /\ UNCHANGED faults
    <2> HIDE DEF out, x, i
    <2>1. /\ bundle' \in [Parts -> [Versions -> Metas \cup {NoMeta}]]
          /\ \A q \in Parts, v \in Versions : bundle[q][v] # NoMeta => bundle'[q][v] # NoMeta
          /\ PersistTablets(out) # {} => bundle'[x.part][x.commit] # NoMeta
        BY <1>2, <1>4, <1>5, <1>12, BundlePublished
    <2>2. logs' \in [TxnIds -> [Tablets -> {"none", "rows", "empty"}]]
        BY <1>2, <1>3, <1>12, CleanupType
    <2>3. ObjStep BY <2>1, <2>2 DEF ObjStep, ObjShape
    <2>4. OpenOK' /\ RecShape' /\ mode' \in {"opening", "down"}
        <3>1. CASE OpenFails BY <1>1, <3>1, OpenFailsOK
        <3>2. CASE FailedTablets(out) = {} /\ rec' = [rec EXCEPT !.published = TRUE] /\ UNCHANGED mode
            <4>1. /\ rec'.published = TRUE /\ rec'.todo = rec.todo /\ rec'.snap = rec.snap
                  /\ rec' \in [snap : [Parts -> PartRows], todo : SUBSET TxnIds, published : BOOLEAN]
                BY <1>2, <3>2 DEF RecShape
            <4>2. RecShape' BY <1>1, <1>2, <4>1 DEF RecShape
            <4>3. bundle'[x.part][x.commit] # NoMeta
                <5>1. CASE PersistTablets(out) # {} BY <2>1, <5>1
                <5>2. CASE PersistTablets(out) = {}
                    <6>1. PICK t \in Tablets : TRUE BY StoreAssumption
                    <6>2. out[t].kind = "published"
                        BY <1>5, <3>2, <5>2 DEF FailedTablets, PersistTablets, Outputs
                    <6> QED BY <1>4, <1>5, <2>1, <6>2
                <5> QED BY <5>1, <5>2
            <4>4. UNCHANGED <<txns, nextTxn, parts, nextPart, jobs>> BY <1>1 DEF sqlVars
            <4>5. CopyOK(rec.snap)' BY <1>1, <1>2, <4>1, <4>4 DEF OpenOK, CopyOK, Opened
            <4>6. (Kept(txns[Min(rec.todo)].part, txns[Min(rec.todo)].commit))'
                BY <4>1, <4>3, <4>4 DEF Kept, x, i
            <4> QED BY <1>1, <1>2, <3>2, <4>1, <4>2, <4>4, <4>5, <4>6 DEF OpenOK, InflightTxns
        <3> QED BY <1>12, <3>1, <3>2
    <2> QED BY <1>6, <1>7, <1>8, <1>9, <1>10, <1>12, <2>3, <2>4, RestFrame
<1> QED BY <1>11, <1>12 DEF ReplayPublish

LEMMA MaxOfTwo ==
    ASSUME NEW a \in Nat, NEW b \in Nat
    PROVE  Max({a, b}) \in {a, b}
<1>1. \E z \in {a, b} : \A y \in {a, b} : z >= y
    <2>1. CASE a >= b BY <2>1
    <2>2. CASE b >= a BY <2>2
    <2> QED BY <2>1, <2>2
<1> QED BY <1>1 DEF Max

LEMMA ReplayVisibleLInv ==
    ASSUME LInv, ReplayVisible, budget' = budget
    PROVE  LInv'
<1> DEFINE i == Min(rec.todo)
           q == txns[i].part
           c == txns[i].commit
<1>1. /\ mode = "opening" /\ rec.published /\ (UNCHANGED faults \/ SqlFault)
      /\ UNCHANGED <<objVars, reg, lake, view, ws, histVars, ddlVars, eraser, crashes, reopens>>
    BY DEF ReplayVisible, insertVars
<1>2. SqlShape /\ ObjShape /\ MemShape /\ SqlOK /\ RecShape /\ OpenOK BY <1>1, RestFacts
<1>3. i \in rec.todo /\ i \in TxnIds /\ Kept(q, c)
    BY <1>1, <1>2, MinIsMember DEF RecShape, OpenOK
<1>4. ObjStep BY <1>1, <1>2, ObjStill
<1>5. DdlShape' /\ WsShape' /\ Resting' BY <1>1, RestStays
<1>6. ASSUME mode' \in {"opening", "down"} PROVE MemShape'
    <2>1. faults' \in [obj : 0..budget'.obj, sql : 0..budget'.sql] BY <1>1, <1>2, FaultType
    <2> QED BY <1>1, <1>2, <1>6, <2>1 DEF MemShape, histVars
<1>7. CASE OpenFails /\ UNCHANGED sqlVars
    <2>1. SqlStep BY <1>2, <1>7, SqlStill
    <2>2. CopyOK(lake)' BY <1>1, <2>1, LakeStays
    <2>3. OpenOK' /\ RecShape' /\ mode' = "down" BY <1>1, <1>7, OpenFailsOK
    <2>4. ActiveReadable' BY <1>4, <1>7, ReadableStays DEF sqlVars
    <2> QED BY <1>4, <1>5, <1>6, <2>1, <2>2, <2>3, <2>4, RestFrame
<1>8. CASE /\ mark_txn_visible(i)
           /\ rec' = [rec EXCEPT !.todo = @ \ {i}, !.published = FALSE,
                                 !.snap[q].visible = Max({@, c})]
           /\ UNCHANGED mode
    <2>1. /\ SqlStep /\ UNCHANGED <<nextTxn, nextPart, jobs>> /\ i < nextTxn
          /\ q \in Parts /\ c \in Versions /\ txns'[i].state = "VISIBLE"
          /\ \A j \in TxnIds \ {i} : txns'[j] = txns[j]
          /\ \A p \in Parts : p # q => parts'[p] = parts[p]
          /\ parts'[q].visible = c /\ parts'[q].state = parts[q].state
        BY <1>2, <1>3, <1>8, VisibleSql
    <2>2. CopyOK(lake)' BY <1>1, <2>1, LakeStays
    <2>3. c <= nextTxn BY <1>2, <1>3, <2>1 DEF SqlOK
    <2> HIDE DEF q, c, i
    <2>4. ActiveReadable'
        <3>1. \A p \in ActiveParts(parts') :
                 \/ p \in ActiveParts(parts) /\ parts'[p].visible = parts[p].visible
                 \/ bundle'[p][parts'[p].visible] # NoMeta
            <4> TAKE p \in ActiveParts(parts')
            <4>1. p \in ActiveParts(parts) /\ jobs[p] = "NONE"
                BY <1>2, <2>1 DEF ActiveParts, SqlOK
            <4>2. CASE p = q BY <1>1, <1>3, <2>1, <4>1, <4>2 DEF Kept, objVars
            <4>3. CASE p # q BY <2>1, <4>1, <4>3 DEF ActiveParts
            <4> QED BY <4>2, <4>3
        <3> QED BY <1>4, <3>1, ReadableStays
    <2>5. rec.snap \in [Parts -> PartRows] /\ rec.todo \in SUBSET TxnIds BY <1>2 DEF RecShape
    <2>6. CopyOK(rec.snap) BY <1>1, <1>2 DEF OpenOK
    <2> DEFINE m == Max({rec.snap[q].visible, c})
               s == [rec.snap EXCEPT ![q].visible = m]
    <2>7. m \in Versions /\ m <= nextTxn
        <3>1. /\ rec.snap[q].visible \in Versions /\ rec.snap[q].visible <= nextTxn
              /\ \A v \in Versions : v \in Nat
            BY <2>1, <2>5, <2>6 DEF PartRows, CopyOK, Versions
        <3>2. m \in {rec.snap[q].visible, c} BY <2>1, <3>1, MaxOfTwo
        <3> QED BY <2>1, <2>3, <3>1, <3>2
    <2>8. rec' = [rec EXCEPT !.todo = rec.todo \ {i}, !.published = FALSE, !.snap = s]
        BY <1>2, <1>8 DEF RecShape
    <2> HIDE DEF m
    <2>9. /\ [rec.snap[q] EXCEPT !.visible = m] \in PartRows
          /\ [rec.snap[q] EXCEPT !.visible = m].visible = m
          /\ [rec.snap[q] EXCEPT !.visible = m].state = rec.snap[q].state
        BY <2>1, <2>5, <2>7 DEF PartRows
    <2>10. /\ s \in [Parts -> PartRows] /\ s[q].visible = m /\ s[q].state = rec.snap[q].state
           /\ \A p \in Parts : p # q => s[p] = rec.snap[p]
        BY <2>1, <2>5, <2>9
    <2> HIDE DEF s
    <2>11. /\ rec'.published = FALSE /\ rec'.todo = rec.todo \ {i} /\ rec'.snap = s
           /\ rec' \in [snap : [Parts -> PartRows], todo : SUBSET TxnIds, published : BOOLEAN]
        BY <1>2, <2>8, <2>10 DEF RecShape
    <2>12. RecShape' BY <1>1, <1>2, <2>11 DEF RecShape
    <2>13. CopyOK(s)
        <3>1. ActiveParts(s) = ActiveParts(rec.snap) BY <2>10 DEF ActiveParts
        <3>2. \A p \in Parts : s[p].visible <= nextTxn /\ s[p].state = rec.snap[p].state
            BY <2>6, <2>7, <2>10 DEF CopyOK
        <3> QED BY <2>6, <3>1, <3>2 DEF CopyOK
    <2>14. CopyOK(rec.snap)'
        <3>1. \A p \in Parts : s[p].state = "ACTIVE" => Opened(p)'
            BY <2>1, <2>13 DEF CopyOK, SqlStep, Grows
        <3> QED BY <2>1, <2>11, <2>13, <3>1 DEF CopyOK
    <2>15. OpenOK'
        <3>1. \A j \in InflightTxns' : j \in rec'.todo
            BY <1>1, <1>2, <1>3, <2>1, <2>11 DEF InflightTxns, OpenOK
        <3>2. \A j \in rec'.todo : txns'[j].state = "WRITTEN"
            BY <1>1, <1>2, <2>1, <2>5, <2>11 DEF OpenOK
        <3> QED BY <2>11, <2>14, <3>1, <3>2 DEF OpenOK
    <2> QED BY <1>1, <1>4, <1>5, <1>6, <1>8, <2>1, <2>2, <2>4, <2>12, <2>15, RestFrame
<1> QED BY <1>7, <1>8 DEF ReplayVisible

LEMMA FinishOpenLInv ==
    ASSUME LInv, FinishOpen, budget' = budget
    PROVE  LInv'
<1> DEFINE v == ViewOf(rec.snap)
<1>1. /\ mode = "opening" /\ rec.todo = {}
      /\ UNCHANGED <<sqlVars, objVars, ws, histVars, faults, ddlVars, eraser, crashes, reopens>>
    BY DEF FinishOpen, insertVars
<1>2. SqlShape /\ ObjShape /\ MemShape /\ SqlOK /\ RecShape /\ OpenOK BY <1>1, RestFacts
<1>3. SqlStep /\ ObjStep BY <1>1, <1>2, SqlStill, ObjStill
<1>4. DdlShape' /\ WsShape' /\ Resting' BY <1>1, RestStays
<1>5. ActiveReadable' BY <1>1, <1>3, ReadableStays DEF sqlVars
<1>6. CASE OpenFails /\ UNCHANGED <<reg, lake, view>>
    <2>1. OpenOK' /\ RecShape' /\ mode' = "down" BY <1>1, <1>6, OpenFailsOK
    <2>2. CopyOK(lake)' BY <1>3, <1>6, LakeStays
    <2>3. MemShape' BY <1>1, <1>2, <1>6, <2>1 DEF MemShape, histVars
    <2> QED BY <1>3, <1>4, <1>5, <2>1, <2>2, <2>3, RestFrame
<1>7. CASE /\ lake' = rec.snap /\ view' = v /\ reg' = reg \cup {v.part}
           /\ mode' = "up" /\ rec' = NoRec
    <2>1. rec.snap \in [Parts -> PartRows] /\ CopyOK(rec.snap) BY <1>1, <1>2 DEF RecShape, OpenOK
    <2>2. v \in Views /\ v.part \in Parts BY <2>1, ViewFacts DEF Views, ViewOf
    <2>3. MemShape' BY <1>1, <1>2, <1>7, <2>1, <2>2 DEF MemShape, histVars
    <2>4. UNCHANGED <<nextTxn, parts, nextPart>> BY <1>1 DEF sqlVars
    <2>5. CopyOK(lake)' BY <1>7, <2>1, <2>4 DEF CopyOK, Opened
    <2>6. RecShape' /\ OpenOK' BY <1>1, <1>2, <1>7, NoRecType DEF RecShape, OpenOK
    <2> QED BY <1>3, <1>4, <1>5, <2>3, <2>5, <2>6, RestFrame
<1> QED BY <1>6, <1>7 DEF FinishOpen

-----------------------------------------------------------------------------
(* The theorems.                                                           *)

LEMMA InitLInv == Init => LInv
<1> SUFFICES ASSUME Init PROVE LInv
    OBVIOUS
<1>1. StoreInit /\ mode = "up" /\ reg = {1} /\ lake = parts
      /\ view = [part |-> 1, version |-> 1] /\ ws = [w \in Writers |-> Idle]
      /\ routed = [i \in TxnIds |-> {}] /\ acked = {} /\ truncated = {}
      /\ faults = [obj |-> 0, sql |-> 0] /\ ddl = NoDdl /\ drops = 0
      /\ eraser = NoErase /\ rec = NoRec /\ crashes = 0 /\ reopens = 0
    BY DEF Init
<1>2. /\ budget \in Budgets /\ \A k \in Limits : budget[k] \in Nat
      /\ budget.txns \in Nat /\ budget.parts \in Nat /\ budget.parts >= 1
      /\ budget.obj \in Nat /\ budget.sql \in Nat /\ budget.drops \in Nat
      /\ budget.crashes \in Nat /\ budget.reopens \in Nat
    BY <1>1, StoreAssumption DEF StoreInit, Limits
<1>3. /\ MaxTxns \in Nat /\ MaxTxns >= 1 /\ MaxParts \in Nat /\ MaxParts >= 1
      /\ 1 \in Parts /\ 1 \in Versions /\ 2 \in Versions /\ 1 \in TxnIds
    BY StoreAssumption DEF Parts, Versions, TxnIds
<1>4. /\ NoPart \in PartRows /\ NoPart.state = "NONE" /\ NoPart.visible = 1
      /\ [NoPart EXCEPT !.state = "ACTIVE"] \in PartRows
      /\ [NoPart EXCEPT !.state = "ACTIVE"].state = "ACTIVE"
      /\ [NoPart EXCEPT !.state = "ACTIVE"].visible = 1
    BY <1>3 DEF NoPart, PartRows
<1>5. NoTxn \in TxnRows /\ NoTxn.state = "NONE" BY <1>3 DEF NoTxn, TxnRows
<1>6. /\ parts \in [Parts -> PartRows] /\ parts[1].state = "ACTIVE" /\ parts[1].visible = 1
      /\ \A p \in Parts : p # 1 => parts[p] = NoPart
    BY <1>1, <1>3, <1>4 DEF StoreInit
<1>7. /\ nextTxn = 1 /\ nextPart = 2 /\ jobs = [p \in Parts |-> "NONE"]
      /\ txns \in [TxnIds -> TxnRows] /\ \A i \in TxnIds : txns[i].state = "NONE"
    BY <1>1, <1>5 DEF StoreInit
<1>8. SqlShape BY <1>2, <1>6, <1>7 DEF SqlShape
<1>9. EmptyMeta \in Metas BY DEF EmptyMeta, Metas
<1>10. ObjShape /\ bundle[1][1] # NoMeta
    <2>1. EmptyMeta # NoMeta BY <1>9, MetaIsThere
    <2> QED BY <1>1, <1>3, <1>9, <2>1 DEF StoreInit, ObjShape
<1>11. MemShape BY <1>1, <1>2, <1>3, <1>6 DEF MemShape, Views
<1>12. WsShape /\ \A w \in Writers : ws[w].pc = "idle" BY <1>1, <1>8, IdleType DEF WsShape
<1>13. [p \in Parts |-> NoPart] \in [Parts -> PartRows] BY <1>4
<1>14. DdlShape /\ ddl.pc = "idle" /\ eraser.pc = "idle"
    BY <1>1, <1>2, <1>3, <1>13 DEF DdlShape, DdlRecs, NoDdl, NoErase
<1>15. RecShape /\ rec.published = FALSE
    <2>1. crashes \in 0..budget.crashes /\ reopens \in 0..budget.reopens BY <1>1, <1>2
    <2> QED BY <1>1, <1>8, <2>1, NoRecType DEF RecShape
<1>16. SqlOK
    <2>1. \A i \in TxnIds : i \in Nat /\ i >= 1 BY DEF TxnIds
    <2>2. ActiveParts(parts) # {} BY <1>3, <1>6 DEF ActiveParts
    <2>3. \A p \in Parts : /\ p >= nextPart => parts[p].state = "NONE"
                           /\ parts[p].visible <= nextTxn /\ parts[p].state # "CREATING"
        BY <1>4, <1>6, <1>7
    <2> QED BY <1>7, <2>1, <2>2, <2>3 DEF SqlOK
<1>17. MemOK BY <1>1, <1>8, <1>14, <1>16, PartsCopy DEF MemOK
<1>18. WritersOK BY <1>12 DEF WritersOK, WriterOK, PublishOK, Publishing
<1>19. StoreOK
    <2>1. \A p \in ActiveParts(parts) : p = 1 BY <1>4, <1>6 DEF ActiveParts
    <2> QED BY <1>6, <1>10, <1>14, <2>1 DEF StoreOK, ActiveReadable, ActiveMeta
<1>20. OpenOK BY <1>1, <1>15 DEF OpenOK
<1> QED BY <1>8, <1>10, <1>11, <1>12, <1>14, <1>15, <1>16, <1>17, <1>18, <1>19, <1>20
        DEF LInv, Shape

LEMMA StutterLInv ==
    ASSUME LInv, UNCHANGED vars
    PROVE  LInv'
<1>1. /\ UNCHANGED <<txns, nextTxn, parts, nextPart, jobs, logs, bundle, mode, reg, lake, view>>
      /\ UNCHANGED <<ws, routed, acked, faults, ddl, drops, truncated, eraser>>
      /\ UNCHANGED <<rec, crashes, reopens, budget>>
    BY DEF vars, sqlVars, objVars, memVars, insertVars, histVars, ddlVars, recVars
<1>2. Shape'
    BY <1>1 DEF LInv, Shape, SqlShape, ObjShape, MemShape, WsShape, DdlShape, RecShape
<1>3. SqlOK' BY <1>1 DEF LInv, SqlOK, Opened, ActiveParts
<1>4. MemOK' BY <1>1 DEF LInv, MemOK, CopyOK, Opened
<1>5. WritersOK'
    BY <1>1 DEF LInv, WritersOK, WriterOK, PublishOK, Publishing, Kept, Commit, Opened
<1>6. StoreOK' BY <1>1 DEF LInv, StoreOK, ActiveReadable, ActiveMeta
<1>7. OpenOK' BY <1>1 DEF LInv, OpenOK, CopyOK, Opened, Kept, InflightTxns
<1> QED BY <1>2, <1>3, <1>4, <1>5, <1>6, <1>7 DEF LInv

LEMMA NextLInv ==
    ASSUME LInv, [Next]_vars
    PROVE  LInv'
<1>1. ASSUME NEW w \in Writers, Plan(w) \/ InsertStep(w), UNCHANGED <<ddlVars, eraser, recVars>>
      PROVE  LInv'
    BY <1>1, InsertLInv
<1>2. CASE (TruncStage \/ DropReload \/ DdlStep) /\ UNCHANGED recVars BY <1>2, DdlLInv
<1>3. CASE ((\E p \in Parts : EraseClaim(p)) \/ EraseStep) /\ UNCHANGED recVars
    BY <1>3, EraseLInv
<1>4. CASE (Crash \/ Reopen \/ OpenStep) /\ UNCHANGED budget
    BY <1>4, CrashLInv, ReopenLInv, StartLInv, ReplayPublishLInv, ReplayVisibleLInv, FinishOpenLInv
    DEF OpenStep
<1>5. CASE UNCHANGED vars BY <1>5, StutterLInv
<1> QED BY <1>1, <1>2, <1>3, <1>4, <1>5 DEF Next

\* The rows, the objects, the catalogs and the statements in progress satisfy LInv at
\* every step of sessions, DDL statements, the erase worker, failures and recoveries.
THEOREM LakeInvariance == Spec => []LInv
<1>1. Init => LInv BY InitLInv
<1>2. LInv /\ [Next]_vars => LInv' BY NextLInv
<1> QED BY <1>1, <1>2, PTL DEF Spec

\* Every row and object of the managed lake is well formed (managed/store.rs): ids and
\* versions stay in range although mark_txn_visible and prepare_txn do not check them.
THEOREM LakeTypeCorrect == Spec => []TypeOK
<1>1. LInv => TypeOK
    <2> SUFFICES ASSUME LInv PROVE TypeOK
        OBVIOUS
    <2>1. StoreTypeOK BY DEF LInv, Shape, SqlShape, ObjShape, StoreTypeOK
    <2>2. InsertTypeOK
        <3>1. \A w \in Writers : ws[w] \in WriterRecs BY DEF LInv, Shape, WsShape
        <3> QED BY <3>1 DEF LInv, Shape, MemShape, InsertTypeOK, WriterRecs
    <2>3. DdlTypeOK BY DEF LInv, Shape, DdlShape, DdlRecs, DdlTypeOK
    <2> QED BY <2>1, <2>2, <2>3 DEF TypeOK, LInv, Shape, RecShape
<1> QED BY <1>1, LakeInvariance, PTL

\* Whatever sessions, TRUNCATE, the erase worker (managed/erase.rs) and a recovery
\* interleave, and whenever the process dies, the metadata of every active partition is
\* in the object store at the visible version that SQLite names.
THEOREM ActiveIsReadable == Spec => []ActiveReadable
<1>1. LInv => ActiveReadable BY DEF LInv, StoreOK
<1> QED BY <1>1, LakeInvariance, PTL

\* An open that succeeds (reconcile_on_open, managed/catalog.rs) has left no PREPARED or
\* WRITTEN transaction behind.
THEOREM OpenIsSettled == Spec => OpenSettles
<1>1. LInv /\ [Next]_vars => [mode = "opening" /\ mode' = "up" => InflightTxns = {}]_vars
    <2> SUFFICES ASSUME LInv, Next, mode = "opening", mode' = "up" PROVE InflightTxns = {}
        OBVIOUS
    <2>1. Resting /\ OpenOK BY RestFacts
    <2>2. ASSUME NEW w \in Writers, Plan(w) \/ InsertStep(w) PROVE FALSE
        BY <2>1, <2>2 DEF Resting, Plan, InsertStep, Prepare, Abort, MarkWritten, WriteLog,
           PublishRead, PublishWrite, PublishCleanup, MarkVisible, AdvanceCatalog, RegisterView
    <2>3. CASE TruncStage \/ DropReload \/ DdlStep
        BY <2>1, <2>3 DEF Resting, TruncStage, DropReload, DdlStep, TruncBootstrap, TruncActivate,
           TruncCleanup, TruncRemoveRuntimes, TruncReload, TruncSwap, TruncRegister, DropSwap
    <2>4. CASE (\E p \in Parts : EraseClaim(p)) \/ EraseStep
        BY <2>1, <2>4 DEF Resting, EraseClaim, EraseStep, EraseRoot, ErasePurge, EraseFinish,
           EraseFail
    <2>5. CASE Crash \/ Reopen \/ Start BY <2>5 DEF Crash, Reopen, Start
    <2>6. CASE ReplayPublish BY <2>6 DEF ReplayPublish, OpenFails
    <2>7. CASE ReplayVisible BY <2>7 DEF ReplayVisible, OpenFails
    <2>8. CASE FinishOpen BY <2>1, <2>8 DEF FinishOpen, OpenOK
    <2> QED BY <2>2, <2>3, <2>4, <2>5, <2>6, <2>7, <2>8 DEF Next, OpenStep
<1> QED BY <1>1, LakeInvariance, PTL DEF Spec, OpenSettles
=============================================================================
