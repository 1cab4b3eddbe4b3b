-------------------------- MODULE ManagedCalm_proofs ------------------------
(***************************************************************************)
(* Proofs about ManagedLake under CalmSpec, for any number of sessions,    *)
(* tablets, partitions, transactions, failures, deaths and reopens: when   *)
(* clients keep out of each other's way, transactions are atomic across    *)
(* tablets, acknowledged rows stay, SELECT reads nothing that is not       *)
(* committed, and a version that readers may hold is never rewritten.      *)
(* Without Calm the code does not give these (the run managed_concurrent). *)
(***************************************************************************)
EXTENDS ManagedLake_proofs

-----------------------------------------------------------------------------
(* The inductive invariant, on top of LInv.                                *)

Act(p) == parts[p].state = "ACTIVE"

\* The transactions whose rows a reader may see.
Settled == {i \in TxnIds : i < nextTxn /\ txns[i].state \in {"VISIBLE", "NONE"}}
Clean(p, v) == bundle[p][v] # NoMeta => \A t \in Tablets : bundle[p][v][t] \subseteq Settled

\* The partition that the catalog gives to plans.
Current == ViewOf(lake).part

\* An INSERT whose version readers do not have yet.
Working(w) == ws[w].pc \notin {"idle", "register"}
Owning(w) == ws[w].pc \notin {"idle", "planned"}

\* A version that a SELECT may be reading: nobody is going to write it.
ReaderOK(p, v) ==
    /\ Opened(p) /\ Clean(p, v)
    /\ Act(p) => v <= parts[p].visible
    /\ lake[p].state = "ACTIVE" => v <= lake[p].visible
    /\ \A w \in Writers : Working(w) /\ ws[w].part = p => v <= ws[w].base

Whole(p) ==
    \A i \in TxnIds : txns[i].state = "VISIBLE" /\ txns[i].part = p =>
        \A t \in routed[i] : i \in bundle[p][parts[p].visible][t]

\* Every commit version follows its base, the first version is empty, and the
\* visible version of an active partition holds the VISIBLE transactions and no
\* other.
RowsOK ==
    /\ \A i \in TxnIds : i < nextTxn => txns[i].commit = txns[i].base + 1
    /\ \A i \in TxnIds : i < nextTxn /\ txns[i].state = "NONE" => ~Act(txns[i].part)
    /\ \A i \in TxnIds : i >= nextTxn => \A t \in Tablets : logs[i][t] = "none"
    /\ acked \subseteq Settled
FirstOK == \A p \in Parts : bundle[p][1] # NoMeta => bundle[p][1] = EmptyMeta
VersionsOK == \A p \in Parts : Act(p) => Clean(p, parts[p].visible) /\ Whole(p)
TableOK == RowsOK /\ FirstOK /\ VersionsOK

\* The catalog that plans read is behind SQLite only while its INSERT advances it.
Advancing(p) == \E w \in Writers : ws[w].pc = "visible" /\ ws[w].part = p
CatalogPart(p) ==
    lake[p].state = "ACTIVE" =>
        /\ Clean(p, lake[p].visible)
        /\ \A w \in Writers : Working(w) /\ ws[w].part = p => lake[p].visible <= ws[w].base
        /\ Act(p) => \/ lake[p].visible = parts[p].visible
                     \/ Advancing(p) /\ lake[p].visible <= parts[p].visible
CatalogOK == \A p \in Parts : CatalogPart(p)

\* The copy that a DDL statement is going to swap in, or has swapped in.
SnapOK ==
    /\ ddl.pc \in {"reloaded", "dropping"} =>
          \A p \in Parts : ddl.snap[p].state = "ACTIVE" =>
              Act(p) /\ ddl.snap[p].visible = parts[p].visible
    /\ ddl.pc = "swapped" =>
          \A p \in Parts : ddl.snap[p].state = "ACTIVE" =>
              lake[p].state = "ACTIVE" /\ ReaderOK(p, ddl.snap[p].visible)
OldOK ==
    /\ ddl.pc \in {"staged", "bootstrapped", "activated", "removed", "reloaded"} =>
          ddl.old = Current
    /\ ddl.pc \in {"activated", "removed", "reloaded"} => ~Act(ddl.old)

UpOK == mode = "up" => ReaderOK(view.part, view.version) /\ CatalogOK /\ SnapOK /\ OldOK

\* What an INSERT has reached, by its position.
Proper(w, t) == IF t \in ws[w].rows THEN "rows" ELSE "empty"
NextRows(w, t) ==
    BaseRowsets(ws[w].part, ws[w].base, t) \cup (IF t \in ws[w].rows THEN {ws[w].txn} ELSE {})
Fresh(w, rs) == rs \subseteq Settled \cup {ws[w].txn}

OwnRow(w) ==
    Owning(w) =>
        /\ txns[ws[w].txn].base = ws[w].base /\ routed[ws[w].txn] = ws[w].rows
        /\ IF ws[w].pc \in {"visible", "register"} THEN ws[w].txn \in Settled
                                                   ELSE txns[ws[w].txn].state # "VISIBLE"
Target(w) ==
    Working(w) =>
        /\ Clean(ws[w].part, ws[w].base)
        /\ Act(ws[w].part) =>
              /\ ws[w].part = Current
              /\ parts[ws[w].part].visible = IF ws[w].pc = "visible" THEN Commit(w) ELSE ws[w].base
LogsOK(w) ==
    /\ ws[w].pc = "writing" => \A t \in Tablets : logs[ws[w].txn][t] \in {"none", Proper(w, t)}
    /\ ws[w].pc = "logged" =>
          \/ \A t \in Tablets : logs[ws[w].txn][t] = Proper(w, t)
          \/ /\ ~Act(ws[w].part) /\ bundle[ws[w].part][Commit(w)] = NoMeta
             /\ \A t \in Tablets : logs[ws[w].txn][t] = "none"
OutOK(w) ==
    ws[w].pc = "read" =>
        \A t \in Tablets :
            /\ ws[w].out[t].kind # "published"
            /\ ws[w].out[t].kind = "persist" =>
                  /\ Fresh(w, ws[w].out[t].rows)
                  /\ Act(ws[w].part) => ws[w].out[t].rows = NextRows(w, t)
Written(w) ==
    \/ ws[w].pc \in {"published", "visible"}
    \/ ws[w].pc = "bundled" /\ FailedTablets(ws[w].out) = {}
NewOK(w) ==
    Written(w) =>
        \A t \in Tablets :
            /\ bundle[ws[w].part][Commit(w)] # NoMeta => Fresh(w, bundle[ws[w].part][Commit(w)][t])
            /\ Act(ws[w].part) => bundle[ws[w].part][Commit(w)][t] = NextRows(w, t)
ViewOK(w) == ws[w].pc = "register" => ReaderOK(ws[w].view.part, ws[w].view.version)
Session(w) ==
    OwnRow(w) /\ Target(w) /\ LogsOK(w) /\ OutOK(w) /\ NewOK(w) /\ ViewOK(w)
SessionOK == \A w \in Writers : Session(w)

\* A WRITTEN transaction without its INSERT needs a failed SQLite transaction or
\* a crash, and after a crash the registry is empty until an open succeeded.
LeftOK ==
    faults.sql = 0 /\ (mode = "up" \/ reg # {}) =>
        \A i \in TxnIds : txns[i].state = "WRITTEN" =>
            \E w \in Writers : Owning(w) /\ ws[w].txn = i
RecoverOK ==
    /\ ~rec.published
    /\ mode # "up" /\ reg # {} => reopens # 0
    /\ mode = "opening" => rec.snap = parts

CInv == TableOK /\ UpOK /\ SessionOK /\ LeftOK /\ RecoverOK

-----------------------------------------------------------------------------
(* What most steps leave alone.                                            *)

\* A version that an INSERT may still write.
Unread(p, v) ==
    \E w \in Writers : /\ Working(w) /\ ws[w].pc # "visible"
                       /\ ws[w].part = p /\ ws[w].base < v

\* Metadata changes at versions that nobody reads, or goes with its partition.
StoreMoves ==
    \A p \in Parts, v \in Versions :
        \/ bundle'[p][v] = bundle[p][v]
        \/ ~Act(p) /\ bundle'[p][v] \in {NoMeta, EmptyMeta}
        \/ Unread(p, v)

\* No INSERT starts to work on a version.
WorkersStay ==
    \A u \in Writers : Working(u)' =>
        Working(u) /\ ws'[u].part = ws[u].part /\ ws'[u].base = ws[u].base

\* Partitions that are active were so, at the same version.
ActiveStays == \A p \in Parts : Act(p)' => Act(p) /\ parts'[p].visible = parts[p].visible

SettledGrows == Settled \subseteq Settled'

LEMMA Numbers ==
    ASSUME LInv
    PROVE  /\ nextTxn \in Nat /\ nextPart \in Nat /\ \A i \in TxnIds : i \in Nat
           /\ \A p \in Parts : p \in Nat
           /\ Versions \subseteq Nat /\ 1 \in Versions
           /\ \A i \in TxnIds : txns[i].part \in Parts /\ txns[i].base \in Versions
                                /\ txns[i].commit \in Versions
           /\ \A p \in Parts : parts[p].visible \in Versions /\ lake[p].visible \in Versions
           /\ \A p \in Parts : ddl.snap[p].visible \in Versions
           /\ view.part \in Parts /\ view.version \in Versions
<1>1. SqlShape /\ MemShape /\ DdlShape BY DEF LInv, Shape
<1>2. nextTxn \in Nat /\ nextPart \in Nat /\ 1 \in Versions BY <1>1, Bounds
<1>3. /\ \A i \in TxnIds : txns[i].part \in Parts /\ txns[i].base \in Versions
                           /\ txns[i].commit \in Versions
      /\ \A p \in Parts : parts[p].visible \in Versions /\ lake[p].visible \in Versions
      /\ view.part \in Parts /\ view.version \in Versions
    BY <1>1 DEF SqlShape, MemShape, TxnRows, PartRows, Views
<1>4. \A p \in Parts : ddl.snap[p].visible \in Versions
    BY <1>1 DEF DdlShape, DdlRecs, PartRows
<1> QED BY <1>2, <1>3, <1>4 DEF TxnIds, Parts, Versions

LEMMA SettledStays ==
    ASSUME LInv, SqlStep,
           \A i \in TxnIds : i < nextTxn /\ txns[i].state \in {"VISIBLE", "NONE"} =>
               txns'[i].state \in {"VISIBLE", "NONE"}
    PROVE  SettledGrows
<1>1. nextTxn \in Nat /\ nextTxn' \in Nat /\ nextTxn <= nextTxn' /\ \A i \in TxnIds : i \in Nat
    BY Numbers DEF SqlStep, Grows
<1>2. \A i \in TxnIds : i < nextTxn => i < nextTxn' BY <1>1
<1> QED BY <1>2 DEF SettledGrows, Settled

LEMMA EmptyRows ==
    \A t \in Tablets : EmptyMeta[t] = {}
BY DEF EmptyMeta

LEMMA CleanMoves ==
    ASSUME SettledGrows, StoreMoves, NEW p \in Parts, NEW v \in Versions, Clean(p, v), ~Unread(p, v)
    PROVE  Clean(p, v)'
<1>1. CASE bundle'[p][v] = bundle[p][v] BY <1>1 DEF Clean, SettledGrows
<1>2. CASE bundle'[p][v] \in {NoMeta, EmptyMeta} BY <1>2, EmptyRows DEF Clean
<1> QED BY <1>1, <1>2 DEF StoreMoves

\* The first version stays empty.
LEMMA FirstStays ==
    ASSUME LInv, FirstOK, StoreMoves, \A p \in Parts : ~Unread(p, 1)
    PROVE  FirstOK'
<1> SUFFICES ASSUME NEW p \in Parts, bundle'[p][1] # NoMeta PROVE bundle'[p][1] = EmptyMeta
    BY DEF FirstOK
<1>1. 1 \in Versions BY Numbers
<1> QED BY <1>1 DEF FirstOK, StoreMoves

LEMMA UnreadNumbers ==
    ASSUME LInv, NEW p \in Parts, NEW v \in Versions, Unread(p, v)
    PROVE  /\ v # 1
           /\ \E w \in Writers : Working(w) /\ ws[w].part = p /\ ~(v <= ws[w].base)
<1>1. PICK w \in Writers : Working(w) /\ ws[w].part = p /\ ws[w].base < v BY DEF Unread
<1>2. ws[w].base \in Versions BY WriterFacts
<1>3. ws[w].base \in Nat /\ v \in Nat /\ ws[w].base >= 1 BY <1>2 DEF Versions
<1> QED BY <1>1, <1>3

\* What is visible is not going to be written.
LEMMA VisibleIsRead ==
    ASSUME LInv, SessionOK, NEW p \in Parts, Act(p), NEW v \in Versions, v <= parts[p].visible
    PROVE  ~Unread(p, v)
<1> SUFFICES ASSUME Unread(p, v) PROVE FALSE OBVIOUS
<1>1. PICK w \in Writers : /\ Working(w) /\ ws[w].pc # "visible" /\ ws[w].part = p
                           /\ ws[w].base < v
    BY DEF Unread
<1>2. parts[p].visible = ws[w].base BY <1>1 DEF SessionOK, Session, Target
<1>3. ws[w].base \in Versions BY WriterFacts
<1>4. ws[w].base \in Nat /\ v \in Nat BY <1>3 DEF Versions
<1> QED BY <1>1, <1>2, <1>4

LEMMA ReaderIsRead ==
    ASSUME LInv, NEW p \in Parts, NEW v \in Versions, ReaderOK(p, v)
    PROVE  ~Unread(p, v)
BY UnreadNumbers DEF ReaderOK

\* An active partition that an INSERT does not commit to keeps its rows.
LEMMA VersionStays ==
    ASSUME LInv, VersionsOK, SessionOK, SettledGrows, StoreMoves, NEW p \in Parts,
           Act(p), parts'[p].visible = parts[p].visible,
           \A i \in TxnIds : txns'[i].state = "VISIBLE" /\ txns'[i].part = p =>
               txns[i].state = "VISIBLE" /\ txns[i].part = p /\ routed'[i] = routed[i]
    PROVE  (Clean(p, parts[p].visible) /\ Whole(p))'
<1>1. PICK v \in Versions : v = parts[p].visible BY Numbers
<1>2. v <= parts[p].visible BY <1>1 DEF Versions
<1>3. ~Unread(p, v) BY <1>2, VisibleIsRead
<1>4. bundle'[p][v] = bundle[p][v] BY <1>3 DEF StoreMoves
<1>5. Clean(p, v) /\ Whole(p) BY <1>1 DEF VersionsOK
<1>6. Clean(p, v)' BY <1>3, <1>5, CleanMoves
<1>7. Whole(p)' BY <1>1, <1>4, <1>5 DEF Whole
<1> QED BY <1>1, <1>6, <1>7 DEF Clean

\* A version that readers hold.
LEMMA ReaderStays ==
    ASSUME LInv, NEW p \in Parts, NEW v \in Versions, ReaderOK(p, v), Opened(p)', Clean(p, v)',
           Act(p)' => v <= parts'[p].visible,
           lake'[p].state = "ACTIVE" => v <= lake'[p].visible,
           \A u \in Writers : Working(u)' /\ ws'[u].part = p =>
               \/ v <= ws'[u].base
               \/ Working(u) /\ ws[u].part = p /\ ws'[u].base = ws[u].base
    PROVE  ReaderOK(p, v)'
BY DEF ReaderOK

\* The same, for a step that moves no version.
LEMMA QuietReader ==
    ASSUME LInv, SqlStep, SettledGrows, StoreMoves, WorkersStay, ActiveStays, lake' = lake,
           NEW p \in Parts, NEW v \in Versions, ReaderOK(p, v)
    PROVE  ReaderOK(p, v)'
<1>1. Opened(p)' BY DEF ReaderOK, SqlStep, Grows
<1>2. Clean(p, v)' BY ReaderIsRead, CleanMoves DEF ReaderOK
<1>3. Act(p)' => v <= parts'[p].visible BY DEF ReaderOK, ActiveStays
<1>4. lake'[p].state = "ACTIVE" => v <= lake'[p].visible BY DEF ReaderOK
<1>5. \A u \in Writers : Working(u)' /\ ws'[u].part = p =>
          Working(u) /\ ws[u].part = p /\ ws'[u].base = ws[u].base
    BY DEF WorkersStay
<1> QED BY <1>1, <1>2, <1>3, <1>4, <1>5, ReaderStays

LEMMA CatalogIsRead ==
    ASSUME LInv, CatalogOK, NEW p \in Parts, lake[p].state = "ACTIVE"
    PROVE  ~Unread(p, lake[p].visible)
<1>1. PICK v \in Versions : v = lake[p].visible BY Numbers
<1>2. \A w \in Writers : Working(w) /\ ws[w].part = p => v <= ws[w].base
    BY <1>1 DEF CatalogOK, CatalogPart
<1> QED BY <1>1, <1>2, UnreadNumbers DEF Unread

LEMMA QuietCatalog ==
    ASSUME LInv, SettledGrows, StoreMoves, WorkersStay, ActiveStays, lake' = lake, CatalogOK,
           \A w \in Writers : ws[w].pc = "visible" =>
               ws'[w].pc = "visible" /\ ws'[w].part = ws[w].part
    PROVE  CatalogOK'
<1> SUFFICES ASSUME NEW p \in Parts, lake[p].state = "ACTIVE" PROVE CatalogPart(p)'
    <2>1. \A p \in Parts : lake[p].state # "ACTIVE" => CatalogPart(p)' BY DEF CatalogPart
    <2> QED BY <2>1 DEF CatalogOK
<1>1. PICK v \in Versions : v = lake[p].visible BY Numbers
<1>2. Clean(p, v) /\ ~Unread(p, v) BY <1>1, CatalogIsRead DEF CatalogOK, CatalogPart, Unread
<1>3. Clean(p, v)' BY <1>2, CleanMoves
<1>4. Advancing(p) => Advancing(p)' BY DEF Advancing
<1>5. \A w \in Writers : Working(w)' /\ ws'[w].part = p => lake[p].visible <= ws'[w].base
    BY DEF WorkersStay, CatalogOK, CatalogPart
<1>6. Act(p)' => \/ lake[p].visible = parts'[p].visible
                 \/ Advancing(p)' /\ lake[p].visible <= parts'[p].visible
    BY <1>4 DEF ActiveStays, CatalogOK, CatalogPart
<1> QED BY <1>1, <1>3, <1>5, <1>6 DEF CatalogPart, Clean

LEMMA QuietSnap ==
    ASSUME LInv, SqlStep, SettledGrows, StoreMoves, WorkersStay, ActiveStays, lake' = lake,
           ddl' = ddl, SnapOK, \A p \in Parts : Act(p) => Act(p)'
    PROVE  SnapOK'
<1>1. ddl.pc \in {"reloaded", "dropping"} =>
          \A p \in Parts : ddl.snap[p].state = "ACTIVE" =>
              Act(p)' /\ ddl.snap[p].visible = parts'[p].visible
    BY DEF SnapOK, ActiveStays
<1>2. ASSUME ddl.pc = "swapped", NEW p \in Parts, ddl.snap[p].state = "ACTIVE"
      PROVE  lake'[p].state = "ACTIVE" /\ ReaderOK(p, ddl.snap[p].visible)'
    <2>1. PICK v \in Versions : v = ddl.snap[p].visible BY Numbers
    <2>2. lake[p].state = "ACTIVE" /\ ReaderOK(p, v) BY <1>2, <2>1 DEF SnapOK
    <2>3. ReaderOK(p, v)' BY <2>2, QuietReader
    <2> QED BY <2>1, <2>2, <2>3 DEF ReaderOK, Clean
<1> QED BY <1>1, <1>2 DEF SnapOK

LEMMA QuietOld ==
    ASSUME LInv, ActiveStays, lake' = lake, ddl' = ddl, OldOK
    PROVE  OldOK'
<1>1. Current' = Current BY DEF Current
<1>2. ddl.old \in Parts BY DEF LInv, Shape, DdlShape, DdlRecs
<1> QED BY <1>1, <1>2 DEF OldOK, ActiveStays

LEMMA QuietView ==
    ASSUME LInv, SqlStep, SettledGrows, StoreMoves, WorkersStay, ActiveStays, lake' = lake,
           view' = view, ReaderOK(view.part, view.version)
    PROVE  ReaderOK(view.part, view.version)'
<1>1. PICK p \in Parts, v \in Versions : p = view.part /\ v = view.version BY Numbers
<1>2. ReaderOK(p, v)' BY <1>1, QuietReader
<1> QED BY <1>1, <1>2 DEF ReaderOK, Clean, Act, Opened

\* A step that moves no version leaves the readers alone.
Quiet ==
    /\ SqlStep /\ SettledGrows /\ StoreMoves /\ WorkersStay /\ ActiveStays
    /\ \A p \in Parts : Act(p) => Act(p)'
    /\ \A w \in Writers : ws[w].pc = "visible" => ws'[w].pc = "visible" /\ ws'[w].part = ws[w].part

LEMMA QuietUp ==
    ASSUME LInv, UpOK, Quiet, UNCHANGED <<mode, lake, view, ddl>>
    PROVE  UpOK'
<1>1. CASE mode = "up"
    <2>1. ReaderOK(view.part, view.version)' BY <1>1, QuietView DEF UpOK, Quiet
    <2>2. CatalogOK' BY <1>1, QuietCatalog DEF UpOK, Quiet
    <2>3. SnapOK' BY <1>1, QuietSnap DEF UpOK, Quiet
    <2>4. OldOK' BY <1>1, QuietOld DEF UpOK, Quiet
    <2> QED BY <2>1, <2>2, <2>3, <2>4 DEF UpOK
<1>2. CASE mode # "up" BY <1>2 DEF UpOK
<1> QED BY <1>1, <1>2

VisibleStays ==
    \A i \in TxnIds : txns'[i].state = "VISIBLE" =>
        txns[i].state = "VISIBLE" /\ txns'[i].part = txns[i].part /\ routed'[i] = routed[i]

LEMMA QuietVersions ==
    ASSUME LInv, VersionsOK, SessionOK, SettledGrows, StoreMoves, ActiveStays, VisibleStays
    PROVE  VersionsOK'
<1> SUFFICES ASSUME NEW p \in Parts, Act(p)' PROVE (Clean(p, parts[p].visible) /\ Whole(p))'
    BY DEF VersionsOK
<1>1. Act(p) /\ parts'[p].visible = parts[p].visible BY DEF ActiveStays
<1> QED BY <1>1, VersionStays DEF VisibleStays

\* Rows keep all but their states, which are forgotten only with their partition.
RowsStay ==
    /\ nextTxn' = nextTxn
    /\ \A i \in TxnIds : /\ txns'[i].part = txns[i].part /\ txns'[i].base = txns[i].base
                         /\ txns'[i].commit = txns[i].commit
                         /\ txns'[i].state = "NONE" => txns[i].state = "NONE" \/ ~Act(txns[i].part)
                         /\ i >= nextTxn => \A t \in Tablets : logs'[i][t] \in {"none", logs[i][t]}

LEMMA QuietRows ==
    ASSUME LInv, RowsOK, RowsStay, SettledGrows, acked' = acked,
           \A p \in Parts : Act(p)' => Act(p)
    PROVE  RowsOK'
<1>1. \A i \in TxnIds : txns[i].part \in Parts BY Numbers
<1>2. \A i \in TxnIds : i < nextTxn => txns'[i].commit = txns'[i].base + 1
    BY DEF RowsOK, RowsStay
<1>3. \A i \in TxnIds : i < nextTxn /\ txns'[i].state = "NONE" => ~Act(txns[i].part)'
    <2> SUFFICES ASSUME NEW i \in TxnIds, i < nextTxn, txns'[i].state = "NONE"
                 PROVE  ~(parts'[txns'[i].part].state = "ACTIVE")
        BY DEF Act
    <2>1. PICK p \in Parts : p = txns[i].part /\ p = txns'[i].part BY <1>1 DEF RowsStay
    <2>2. ~Act(p) BY <2>1 DEF RowsOK, RowsStay
    <2>3. ~Act(p)' BY <2>2
    <2> QED BY <2>1, <2>3 DEF Act
<1>4. \A i \in TxnIds : i >= nextTxn => \A t \in Tablets : logs'[i][t] = "none"
    BY DEF RowsOK, RowsStay
<1>5. acked' \subseteq Settled' BY DEF RowsOK, SettledGrows
<1> QED BY <1>2, <1>3, <1>4, <1>5 DEF RowsOK, RowsStay, Act

LEMMA QuietFirst ==
    ASSUME LInv, FirstOK, StoreMoves
    PROVE  FirstOK'
<1>1. 1 \in Versions BY Numbers
<1>2. \A p \in Parts : ~Unread(p, 1) BY <1>1, UnreadNumbers
<1> QED BY <1>2, FirstStays

\* What a count of failures says.
LEMMA FaultCount ==
    ASSUME LInv, UNCHANGED faults \/ ObjFault \/ SqlFault
    PROVE  (faults'.sql = 0 => faults.sql = 0) /\ (SqlFault => faults'.sql # 0)
<1>1. faults \in [obj : 0..budget.obj, sql : 0..budget.sql] /\ budget \in Budgets
    BY DEF LInv, Shape, MemShape, SqlShape
<1>2. budget.obj \in Nat /\ budget.sql \in Nat BY <1>1, StoreAssumption DEF Limits
<1>3. faults.sql \in Nat BY <1>1, <1>2
<1>4. SqlFault => faults'.sql = faults.sql + 1 BY <1>1 DEF SqlFault
<1>5. ObjFault => faults'.sql = faults.sql BY <1>1 DEF ObjFault
<1> QED BY <1>3, <1>4, <1>5

-----------------------------------------------------------------------------
(* INSERT.                                                                 *)

LEMMA OthersIdle ==
    ASSUME Calm, NEW w \in Writers, ws[w].pc # "idle", NEW u \in Writers, u # w
    PROVE  ws[u].pc = "idle"
BY DEF Calm, Busy

LEMMA IdleSession ==
    ASSUME NEW u \in Writers, ws[u].pc = "idle"
    PROVE  Session(u)
BY DEF Session, OwnRow, Owning, Target, Working, LogsOK, OutOK, NewOK, Written, ViewOK

\* The INSERT that takes a step is the only one under way.
LEMMA OneSession ==
    ASSUME NEW w \in Writers, \A u \in Writers : u # w => ws'[u].pc = "idle", Session(w)'
    PROVE  SessionOK'
<1>1. \A u \in Writers : ws'[u].pc = "idle" => Session(u)'
    BY DEF Session, OwnRow, Owning, Target, Working, LogsOK, OutOK, NewOK, Written, ViewOK
<1> QED BY <1>1 DEF SessionOK

\* Its transaction is its own as long as it is WRITTEN.
LEMMA LeftStays ==
    ASSUME LInv, LeftOK, mode = "up", NEW w \in Writers,
           \A u \in Writers : u # w => ws'[u] = ws[u],
           UNCHANGED faults \/ ObjFault \/ SqlFault,
           \A i \in TxnIds : txns'[i].state = "WRITTEN" =>
               \/ Owning(w)' /\ ws'[w].txn = i
               \/ txns[i].state = "WRITTEN" /\ ~(Owning(w) /\ ws[w].txn = i)
               \/ faults'.sql # 0
    PROVE  LeftOK'
<1> SUFFICES ASSUME faults'.sql = 0, NEW i \in TxnIds, txns'[i].state = "WRITTEN"
             PROVE  \E u \in Writers : Owning(u)' /\ ws'[u].txn = i
    BY DEF LeftOK
<1>1. CASE Owning(w)' /\ ws'[w].txn = i BY <1>1
<1>2. CASE txns[i].state = "WRITTEN" /\ ~(Owning(w) /\ ws[w].txn = i)
    <2>1. faults.sql = 0 BY FaultCount
    <2>2. PICK u \in Writers : Owning(u) /\ ws[u].txn = i BY <1>2, <2>1 DEF LeftOK
    <2>3. ws'[u] = ws[u] BY <1>2, <2>2
    <2> QED BY <2>2, <2>3 DEF Owning
<1> QED BY <1>1, <1>2

\* A step of an INSERT that neither commits nor writes what readers may hold.
LEMMA LocalFrame ==
    ASSUME LInv, CInv, Calm, NEW w \in Writers, ws[w].pc \notin {"idle", "visible"},
           ws'[w].pc # "visible", \A u \in Writers : u # w => ws'[u] = ws[u],
           Working(w)' => Working(w) /\ ws'[w].part = ws[w].part /\ ws'[w].base = ws[w].base,
           UNCHANGED <<mode, lake, view, ddl, rec, parts>>, SqlStep, StoreMoves, SettledGrows,
           VisibleStays, RowsOK', Session(w)', LeftOK'
    PROVE  CInv'
<1>1. mode = "up" BY WriterFacts
<1>2. \A u \in Writers : u # w => ws[u].pc = "idle" BY OthersIdle
<1>3. WorkersStay BY DEF WorkersStay, Working
<1>4. ActiveStays /\ \A p \in Parts : Act(p) => Act(p)' BY DEF ActiveStays, Act
<1>5. Quiet BY <1>2, <1>3, <1>4 DEF Quiet
<1>6. UpOK' BY <1>5, QuietUp DEF CInv
<1>7. VersionsOK' BY <1>4, QuietVersions DEF CInv, TableOK
<1>8. FirstOK' BY QuietFirst DEF CInv, TableOK
<1>9. SessionOK' BY <1>2, OneSession
<1>10. RecoverOK' BY <1>1 DEF CInv, RecoverOK
<1> QED BY <1>6, <1>7, <1>8, <1>9, <1>10 DEF CInv, TableOK

LEMMA TargetStays ==
    ASSUME NEW w \in Writers, Target(w), Working(w), ws[w].pc # "visible", ws'[w].pc # "visible",
           ws'[w].part = ws[w].part, ws'[w].base = ws[w].base, UNCHANGED <<lake, parts>>,
           SettledGrows,
           bundle'[ws[w].part][ws[w].base] = bundle[ws[w].part][ws[w].base]
    PROVE  Target(w)'
<1>1. Current' = Current BY DEF Current
<1>2. Clean(ws[w].part, ws[w].base) BY DEF Target
<1>3. Clean(ws[w].part, ws[w].base)' BY <1>2 DEF Clean, SettledGrows
<1>4. Act(ws[w].part) => ws[w].part = Current /\ parts[ws[w].part].visible = ws[w].base
    BY DEF Target
<1>5. Act(ws[w].part)' <=> Act(ws[w].part) BY DEF Act
<1> QED BY <1>1, <1>3, <1>4, <1>5 DEF Target

\* Nothing in the store moves.
LEMMA StoreStill ==
    ASSUME bundle' = bundle
    PROVE  StoreMoves
BY DEF StoreMoves

\* The statement ends with its locals.
LEMMA ReturnFrame ==
    ASSUME LInv, CInv, Calm, NEW w \in Writers, ws[w].pc \notin {"idle", "visible"}, Return(w),
           UNCHANGED <<mode, lake, view, ddl, rec, parts, bundle>>, SqlStep, SettledGrows,
           VisibleStays, RowsOK', LeftOK'
    PROVE  CInv'
<1>1. \A u \in Writers : u # w => ws'[u] = ws[u] BY WriterReturn DEF LInv, Shape
<1>2. ws'[w].pc = "idle" BY WriterReturn DEF LInv, Shape
<1>3. Session(w)'
    BY <1>2 DEF Session, OwnRow, Owning, Target, Working, LogsOK, OutOK, NewOK, Written, ViewOK
<1>4. ~Working(w)' BY <1>2 DEF Working
<1> QED BY <1>1, <1>2, <1>3, <1>4, StoreStill, LocalFrame

\* SQLite keeps all its rows.
LEMMA RowsUnchanged ==
    ASSUME LInv, CInv, UNCHANGED <<txns, nextTxn, parts, nextPart, jobs, budget, routed, acked>>,
           \A i \in TxnIds : i >= nextTxn => \A t \in Tablets : logs'[i][t] \in {"none", logs[i][t]}
    PROVE  SqlStep /\ SettledGrows /\ VisibleStays /\ RowsOK'
<1>1. SqlStep BY SqlStill DEF LInv, Shape, sqlVars
<1>2. SettledGrows BY <1>1, SettledStays
<1>3. VisibleStays BY DEF VisibleStays
<1>4. RowsStay BY DEF RowsStay
<1>5. \A p \in Parts : Act(p)' => Act(p) BY DEF Act
<1>6. RowsOK' BY <1>2, <1>4, <1>5, QuietRows DEF CInv, TableOK
<1> QED BY <1>1, <1>2, <1>3, <1>6

LEMMA PrepareCalm ==
    ASSUME LInv, CInv, Calm, NEW w \in Writers, Prepare(w), UNCHANGED <<ddlVars, eraser, recVars>>
    PROVE  CInv'
<1>1. /\ ws[w].pc = "planned" /\ UNCHANGED <<logs, bundle, mode, reg, lake, view, acked>>
      /\ UNCHANGED <<budget, ddl, rec, reopens>>
    BY DEF Prepare, ddlVars, recVars, objVars, memVars
<1>2. /\ mode = "up" /\ SqlShape /\ SqlOK /\ ws[w].part \in Parts /\ ws[w].base \in Versions
      /\ Opened(ws[w].part) /\ ws[w].base <= nextTxn /\ ws[w].rows \in SUBSET Tablets
      /\ ws[w] \in WriterRecs /\ ws \in [Writers -> WriterRecs]
      /\ routed \in [TxnIds -> SUBSET Tablets]
    BY <1>1, WriterFacts DEF WriterOK, MemShape
<1>3. CASE SqlFault /\ Return(w) /\ UNCHANGED <<sqlVars, routed>>
    <2>1. UNCHANGED <<txns, nextTxn, parts, nextPart, jobs>> BY <1>3 DEF sqlVars
    <2>2. SqlStep /\ SettledGrows /\ VisibleStays /\ RowsOK' BY <1>1, <1>3, <2>1, RowsUnchanged
    <2>3. \A u \in Writers : u # w => ws'[u] = ws[u] BY <1>3, WriterReturn DEF LInv, Shape
    <2>4. faults'.sql # 0 BY <1>3, FaultCount
    <2>5. LeftOK' BY <1>2, <1>3, <2>3, <2>4, LeftStays DEF CInv
    <2> QED BY <1>1, <1>3, <2>1, <2>2, <2>5, ReturnFrame
<1>4. CASE /\ prepare_txn(ws[w].part, ws[w].base)
           /\ ws' = [ws EXCEPT ![w].pc = "writing", ![w].txn = nextTxn]
           /\ routed' = [routed EXCEPT ![nextTxn] = ws[w].rows] /\ UNCHANGED faults
    <2>1. PICK p \in Parts, b \in Versions, n \in Nat, rows \in SUBSET Tablets :
             p = ws[w].part /\ b = ws[w].base /\ n = nextTxn /\ rows = ws[w].rows
        BY <1>2, Bounds
    <2>2. SqlStep /\ parts' = parts /\ n \in TxnIds /\ nextTxn' = n + 1
        BY <1>1, <1>2, <1>4, <2>1, PrepareSql DEF prepare_txn
    <2> DEFINE r == [state |-> "PREPARED", part |-> p, base |-> b, commit |-> b + 1]
    <2>3. txns' = [txns EXCEPT ![n] = r] /\ txns \in [TxnIds -> TxnRows]
        BY <1>2, <1>4, <2>1 DEF prepare_txn, SqlShape
    <2>4. r.state = "PREPARED" /\ r.base = b /\ r.commit = b + 1 OBVIOUS
    <2> HIDE DEF r
    <2>5. txns'[n] = r /\ \A i \in TxnIds : i # n => txns'[i] = txns[i] BY <2>2, <2>3
    <2>6. routed'[n] = rows /\ \A i \in TxnIds : i # n => routed'[i] = routed[i]
        BY <1>2, <1>4, <2>1, <2>2
    <2>7. \A i \in TxnIds : i \in Nat /\ (i < n => i # n) BY DEF TxnIds
    <2>8. SettledGrows BY <2>1, <2>2, <2>5, <2>7, SettledStays
    <2>9. VisibleStays BY <2>4, <2>5, <2>6 DEF VisibleStays
    <2>10. RowsOK'
        <3>0. \A i \in TxnIds : i < nextTxn' => i = n \/ i < n BY <2>2, <2>7
        <3>1. \A i \in TxnIds : i < nextTxn' => txns'[i].commit = txns'[i].base + 1
            BY <2>1, <2>4, <2>5, <3>0 DEF CInv, TableOK, RowsOK
        <3>2. \A i \in TxnIds : i < nextTxn' /\ txns'[i].state = "NONE" =>
                 i < n /\ txns'[i] = txns[i] /\ ~Act(txns[i].part)
            BY <2>1, <2>4, <2>5, <3>0 DEF CInv, TableOK, RowsOK
        <3>3. \A i \in TxnIds : i >= nextTxn' => i >= n BY <2>2, <2>7
        <3>4. \A i \in TxnIds : i >= nextTxn' => \A t \in Tablets : logs'[i][t] = "none"
            BY <1>1, <2>1, <3>3 DEF CInv, TableOK, RowsOK
        <3>5. acked' \subseteq Settled' BY <1>1, <2>8 DEF CInv, TableOK, RowsOK, SettledGrows
        <3> QED BY <2>2, <3>1, <3>2, <3>4, <3>5 DEF RowsOK, Act
    <2> DEFINE y == [ws[w] EXCEPT !.pc = "writing", !.txn = n]
    <2>11. y.pc = "writing" /\ y.part = p /\ y.base = b /\ y.txn = n /\ y.rows = rows
        BY <1>2, <2>1 DEF WriterRecs
    <2>12. ws' = [ws EXCEPT ![w] = y] BY <1>2, <1>4, <2>1
    <2> HIDE DEF y
    <2>13. ws'[w] = y /\ \A u \in Writers : u # w => ws'[u] = ws[u] BY <1>2, <2>12
    <2>14. Working(w) /\ ~Owning(w) /\ Owning(w)' BY <1>1, <2>11, <2>13 DEF Working, Owning
    <2>15. Session(w)'
        <3>1. OwnRow(w)' BY <2>4, <2>5, <2>6, <2>11, <2>13 DEF OwnRow
        <3>2. Target(w)'
            BY <1>1, <2>1, <2>2, <2>8, <2>11, <2>13, <2>14, TargetStays
            DEF CInv, SessionOK, Session
        <3>3. \A t \in Tablets : logs'[n][t] = "none"
            BY <1>1, <2>1, <2>2 DEF CInv, TableOK, RowsOK
        <3> QED BY <2>11, <2>13, <3>1, <3>2, <3>3
                DEF Session, LogsOK, OutOK, NewOK, Written, ViewOK
    <2>16. LeftOK'
        <3>1. \A i \in TxnIds : txns'[i].state = "WRITTEN" => txns[i].state = "WRITTEN"
            BY <2>4, <2>5
        <3> QED BY <1>2, <1>4, <2>13, <2>14, <3>1, LeftStays DEF CInv
    <2> QED BY <1>1, <2>1, <2>2, <2>8, <2>9, <2>10, <2>11, <2>13, <2>14, <2>15, <2>16, StoreStill,
               LocalFrame
<1> QED BY <1>3, <1>4 DEF Prepare

\* What the INSERT knows of its transaction.
LEMMA OwnFacts ==
    ASSUME LInv, CInv, NEW w \in Writers, Owning(w)
    PROVE  /\ ws[w].txn \in TxnIds /\ ws[w].txn < nextTxn /\ txns[ws[w].txn].part = ws[w].part
           /\ txns[ws[w].txn].base = ws[w].base /\ Commit(w) = ws[w].base + 1
           /\ routed[ws[w].txn] = ws[w].rows
           /\ ws[w].pc \in {"visible", "register"} => ws[w].txn \in Settled
           /\ ws[w].pc \notin {"visible", "register"} => txns[ws[w].txn].state # "VISIBLE"
           /\ mode = "up"
<1>1. ws[w].txn \in TxnIds /\ WriterOK(w) /\ mode = "up" BY WriterFacts DEF Owning
<1>2. ws[w].txn < nextTxn /\ txns[ws[w].txn].part = ws[w].part BY <1>1 DEF WriterOK, Owning
<1>3. OwnRow(w) BY DEF CInv, SessionOK, Session
<1>4. Commit(w) = ws[w].base + 1
    BY <1>1, <1>2, <1>3 DEF Commit, OwnRow, CInv, TableOK, RowsOK
<1> QED BY <1>1, <1>2, <1>3, <1>4 DEF OwnRow

\* mark_txn_written and mark_txn_aborted on a transaction that is not VISIBLE.
LEMMA MarkCalm ==
    ASSUME LInv, CInv, NEW i \in TxnIds, txns[i].state # "VISIBLE", budget' = budget,
           mark_txn_written(i) \/ mark_txn_aborted(i), UNCHANGED <<routed, acked, logs>>
    PROVE  /\ SqlStep /\ SettledGrows /\ VisibleStays /\ RowsOK' /\ UNCHANGED <<nextTxn, parts>>
           /\ \A j \in TxnIds : txns'[j].base = txns[j].base /\ txns'[j].commit = txns[j].commit
           /\ \A j \in TxnIds : j # i => txns'[j] = txns[j]
           /\ txns'[i].state # "VISIBLE"
           /\ mark_txn_aborted(i) => txns'[i].state # "WRITTEN"
<1>1. SqlStep /\ UNCHANGED <<nextTxn, parts, nextPart, jobs>> BY MarkSql DEF LInv, Shape
<1>2. PICK s \in {"WRITTEN", "ABORTED"} : SetTxn(i, s) /\ (mark_txn_aborted(i) => s = "ABORTED")
    BY DEF mark_txn_written, mark_txn_aborted
<1>3. /\ \A j \in TxnIds : /\ txns'[j].part = txns[j].part
                           /\ txns'[j].commit = txns[j].commit /\ txns'[j].base = txns[j].base
                           /\ j # i => txns'[j] = txns[j]
      /\ txns[i].state # "NONE" => txns'[i].state = s
    BY <1>2, SetTxnRows DEF LInv, Shape
<1>4. txns[i].state = "NONE" => txns' = txns BY <1>2 DEF SetTxn
<1>5. SettledGrows BY <1>1, <1>3, <1>4, SettledStays
<1>6. VisibleStays BY <1>3, <1>4 DEF VisibleStays
<1>7. RowsStay BY <1>1, <1>3, <1>4 DEF RowsStay
<1>8. \A p \in Parts : Act(p)' => Act(p) BY <1>1 DEF Act
<1>9. RowsOK' BY <1>5, <1>7, <1>8, QuietRows DEF CInv, TableOK
<1> QED BY <1>1, <1>2, <1>3, <1>4, <1>5, <1>6, <1>9

LEMMA WriteLogCalm ==
    ASSUME LInv, CInv, Calm, NEW w \in Writers, NEW t \in Tablets, WriteLog(w, t),
           UNCHANGED <<ddlVars, eraser, recVars>>
    PROVE  CInv'
<1>1. /\ ws[w].pc = "writing" /\ UNCHANGED <<txns, nextTxn, parts, nextPart, jobs, bundle>>
      /\ UNCHANGED <<mode, reg, lake, view, routed, acked, budget, ddl, rec, reopens>>
    BY DEF WriteLog, ddlVars, recVars, sqlVars, memVars, histVars
<1>2. Working(w) /\ Owning(w) BY <1>1 DEF Working, Owning
<1>3. PICK i \in TxnIds : i = ws[w].txn /\ i < nextTxn BY <1>2, OwnFacts
<1>4. i \in Nat /\ nextTxn \in Nat /\ \A j \in TxnIds : j \in Nat BY Numbers DEF TxnIds
<1>5. UNCHANGED faults \/ ObjFault \/ SqlFault BY DEF WriteLog
<1>6. mode = "up" /\ Session(w) BY <1>2, OwnFacts DEF CInv, SessionOK
<1>7. CASE UNCHANGED ws /\ logs' = [logs EXCEPT ![ws[w].txn][t] =
                                       IF t \in ws[w].rows THEN "rows" ELSE "empty"]
    <2>1. logs \in [TxnIds -> [Tablets -> {"none", "rows", "empty"}]]
        BY DEF LInv, Shape, ObjShape
    <2>2. /\ \A j \in TxnIds : j # i => logs'[j] = logs[j]
          /\ logs'[i][t] = Proper(w, t) /\ \A u \in Tablets : u # t => logs'[i][u] = logs[i][u]
        BY <1>3, <1>7, <2>1 DEF Proper
    <2>3. \A j \in TxnIds : j >= nextTxn => j # i BY <1>3, <1>4
    <2>4. SqlStep /\ SettledGrows /\ VisibleStays /\ RowsOK'
        BY <1>1, <2>2, <2>3, RowsUnchanged
    <2>5. Session(w)'
        <3>1. OwnRow(w)' BY <1>1, <1>6, <1>7 DEF Session, OwnRow, Owning
        <3>2. Target(w)' BY <1>1, <1>2, <1>6, <1>7, <2>4, TargetStays DEF Session
        <3>3. \A u \in Tablets : logs'[i][u] \in {"none", Proper(w, u)}
            BY <1>1, <1>3, <1>6, <2>2 DEF Session, LogsOK
        <3>4. \A u \in Tablets : Proper(w, u)' = Proper(w, u) BY <1>7 DEF Proper
        <3> QED BY <1>1, <1>3, <1>7, <3>1, <3>2, <3>3, <3>4
                DEF Session, LogsOK, OutOK, NewOK, Written, ViewOK
    <2>6. LeftOK' BY <1>1, <1>2, <1>5, <1>6, <1>7, LeftStays DEF CInv, Owning
    <2> QED BY <1>1, <1>2, <1>7, <2>4, <2>5, <2>6, StoreStill, LocalFrame
<1>8. CASE Goto(w, "abort") /\ UNCHANGED logs
    <2>1. /\ \A u \in Writers : u # w => ws'[u] = ws[u]
          /\ ws'[w].pc = "abort" /\ ws'[w].part = ws[w].part /\ ws'[w].base = ws[w].base
          /\ ws'[w].txn = ws[w].txn /\ ws'[w].rows = ws[w].rows
        BY <1>8, WriterGoto DEF LInv, Shape, PcSet
    <2>2. SqlStep /\ SettledGrows /\ VisibleStays /\ RowsOK' BY <1>1, <1>8, RowsUnchanged
    <2>3. Session(w)'
        <3>1. OwnRow(w)' BY <1>1, <1>6, <2>1 DEF Session, OwnRow, Owning
        <3>2. Target(w)' BY <1>1, <1>2, <1>6, <2>1, <2>2, TargetStays DEF Session
        <3> QED BY <2>1, <3>1, <3>2 DEF Session, LogsOK, OutOK, NewOK, Written, ViewOK
    <2>4. LeftOK'
        <3>1. Owning(w)' BY <2>1 DEF Owning
        <3> QED BY <1>1, <1>5, <1>6, <2>1, <3>1, LeftStays DEF CInv
    <2> QED BY <1>1, <1>2, <2>1, <2>2, <2>3, <2>4, StoreStill, LocalFrame
<1> QED BY <1>7, <1>8 DEF WriteLog

LEMMA AbortCalm ==
    ASSUME LInv, CInv, Calm, NEW w \in Writers, Abort(w), UNCHANGED <<ddlVars, eraser, recVars>>
    PROVE  CInv'
<1>1. /\ ws[w].pc = "abort" /\ UNCHANGED <<logs, bundle, mode, reg, lake, view, routed, acked>>
      /\ UNCHANGED <<budget, ddl, rec, reopens>> /\ Return(w)
    BY DEF Abort, ddlVars, recVars, objVars, memVars, histVars
<1>2. Owning(w) BY <1>1 DEF Owning
<1>3. PICK i \in TxnIds : i = ws[w].txn BY <1>2, OwnFacts
<1>4. txns[i].state # "VISIBLE" /\ mode = "up" BY <1>1, <1>2, <1>3, OwnFacts
<1>5. \A u \in Writers : u # w => ws'[u] = ws[u] BY <1>1, WriterReturn DEF LInv, Shape
<1>6. CASE mark_txn_aborted(ws[w].txn) /\ UNCHANGED faults
    <2>1. /\ SqlStep /\ SettledGrows /\ VisibleStays /\ RowsOK' /\ parts' = parts
          /\ \A j \in TxnIds : j # i => txns'[j] = txns[j]
          /\ txns'[i].state # "WRITTEN"
        BY <1>1, <1>3, <1>4, <1>6, MarkCalm
    <2>2. LeftOK' BY <1>2, <1>3, <1>4, <1>5, <1>6, <2>1, LeftStays DEF CInv
    <2> QED BY <1>1, <2>1, <2>2, ReturnFrame
<1>7. CASE SqlFault /\ UNCHANGED sqlVars
    <2>1. UNCHANGED <<txns, nextTxn, parts, nextPart, jobs>> BY <1>7 DEF sqlVars
    <2>2. SqlStep /\ SettledGrows /\ VisibleStays /\ RowsOK' BY <1>1, <2>1, RowsUnchanged
    <2>3. faults'.sql # 0 BY <1>7, FaultCount
    <2>4. LeftOK' BY <1>4, <1>5, <1>7, <2>3, LeftStays DEF CInv
    <2> QED BY <1>1, <2>1, <2>2, <2>4, ReturnFrame
<1> QED BY <1>6, <1>7 DEF Abort

LEMMA MarkWrittenCalm ==
    ASSUME LInv, CInv, Calm, NEW w \in Writers, MarkWritten(w), UNCHANGED <<ddlVars, eraser, recVars>>
    PROVE  CInv'
<1>1. /\ ws[w].pc = "writing" /\ UNCHANGED <<logs, bundle, mode, reg, lake, view, routed, acked>>
      /\ UNCHANGED <<budget, ddl, rec, reopens>>
      /\ \A t \in Tablets : logs[ws[w].txn][t] # "none"
    BY DEF MarkWritten, ddlVars, recVars, objVars, memVars, histVars
<1>2. Owning(w) /\ Working(w) BY <1>1 DEF Owning, Working
<1>3. PICK i \in TxnIds : i = ws[w].txn BY <1>2, OwnFacts
<1>4. txns[i].state # "VISIBLE" /\ mode = "up" /\ Session(w)
    BY <1>1, <1>2, <1>3, OwnFacts DEF CInv, SessionOK
<1>5. CASE mark_txn_written(ws[w].txn) /\ Goto(w, "logged") /\ UNCHANGED faults
    <2>1. /\ SqlStep /\ SettledGrows /\ VisibleStays /\ RowsOK' /\ parts' = parts
          /\ \A j \in TxnIds : txns'[j].base = txns[j].base
          /\ \A j \in TxnIds : j # i => txns'[j] = txns[j]
          /\ txns'[i].state # "VISIBLE"
        BY <1>1, <1>3, <1>4, <1>5, MarkCalm
    <2>2. /\ \A u \in Writers : u # w => ws'[u] = ws[u]
          /\ ws'[w].pc = "logged" /\ ws'[w].part = ws[w].part /\ ws'[w].base = ws[w].base
          /\ ws'[w].txn = ws[w].txn /\ ws'[w].rows = ws[w].rows
        BY <1>5, WriterGoto DEF LInv, Shape, PcSet
    <2>3. Session(w)'
        <3>1. OwnRow(w)' BY <1>1, <1>2, <1>3, <1>4, <2>1, <2>2 DEF Session, OwnRow
        <3>2. Target(w)' BY <1>1, <1>2, <1>4, <2>1, <2>2, TargetStays DEF Session
        <3>3. \A t \in Tablets : logs[i][t] = Proper(w, t)
            BY <1>1, <1>3, <1>4 DEF Session, LogsOK
        <3>4. \A t \in Tablets : Proper(w, t)' = Proper(w, t) BY <2>2 DEF Proper
        <3> QED BY <1>1, <1>3, <2>2, <3>1, <3>2, <3>3, <3>4
                DEF Session, LogsOK, OutOK, NewOK, Written, ViewOK
    <2>4. LeftOK'
        <3>1. Owning(w)' BY <2>2 DEF Owning
        <3> QED BY <1>3, <1>4, <1>5, <2>1, <2>2, <3>1, LeftStays DEF CInv
    <2> QED BY <1>1, <1>2, <2>1, <2>2, <2>3, <2>4, StoreStill, LocalFrame
<1>6. CASE SqlFault /\ Return(w) /\ UNCHANGED sqlVars
    <2>1. UNCHANGED <<txns, nextTxn, parts, nextPart, jobs>> BY <1>6 DEF sqlVars
    <2>2. SqlStep /\ SettledGrows /\ VisibleStays /\ RowsOK' BY <1>1, <2>1, RowsUnchanged
    <2>3. faults'.sql # 0 BY <1>6, FaultCount
    <2>4. \A u \in Writers : u # w => ws'[u] = ws[u] BY <1>6, WriterReturn DEF LInv, Shape
    <2>5. LeftOK' BY <1>4, <1>6, <2>3, <2>4, LeftStays DEF CInv
    <2> QED BY <1>1, <1>6, <2>1, <2>2, <2>5, ReturnFrame
<1> QED BY <1>5, <1>6 DEF MarkWritten

LEMMA PlanCalm ==
    ASSUME LInv, CInv, Calm, Calm', NEW w \in Writers, Plan(w),
           UNCHANGED <<ddlVars, eraser, recVars>>
    PROVE  CInv'
<1>1. /\ mode = "up" /\ ws[w].pc = "idle"
      /\ UNCHANGED <<txns, nextTxn, parts, nextPart, jobs, logs, bundle, mode, reg, lake, view>>
      /\ UNCHANGED <<routed, acked, faults, budget, ddl, rec, reopens>>
    BY DEF Plan, ddlVars, recVars, sqlVars, objVars, memVars, histVars
<1>2. PICK rows \in SUBSET Tablets : 
         ws' = [ws EXCEPT ![w].pc = "planned", ![w].rows = rows,
                          ![w].part = ViewOf(lake).part, ![w].base = ViewOf(lake).version]
    BY DEF Plan
<1>3. CopyOK(lake) /\ lake \in [Parts -> PartRows] BY DEF LInv, MemOK, Shape, MemShape
<1>4. PICK p \in Parts, b \in Versions : /\ p = ViewOf(lake).part /\ b = ViewOf(lake).version
                                         /\ lake[p].state = "ACTIVE" /\ b = lake[p].visible
    BY <1>3, ViewFacts
<1>5. ws[w] \in WriterRecs /\ ws \in [Writers -> WriterRecs] BY WriterFacts
<1> DEFINE x == [ws[w] EXCEPT !.pc = "planned", !.rows = rows, !.part = p, !.base = b]
<1>6. x.pc = "planned" /\ x.part = p /\ x.base = b BY <1>5 DEF WriterRecs
<1>7. ws' = [ws EXCEPT ![w] = x] BY <1>2, <1>4, <1>5
<1> HIDE DEF x
<1>8. ws'[w] = x /\ \A u \in Writers : u # w => ws'[u] = ws[u] BY <1>5, <1>7
<1>9. \A u \in Writers : ws[u].pc = "idle" /\ (u # w => ws'[u].pc = "idle")
    BY <1>1, <1>6, <1>8 DEF Calm, Busy
<1>10. SqlStep /\ SettledGrows /\ VisibleStays /\ RowsOK' BY <1>1, RowsUnchanged
<1>11. StoreMoves /\ ActiveStays BY <1>1 DEF StoreMoves, ActiveStays, Act
<1>12. TableOK' BY <1>10, <1>11, QuietFirst, QuietVersions DEF CInv, TableOK
<1>13. \A u \in Writers : ~Working(u) /\ ~Owning(u) BY <1>9 DEF Working, Owning
<1>14. ASSUME NEW q \in Parts, NEW v \in Versions, ReaderOK(q, v) PROVE ReaderOK(q, v)'
    <2>1. Opened(q)' BY <1>1, <1>14 DEF ReaderOK, Opened
    <2>2. Clean(q, v)' BY <1>10, <1>11, <1>14, ReaderIsRead, CleanMoves DEF ReaderOK
    <2>3. \A u \in Writers : Working(u)' /\ ws'[u].part = q => v <= ws'[u].base
        <3>1. \A u \in Writers : Working(u)' => u = w BY <1>9 DEF Working
        <3> QED BY <1>4, <1>6, <1>8, <1>14, <3>1 DEF ReaderOK
    <2> QED BY <1>1, <1>14, <2>1, <2>2, <2>3, ReaderStays DEF ReaderOK, Act
<1>15. CatalogOK'
    <2> SUFFICES ASSUME NEW q \in Parts PROVE CatalogPart(q)' BY DEF CatalogOK
    <2>1. CatalogPart(q) BY <1>1 DEF CInv, UpOK, CatalogOK
    <2>2. ~Advancing(q) BY <1>9 DEF Advancing
    <2>3. \A u \in Writers : Working(u)' => u = w BY <1>9 DEF Working
    <2>4. lake[q].visible \in Nat BY Numbers DEF Versions
    <2>5. Settled' = Settled BY <1>1 DEF Settled
    <2>6. \A u \in Writers : Working(u)' /\ ws'[u].part = q => lake[q].visible <= ws'[u].base
        BY <1>4, <1>6, <1>8, <2>3, <2>4
    <2> QED BY <1>1, <2>1, <2>2, <2>5, <2>6 DEF CatalogPart, Clean, Act
<1>16. UpOK'
    <2>1. ReaderOK(view.part, view.version) /\ SnapOK /\ OldOK BY <1>1 DEF CInv, UpOK
    <2>2. ReaderOK(view.part, view.version)'
        <3>1. PICK q \in Parts, v \in Versions : q = view.part /\ v = view.version BY Numbers
        <3>2. ReaderOK(q, v)' BY <1>14, <2>1, <3>1
        <3> QED BY <1>1, <3>1, <3>2 DEF ReaderOK, Clean, Act, Opened
    <2>3. SnapOK'
        <3>1. ASSUME ddl.pc = "swapped", NEW q \in Parts, ddl.snap[q].state = "ACTIVE"
              PROVE  lake'[q].state = "ACTIVE" /\ ReaderOK(q, ddl.snap[q].visible)'
            <4>1. PICK v \in Versions : v = ddl.snap[q].visible BY Numbers
            <4>2. lake[q].state = "ACTIVE" /\ ReaderOK(q, v) BY <2>1, <3>1, <4>1 DEF SnapOK
            <4>3. ReaderOK(q, v)' BY <1>14, <4>2
            <4> QED BY <1>1, <4>1, <4>2, <4>3 DEF ReaderOK, Clean
        <3> QED BY <1>1, <2>1, <3>1 DEF SnapOK, Act
    <2>4. OldOK' BY <1>1, <1>11, <2>1, QuietOld
    <2> QED BY <1>15, <2>2, <2>3, <2>4 DEF UpOK
<1>17. Session(w)'
    <2>1. CatalogPart(p) BY <1>1 DEF CInv, UpOK, CatalogOK
    <2>2. ~Advancing(p) BY <1>9 DEF Advancing
    <2>3. Clean(p, b) /\ (Act(p) => b = parts[p].visible) BY <1>4, <2>1, <2>2 DEF CatalogPart
    <2>4. Clean(p, b)' BY <1>1, <1>10, <2>3 DEF Clean, SettledGrows
    <2>5. Current' = p BY <1>1, <1>4 DEF Current
    <2>6. Act(p)' => b = parts'[p].visible BY <1>1, <2>3 DEF Act
    <2>7. Target(w)' BY <1>6, <1>8, <2>4, <2>5, <2>6 DEF Target, Clean, Act
    <2> QED BY <1>6, <1>8, <2>7
            DEF Session, OwnRow, Owning, LogsOK, OutOK, NewOK, Written, ViewOK
<1>18. SessionOK' BY <1>9, <1>17, OneSession
<1>19. LeftOK' BY <1>1, <1>8, <1>13, LeftStays DEF CInv
<1>20. RecoverOK' BY <1>1 DEF CInv, RecoverOK
<1> QED BY <1>12, <1>16, <1>18, <1>19, <1>20 DEF CInv

\* publish_one_tablet for an INSERT whose logs are in place, or were erased with their
\* partition.
LEMMA PublishRows ==
    ASSUME LInv, CInv, NEW w \in Writers, ws[w].pc = "logged", NEW t \in Tablets,
           NEW o, o = publish_one_tablet(ws[w].txn, ws[w].part, ws[w].base, Commit(w), t)
    PROVE  /\ o.kind # "published"
           /\ o.kind = "persist" =>
                 Fresh(w, o.rows) /\ (Act(ws[w].part) => o.rows = NextRows(w, t))
<1>1. PICK p \in Parts, b \in Versions, i \in TxnIds, c \in Versions :
         p = ws[w].part /\ b = ws[w].base /\ i = ws[w].txn /\ c = Commit(w)
    BY WriterFacts
<1>2. Session(w) /\ Working(w) BY DEF CInv, SessionOK, Working
<1>3. Clean(p, b) BY <1>1, <1>2 DEF Session, Target
<1>4. BaseRowsets(p, b, t) \subseteq Settled BY <1>3 DEF BaseRowsets, Clean
<1>5. Failed.kind = "failed" BY DEF Failed
<1>6. \A rs : Persist(rs).kind = "persist" /\ Persist(rs).rows = rs BY DEF Persist
<1>7. NextRows(w, t) = BaseRowsets(p, b, t) \cup (IF t \in ws[w].rows THEN {i} ELSE {})
    BY <1>1 DEF NextRows
<1>8. o = publish_one_tablet(i, p, b, c, t) BY <1>1
<1>9. CASE ~HasBase(p, b) BY <1>5, <1>8, <1>9 DEF publish_one_tablet
<1>10. CASE HasBase(p, b) /\ logs[i][t] = Proper(w, t)
    <2>1. CASE t \in ws[w].rows
        <3>1. o = Persist(BaseRowsets(p, b, t) \cup {i})
            BY <1>8, <1>10, <2>1 DEF publish_one_tablet, Proper
        <3> QED BY <1>1, <1>4, <1>6, <1>7, <2>1, <3>1 DEF Fresh
    <2>2. CASE t \notin ws[w].rows
        <3>1. o = Persist(BaseRowsets(p, b, t))
            BY <1>8, <1>10, <2>2 DEF publish_one_tablet, Proper
        <3> QED BY <1>1, <1>4, <1>6, <1>7, <2>2, <3>1 DEF Fresh
    <2> QED BY <2>1, <2>2
<1>11. CASE /\ HasBase(p, b) /\ ~Act(p) /\ bundle[p][c] = NoMeta /\ logs[i][t] = "none"
    <2>1. o = Persist(BaseRowsets(p, b, t)) \/ o = Failed
        BY <1>8, <1>11 DEF publish_one_tablet
    <2> QED BY <1>1, <1>4, <1>5, <1>6, <1>11, <2>1 DEF Fresh
<1> QED BY <1>1, <1>2, <1>9, <1>10, <1>11 DEF Session, LogsOK

LEMMA PublishReadCalm ==
    ASSUME LInv, CInv, Calm, NEW w \in Writers, PublishRead(w), UNCHANGED <<ddlVars, eraser, recVars>>
    PROVE  CInv'
<1>1. /\ ws[w].pc = "logged"
      /\ UNCHANGED <<txns, nextTxn, parts, nextPart, jobs, logs, bundle, mode, reg, lake, view>>
      /\ UNCHANGED <<routed, acked, budget, ddl, rec, reopens>>
    BY DEF PublishRead, ddlVars, recVars, sqlVars, objVars, memVars, histVars
<1>2. Owning(w) /\ Working(w) BY <1>1 DEF Owning, Working
<1>3. /\ mode = "up" /\ Session(w) /\ ws[w] \in WriterRecs /\ ws \in [Writers -> WriterRecs]
    BY <1>2, OwnFacts, WriterFacts DEF CInv, SessionOK
<1>4. UNCHANGED faults \/ ObjFault \/ SqlFault BY DEF PublishRead
<1>5. PICK T \in SUBSET Tablets :
         ws' = [ws EXCEPT ![w].pc = "read", ![w].out = [t \in Tablets |->
                   IF ws[w].part \notin reg \/ t \in T THEN Failed
                   ELSE publish_one_tablet(ws[w].txn, ws[w].part, ws[w].base, Commit(w), t)]]
    BY DEF PublishRead
<1> DEFINE o == [t \in Tablets |->
                   IF ws[w].part \notin reg \/ t \in T THEN Failed
                   ELSE publish_one_tablet(ws[w].txn, ws[w].part, ws[w].base, Commit(w), t)]
<1>6. \A t \in Tablets :
         /\ o[t].kind # "published"
         /\ o[t].kind = "persist" =>
               Fresh(w, o[t].rows) /\ (Act(ws[w].part) => o[t].rows = NextRows(w, t))
    <2> TAKE t \in Tablets
    <2>1. o[t] = Failed \/ o[t] = publish_one_tablet(ws[w].txn, ws[w].part, ws[w].base, Commit(w), t)
        OBVIOUS
    <2> HIDE DEF o
    <2>2. Failed.kind = "failed" BY DEF Failed
    <2> QED BY <1>1, <2>1, <2>2, PublishRows
<1> HIDE DEF o
<1> DEFINE y == [ws[w] EXCEPT !.pc = "read", !.out = o]
<1>7. /\ y.pc = "read" /\ y.part = ws[w].part /\ y.base = ws[w].base
      /\ y.txn = ws[w].txn /\ y.out = o /\ y.rows = ws[w].rows
    BY <1>3 DEF WriterRecs
<1>8. ws' = [ws EXCEPT ![w] = y] BY <1>3, <1>5 DEF o
<1> HIDE DEF y
<1>9. ws'[w] = y /\ \A u \in Writers : u # w => ws'[u] = ws[u] BY <1>3, <1>8
<1>10. SqlStep /\ SettledGrows /\ VisibleStays /\ RowsOK' BY <1>1, RowsUnchanged
<1>11. Session(w)'
    <2>1. OwnRow(w)' BY <1>1, <1>2, <1>3, <1>7, <1>9 DEF Session, OwnRow
    <2>2. Target(w)' BY <1>1, <1>2, <1>3, <1>7, <1>9, <1>10, TargetStays DEF Session
    <2>3. OutOK(w)'
        <3>1. \A t \in Tablets : NextRows(w, t)' = NextRows(w, t)
            BY <1>1, <1>7, <1>9 DEF NextRows, BaseRowsets
        <3>2. Settled' = Settled BY <1>1 DEF Settled
        <3>3. Act(ws[w].part)' = Act(ws[w].part) BY <1>1, <1>7, <1>9 DEF Act
        <3> QED BY <1>6, <1>7, <1>9, <3>1, <3>2, <3>3 DEF OutOK, Fresh
    <2> QED BY <1>7, <1>9, <2>1, <2>2, <2>3 DEF Session, LogsOK, NewOK, Written, ViewOK
<1>12. LeftOK'
    <2>1. Owning(w)' BY <1>7, <1>9 DEF Owning
    <2> QED BY <1>1, <1>3, <1>4, <1>7, <1>9, <2>1, LeftStays DEF CInv
<1> QED BY <1>1, <1>2, <1>7, <1>9, <1>10, <1>11, <1>12, StoreStill, LocalFrame

\* The bundle that an INSERT writes is of a version that nobody reads yet.
LEMMA PublishMoves ==
    ASSUME LInv, CInv, NEW w \in Writers, PublishWrite(w)
    PROVE  /\ StoreMoves
           /\ \A q \in Parts, v \in Versions :
                 bundle'[q][v] = bundle[q][v] \/ (q = ws[w].part /\ v = Commit(w))
<1>1. ws[w].pc = "read" BY DEF PublishWrite
<1>2. Owning(w) /\ Working(w) BY <1>1 DEF Owning, Working
<1>3. PICK p \in Parts, b \in Versions, c \in Versions, out \in [Tablets -> Outputs] :
         p = ws[w].part /\ b = ws[w].base /\ c = Commit(w) /\ c = b + 1 /\ out = ws[w].out
    BY <1>2, WriterFacts, OwnFacts
<1>4. b < c BY <1>3 DEF Versions
<1>5. bundle \in [Parts -> [Versions -> Metas \cup {NoMeta}]] BY DEF LInv, Shape, ObjShape
<1>6. bundle' = bundle \/ \E m : bundle' = [bundle EXCEPT ![p][c] = m]
    BY <1>3 DEF PublishWrite, BundleAfter
<1>7. \A q \in Parts, v \in Versions : bundle'[q][v] = bundle[q][v] \/ (q = p /\ v = c)
    BY <1>5, <1>6
<1>8. Unread(p, c) BY <1>1, <1>2, <1>3, <1>4 DEF Unread
<1> QED BY <1>3, <1>7, <1>8 DEF StoreMoves

LEMMA PublishWriteCalm ==
    ASSUME LInv, CInv, Calm, NEW w \in Writers, PublishWrite(w), UNCHANGED <<ddlVars, eraser, recVars>>
    PROVE  CInv'
<1>1. /\ ws[w].pc = "read"
      /\ UNCHANGED <<txns, nextTxn, parts, nextPart, jobs, logs, mode, reg, lake, view>>
      /\ UNCHANGED <<routed, acked, budget, ddl, rec, reopens>>
    BY DEF PublishWrite, ddlVars, recVars, sqlVars, memVars, histVars
<1>2. Owning(w) /\ Working(w) BY <1>1 DEF Owning, Working
<1>3. mode = "up" /\ Session(w) BY <1>2, OwnFacts DEF CInv, SessionOK
<1>4. UNCHANGED faults \/ ObjFault \/ SqlFault BY DEF PublishWrite
<1>5. SqlStep /\ SettledGrows /\ VisibleStays /\ RowsOK' BY <1>1, RowsUnchanged
<1>6. PICK p \in Parts, b \in Versions, c \in Versions, out \in [Tablets -> Outputs] :
         p = ws[w].part /\ b = ws[w].base /\ c = Commit(w) /\ c = b + 1 /\ out = ws[w].out
    BY <1>2, WriterFacts, OwnFacts
<1>7. b < c /\ b # c BY <1>6 DEF Versions
<1>8. CASE Goto(w, "abort") /\ UNCHANGED bundle
    <2>1. /\ \A u \in Writers : u # w => ws'[u] = ws[u]
          /\ ws'[w].pc = "abort" /\ ws'[w].part = ws[w].part /\ ws'[w].base = ws[w].base
          /\ ws'[w].txn = ws[w].txn /\ ws'[w].rows = ws[w].rows
        BY <1>8, WriterGoto DEF LInv, Shape, PcSet
    <2>2. Session(w)'
        <3>1. OwnRow(w)' BY <1>1, <1>3, <2>1 DEF Session, OwnRow, Owning
        <3>2. Target(w)' BY <1>1, <1>2, <1>3, <1>5, <1>8, <2>1, TargetStays DEF Session
        <3> QED BY <2>1, <3>1, <3>2 DEF Session, LogsOK, OutOK, NewOK, Written, ViewOK
    <2>3. LeftOK'
        <3>1. Owning(w)' BY <2>1 DEF Owning
        <3> QED BY <1>1, <1>3, <1>4, <2>1, <3>1, LeftStays DEF CInv
    <2> QED BY <1>1, <1>2, <1>5, <1>8, <2>1, <2>2, <2>3, StoreStill, LocalFrame
<1>9. CASE /\ bundle' = BundleAfter(ws[w].part, ws[w].base, Commit(w), ws[w].out, ws[w].part \in reg)
           /\ Goto(w, "bundled")
    <2>1. /\ \A u \in Writers : u # w => ws'[u] = ws[u]
          /\ ws'[w].pc = "bundled" /\ ws'[w].part = ws[w].part /\ ws'[w].base = ws[w].base
          /\ ws'[w].txn = ws[w].txn /\ ws'[w].rows = ws[w].rows /\ ws'[w].out = ws[w].out
        BY <1>9, WriterGoto DEF LInv, Shape, PcSet
    <2> DEFINE m == MergedBundle(p, b, c, out, p \in reg)
    <2>2. PersistTablets(out) # {} => bundle' = [bundle EXCEPT ![p][c] = m]
        BY <1>6, <1>9 DEF BundleAfter
    <2>3. PersistTablets(out) = {} => bundle' = bundle BY <1>6, <1>9 DEF BundleAfter
    <2>4. PersistTablets(out) = Tablets => \A t \in Tablets : m[t] = out[t].rows
        BY DEF PersistTablets, MergedBundle
    <2> HIDE DEF m
    <2>5. bundle \in [Parts -> [Versions -> Metas \cup {NoMeta}]] BY DEF LInv, Shape, ObjShape
    <2>6. \A q \in Parts, v \in Versions : bundle'[q][v] = bundle[q][v] \/ (q = p /\ v = c)
        BY <1>6, PublishMoves
    <2>7. StoreMoves BY PublishMoves
    <2>8. bundle'[p][b] = bundle[p][b] BY <1>7, <2>6
    <2>9. NewOK(w)'
        <3> SUFFICES ASSUME FailedTablets(out) = {}
                     PROVE  \A t \in Tablets : /\ Fresh(w, bundle'[p][c][t])
                                               /\ Act(p) => bundle'[p][c][t] = NextRows(w, t)
            <4>1. Commit(w)' = c BY <1>1, <1>6, <2>1 DEF Commit
            <4>2. \A t \in Tablets : NextRows(w, t)' = NextRows(w, t)
                BY <1>6, <2>1, <2>8 DEF NextRows, BaseRowsets
            <4>3. Settled' = Settled BY <1>1 DEF Settled
            <4>4. Act(p)' = Act(p) BY <1>1 DEF Act
            <4>5. Written(w)' => FailedTablets(out) = {} BY <1>6, <2>1 DEF Written
            <4> QED BY <1>6, <2>1, <4>1, <4>2, <4>3, <4>4, <4>5 DEF NewOK, Fresh, Act
        <3>1. \A t \in Tablets : out[t].kind = "persist"
            <4> TAKE t \in Tablets
            <4>1. out[t].kind \in {"persist", "published", "failed"} BY DEF Outputs
            <4>2. out[t].kind # "published" BY <1>1, <1>3, <1>6 DEF Session, OutOK
            <4>3. out[t].kind # "failed" BY DEF FailedTablets
            <4> QED BY <4>1, <4>2, <4>3
        <3>2. PersistTablets(out) = Tablets BY <3>1 DEF PersistTablets
        <3>3. bundle'[p][c] = m BY <2>2, <2>5, <3>2, StoreAssumption
        <3>4. \A t \in Tablets : bundle'[p][c][t] = out[t].rows BY <2>4, <3>2, <3>3
        <3> QED BY <1>1, <1>3, <1>6, <3>1, <3>4 DEF Session, OutOK
    <2>10. Session(w)'
        <3>1. OwnRow(w)' BY <1>1, <1>3, <2>1 DEF Session, OwnRow, Owning
        <3>2. Target(w)' BY <1>1, <1>2, <1>3, <1>5, <1>6, <2>1, <2>8, TargetStays DEF Session
        <3> QED BY <2>1, <2>9, <3>1, <3>2 DEF Session, LogsOK, OutOK, ViewOK
    <2>11. LeftOK'
        <3>1. Owning(w)' BY <2>1 DEF Owning
        <3> QED BY <1>1, <1>3, <1>4, <2>1, <3>1, LeftStays DEF CInv
    <2> QED BY <1>1, <1>2, <1>5, <2>1, <2>7, <2>10, <2>11, LocalFrame
<1> QED BY <1>8, <1>9 DEF PublishWrite

LEMMA PublishCleanupCalm ==
    ASSUME LInv, CInv, Calm, NEW w \in Writers, PublishCleanup(w), UNCHANGED <<ddlVars, eraser, recVars>>
    PROVE  CInv'
<1> DEFINE x == IF FailedTablets(ws[w].out) = {} THEN "published" ELSE "abort"
<1>1. /\ ws[w].pc = "bundled" /\ Goto(w, x)
      /\ UNCHANGED <<txns, nextTxn, parts, nextPart, jobs, bundle, mode, reg, lake, view>>
      /\ UNCHANGED <<routed, acked, budget, ddl, rec, reopens>>
    BY DEF PublishCleanup, ddlVars, recVars, sqlVars, memVars, histVars
<1>2. Owning(w) /\ Working(w) BY <1>1 DEF Owning, Working
<1>3. mode = "up" /\ Session(w) BY <1>2, OwnFacts DEF CInv, SessionOK
<1>4. UNCHANGED faults \/ ObjFault \/ SqlFault BY DEF PublishCleanup
<1>5. x \in {"published", "abort"} /\ (x = "published" => FailedTablets(ws[w].out) = {}) OBVIOUS
<1> HIDE DEF x
<1>6. /\ \A u \in Writers : u # w => ws'[u] = ws[u]
      /\ ws'[w].pc = x /\ ws'[w].part = ws[w].part /\ ws'[w].base = ws[w].base
      /\ ws'[w].txn = ws[w].txn /\ ws'[w].rows = ws[w].rows
    BY <1>1, <1>5, WriterGoto DEF LInv, Shape, PcSet
<1>7. \A i \in TxnIds : i >= nextTxn => \A t \in Tablets : logs'[i][t] \in {"none", logs[i][t]}
    <2>1. PICK T : logs' = LogsAfterCleanup(ws[w].txn, T) BY DEF PublishCleanup
    <2>2. logs \in [TxnIds -> [Tablets -> {"none", "rows", "empty"}]] BY DEF LInv, Shape, ObjShape
    <2> QED BY <2>1, <2>2 DEF LogsAfterCleanup
<1>8. SqlStep /\ SettledGrows /\ VisibleStays /\ RowsOK' BY <1>1, <1>7, RowsUnchanged
<1>9. Session(w)'
    <2>1. OwnRow(w)' BY <1>1, <1>3, <1>5, <1>6 DEF Session, OwnRow, Owning
    <2>2. Target(w)' BY <1>1, <1>2, <1>3, <1>5, <1>6, <1>8, TargetStays DEF Session
    <2>3. NewOK(w)'
        <3>1. Commit(w)' = Commit(w) BY <1>1, <1>6 DEF Commit
        <3>2. \A t \in Tablets : NextRows(w, t)' = NextRows(w, t)
            BY <1>1, <1>6 DEF NextRows, BaseRowsets
        <3>3. Settled' = Settled BY <1>1 DEF Settled
        <3>4. Written(w)' => Written(w) BY <1>1, <1>5, <1>6 DEF Written
        <3> QED BY <1>1, <1>3, <1>6, <3>1, <3>2, <3>3, <3>4 DEF Session, NewOK, Fresh, Act
    <2> QED BY <1>5, <1>6, <2>1, <2>2, <2>3 DEF Session, LogsOK, OutOK, ViewOK
<1>10. LeftOK'
    <2>1. Owning(w)' BY <1>5, <1>6 DEF Owning
    <2> QED BY <1>1, <1>3, <1>4, <1>6, <2>1, LeftStays DEF CInv
<1> QED BY <1>1, <1>2, <1>5, <1>6, <1>8, <1>9, <1>10, StoreStill, LocalFrame

\* The commit: the version that becomes visible holds the rows of the base and its own.
LEMMA MarkVisibleCalm ==
    ASSUME LInv, CInv, Calm, NEW w \in Writers, MarkVisible(w), UNCHANGED <<ddlVars, eraser, recVars>>
    PROVE  CInv'
<1>1. /\ ws[w].pc = "published" /\ UNCHANGED <<logs, bundle, mode, reg, lake, view, routed, acked>>
      /\ UNCHANGED <<budget, ddl, rec, reopens>>
    BY DEF MarkVisible, ddlVars, recVars, objVars, memVars, histVars
<1>2. Owning(w) /\ Working(w) BY <1>1 DEF Owning, Working
<1>3. PICK p \in Parts, b \in Versions, i \in TxnIds, c \in Versions, rows \in SUBSET Tablets :
         /\ p = ws[w].part /\ b = ws[w].base /\ i = ws[w].txn /\ rows = ws[w].rows
         /\ c = Commit(w) /\ c = b + 1 /\ c = txns[i].commit /\ p = txns[i].part
         /\ b = txns[i].base /\ rows = routed[i]
    BY <1>2, WriterFacts, OwnFacts DEF Commit
<1>4. mode = "up" /\ Session(w) /\ txns[i].state # "VISIBLE"
    BY <1>1, <1>2, <1>3, OwnFacts DEF CInv, SessionOK
<1>5. \A u \in Writers : u # w => ws[u].pc = "idle" BY <1>1, OthersIdle
<1>6. CASE Return(w) /\ UNCHANGED sqlVars
    <2>1. UNCHANGED <<txns, nextTxn, parts, nextPart, jobs>> BY <1>6 DEF sqlVars
    <2>2. SqlStep /\ SettledGrows /\ VisibleStays /\ RowsOK' BY <1>1, <2>1, RowsUnchanged
    <2>3. \A u \in Writers : u # w => ws'[u] = ws[u] BY <1>6, WriterReturn DEF LInv, Shape
    <2>4. UNCHANGED faults \/ ObjFault \/ SqlFault BY DEF MarkVisible
    <2>5. txns[i].state = "WRITTEN" => faults'.sql # 0
        <3>1. CASE mark_txn_visible(ws[w].txn)
            <4>1. txns'[i].state = "VISIBLE" BY <1>1, <1>3, <3>1, VisibleSql DEF LInv, Shape
            <4> QED BY <2>1, <4>1
        <3>2. CASE IF txns[ws[w].txn].state = "NONE" THEN UNCHANGED faults ELSE SqlFault
            BY <1>3, <3>2, FaultCount
        <3> QED BY <3>1, <3>2 DEF MarkVisible
    <2>6. LeftOK' BY <1>2, <1>3, <1>4, <2>1, <2>3, <2>4, <2>5, LeftStays DEF CInv
    <2> QED BY <1>1, <1>6, <2>1, <2>2, <2>6, ReturnFrame
<1>7. CASE mark_txn_visible(ws[w].txn) /\ Goto(w, "visible") /\ UNCHANGED faults
    <2>1. /\ SqlStep /\ UNCHANGED <<nextTxn, nextPart, jobs>>
          /\ txns[i].state # "NONE" /\ txns'[i].state = "VISIBLE" /\ i < nextTxn
          /\ \A j \in TxnIds \ {i} : txns'[j] = txns[j]
          /\ \A q \in Parts : q # p => parts'[q] = parts[q]
          /\ parts'[p].visible = c /\ parts'[p].state = parts[p].state
        BY <1>1, <1>3, <1>7, VisibleSql DEF LInv, Shape
    <2>2. txns'[i].part = p /\ txns'[i].base = b /\ txns'[i].commit = c
        BY <1>3, <1>7, SetTxnRows DEF mark_txn_visible, LInv, Shape
    <2>3. /\ \A u \in Writers : u # w => ws'[u] = ws[u]
          /\ ws'[w].pc = "visible" /\ ws'[w].part = p /\ ws'[w].base = b
          /\ ws'[w].txn = i /\ ws'[w].rows = rows
        BY <1>3, <1>7, WriterGoto DEF LInv, Shape, PcSet
    <2>4. b \in Nat /\ c \in Nat /\ b <= c BY <1>3 DEF Versions
    <2>5. SettledGrows
        <3>1. \A j \in TxnIds : j = i \/ txns'[j] = txns[j] BY <2>1
        <3> QED BY <2>1, <3>1, SettledStays
    <2>6. i \in Settled' BY <2>1 DEF Settled
    <2>7. StoreMoves BY <1>1, StoreStill
    <2>8. \A q \in Parts : (Act(q)' <=> Act(q)) /\ (q # p => parts'[q].visible = parts[q].visible)
        BY <2>1 DEF Act
    <2>9. RowsOK'
        <3>1. \A j \in TxnIds : j = i \/ txns'[j] = txns[j] BY <2>1
        <3>2. \A j \in TxnIds : /\ txns'[j].part = txns[j].part /\ txns'[j].base = txns[j].base
                                /\ txns'[j].commit = txns[j].commit
                                /\ txns'[j].state = "NONE" => txns[j].state = "NONE"
            BY <1>3, <2>1, <2>2, <3>1
        <3>3. RowsStay BY <1>1, <2>1, <3>2 DEF RowsStay
        <3> QED BY <1>1, <2>5, <2>8, <3>3, QuietRows DEF CInv, TableOK
    <2>10. /\ Clean(p, b) /\ (Act(p) => p = Current /\ parts[p].visible = b)
           /\ bundle[p][c] # NoMeta => \A t \in Tablets : bundle[p][c][t] \subseteq Settled \cup {i}
           /\ Act(p) => \A t \in Tablets : bundle[p][c][t] = NextRows(w, t)
        BY <1>1, <1>2, <1>3, <1>4 DEF Session, Target, NewOK, Written, Fresh
    <2>11. Clean(p, c)' BY <1>1, <2>5, <2>6, <2>10 DEF Clean, SettledGrows
    <2>12. Act(p) => Whole(p)'
        <3> SUFFICES ASSUME Act(p), NEW j \in TxnIds, txns'[j].state = "VISIBLE",
                            txns'[j].part = p, NEW t \in routed[j]
                     PROVE  j \in bundle[p][c][t]
            BY <1>1, <2>1 DEF Whole
        <3>1. t \in Tablets BY DEF LInv, Shape, MemShape
        <3>2. bundle[p][c][t] = NextRows(w, t) BY <2>10, <3>1
        <3>3. CASE j = i BY <1>3, <3>2, <3>3 DEF NextRows
        <3>4. CASE j # i
            <4>1. txns[j].state = "VISIBLE" /\ txns[j].part = p BY <2>1, <3>4
            <4>2. Whole(p) /\ parts[p].visible = b BY <2>10 DEF CInv, TableOK, VersionsOK
            <4>3. j \in bundle[p][b][t] BY <4>1, <4>2 DEF Whole
            <4>4. bundle[p][b] # NoMeta
                BY <4>2 DEF LInv, StoreOK, ActiveReadable, ActiveMeta, ActiveParts, Act
            <4> QED BY <1>3, <3>2, <4>3, <4>4 DEF NextRows, BaseRowsets
        <3> QED BY <3>3, <3>4
    <2>13. VersionsOK'
        <3> SUFFICES ASSUME NEW q \in Parts, Act(q)'
                     PROVE  (Clean(q, parts[q].visible) /\ Whole(q))'
            BY DEF VersionsOK
        <3>1. CASE q = p BY <2>1, <2>8, <2>11, <2>12, <3>1 DEF Clean
        <3>2. CASE q # p
            <4>1. \A j \in TxnIds : txns'[j].state = "VISIBLE" /\ txns'[j].part = q =>
                     txns[j].state = "VISIBLE" /\ txns[j].part = q /\ routed'[j] = routed[j]
                BY <1>1, <2>1, <2>2, <3>2
            <4> QED BY <2>5, <2>7, <2>8, <3>2, <4>1, VersionStays DEF CInv, TableOK
        <3> QED BY <3>1, <3>2
    <2>14. TableOK' BY <2>7, <2>9, <2>13, QuietFirst DEF CInv, TableOK
    <2>15. WorkersStay BY <1>2, <1>3, <2>3 DEF WorkersStay, Working
    <2>16. ASSUME NEW q \in Parts, NEW v \in Versions, ReaderOK(q, v) PROVE ReaderOK(q, v)'
        <3>1. Opened(q)' BY <2>1, <2>16 DEF ReaderOK, SqlStep, Grows
        <3>2. Clean(q, v)' BY <2>5, <2>7, <2>16, ReaderIsRead, CleanMoves DEF ReaderOK
        <3>3. v \in Nat BY DEF Versions
        <3>4. Act(q)' => v <= parts'[q].visible
            <4>1. CASE q = p
                <5>1. v <= b BY <1>2, <1>3, <2>16, <4>1 DEF ReaderOK
                <5> QED BY <2>1, <2>4, <3>3, <4>1, <5>1
            <4>2. CASE q # p BY <2>8, <2>16, <4>2 DEF ReaderOK
            <4> QED BY <4>1, <4>2
        <3>5. \A u \in Writers : Working(u)' /\ ws'[u].part = q =>
                 Working(u) /\ ws[u].part = q /\ ws'[u].base = ws[u].base
            BY <2>15 DEF WorkersStay
        <3> QED BY <1>1, <2>16, <3>1, <3>2, <3>4, <3>5, ReaderStays DEF ReaderOK
    <2>17. UpOK'
        <3>1. /\ ReaderOK(view.part, view.version) /\ CatalogOK /\ SnapOK /\ OldOK
            BY <1>4 DEF CInv, UpOK
        <3>2. ReaderOK(view.part, view.version)'
            <4>1. PICK q \in Parts, v \in Versions : q = view.part /\ v = view.version BY Numbers
            <4>2. ReaderOK(q, v)' BY <2>16, <3>1, <4>1
            <4> QED BY <1>1, <4>1, <4>2 DEF ReaderOK, Clean, Act, Opened
        <3>3. CatalogOK'
            <4> SUFFICES ASSUME NEW q \in Parts, lake[q].state = "ACTIVE" PROVE CatalogPart(q)'
                <5>1. \A q \in Parts : lake[q].state # "ACTIVE" => CatalogPart(q)'
                    BY <1>1 DEF CatalogPart
                <5> QED BY <5>1 DEF CatalogOK
            <4>1. PICK v \in Versions : v = lake[q].visible BY Numbers
            <4>2. CatalogPart(q) BY <3>1 DEF CatalogOK
            <4>3. Clean(q, v)'
                BY <2>5, <2>7, <3>1, <4>1, <4>2, CatalogIsRead, CleanMoves DEF CatalogPart, Unread
            <4>4. \A u \in Writers : Working(u)' /\ ws'[u].part = q => v <= ws'[u].base
                BY <2>15, <4>1, <4>2 DEF WorkersStay, CatalogPart
            <4>5. Act(q)' => \/ v = parts'[q].visible
                             \/ Advancing(q)' /\ v <= parts'[q].visible
                <5>1. CASE q = p
                    <6>1. v <= b BY <1>2, <1>3, <4>1, <4>2, <5>1 DEF CatalogPart
                    <6>2. v <= c BY <2>4, <6>1 DEF Versions
                    <6>3. Advancing(q)' BY <2>3, <5>1 DEF Advancing
                    <6> QED BY <2>1, <5>1, <6>2, <6>3
                <5>2. CASE q # p
                    <6>1. ~Advancing(q) BY <1>1, <1>5 DEF Advancing
                    <6>2. Act(q) => v = parts[q].visible BY <4>1, <4>2, <6>1 DEF CatalogPart
                    <6>3. Act(q)' => Act(q) /\ parts'[q].visible = parts[q].visible BY <2>8, <5>2
                    <6> QED BY <6>2, <6>3
                <5> QED BY <5>1, <5>2
            <4> QED BY <1>1, <4>1, <4>3, <4>4, <4>5 DEF CatalogPart, Clean
        <3>4. SnapOK'
            <4>1. ASSUME ddl.pc \in {"reloaded", "dropping"}, NEW q \in Parts,
                         ddl.snap[q].state = "ACTIVE"
                  PROVE  Act(q)' /\ ddl.snap[q].visible = parts'[q].visible
                <5>1. Act(q) /\ ddl.snap[q].visible = parts[q].visible
                    BY <3>1, <4>1 DEF SnapOK
                <5>2. ddl.pc # "dropping" BY <1>1 DEF Calm, Busy
                <5>3. q # p BY <2>10, <3>1, <4>1, <5>1, <5>2 DEF OldOK
                <5> QED BY <2>8, <5>1, <5>3
            <4>2. ASSUME ddl.pc = "swapped", NEW q \in Parts, ddl.snap[q].state = "ACTIVE"
                  PROVE  lake'[q].state = "ACTIVE" /\ ReaderOK(q, ddl.snap[q].visible)'
                <5>1. PICK v \in Versions : v = ddl.snap[q].visible BY Numbers
                <5>2. lake[q].state = "ACTIVE" /\ ReaderOK(q, v) BY <3>1, <4>2, <5>1 DEF SnapOK
                <5>3. ReaderOK(q, v)' BY <2>16, <5>2
                <5> QED BY <1>1, <5>1, <5>2, <5>3 DEF ReaderOK, Clean
            <4> QED BY <1>1, <4>1, <4>2 DEF SnapOK
        <3>5. OldOK'
            <4>1. Current' = Current BY <1>1 DEF Current
            <4>2. ddl.old \in Parts BY DEF LInv, Shape, DdlShape, DdlRecs
            <4> QED BY <1>1, <2>8, <3>1, <4>1, <4>2 DEF OldOK
        <3> QED BY <3>2, <3>3, <3>4, <3>5 DEF UpOK
    <2>18. Session(w)'
        <3>1. OwnRow(w)' BY <1>1, <1>3, <2>2, <2>3, <2>6 DEF OwnRow
        <3>2. Current' = Current /\ Commit(w)' = c BY <1>1, <2>2, <2>3 DEF Current, Commit
        <3>3. Clean(p, b)' BY <1>1, <2>5, <2>10 DEF Clean, SettledGrows
        <3>4. Target(w)' BY <2>1, <2>3, <2>8, <2>10, <3>2, <3>3 DEF Target, Clean, Act
        <3>5. \A t \in Tablets : NextRows(w, t)' = NextRows(w, t)
            BY <1>1, <1>3, <2>3 DEF NextRows, BaseRowsets
        <3>6. NewOK(w)'
            BY <1>1, <2>3, <2>5, <2>8, <2>10, <3>2, <3>5 DEF NewOK, Fresh, Act, SettledGrows
        <3> QED BY <2>3, <3>1, <3>4, <3>6 DEF Session, LogsOK, OutOK, ViewOK
    <2>19. SessionOK' BY <1>5, <2>3, <2>18, OneSession
    <2>20. LeftOK'
        <3>1. \A j \in TxnIds : j = i \/ txns'[j] = txns[j] BY <2>1
        <3> QED BY <1>3, <1>4, <1>7, <2>1, <2>3, <3>1, LeftStays DEF CInv
    <2>21. RecoverOK' BY <1>1, <1>4 DEF CInv, RecoverOK
    <2> QED BY <2>14, <2>17, <2>19, <2>20, <2>21 DEF CInv
<1> QED BY <1>6, <1>7 DEF MarkVisible

\* The catalog follows its INSERT, which then holds the version that it registers.
LEMMA AdvanceCatalogCalm ==
    ASSUME LInv, CInv, Calm, NEW w \in Writers, AdvanceCatalog(w), UNCHANGED <<ddlVars, eraser, recVars>>
    PROVE  CInv'
<1>1. /\ ws[w].pc = "visible"
      /\ UNCHANGED <<txns, nextTxn, parts, nextPart, jobs, logs, bundle, mode, reg, view>>
      /\ UNCHANGED <<routed, acked, faults, budget, ddl, rec, reopens>>
    BY DEF AdvanceCatalog, ddlVars, recVars, sqlVars, objVars, histVars
<1>2. Owning(w) /\ Working(w) BY <1>1 DEF Owning, Working
<1>3. PICK p \in Parts, b \in Versions, c \in Versions, i \in TxnIds :
         p = ws[w].part /\ b = ws[w].base /\ c = Commit(w) /\ c = b + 1 /\ i = ws[w].txn
    BY <1>2, WriterFacts, OwnFacts
<1>4. /\ mode = "up" /\ Session(w) /\ i \in Settled
      /\ ws[w] \in WriterRecs /\ ws \in [Writers -> WriterRecs]
    BY <1>1, <1>2, <1>3, OwnFacts, WriterFacts DEF CInv, SessionOK
<1>5. \A u \in Writers : u # w => ws[u].pc = "idle" BY <1>1, OthersIdle
<1>6. SqlStep /\ SettledGrows /\ VisibleStays /\ RowsOK' BY <1>1, RowsUnchanged
<1>7. StoreMoves /\ ActiveStays BY <1>1 DEF StoreMoves, ActiveStays, Act
<1>8. TableOK' BY <1>6, <1>7, QuietFirst, QuietVersions DEF CInv, TableOK
<1>9. RecoverOK' BY <1>1, <1>4 DEF CInv, RecoverOK
<1>10. /\ ReaderOK(view.part, view.version) /\ CatalogOK /\ SnapOK /\ OldOK
    BY <1>4 DEF CInv, UpOK
<1>11. b \in Nat /\ c \in Nat /\ b < c /\ \A q \in Parts : lake[q].visible \in Nat
    BY <1>3, Numbers DEF Versions
<1>12. lake[p].state = "ACTIVE" => lake[p].visible <= b
    BY <1>2, <1>3, <1>10 DEF CatalogOK, CatalogPart
<1>13. Clean(p, c) /\ (Act(p) => p = Current /\ parts[p].visible = c)
    BY <1>1, <1>2, <1>3, <1>4 DEF Session, Target, NewOK, Written, Fresh, Clean
<1>14. Settled' = Settled BY <1>1 DEF Settled
<1>15. \A q \in Parts : q # p => ~Advancing(q) BY <1>1, <1>3, <1>5 DEF Advancing
<1>16. \A q \in Parts : CatalogPart(q) BY <1>10 DEF CatalogOK
\* Readers, whatever becomes of the catalog as long as it does not go back.
<1>17. ASSUME \A u \in Writers : ~Working(u)',
              \A q \in Parts : lake'[q].state = "ACTIVE" =>
                  lake[q].state = "ACTIVE" /\ lake[q].visible <= lake'[q].visible,
              \A q \in Parts : lake'[q].visible \in Nat,
              NEW q \in Parts, NEW v \in Versions, ReaderOK(q, v)
       PROVE  ReaderOK(q, v)'
    <2>1. Opened(q)' BY <1>1, <1>17 DEF ReaderOK, Opened
    <2>2. Clean(q, v)' BY <1>1, <1>14, <1>17 DEF ReaderOK, Clean
    <2>3. Act(q)' => v <= parts'[q].visible BY <1>1, <1>17 DEF ReaderOK, Act
    <2>4. v \in Nat BY DEF Versions
    <2>5. lake'[q].state = "ACTIVE" => v <= lake'[q].visible
        BY <1>11, <1>17, <2>4 DEF ReaderOK
    <2> QED BY <1>17, <2>1, <2>2, <2>3, <2>5, ReaderStays
<1>18. CASE /\ ~(lake[p].state # "NONE" /\ c > lake[p].visible)
            /\ Return(w) /\ UNCHANGED lake
    <2>1. ws'[w].pc = "idle" /\ \A u \in Writers : u # w => ws'[u] = ws[u]
        BY <1>18, WriterReturn DEF LInv, Shape
    <2>2. \A u \in Writers : ws'[u].pc = "idle" BY <1>5, <2>1
    <2>3. \A u \in Writers : ~Working(u)' BY <2>2 DEF Working
    <2>4. lake[p].state # "ACTIVE" BY <1>11, <1>12, <1>18
    <2>5. CatalogOK'
        <3> SUFFICES ASSUME NEW q \in Parts, lake[q].state = "ACTIVE" PROVE CatalogPart(q)'
            <4>1. \A q \in Parts : lake[q].state # "ACTIVE" => CatalogPart(q)'
                BY <1>18 DEF CatalogPart
            <4> QED BY <4>1 DEF CatalogOK
        <3>1. q # p BY <2>4
        <3>2. Clean(q, lake[q].visible) /\ (Act(q) => lake[q].visible = parts[q].visible)
            BY <1>15, <1>16, <3>1 DEF CatalogPart
        <3> QED BY <1>1, <1>14, <1>18, <2>3, <3>2 DEF CatalogPart, Clean, Act
    <2>6. ASSUME NEW q \in Parts, NEW v \in Versions, ReaderOK(q, v) PROVE ReaderOK(q, v)'
        BY <1>11, <1>17, <1>18, <2>3, <2>6
    <2>7. UpOK'
        <3>1. ReaderOK(view.part, view.version)'
            <4>1. PICK q \in Parts, v \in Versions : q = view.part /\ v = view.version BY Numbers
            <4>2. ReaderOK(q, v)' BY <1>10, <2>6, <4>1
            <4> QED BY <1>1, <4>1, <4>2 DEF ReaderOK, Clean, Act, Opened
        <3>2. SnapOK'
            <4>1. ASSUME ddl.pc = "swapped", NEW q \in Parts, ddl.snap[q].state = "ACTIVE"
                  PROVE  lake'[q].state = "ACTIVE" /\ ReaderOK(q, ddl.snap[q].visible)'
                <5>1. PICK v \in Versions : v = ddl.snap[q].visible BY Numbers
                <5>2. lake[q].state = "ACTIVE" /\ ReaderOK(q, v) BY <1>10, <4>1, <5>1 DEF SnapOK
                <5>3. ReaderOK(q, v)' BY <2>6, <5>2
                <5> QED BY <1>1, <1>18, <5>1, <5>2, <5>3 DEF ReaderOK, Clean
            <4> QED BY <1>1, <1>10, <4>1 DEF SnapOK, Act
        <3>3. OldOK' BY <1>1, <1>7, <1>10, <1>18, QuietOld
        <3> QED BY <2>5, <3>1, <3>2, <3>3 DEF UpOK
    <2>8. SessionOK'
        <3>1. Session(w)'
            BY <2>1 DEF Session, OwnRow, Owning, Target, Working, LogsOK, OutOK, NewOK, Written,
                        ViewOK
        <3> QED BY <2>2, <3>1, OneSession
    <2>9. LeftOK'
        <3>1. txns[i].state # "WRITTEN" BY <1>4 DEF Settled
        <3> QED BY <1>1, <1>3, <1>4, <2>1, <3>1, LeftStays DEF CInv
    <2> QED BY <1>8, <1>9, <2>7, <2>8, <2>9 DEF CInv
<1>19. CASE /\ lake' = [lake EXCEPT ![p].visible = c] /\ c > lake[p].visible
            /\ ws' = [ws EXCEPT ![w].pc = "register", ![w].view = ViewOf(lake')]
    <2>1. lake \in [Parts -> PartRows] /\ CopyOK(lake) BY DEF LInv, MemOK, Shape, MemShape
    <2>2. /\ [lake[p] EXCEPT !.visible = c] \in PartRows
          /\ [lake[p] EXCEPT !.visible = c].visible = c
          /\ [lake[p] EXCEPT !.visible = c].state = lake[p].state
        BY <1>3, <2>1 DEF PartRows
    <2>3. /\ lake' \in [Parts -> PartRows] /\ lake'[p].visible = c
          /\ \A q \in Parts : lake'[q].state = lake[q].state /\ (q # p => lake'[q] = lake[q])
        BY <1>3, <1>19, <2>1, <2>2
    <2>4. ActiveParts(lake') = ActiveParts(lake) BY <2>3 DEF ActiveParts
    <2>5. Current' = Current BY <2>4 DEF Current, ViewOf
    <2>6. PICK s \in Parts : /\ s = ViewOf(lake').part /\ ViewOf(lake').version = lake'[s].visible
                             /\ lake[s].state = "ACTIVE" /\ Opened(s)
        <3>1. PICK s \in Parts : s = ViewOf(lake).part /\ lake[s].state = "ACTIVE" /\ Opened(s)
            BY <2>1, ViewFacts
        <3>2. ViewOf(lake').part = s /\ ViewOf(lake').version = lake'[s].visible
            BY <2>4, <3>1 DEF ViewOf
        <3> QED BY <3>1, <3>2
    <2>7. PICK v \in Versions : v = lake'[s].visible BY <2>3 DEF PartRows
    <2> DEFINE y == [ws[w] EXCEPT !.pc = "register", !.view = ViewOf(lake')]
    <2>8. /\ y.pc = "register" /\ y.part = p /\ y.base = b /\ y.txn = i /\ y.rows = ws[w].rows
          /\ y.view = ViewOf(lake')
        BY <1>3, <1>4 DEF WriterRecs
    <2>9. ws' = [ws EXCEPT ![w] = y] BY <1>4, <1>19
    <2> HIDE DEF y
    <2>10. ws'[w] = y /\ \A u \in Writers : u # w => ws'[u] = ws[u] BY <1>4, <2>9
    <2>11. \A u \in Writers : ~Working(u)' /\ (u # w => ws'[u].pc = "idle")
        BY <1>5, <2>8, <2>10 DEF Working
    <2>12. \A q \in Parts : lake'[q].visible \in Nat BY <2>3 DEF PartRows, Versions
    <2>13. \A q \in Parts : lake'[q].state = "ACTIVE" =>
              lake[q].state = "ACTIVE" /\ lake[q].visible <= lake'[q].visible
        BY <1>11, <1>19, <2>3
    <2>14. ASSUME NEW q \in Parts, NEW n \in Versions, ReaderOK(q, n) PROVE ReaderOK(q, n)'
        BY <1>17, <2>11, <2>12, <2>13, <2>14
    <2>15. ASSUME NEW q \in Parts, lake[q].state = "ACTIVE"
           PROVE  /\ Clean(q, lake'[q].visible) /\ (Act(q) => lake'[q].visible = parts[q].visible)
        <3>1. CASE q = p BY <1>13, <2>3, <3>1
        <3>2. CASE q # p BY <1>15, <1>16, <2>3, <2>15, <3>2 DEF CatalogPart
        <3> QED BY <3>1, <3>2
    <2>16. CatalogOK'
        <3> SUFFICES ASSUME NEW q \in Parts PROVE CatalogPart(q)' BY DEF CatalogOK
        <3> QED BY <1>1, <1>14, <2>3, <2>11, <2>15 DEF CatalogPart, Clean, Act
    <2>17. ReaderOK(s, v)'
        <3>1. Opened(s)' BY <1>1, <2>6 DEF Opened
        <3>2. Clean(s, v)' BY <1>1, <1>14, <2>6, <2>7, <2>15 DEF Clean
        <3>3. v \in Nat BY DEF Versions
        <3> QED BY <1>1, <2>6, <2>7, <2>11, <2>15, <3>1, <3>2, <3>3 DEF ReaderOK, Act
    <2>18. UpOK'
        <3>1. ReaderOK(view.part, view.version)'
            <4>1. PICK q \in Parts, n \in Versions : q = view.part /\ n = view.version BY Numbers
            <4>2. ReaderOK(q, n)' BY <1>10, <2>14, <4>1
            <4> QED BY <1>1, <4>1, <4>2 DEF ReaderOK, Clean, Act, Opened
        <3>2. SnapOK'
            <4>1. ASSUME ddl.pc = "swapped", NEW q \in Parts, ddl.snap[q].state = "ACTIVE"
                  PROVE  lake'[q].state = "ACTIVE" /\ ReaderOK(q, ddl.snap[q].visible)'
                <5>1. PICK n \in Versions : n = ddl.snap[q].visible BY Numbers
                <5>2. lake[q].state = "ACTIVE" /\ ReaderOK(q, n) BY <1>10, <4>1, <5>1 DEF SnapOK
                <5>3. ReaderOK(q, n)' BY <2>14, <5>2
                <5> QED BY <1>1, <2>3, <5>1, <5>2, <5>3 DEF ReaderOK, Clean
            <4> QED BY <1>1, <1>10, <4>1 DEF SnapOK, Act
        <3>3. OldOK' BY <1>1, <1>10, <2>5 DEF OldOK, Act
        <3> QED BY <2>16, <3>1, <3>2, <3>3 DEF UpOK
    <2>19. Session(w)'
        <3>1. OwnRow(w)' BY <1>1, <1>2, <1>3, <1>4, <1>14, <2>8, <2>10 DEF Session, OwnRow
        <3>2. ViewOK(w)' BY <2>6, <2>7, <2>8, <2>10, <2>17 DEF ViewOK, ReaderOK, Clean, Act, Opened
        <3> QED BY <2>8, <2>10, <3>1, <3>2
                DEF Session, Target, Working, LogsOK, OutOK, NewOK, Written
    <2>20. SessionOK' BY <2>11, <2>19, OneSession
    <2>21. LeftOK'
        <3>1. Owning(w)' BY <2>8, <2>10 DEF Owning
        <3> QED BY <1>1, <1>3, <1>4, <2>8, <2>10, <3>1, LeftStays DEF CInv
    <2> QED BY <1>8, <1>9, <2>18, <2>20, <2>21 DEF CInv
<1> QED BY <1>3, <1>18, <1>19 DEF AdvanceCatalog

LEMMA RegisterViewCalm ==
    ASSUME LInv, CInv, Calm, NEW w \in Writers, RegisterView(w), UNCHANGED <<ddlVars, eraser, recVars>>
    PROVE  CInv'
<1>1. /\ ws[w].pc = "register" /\ Return(w) /\ view' = ws[w].view /\ acked' = acked \cup {ws[w].txn}
      /\ UNCHANGED <<txns, nextTxn, parts, nextPart, jobs, logs, bundle, mode, reg, lake>>
      /\ UNCHANGED <<routed, faults, budget, ddl, rec, reopens>>
    BY DEF RegisterView, ddlVars, recVars, sqlVars, objVars
<1>2. Owning(w) BY <1>1 DEF Owning
<1>3. mode = "up" /\ Session(w) /\ ws[w].txn \in Settled
    BY <1>1, <1>2, OwnFacts DEF CInv, SessionOK
<1>4. \A u \in Writers : u # w => ws[u].pc = "idle" BY <1>1, OthersIdle
<1>5. ws'[w].pc = "idle" /\ \A u \in Writers : u # w => ws'[u] = ws[u]
    BY <1>1, WriterReturn DEF LInv, Shape
<1>6. SqlStep BY <1>1, SqlStill DEF LInv, Shape, sqlVars
<1>7. Settled' = Settled /\ SettledGrows BY <1>1 DEF Settled, SettledGrows
<1>8. RowsOK' BY <1>1, <1>3, <1>7 DEF CInv, TableOK, RowsOK, Act
<1>9. StoreMoves /\ ActiveStays /\ VisibleStays /\ \A p \in Parts : Act(p) => Act(p)'
    BY <1>1 DEF StoreMoves, ActiveStays, VisibleStays, Act
<1>10. TableOK' BY <1>7, <1>8, <1>9, QuietFirst, QuietVersions DEF CInv, TableOK
<1>11. WorkersStay BY <1>5 DEF WorkersStay, Working
<1>12. UpOK'
    <2>1. CatalogOK /\ SnapOK /\ OldOK BY <1>3 DEF CInv, UpOK
    <2>2. CatalogOK' BY <1>1, <1>4, <1>7, <1>9, <1>11, <2>1, QuietCatalog
    <2>3. SnapOK' BY <1>1, <1>6, <1>7, <1>9, <1>11, <2>1, QuietSnap
    <2>4. OldOK' BY <1>1, <1>9, <2>1, QuietOld
    <2>5. PICK p \in Parts, v \in Versions : p = ws[w].view.part /\ v = ws[w].view.version
        BY WriterFacts DEF Views
    <2>6. ReaderOK(p, v) BY <1>1, <1>3, <2>5 DEF Session, ViewOK
    <2>7. ReaderOK(p, v)' BY <1>1, <1>6, <1>7, <1>9, <1>11, <2>6, QuietReader
    <2>8. ReaderOK(view.part, view.version)'
        BY <1>1, <2>5, <2>7 DEF ReaderOK, Clean, Act, Opened
    <2> QED BY <2>2, <2>3, <2>4, <2>8 DEF UpOK
<1>13. Session(w)'
    BY <1>5 DEF Session, OwnRow, Owning, Target, Working, LogsOK, OutOK, NewOK, Written, ViewOK
<1>14. SessionOK' BY <1>4, <1>5, <1>13, OneSession
<1>15. LeftOK'
    <2>1. txns[ws[w].txn].state # "WRITTEN" BY <1>3 DEF Settled
    <2> QED BY <1>1, <1>2, <1>3, <1>5, <2>1, LeftStays DEF CInv
<1>16. RecoverOK' BY <1>1, <1>3 DEF CInv, RecoverOK
<1> QED BY <1>10, <1>12, <1>14, <1>15, <1>16 DEF CInv

LEMMA InsertCalm ==
    ASSUME LInv, CInv, Calm, Calm', NEW w \in Writers, Plan(w) \/ InsertStep(w),
           UNCHANGED <<ddlVars, eraser, recVars>>
    PROVE  CInv'
BY PlanCalm, PrepareCalm, AbortCalm, MarkWrittenCalm, WriteLogCalm, PublishReadCalm,
   PublishWriteCalm, PublishCleanupCalm, MarkVisibleCalm, AdvanceCatalogCalm, RegisterViewCalm
DEF InsertStep

-----------------------------------------------------------------------------
(* TRUNCATE, DROP and the erase worker.                                    *)

ReadersStay == \A p \in Parts, v \in Versions : ReaderOK(p, v) => ReaderOK(p, v)'

\* Opened partitions that are active were so, at the same version.
OpenedStays ==
    \A p \in Parts : Opened(p) /\ Act(p)' => Act(p) /\ parts'[p].visible = parts[p].visible

\* The objects of an opened partition stay, or all go with a retired one.
RootsStay ==
    \A p \in Parts : Opened(p) =>
        \/ /\ bundle'[p] = bundle[p]
           /\ \A i \in TxnIds : i < nextTxn /\ txns[i].part = p => logs'[i] = logs[i]
        \/ /\ ~Act(p) /\ ~Act(p)' /\ \A v \in Versions : bundle'[p][v] = NoMeta
           /\ \A i \in TxnIds : i < nextTxn /\ txns[i].part = p =>
                 \A t \in Tablets : logs'[i][t] = "none"

\* No row moves on, except that the rows of a retired partition are forgotten.
StatesStay ==
    \A i \in TxnIds :
        \/ txns'[i].state = txns[i].state
        \/ txns'[i].state = "NONE" /\ ~Act(txns[i].part)

LEMMA SideSession ==
    ASSUME LInv, CInv, SqlStep, UNCHANGED <<ws, routed>>, RowsStay, StatesStay, SettledGrows,
           OpenedStays, RootsStay, ReadersStay, NEW w \in Writers,
           Working(w) /\ Act(ws[w].part)' => Current' = Current
    PROVE  Session(w)'
<1>1. CASE ws[w].pc = "idle"
    BY <1>1 DEF Session, OwnRow, Owning, Target, Working, LogsOK, OutOK, NewOK, Written, ViewOK
<1>2. CASE ws[w].pc # "idle"
    <2>1. PICK p \in Parts, b \in Versions, i \in TxnIds, c \in Versions :
             p = ws[w].part /\ b = ws[w].base /\ i = ws[w].txn /\ c = Commit(w)
        BY WriterFacts
    <2>2. Opened(p) /\ WriterOK(w) /\ Session(w)
        BY <1>2, <2>1, WriterFacts DEF WriterOK, CInv, SessionOK
    <2>3. Owning(w) => i < nextTxn /\ txns[i].part = p
        BY <1>2, <2>1, <2>2 DEF WriterOK, Owning
    <2>4. OwnRow(w)'
        <3>1. i \in Settled => i \in Settled' BY DEF SettledGrows
        <3>2. txns'[i].base = txns[i].base /\ (txns'[i].state = "VISIBLE" => txns[i].state = "VISIBLE")
            BY DEF RowsStay, StatesStay
        <3> QED BY <2>1, <2>2, <3>1, <3>2 DEF Session, OwnRow, Owning
    <2>5. Commit(w)' = c BY <2>1 DEF Commit, RowsStay
    <2>6. Act(p)' => Act(p) /\ parts'[p].visible = parts[p].visible BY <2>2 DEF OpenedStays
    <2>7. \A v \in Versions : bundle'[p][v] = bundle[p][v] \/ (~Act(p)' /\ bundle'[p][v] = NoMeta)
        BY <2>2 DEF RootsStay
    <2>8. Target(w)'
        <3>1. Working(w) => Clean(p, b) BY <2>1, <2>2 DEF Session, Target
        <3>2. Working(w) => Clean(p, b)' BY <2>7, <3>1 DEF Clean, SettledGrows
        <3>3. Working(w) /\ Act(p)' =>
                 /\ p = Current'
                 /\ parts'[p].visible = IF ws[w].pc = "visible" THEN c ELSE b
            BY <2>1, <2>2, <2>6 DEF Session, Target
        <3> QED BY <2>1, <2>5, <3>2, <3>3 DEF Target, Working, Clean, Act
    <2>9. LogsOK(w)'
        <3>1. \A t \in Tablets : Proper(w, t)' = Proper(w, t) BY DEF Proper
        <3>2. CASE ws[w].pc \in {"writing", "logged"}
            <4>1. i < nextTxn /\ txns[i].part = p BY <2>3, <3>2 DEF Owning
            <4>2. CASE bundle'[p] = bundle[p] /\ logs'[i] = logs[i]
                BY <2>1, <2>2, <2>5, <2>6, <3>1, <4>2 DEF Session, LogsOK, Act
            <4>3. CASE /\ ~Act(p)' /\ \A v \in Versions : bundle'[p][v] = NoMeta
                       /\ \A t \in Tablets : logs'[i][t] = "none"
                BY <2>1, <2>5, <4>3 DEF LogsOK, Act
            <4> QED BY <2>2, <4>1, <4>2, <4>3 DEF RootsStay
        <3> QED BY <3>2 DEF LogsOK
    <2>10. \A rs : Fresh(w, rs) => Fresh(w, rs)' BY DEF Fresh, SettledGrows
    <2>11. Act(p)' => \A t \in Tablets : NextRows(w, t)' = NextRows(w, t)
        BY <2>1, <2>2, <2>6, <2>7 DEF NextRows, BaseRowsets
    <2>12. OutOK(w)'
        BY <2>1, <2>2, <2>6, <2>10, <2>11 DEF Session, OutOK, Act
    <2>13. NewOK(w)'
        <3>1. CASE bundle'[p][c] = bundle[p][c]
            BY <2>1, <2>2, <2>5, <2>6, <2>10, <2>11, <3>1 DEF Session, NewOK, Written, Act
        <3>2. CASE ~Act(p)' /\ bundle'[p][c] = NoMeta
            BY <2>1, <2>5, <3>2 DEF NewOK, Act
        <3> QED BY <2>7, <3>1, <3>2
    <2>14. ViewOK(w)'
        <3>1. PICK q \in Parts, v \in Versions : q = ws[w].view.part /\ v = ws[w].view.version
            BY WriterFacts DEF Views
        <3>2. ws[w].pc = "register" => ReaderOK(q, v)' BY <2>2, <3>1 DEF Session, ViewOK, ReadersStay
        <3> QED BY <3>1, <3>2 DEF ViewOK, ReaderOK, Clean, Act, Opened
    <2> QED BY <2>4, <2>8, <2>9, <2>12, <2>13, <2>14 DEF Session
<1> QED BY <1>1, <1>2

LEMMA SideLeft ==
    ASSUME LInv, LeftOK, mode = "up", UNCHANGED ws, UNCHANGED faults \/ ObjFault \/ SqlFault, StatesStay
    PROVE  LeftOK'
<1>1. \A i \in TxnIds : txns'[i].state = "WRITTEN" => txns[i].state = "WRITTEN" BY DEF StatesStay
<1>2. faults'.sql = 0 => faults.sql = 0 BY FaultCount
<1> QED BY <1>1, <1>2 DEF LeftOK, Owning

\* A step that leaves the copies in memory and the sessions alone.
LEMMA SideCalm ==
    ASSUME LInv, CInv, mode = "up", UNCHANGED <<ws, routed, acked, mode, lake, view, rec>>,
           SqlStep, UNCHANGED faults \/ ObjFault \/ SqlFault, RowsStay, StatesStay, StoreMoves,
           OpenedStays, RootsStay, VersionsOK', SnapOK', OldOK'
    PROVE  CInv'
<1>1. SettledGrows BY SettledStays DEF StatesStay
<1>2. ReadersStay
    <2> SUFFICES ASSUME NEW p \in Parts, NEW v \in Versions, ReaderOK(p, v) PROVE ReaderOK(p, v)'
        BY DEF ReadersStay
    <2>1. Opened(p)' BY DEF ReaderOK, SqlStep, Grows
    <2>2. Clean(p, v)' BY <1>1, ReaderIsRead, CleanMoves DEF ReaderOK
    <2>3. Act(p)' => v <= parts'[p].visible BY DEF ReaderOK, OpenedStays
    <2>4. lake'[p].state = "ACTIVE" => v <= lake'[p].visible BY DEF ReaderOK
    <2>5. \A u \in Writers : Working(u)' /\ ws'[u].part = p =>
              Working(u) /\ ws[u].part = p /\ ws'[u].base = ws[u].base
        BY DEF Working
    <2> QED BY <2>1, <2>2, <2>3, <2>4, <2>5, ReaderStays
<1>3. ReaderOK(view.part, view.version) /\ CatalogOK BY DEF CInv, UpOK
<1>4. ReaderOK(view.part, view.version)'
    <2>1. PICK p \in Parts, v \in Versions : p = view.part /\ v = view.version BY Numbers
    <2>2. ReaderOK(p, v)' BY <1>2, <1>3, <2>1 DEF ReadersStay
    <2> QED BY <2>1, <2>2 DEF ReaderOK, Clean, Act, Opened
<1>5. CatalogOK'
    <2> SUFFICES ASSUME NEW p \in Parts, lake[p].state = "ACTIVE" PROVE CatalogPart(p)'
        <3>1. \A p \in Parts : lake[p].state # "ACTIVE" => CatalogPart(p)' BY DEF CatalogPart
        <3> QED BY <3>1 DEF CatalogOK
    <2>1. PICK v \in Versions : v = lake[p].visible BY Numbers
    <2>2. Opened(p) /\ CatalogPart(p) BY <1>3, CatalogFacts DEF CopyOK, CatalogOK
    <2>3. Clean(p, v) /\ ~Unread(p, v) BY <1>3, <2>1, <2>2, CatalogIsRead DEF CatalogPart, Unread
    <2>4. Clean(p, v)' BY <1>1, <2>3, CleanMoves
    <2>5. Advancing(p) => Advancing(p)' BY DEF Advancing
    <2>6. \A w \in Writers : Working(w)' /\ ws'[w].part = p => lake[p].visible <= ws'[w].base
        BY <2>2 DEF CatalogPart, Working
    <2>7. Act(p)' => \/ lake[p].visible = parts'[p].visible
                     \/ Advancing(p)' /\ lake[p].visible <= parts'[p].visible
        BY <2>2, <2>5 DEF OpenedStays, CatalogPart
    <2> QED BY <2>1, <2>4, <2>6, <2>7 DEF CatalogPart, Clean
<1>6. UpOK' BY <1>4, <1>5 DEF UpOK
<1>7. Current' = Current BY DEF Current
<1>8. SessionOK' BY <1>1, <1>2, <1>7, SideSession DEF SessionOK
<1>9. LeftOK' BY SideLeft DEF CInv
<1>10. RecoverOK' BY DEF CInv, RecoverOK
<1>11. FirstOK' BY QuietFirst DEF CInv, TableOK
<1>12. RowsOK'
    <2>1. RowsOK /\ SqlOK BY DEF CInv, TableOK, LInv
    <2>2. \A i \in TxnIds : i < nextTxn => txns'[i].commit = txns'[i].base + 1
        BY <2>1 DEF RowsOK, RowsStay
    <2>3. ASSUME NEW i \in TxnIds, i < nextTxn, txns'[i].state = "NONE"
          PROVE  ~(parts'[txns'[i].part].state = "ACTIVE")
        <3>1. PICK p \in Parts : p = txns[i].part /\ p = txns'[i].part BY Numbers DEF RowsStay
        <3>2. ~Act(p) BY <2>1, <2>3, <3>1 DEF RowsOK, RowsStay
        <3>3. Opened(p) BY <2>1, <2>3, <3>1 DEF SqlOK
        <3>4. ~Act(p)' BY <3>2, <3>3 DEF OpenedStays
        <3> QED BY <3>1, <3>4 DEF Act
    <2>4. \A i \in TxnIds : i >= nextTxn => \A t \in Tablets : logs'[i][t] = "none"
        BY <2>1 DEF RowsOK, RowsStay
    <2>5. acked' \subseteq Settled' BY <1>1, <2>1 DEF RowsOK, SettledGrows
    <2> QED BY <2>2, <2>3, <2>4, <2>5 DEF RowsOK, RowsStay, Act
<1> QED BY <1>6, <1>8, <1>9, <1>10, <1>11, <1>12 DEF CInv, TableOK

LEMMA StillFacts ==
    ASSUME LInv, CInv, UNCHANGED <<sqlVars, budget>>
    PROVE  /\ SqlStep /\ StatesStay /\ OpenedStays /\ ActiveStays /\ Settled' = Settled
           /\ \A p \in Parts : (Act(p)' <=> Act(p)) /\ (Opened(p)' <=> Opened(p))
           /\ UNCHANGED <<txns, nextTxn, parts, nextPart, jobs>>
           /\ logs' = logs => RowsStay
<1>1. UNCHANGED <<txns, nextTxn, parts, nextPart, jobs>> BY DEF sqlVars
<1>2. SqlStep BY SqlStill DEF LInv, Shape
<1> QED BY <1>1, <1>2
        DEF StatesStay, OpenedStays, ActiveStays, Settled, Act, Opened, RowsStay

LEMMA RootsStill ==
    ASSUME UNCHANGED objVars
    PROVE  StoreMoves /\ RootsStay
BY DEF objVars, StoreMoves, RootsStay

\* The table as the sessions left it.
LEMMA VersionsStill ==
    ASSUME LInv, CInv, SettledGrows, StoreMoves, ActiveStays, StatesStay, RowsStay, UNCHANGED routed
    PROVE  VersionsOK'
<1>1. VisibleStays BY DEF VisibleStays, StatesStay, RowsStay
<1> QED BY <1>1, QuietVersions DEF CInv, TableOK

LEMMA TruncStageCalm ==
    ASSUME LInv, CInv, TruncStage, UNCHANGED recVars
    PROVE  CInv'
<1>1. /\ mode = "up" /\ stage_truncate_partition
      /\ ddl' = [ddl EXCEPT !.pc = "staged", !.old = ViewOf(lake).part, !.new = nextPart]
      /\ UNCHANGED <<objVars, logs, bundle, mode, reg, lake, view, ws, routed, acked, faults>>
      /\ UNCHANGED <<budget, rec, crashes, reopens>>
    BY DEF TruncStage, recVars, insertVars, objVars, memVars, histVars
<1>2. SqlShape /\ DdlShape /\ SqlOK BY SideFacts
<1>3. /\ SqlStep /\ UNCHANGED <<txns, nextTxn, jobs>> /\ nextPart \in Parts
      /\ parts'[nextPart].state = "CREATING"
      /\ \A p \in Parts : p # nextPart => parts'[p] = parts[p]
    BY <1>1, <1>2, StageSql
<1>4. nextPart \in Nat BY Numbers
<1>5. ActiveStays /\ OpenedStays /\ StatesStay /\ RowsStay
    BY <1>1, <1>3 DEF ActiveStays, OpenedStays, StatesStay, RowsStay, Act
<1>6. StoreMoves /\ RootsStay BY <1>1, RootsStill
<1>7. SettledGrows BY <1>3, SettledStays
<1>8. VersionsOK' BY <1>1, <1>5, <1>6, <1>7, VersionsStill
<1>9. PICK o \in Parts : o = ViewOf(lake).part BY CatalogFacts, ViewFacts
<1>10. ddl'.pc = "staged" /\ ddl'.old = o BY <1>1, <1>2, <1>9 DEF DdlShape, DdlRecs
<1>11. Current' = o BY <1>1, <1>9 DEF Current
<1>12. SnapOK' /\ OldOK' BY <1>10, <1>11 DEF SnapOK, OldOK
<1> QED BY <1>1, <1>3, <1>5, <1>6, <1>8, <1>12, SideCalm

\* The metadata of the staged partition appears.
LEMMA BootstrapMoves ==
    ASSUME LInv, TruncBootstrap
    PROVE  StoreMoves /\ RootsStay /\ logs' = logs
<1>1. ObjShape /\ ddl.new \in Parts /\ parts[ddl.new].state = "CREATING"
    BY SideFacts DEF TruncBootstrap
<1>2. CASE UNCHANGED objVars BY <1>2, RootsStill DEF objVars
<1>3. CASE BootstrapPartition(ddl.new)
    <2>1. bundle' = [bundle EXCEPT ![ddl.new][1] = EmptyMeta] /\ logs' = logs
        BY <1>3 DEF BootstrapPartition
    <2>2. bundle \in [Parts -> [Versions -> Metas \cup {NoMeta}]] BY <1>1 DEF ObjShape
    <2>3. \A p \in Parts : p # ddl.new => bundle'[p] = bundle[p] BY <2>1, <2>2
    <2>4. \A v \in Versions : \/ bundle'[ddl.new][v] = bundle[ddl.new][v]
                              \/ bundle'[ddl.new][v] = EmptyMeta
        BY <1>1, <2>1, <2>2
    <2>5. StoreMoves BY <1>1, <2>3, <2>4 DEF StoreMoves, Act
    <2>6. RootsStay BY <1>1, <2>1, <2>3 DEF RootsStay, Opened
    <2> QED BY <2>1, <2>5, <2>6
<1> QED BY <1>2, <1>3 DEF TruncBootstrap

LEMMA TruncBootstrapCalm ==
    ASSUME LInv, CInv, TruncBootstrap, UNCHANGED recVars
    PROVE  CInv'
<1>1. /\ ddl.pc = "staged" /\ UNCHANGED <<sqlVars, mode, lake, view, ws, routed, acked>>
      /\ UNCHANGED <<budget, rec, reopens>> /\ (UNCHANGED faults \/ ObjFault \/ SqlFault)
    BY DEF TruncBootstrap, recVars, insertVars, histVars
<1>2. /\ SqlShape /\ ObjShape /\ DdlShape /\ mode = "up" /\ ddl.new \in Parts
      /\ parts[ddl.new].state = "CREATING"
    BY <1>1, SideFacts
<1>3. /\ SqlStep /\ StatesStay /\ OpenedStays /\ ActiveStays /\ Settled' = Settled
      /\ (logs' = logs => RowsStay)
    BY <1>1, StillFacts
<1>4. StoreMoves /\ RootsStay /\ logs' = logs BY BootstrapMoves
<1>5. SettledGrows BY <1>3 DEF SettledGrows
<1>6. VersionsOK' BY <1>1, <1>3, <1>4, <1>5, VersionsStill
<1>7. PICK x \in {"bootstrapped", "cleanup"} : ddl' = [ddl EXCEPT !.pc = x] BY DEF TruncBootstrap
<1>8. ddl'.pc = x /\ ddl'.old = ddl.old BY <1>2, <1>7, DdlGoto
<1>9. Current' = Current BY <1>1 DEF Current
<1>10. ddl.old = Current BY <1>1, <1>2 DEF CInv, UpOK, OldOK
<1>11. SnapOK' /\ OldOK' BY <1>8, <1>9, <1>10 DEF SnapOK, OldOK
<1> QED BY <1>1, <1>2, <1>3, <1>4, <1>6, <1>11, SideCalm

LEMMA TruncActivateCalm ==
    ASSUME LInv, CInv, TruncActivate, UNCHANGED recVars
    PROVE  CInv'
<1>1. /\ ddl.pc = "bootstrapped" /\ UNCHANGED <<objVars, logs, bundle, mode, lake, view>>
      /\ UNCHANGED <<ws, routed, acked, budget, rec, reopens>>
      /\ (UNCHANGED faults \/ ObjFault \/ SqlFault)
    BY DEF TruncActivate, recVars, insertVars, histVars, objVars, memVars
<1>2. /\ SqlShape /\ ObjShape /\ DdlShape /\ SqlOK /\ mode = "up" /\ ddl.new \in Parts
      /\ ddl.old \in Parts /\ parts[ddl.new].state = "CREATING" /\ Opened(ddl.old)
      /\ bundle[ddl.new][1] # NoMeta
    BY <1>1, SideFacts
<1>3. StoreMoves /\ RootsStay BY <1>1, RootsStill
<1>4. Current' = Current /\ ddl.old = Current
    BY <1>1, <1>2 DEF Current, CInv, UpOK, OldOK
<1>5. CASE ddl' = [ddl EXCEPT !.pc = "cleanup"] /\ UNCHANGED sqlVars
    <2>1. /\ SqlStep /\ StatesStay /\ OpenedStays /\ ActiveStays /\ Settled' = Settled /\ RowsStay
        BY <1>1, <1>5, StillFacts
    <2>2. SettledGrows BY <2>1 DEF SettledGrows
    <2>3. VersionsOK' BY <1>1, <1>3, <2>1, <2>2, VersionsStill
    <2>4. ddl'.pc = "cleanup" BY <1>2, <1>5, DdlGoto
    <2>5. SnapOK' /\ OldOK' BY <2>4 DEF SnapOK, OldOK
    <2> QED BY <1>1, <1>2, <1>3, <2>1, <2>3, <2>5, SideCalm
<1>6. CASE /\ activate_truncate_partition(ddl.old, ddl.new)
           /\ ddl' = [ddl EXCEPT !.pc = "activated"]
    <2>1. /\ SqlStep /\ UNCHANGED <<txns, nextTxn, nextPart>>
          /\ \A p \in Parts \ {ddl.old, ddl.new} : parts'[p] = parts[p]
          /\ parts'[ddl.old].state = "RETIRED" /\ parts'[ddl.new].visible = parts[ddl.new].visible
        BY <1>1, <1>2, <1>6, ActivateSql
    <2>2. StatesStay /\ RowsStay BY <1>1, <2>1 DEF StatesStay, RowsStay
    <2>3. \A p \in Parts : Act(p)' => p # ddl.old BY <2>1 DEF Act
    <2>4. OpenedStays
        <3> SUFFICES ASSUME NEW p \in Parts, Opened(p), Act(p)'
                     PROVE  Act(p) /\ parts'[p].visible = parts[p].visible
            BY DEF OpenedStays
        <3>1. p # ddl.new BY <1>2 DEF Opened
        <3>2. parts'[p] = parts[p] BY <2>1, <2>3, <3>1
        <3> QED BY <3>2 DEF Act
    <2>5. SettledGrows BY <2>1, SettledStays
    <2>6. VersionsOK'
        <3> SUFFICES ASSUME NEW p \in Parts, Act(p)'
                     PROVE  (Clean(p, parts[p].visible) /\ Whole(p))'
            BY DEF VersionsOK
        <3>1. CASE p = ddl.new
            <4>1. parts'[p].visible = 1 BY <1>2, <2>1, <3>1 DEF SqlOK
            <4>2. bundle'[p][1] = EmptyMeta BY <1>1, <1>2, <3>1 DEF CInv, TableOK, FirstOK
            <4>3. Clean(p, parts[p].visible)' BY <4>1, <4>2, EmptyRows DEF Clean
            <4>4. \A i \in TxnIds : txns[i].state = "VISIBLE" => txns[i].part # p
                BY <1>2, <3>1 DEF SqlOK, Opened
            <4>5. Whole(p)' BY <2>1, <4>4 DEF Whole
            <4> QED BY <4>3, <4>5
        <3>2. CASE p # ddl.new
            <4>1. parts'[p] = parts[p] BY <2>1, <2>3, <3>2
            <4>2. Act(p) /\ parts'[p].visible = parts[p].visible BY <4>1 DEF Act
            <4> QED BY <1>1, <1>3, <2>1, <2>5, <4>2, VersionStays DEF CInv, TableOK
        <3> QED BY <3>1, <3>2
    <2>7. ddl'.pc = "activated" /\ ddl'.old = ddl.old BY <1>2, <1>6, DdlGoto
    <2>8. ~Act(ddl.old)' BY <2>1, <2>7 DEF Act
    <2>9. SnapOK' /\ OldOK' BY <1>4, <2>7, <2>8 DEF SnapOK, OldOK
    <2> QED BY <1>1, <1>2, <1>3, <2>1, <2>2, <2>4, <2>6, <2>9, SideCalm
<1> QED BY <1>5, <1>6 DEF TruncActivate

LEMMA TruncCleanupCalm ==
    ASSUME LInv, CInv, TruncCleanup, UNCHANGED recVars
    PROVE  CInv'
<1>1. /\ ddl.pc = "cleanup" /\ ddl' = NoDdl /\ UNCHANGED <<objVars, logs, bundle, mode, lake, view>>
      /\ UNCHANGED <<ws, routed, acked, budget, rec, reopens>>
      /\ (UNCHANGED faults \/ ObjFault \/ SqlFault)
    BY DEF TruncCleanup, recVars, insertVars, histVars, objVars
<1>2. SqlShape /\ SqlOK /\ mode = "up" /\ ddl.new \in Parts BY <1>1, SideFacts
<1>3. /\ SqlStep /\ UNCHANGED <<txns, nextTxn>> /\ ActiveParts(parts') = ActiveParts(parts)
      /\ \A q \in ActiveParts(parts) : parts'[q] = parts[q]
    <2>1. CASE delete_creating_partition(ddl.new) BY <1>1, <1>2, <2>1, DeleteCreatingSql
    <2>2. CASE UNCHANGED sqlVars BY <1>1, <1>2, <2>2, SqlStill DEF sqlVars
    <2> QED BY <2>1, <2>2 DEF TruncCleanup
<1>4. ActiveStays BY <1>3 DEF ActiveStays, Act, ActiveParts
<1>5. OpenedStays /\ StatesStay /\ RowsStay
    BY <1>1, <1>3, <1>4 DEF ActiveStays, OpenedStays, StatesStay, RowsStay
<1>6. StoreMoves /\ RootsStay BY <1>1, RootsStill
<1>7. SettledGrows BY <1>3, SettledStays
<1>8. VersionsOK' BY <1>1, <1>4, <1>5, <1>6, <1>7, VersionsStill
<1>9. ddl'.pc = "idle" BY <1>1, <1>2, DdlEnd
<1>10. SnapOK' /\ OldOK' BY <1>9 DEF SnapOK, OldOK
<1> QED BY <1>1, <1>2, <1>3, <1>5, <1>6, <1>8, <1>10, SideCalm

\* A step on the copies in memory.
LEMMA CopyCalm ==
    ASSUME LInv, CInv, mode = "up", UNCHANGED <<sqlVars, objVars, mode, ws, histVars, budget, rec>>,
           UNCHANGED faults \/ ObjFault \/ SqlFault, ReadersStay,
           \A w \in Writers : Working(w) /\ Act(ws[w].part) => Current' = Current,
           UpOK'
    PROVE  CInv'
<1>1. /\ SqlStep /\ StatesStay /\ OpenedStays /\ ActiveStays /\ Settled' = Settled
      /\ UNCHANGED <<txns, nextTxn, parts, nextPart, jobs>>
      /\ (logs' = logs => RowsStay)
    BY StillFacts
<1>2. StoreMoves /\ RootsStay BY RootsStill
<1>3. UNCHANGED <<logs, bundle, routed, acked>> BY DEF objVars, histVars
<1>4. SettledGrows BY <1>1 DEF SettledGrows
<1>5. VersionsOK' BY <1>1, <1>2, <1>3, <1>4, VersionsStill
<1>6. FirstOK' BY <1>2, QuietFirst DEF CInv, TableOK
<1>7. RowsOK' BY <1>1, <1>3 DEF CInv, TableOK, RowsOK, Act
<1>8. \A w \in Writers : Working(w) /\ Act(ws[w].part)' => Current' = Current
    <2>1. \A w \in Writers : Act(ws[w].part)' => Act(ws[w].part) BY <1>1 DEF Act
    <2> QED BY <2>1
<1>9. SessionOK' BY <1>1, <1>2, <1>3, <1>4, <1>8, SideSession DEF SessionOK
<1>10. LeftOK' BY <1>1, SideLeft DEF CInv
<1>11. RecoverOK' BY DEF CInv, RecoverOK
<1> QED BY <1>5, <1>6, <1>7, <1>9, <1>10, <1>11 DEF CInv, TableOK

\* The catalog stays.
LEMMA LakeStill ==
    ASSUME LInv, CInv, mode = "up", UNCHANGED <<sqlVars, objVars, ws, lake, budget>>
    PROVE  ReadersStay /\ CatalogOK' /\ Current' = Current
<1>1. Settled' = Settled /\ UNCHANGED <<txns, nextTxn, parts, nextPart, jobs>> BY StillFacts
<1>2. UNCHANGED <<logs, bundle>> BY DEF objVars
<1>3. ReadersStay BY <1>1, <1>2 DEF ReadersStay, ReaderOK, Clean, Act, Opened, Working
<1>4. CatalogOK' BY <1>1, <1>2 DEF CInv, UpOK, CatalogOK, CatalogPart, Clean, Act, Advancing, Working
<1> QED BY <1>3, <1>4 DEF Current

LEMMA ViewStill ==
    ASSUME LInv, CInv, mode = "up", ReadersStay, view' = view
    PROVE  ReaderOK(view.part, view.version)'
<1>1. PICK p \in Parts, v \in Versions : p = view.part /\ v = view.version BY Numbers
<1>2. ReaderOK(p, v)' BY <1>1 DEF ReadersStay, CInv, UpOK
<1> QED BY <1>1, <1>2 DEF ReaderOK, Clean, Act, Opened

LEMMA TruncRemoveRuntimesCalm ==
    ASSUME LInv, CInv, TruncRemoveRuntimes, UNCHANGED recVars
    PROVE  CInv'
<1>1. /\ ddl.pc = "activated" /\ ddl' = [ddl EXCEPT !.pc = "removed"]
      /\ UNCHANGED <<sqlVars, objVars, mode, lake, view, ws, histVars, faults, budget, rec>>
    BY DEF TruncRemoveRuntimes, recVars, insertVars
<1>2. DdlShape /\ mode = "up" /\ ddl.old \in Parts BY <1>1, SideFacts
<1>3. ReadersStay /\ CatalogOK' /\ Current' = Current BY <1>1, <1>2, LakeStill
<1>4. ReaderOK(view.part, view.version)' BY <1>1, <1>2, <1>3, ViewStill
<1>5. ddl'.pc = "removed" /\ ddl'.old = ddl.old BY <1>1, <1>2, DdlGoto
<1>6. ddl.old = Current /\ ~Act(ddl.old) BY <1>1, <1>2 DEF CInv, UpOK, OldOK
<1>7. parts' = parts BY <1>1 DEF sqlVars
<1>8. SnapOK' /\ OldOK' BY <1>3, <1>5, <1>6, <1>7 DEF SnapOK, OldOK, Act
<1>9. UpOK' BY <1>3, <1>4, <1>8 DEF UpOK
<1> QED BY <1>1, <1>2, <1>3, <1>9, CopyCalm

LEMMA TruncReloadCalm ==
    ASSUME LInv, CInv, TruncReload, UNCHANGED recVars
    PROVE  CInv'
<1>1. /\ ddl.pc = "removed" /\ (UNCHANGED faults \/ ObjFault)
      /\ UNCHANGED <<sqlVars, objVars, mode, lake, view, ws, histVars, budget, rec>>
    BY DEF TruncReload, recVars, insertVars
<1>2. SqlShape /\ DdlShape /\ mode = "up" /\ parts \in [Parts -> PartRows]
    BY <1>1, SideFacts, CatalogFacts
<1>3. ReadersStay /\ CatalogOK' /\ Current' = Current BY <1>1, <1>2, LakeStill
<1>4. ReaderOK(view.part, view.version)' BY <1>1, <1>2, <1>3, ViewStill
<1>5. ddl.old = Current /\ ~Act(ddl.old) BY <1>1, <1>2 DEF CInv, UpOK, OldOK
<1>6. parts' = parts BY <1>1 DEF sqlVars
<1>7. SnapOK' /\ OldOK'
    <2>1. CASE ddl' = NoDdl
        <3>1. ddl'.pc = "idle" BY <1>2, <2>1, DdlEnd
        <3> QED BY <3>1 DEF SnapOK, OldOK
    <2>2. CASE ddl' = [ddl EXCEPT !.pc = "reloaded", !.snap = parts]
        <3>1. ddl'.pc = "reloaded" /\ ddl'.snap = parts /\ ddl'.old = ddl.old
            BY <1>2, <2>2 DEF DdlShape, DdlRecs
        <3> QED BY <1>3, <1>5, <1>6, <3>1 DEF SnapOK, OldOK, Act
    <2> QED BY <2>1, <2>2 DEF TruncReload
<1>8. UpOK' BY <1>3, <1>4, <1>7 DEF UpOK
<1> QED BY <1>1, <1>2, <1>3, <1>8, CopyCalm

LEMMA DropReloadCalm ==
    ASSUME LInv, CInv, DropReload, UNCHANGED recVars
    PROVE  CInv'
<1>1. /\ mode = "up" /\ ddl' = [ddl EXCEPT !.pc = "dropping", !.snap = parts]
      /\ UNCHANGED <<sqlVars, objVars, mode, lake, view, ws, histVars, faults, budget, rec>>
    BY DEF DropReload, recVars, insertVars, memVars
<1>2. DdlShape /\ parts \in [Parts -> PartRows] BY SideFacts, CatalogFacts
<1>3. ReadersStay /\ CatalogOK' /\ Current' = Current BY <1>1, LakeStill
<1>4. ReaderOK(view.part, view.version)' BY <1>1, <1>3, ViewStill
<1>5. ddl'.pc = "dropping" /\ ddl'.snap = parts BY <1>1, <1>2 DEF DdlShape, DdlRecs
<1>6. parts' = parts BY <1>1 DEF sqlVars
<1>7. SnapOK' /\ OldOK' BY <1>5, <1>6 DEF SnapOK, OldOK, Act
<1>8. UpOK' BY <1>3, <1>4, <1>7 DEF UpOK
<1> QED BY <1>1, <1>3, <1>8, CopyCalm

\* What a swap needs: the copy is of this moment, and no INSERT works on a
\* partition that it shows.
LEMMA SwapCalm ==
    ASSUME LInv, CInv, mode = "up", UNCHANGED <<sqlVars, objVars, ws, budget>>, lake' = ddl.snap,
           ddl.pc \in {"reloaded", "dropping"},
           \A w \in Writers : Working(w) => ~Act(ws[w].part)
    PROVE  /\ ReadersStay /\ CatalogOK'
           /\ \A p \in Parts, v \in Versions :
                 ddl.snap[p].state = "ACTIVE" /\ v = ddl.snap[p].visible => ReaderOK(p, v)'
<1>1. Settled' = Settled /\ UNCHANGED <<txns, nextTxn, parts, nextPart, jobs>> BY StillFacts
<1>2. UNCHANGED <<logs, bundle>> BY DEF objVars
<1>3. \A p \in Parts : ddl.snap[p].state = "ACTIVE" =>
          Act(p) /\ ddl.snap[p].visible = parts[p].visible
    BY DEF CInv, UpOK, SnapOK
<1>4. ReadersStay
    <2> SUFFICES ASSUME NEW p \in Parts, NEW v \in Versions, ReaderOK(p, v) PROVE ReaderOK(p, v)'
        BY DEF ReadersStay
    <2>1. lake'[p].state = "ACTIVE" => v <= lake'[p].visible BY <1>3 DEF ReaderOK
    <2> QED BY <1>1, <1>2, <2>1 DEF ReaderOK, Clean, Act, Opened, Working
<1>5. ASSUME NEW p \in Parts, ddl.snap[p].state = "ACTIVE"
      PROVE  /\ Clean(p, ddl.snap[p].visible) /\ Opened(p)
             /\ \A w \in Writers : Working(w) => ws[w].part # p
    <2>1. Act(p) /\ ddl.snap[p].visible = parts[p].visible BY <1>3, <1>5
    <2>2. Opened(p) BY <2>1, CatalogFacts DEF CopyOK, Act
    <2> QED BY <2>1, <2>2 DEF CInv, TableOK, VersionsOK
<1>6. CatalogOK'
    <2> SUFFICES ASSUME NEW p \in Parts PROVE CatalogPart(p)' BY DEF CatalogOK
    <2> QED BY <1>1, <1>2, <1>3, <1>5 DEF CatalogPart, Clean, Act, Working
<1>7. ASSUME NEW p \in Parts, NEW v \in Versions, ddl.snap[p].state = "ACTIVE",
             v = ddl.snap[p].visible
      PROVE  ReaderOK(p, v)'
    <2>1. Clean(p, v) /\ Opened(p) /\ v = parts[p].visible BY <1>3, <1>5, <1>7
    <2>2. v <= v BY DEF Versions
    <2> QED BY <1>1, <1>2, <1>5, <1>7, <2>1, <2>2 DEF ReaderOK, Clean, Act, Opened, Working
<1> QED BY <1>4, <1>6, <1>7

LEMMA TruncSwapCalm ==
    ASSUME LInv, CInv, TruncSwap, UNCHANGED recVars
    PROVE  CInv'
<1>1. /\ ddl.pc = "reloaded" /\ lake' = ddl.snap /\ ddl' = [ddl EXCEPT !.pc = "swapped"]
      /\ UNCHANGED <<sqlVars, objVars, mode, view, ws, histVars, faults, budget, rec>>
    BY DEF TruncSwap, recVars, insertVars
<1>2. DdlShape /\ mode = "up" BY <1>1, SideFacts
<1>3. ddl.old = Current /\ ~Act(ddl.old) BY <1>1, <1>2 DEF CInv, UpOK, OldOK
<1>4. \A w \in Writers : Working(w) => ~Act(ws[w].part)
    BY <1>3 DEF CInv, SessionOK, Session, Target
<1>5. /\ ReadersStay /\ CatalogOK'
      /\ \A p \in Parts, v \in Versions :
            ddl.snap[p].state = "ACTIVE" /\ v = ddl.snap[p].visible => ReaderOK(p, v)'
    BY <1>1, <1>2, <1>4, SwapCalm
<1>6. ReaderOK(view.part, view.version)' BY <1>1, <1>2, <1>5, ViewStill
<1>7. ddl'.pc = "swapped" /\ ddl'.snap = ddl.snap BY <1>1, <1>2, DdlGoto
<1>8. ASSUME NEW p \in Parts, ddl'.snap[p].state = "ACTIVE"
      PROVE  lake'[p].state = "ACTIVE" /\ ReaderOK(p, ddl.snap[p].visible)'
    <2>1. PICK v \in Versions : v = ddl.snap[p].visible BY Numbers
    <2>2. ReaderOK(p, v)' BY <1>5, <1>7, <1>8, <2>1
    <2> QED BY <1>1, <1>7, <1>8, <2>1, <2>2 DEF ReaderOK, Clean
<1>9. SnapOK' /\ OldOK' BY <1>7, <1>8 DEF SnapOK, OldOK
<1>10. UpOK' BY <1>5, <1>6, <1>9 DEF UpOK
<1> QED BY <1>1, <1>2, <1>4, <1>5, <1>10, CopyCalm

LEMMA DropSwapCalm ==
    ASSUME LInv, CInv, Calm, DropSwap, UNCHANGED recVars
    PROVE  CInv'
<1>1. /\ ddl.pc = "dropping" /\ lake' = ddl.snap /\ ddl' = NoDdl
      /\ UNCHANGED <<sqlVars, objVars, mode, view, ws, histVars, faults, budget, rec>>
    BY DEF DropSwap, recVars, insertVars
<1>2. SqlShape /\ mode = "up" BY <1>1, SideFacts
<1>3. \A w \in Writers : ~Working(w) BY <1>1 DEF Calm, Busy, Working
<1>4. ReadersStay /\ CatalogOK' BY <1>1, <1>2, <1>3, SwapCalm
<1>5. ReaderOK(view.part, view.version)' BY <1>1, <1>2, <1>4, ViewStill
<1>6. ddl'.pc = "idle" BY <1>1, <1>2, DdlEnd
<1>7. SnapOK' /\ OldOK' BY <1>6 DEF SnapOK, OldOK
<1>8. UpOK' BY <1>4, <1>5, <1>7 DEF UpOK
<1> QED BY <1>1, <1>2, <1>3, <1>4, <1>8, CopyCalm

LEMMA TruncRegisterCalm ==
    ASSUME LInv, CInv, TruncRegister, UNCHANGED recVars
    PROVE  CInv'
<1>1. /\ ddl.pc = "swapped" /\ view' = ViewOf(ddl.snap) /\ ddl' = NoDdl
      /\ UNCHANGED <<sqlVars, objVars, mode, lake, ws, histVars, faults, budget, rec>>
    BY DEF TruncRegister, recVars, insertVars
<1>2. SqlShape /\ mode = "up" /\ CopyOK(ddl.snap) /\ ddl.snap \in [Parts -> PartRows]
    BY <1>1, SideFacts
<1>3. ReadersStay /\ CatalogOK' /\ Current' = Current BY <1>1, <1>2, LakeStill
<1>4. PICK p \in Parts, v \in Versions :
         /\ p = ViewOf(ddl.snap).part /\ v = ViewOf(ddl.snap).version
         /\ ddl.snap[p].state = "ACTIVE" /\ v = ddl.snap[p].visible
    BY <1>2, ViewFacts
<1>5. ReaderOK(p, v) BY <1>1, <1>2, <1>4 DEF CInv, UpOK, SnapOK
<1>6. ReaderOK(p, v)' BY <1>3, <1>5 DEF ReadersStay
<1>7. ReaderOK(view.part, view.version)' BY <1>1, <1>4, <1>6 DEF ReaderOK, Clean, Act, Opened
<1>8. ddl'.pc = "idle" BY <1>1, <1>2, DdlEnd
<1>9. SnapOK' /\ OldOK' BY <1>8 DEF SnapOK, OldOK
<1>10. UpOK' BY <1>3, <1>7, <1>9 DEF UpOK
<1> QED BY <1>1, <1>2, <1>3, <1>10, CopyCalm

LEMMA DdlCalm ==
    ASSUME LInv, CInv, Calm, TruncStage \/ DropReload \/ DdlStep, UNCHANGED recVars
    PROVE  CInv'
BY TruncStageCalm, TruncBootstrapCalm, TruncActivateCalm, TruncCleanupCalm,
   TruncRemoveRuntimesCalm, TruncReloadCalm, TruncSwapCalm, TruncRegisterCalm, DropReloadCalm,
   DropSwapCalm DEF DdlStep

LEMMA EraseCalmFrame ==
    ASSUME LInv, CInv, mode = "up", UNCHANGED <<memVars, ws, histVars, ddlVars, rec>>,
           UNCHANGED faults \/ ObjFault \/ SqlFault, SqlStep, RowsStay, StatesStay, StoreMoves,
           RootsStay, ActiveStays, \A p \in Parts : Act(p) => Act(p)'
    PROVE  CInv'
<1>1. UNCHANGED <<mode, reg, lake, view, routed, acked, ddl>> BY DEF memVars, histVars, ddlVars
<1>2. OpenedStays BY DEF ActiveStays, OpenedStays
<1>3. SettledGrows BY SettledStays DEF StatesStay
<1>4. VersionsOK' BY <1>1, <1>3, VersionsStill
<1>5. WorkersStay BY DEF WorkersStay, Working
<1>6. SnapOK' BY <1>1, <1>3, <1>5, QuietSnap DEF CInv, UpOK
<1>7. OldOK' BY <1>1, QuietOld DEF CInv, UpOK
<1> QED BY <1>1, <1>2, <1>4, <1>6, <1>7, SideCalm

\* What goes with the root of a retired partition.
LEMMA EraseMoves ==
    ASSUME LInv, EraseRoot
    PROVE  /\ StoreMoves /\ RootsStay
           /\ \A i \in TxnIds : \A t \in Tablets : logs'[i][t] \in {"none", logs[i][t]}
<1>1. SqlOK /\ ObjShape /\ parts' = parts BY SideFacts DEF EraseRoot, sqlVars
<1>2. CASE UNCHANGED objVars BY <1>2, RootsStill DEF objVars
<1>3. CASE erase_root(eraser.job)
    <2>1. PICK p \in Parts : p = eraser.job /\ jobs[p] # "NONE" BY SideFacts DEF EraseRoot
    <2>2. ~Act(p) /\ ~Act(p)' BY <1>1, <2>1 DEF SqlOK, Act
    <2>3. /\ \A q \in Parts : q # p => bundle'[q] = bundle[q]
          /\ \A v \in Versions : bundle'[p][v] = NoMeta
          /\ \A i \in TxnIds : /\ txns[i].part # p => logs'[i] = logs[i]
                               /\ txns[i].part = p => \A t \in Tablets : logs'[i][t] = "none"
        BY <1>1, <1>3, <2>1 DEF erase_root, ObjShape
    <2>4. StoreMoves BY <2>2, <2>3 DEF StoreMoves
    <2>5. RootsStay BY <2>2, <2>3 DEF RootsStay
    <2>6. \A i \in TxnIds : \A t \in Tablets : logs'[i][t] \in {"none", logs[i][t]} BY <2>3
    <2> QED BY <2>4, <2>5, <2>6
<1> QED BY <1>2, <1>3 DEF EraseRoot

LEMMA EraseCalm ==
    ASSUME LInv, CInv, (\E p \in Parts : EraseClaim(p)) \/ EraseStep, UNCHANGED recVars
    PROVE  CInv'
<1>1. /\ UNCHANGED <<memVars, ws, histVars, ddlVars>> /\ UNCHANGED <<budget, rec, crashes, reopens>>
      /\ UNCHANGED faults \/ ObjFault \/ SqlFault
    BY DEF EraseClaim, EraseStep, EraseRoot, ErasePurge, EraseFinish, EraseFail, insertVars, recVars
<1>2. /\ SqlShape /\ ObjShape /\ SqlOK /\ eraser.job \in Parts
      /\ (eraser.pc # "idle" => mode = "up" /\ jobs[eraser.job] # "NONE")
    BY SideFacts
<1>3. mode = "up" BY <1>2 DEF EraseClaim, EraseStep, EraseRoot, ErasePurge, EraseFinish, EraseFail
\* A step on the jobs alone.
<1>4. ASSUME SqlStep, UNCHANGED <<txns, nextTxn, parts>>, UNCHANGED objVars PROVE CInv'
    <2>1. RowsStay /\ StatesStay /\ ActiveStays /\ \A p \in Parts : Act(p) => Act(p)'
        BY <1>4 DEF RowsStay, StatesStay, ActiveStays, Act, objVars
    <2>2. StoreMoves /\ RootsStay BY <1>4, RootsStill
    <2> QED BY <1>1, <1>3, <1>4, <2>1, <2>2, EraseCalmFrame
<1>5. CASE UNCHANGED sqlVars /\ UNCHANGED objVars
    BY <1>1, <1>2, <1>4, <1>5, SqlStill DEF sqlVars
<1>6. ASSUME NEW p \in Parts, EraseClaim(p) PROVE CInv'
    BY <1>1, <1>2, <1>4, <1>6, JobSql DEF EraseClaim
<1>7. CASE EraseRoot
    <2>1. SqlStep /\ UNCHANGED <<txns, nextTxn, parts>>
        BY <1>1, <1>2, <1>7, SqlStill DEF EraseRoot, sqlVars
    <2>2. StatesStay /\ ActiveStays /\ \A q \in Parts : (Act(q) <=> Act(q)')
        BY <2>1 DEF StatesStay, ActiveStays, Act
    <2>3. /\ StoreMoves /\ RootsStay
          /\ \A i \in TxnIds : \A t \in Tablets : logs'[i][t] \in {"none", logs[i][t]}
        BY <1>7, EraseMoves
    <2>4. RowsStay BY <2>1, <2>3 DEF RowsStay
    <2> QED BY <1>1, <1>3, <2>1, <2>2, <2>3, <2>4, EraseCalmFrame
<1>8. CASE ErasePurge /\ purge_retired_partition_metadata(eraser.job)
    <2>1. PICK p \in Parts : p = eraser.job BY <1>2
    <2>2. /\ SqlStep /\ UNCHANGED <<nextTxn, nextPart, jobs>>
          /\ ActiveParts(parts') = ActiveParts(parts)
          /\ \A q \in Parts : q # p => parts'[q] = parts[q]
          /\ parts[p].state = "RETIRED"
        BY <1>1, <1>2, <1>8, <2>1, PurgeSql
    <2>3. /\ StoreMoves /\ RootsStay /\ logs' = logs
        BY <1>8, RootsStill DEF ErasePurge, objVars
    <2>4. txns' = [i \in TxnIds |-> IF txns[i].part = p
                                    THEN [txns[i] EXCEPT !.state = "NONE"] ELSE txns[i]]
        BY <1>8, <2>1 DEF purge_retired_partition_metadata
    <2>5. \A i \in TxnIds : /\ [txns[i] EXCEPT !.state = "NONE"].state = "NONE"
                            /\ [txns[i] EXCEPT !.state = "NONE"].part = txns[i].part
                            /\ [txns[i] EXCEPT !.state = "NONE"].base = txns[i].base
                            /\ [txns[i] EXCEPT !.state = "NONE"].commit = txns[i].commit
        BY <1>2 DEF SqlShape, TxnRows
    <2>6. \A i \in TxnIds :
             /\ txns'[i].part = txns[i].part /\ txns'[i].base = txns[i].base
             /\ txns'[i].commit = txns[i].commit
             /\ txns'[i].state = txns[i].state \/ (txns'[i].state = "NONE" /\ txns[i].part = p)
        BY <2>4, <2>5
    <2>7. ~Act(p) BY <2>2 DEF Act
    <2>8. RowsStay
        <3>1. \A i \in TxnIds : txns'[i].state = "NONE" => txns[i].state = "NONE" \/ ~Act(txns[i].part)
            BY <2>6, <2>7
        <3> QED BY <2>2, <2>3, <2>6, <3>1 DEF RowsStay
    <2>9. StatesStay BY <2>6, <2>7 DEF StatesStay
    <2>10. \A q \in Parts : Act(q) <=> Act(q)' BY <2>2 DEF Act, ActiveParts
    <2>11. ActiveStays BY <2>2, <2>7, <2>10 DEF ActiveStays
    <2> QED BY <1>1, <1>3, <2>2, <2>3, <2>8, <2>9, <2>10, <2>11, EraseCalmFrame
<1>9. CASE EraseFinish /\ SetJob(eraser.job, "FINISHED")
    BY <1>1, <1>2, <1>4, <1>9, JobSql DEF EraseFinish
<1>10. CASE EraseFail /\ SetJob(eraser.job, "FAILED")
    BY <1>1, <1>2, <1>4, <1>10, JobSql DEF EraseFail
<1> QED BY <1>5, <1>6, <1>7, <1>8, <1>9, <1>10
        DEF EraseStep, EraseRoot, ErasePurge, EraseFinish, EraseFail

-----------------------------------------------------------------------------
(* Deaths, reopens and the recovery.                                       *)

LEMMA RestCalm ==
    ASSUME LInv, CInv, SqlStep, mode' # "up", \A w \in Writers : ws'[w].pc = "idle", RowsStay,
           SettledGrows, VisibleStays, StoreMoves, ActiveStays, acked' = acked, LeftOK', RecoverOK'
    PROVE  CInv'
<1>1. SessionOK'
    BY DEF SessionOK, Session, OwnRow, Owning, Target, Working, LogsOK, OutOK, NewOK, Written, ViewOK
<1>2. \A p \in Parts : Act(p)' => Act(p) BY DEF ActiveStays
<1>3. TableOK' BY <1>2, QuietRows, QuietFirst, QuietVersions DEF CInv, TableOK
<1>4. UpOK' BY DEF UpOK
<1> QED BY <1>1, <1>3, <1>4 DEF CInv

\* The same, when SQLite keeps its rows and the store its metadata.
LEMMA RestStill ==
    ASSUME LInv, CInv, UNCHANGED <<sqlVars, budget, bundle, routed, acked>>, mode' # "up",
           \A i \in TxnIds, t \in Tablets : logs'[i][t] \in {"none", logs[i][t]},
           \A w \in Writers : ws'[w].pc = "idle", LeftOK', RecoverOK'
    PROVE  CInv'
<1>1. /\ SqlStep /\ ActiveStays /\ Settled' = Settled
      /\ UNCHANGED <<txns, nextTxn, parts, nextPart, jobs>>
    BY StillFacts
<1>2. RowsStay /\ VisibleStays /\ SettledGrows BY <1>1 DEF RowsStay, VisibleStays, SettledGrows
<1> QED BY <1>1, <1>2, StoreStill, RestCalm

LEMMA CrashCalm ==
    ASSUME LInv, CInv, Crash, budget' = budget
    PROVE  CInv'
<1>1. /\ mode' = "down" /\ reg' = {} /\ ws' = [w \in Writers |-> Idle] /\ rec' = NoRec
      /\ UNCHANGED <<sqlVars, logs, bundle, routed, acked>>
    BY DEF Crash, objVars, histVars
<1>2. SqlShape BY SideFacts
<1>3. NoRec.published = FALSE /\ Idle.pc = "idle" BY <1>2, NoRecType, IdleType
<1>4. LeftOK' /\ RecoverOK' BY <1>1, <1>3 DEF LeftOK, RecoverOK
<1>5. \A w \in Writers : ws'[w].pc = "idle" BY <1>1, <1>3
<1> QED BY <1>1, <1>4, <1>5, RestStill

LEMMA ReopenCalm ==
    ASSUME LInv, CInv, Reopen, budget' = budget
    PROVE  CInv'
<1>1. /\ mode = "up" /\ mode' = "down" /\ reopens' = reopens + 1
      /\ \A w \in Writers : ws[w].pc = "idle"
      /\ UNCHANGED <<sqlVars, logs, bundle, routed, acked, ws, faults, rec>>
    BY DEF Reopen, insertVars, objVars, histVars
<1>2. reopens \in Nat
    <2>1. SqlShape /\ RecShape BY SideFacts
    <2>2. budget.reopens \in Nat BY <2>1, StoreAssumption DEF SqlShape, Limits
    <2> QED BY <2>1, <2>2 DEF RecShape
<1>3. UNCHANGED txns BY <1>1 DEF sqlVars
<1>4. LeftOK' BY <1>1, <1>3 DEF CInv, LeftOK, Owning
<1>5. RecoverOK' BY <1>1, <1>2 DEF CInv, RecoverOK
<1> QED BY <1>1, <1>4, <1>5, RestStill

LEMMA StartCalm ==
    ASSUME LInv, CInv, Start, budget' = budget
    PROVE  CInv'
<1>1. /\ mode = "down" /\ mode' = "opening" /\ parts' = DropCreating(parts, Parts)
      /\ txns' = [i \in TxnIds |-> IF txns[i].state = "PREPARED"
                                   THEN [txns[i] EXCEPT !.state = "ABORTED"] ELSE txns[i]]
      /\ rec' = [snap |-> parts', published |-> FALSE,
                 todo |-> {i \in TxnIds : txns[i].state = "WRITTEN"}]
      /\ UNCHANGED <<nextTxn, nextPart, jobs, logs, bundle, reg, ws, routed, acked, faults, reopens>>
    BY DEF Start, insertVars, objVars, histVars
<1>2. SqlShape /\ SqlOK /\ Resting BY <1>1, RestFacts
<1>3. \A i \in TxnIds : /\ [txns[i] EXCEPT !.state = "ABORTED"] \in TxnRows
                        /\ [txns[i] EXCEPT !.state = "ABORTED"].state = "ABORTED"
                        /\ [txns[i] EXCEPT !.state = "ABORTED"].part = txns[i].part
                        /\ [txns[i] EXCEPT !.state = "ABORTED"].base = txns[i].base
                        /\ [txns[i] EXCEPT !.state = "ABORTED"].commit = txns[i].commit
                        /\ txns[i] \in TxnRows
    BY <1>2 DEF SqlShape, TxnRows
<1>4. txns' \in [TxnIds -> TxnRows] BY <1>1, <1>3
<1>5. \A i \in TxnIds :
         /\ txns'[i].part = txns[i].part /\ txns'[i].base = txns[i].base
         /\ txns'[i].commit = txns[i].commit
         /\ \/ txns'[i].state = txns[i].state
            \/ txns[i].state = "PREPARED" /\ txns'[i].state = "ABORTED"
    BY <1>1, <1>3
<1>6. parts' \in [Parts -> PartRows] BY <1>1, <1>2, PartRowFacts
<1>7. \A p \in Parts : \/ parts'[p] = parts[p]
                       \/ parts'[p] = NoPart /\ parts[p].state \in {"CREATING", "RETIRED"}
    BY <1>1 DEF DropCreating
<1>8. \A i \in TxnIds : txns'[i].state # "NONE" => txns[i].state # "NONE" BY <1>5
<1>9. SqlStep BY <1>1, <1>2, <1>4, <1>5, <1>6, <1>7, <1>8, ForgetSql
<1>10. ActiveStays BY <1>7 DEF ActiveStays, Act, NoPart
<1>11. SettledGrows BY <1>5, <1>9, SettledStays
<1>12. RowsStay /\ VisibleStays BY <1>1, <1>5 DEF RowsStay, VisibleStays
<1>13. \A w \in Writers : ws'[w].pc = "idle" BY <1>1, <1>2 DEF Resting
<1>14. LeftOK'
    <2>1. \A i \in TxnIds : txns'[i].state = "WRITTEN" => txns[i].state = "WRITTEN" BY <1>5
    <2> QED BY <1>1, <2>1 DEF CInv, LeftOK, Owning
<1>15. RecoverOK' BY <1>1 DEF CInv, RecoverOK
<1> QED BY <1>1, <1>9, <1>10, <1>11, <1>12, <1>13, <1>14, <1>15, StoreStill, RestCalm

\* A WRITTEN transaction is found only by a new process, which has no runtime
\* to publish it with.
LEMMA ReplayFails ==
    ASSUME LInv, CInv, Calm, ReplayPublish, budget' = budget
    PROVE  /\ reg = {} /\ OpenFails /\ bundle' = bundle
           /\ \A j \in TxnIds, t \in Tablets : logs'[j][t] \in {"none", logs[j][t]}
<1>1. /\ mode = "opening" /\ rec.todo # {}
      /\ UNCHANGED <<sqlVars, reg, ws, routed, acked, reopens>>
    BY DEF ReplayPublish, insertVars, histVars
<1>2. SqlShape /\ ObjShape /\ RecShape /\ OpenOK /\ Resting BY <1>1, RestFacts
<1>3. PICK i \in TxnIds : i = Min(rec.todo) /\ i \in rec.todo
    BY <1>1, <1>2, MinIsMember DEF RecShape
<1>4. txns[i].state = "WRITTEN" BY <1>1, <1>2, <1>3 DEF OpenOK
<1>5. reg = {}
    <2>1. \A w \in Writers : ~Owning(w) BY <1>2 DEF Resting, Owning
    <2>2. reg # {} => reopens # 0 BY <1>1 DEF CInv, RecoverOK
    <2>3. reg # {} => faults.sql # 0 BY <1>4, <2>1 DEF CInv, LeftOK
    <2> QED BY <2>2, <2>3 DEF Calm
<1>6. OpenFails /\ bundle' = bundle /\ \A j \in TxnIds, t \in Tablets : logs'[j][t] \in {"none", logs[j][t]}
    <2>1. CASE OpenFails /\ UNCHANGED objVars BY <2>1 DEF objVars
    <2> DEFINE x == txns[i]
               out == [t \in Tablets |-> IF x.part \in reg
                          THEN publish_one_tablet(i, x.part, x.base, x.commit, t) ELSE Failed]
    <2>2. CASE /\ bundle' = BundleAfter(x.part, x.base, x.commit, out, x.part \in reg)
               /\ logs' = LogsAfterCleanup(i, PersistTablets(out))
               /\ IF FailedTablets(out) = {}
                  THEN rec' = [rec EXCEPT !.published = TRUE] /\ UNCHANGED mode
                  ELSE OpenFails
        <3>1. \A t \in Tablets : out[t].kind = "failed" BY <1>5 DEF Failed
        <3> HIDE DEF out
        <3>2. PersistTablets(out) = {} /\ FailedTablets(out) # {}
            BY <3>1, StoreAssumption DEF PersistTablets, FailedTablets
        <3>3. bundle' = bundle BY <2>2, <3>2 DEF BundleAfter
        <3>4. \A j \in TxnIds, t \in Tablets : logs'[j][t] \in {"none", logs[j][t]}
            BY <1>2, <2>2, <3>2 DEF LogsAfterCleanup, ObjShape
        <3> QED BY <2>2, <3>2, <3>3, <3>4
    <2> QED BY <1>3, <2>1, <2>2 DEF ReplayPublish
<1> QED BY <1>5, <1>6

LEMMA ReplayPublishCalm ==
    ASSUME LInv, CInv, Calm, ReplayPublish, budget' = budget
    PROVE  CInv'
<1>1. mode = "opening" /\ UNCHANGED <<sqlVars, reg, ws, routed, acked>>
    BY DEF ReplayPublish, insertVars, histVars
<1>2. /\ reg = {} /\ OpenFails /\ bundle' = bundle
      /\ \A j \in TxnIds, t \in Tablets : logs'[j][t] \in {"none", logs[j][t]}
    BY ReplayFails
<1>3. SqlShape /\ \A w \in Writers : ws'[w].pc = "idle" BY <1>1, RestFacts DEF Resting
<1>4. mode' = "down" /\ rec' = NoRec /\ NoRec.published = FALSE
    BY <1>2, <1>3, NoRecType DEF OpenFails
<1>5. LeftOK' /\ RecoverOK' BY <1>1, <1>2, <1>4 DEF LeftOK, RecoverOK
<1> QED BY <1>1, <1>2, <1>3, <1>4, <1>5, RestStill

LEMMA FinishOpenCalm ==
    ASSUME LInv, CInv, FinishOpen, budget' = budget
    PROVE  CInv'
<1>1. /\ mode = "opening" /\ rec.todo = {}
      /\ UNCHANGED <<sqlVars, objVars, logs, bundle, ws, routed, acked, faults, ddlVars, reopens>>
    BY DEF FinishOpen, insertVars, histVars, objVars
<1>2. SqlShape /\ OpenOK /\ Resting /\ rec.snap = parts
    BY <1>1, RestFacts DEF CInv, RecoverOK
<1>3. \A w \in Writers : ws'[w].pc = "idle" BY <1>1, <1>2 DEF Resting
<1>4. NoRec.published = FALSE BY <1>2, NoRecType
<1>5. \A i \in TxnIds : txns[i].state # "WRITTEN" BY <1>1, <1>2 DEF OpenOK, InflightTxns
<1>6. UNCHANGED txns BY <1>1 DEF sqlVars
<1>7. LeftOK' BY <1>5, <1>6 DEF LeftOK
<1>8. CASE OpenFails /\ UNCHANGED <<reg, lake, view>>
    <2>1. mode' = "down" /\ rec' = NoRec BY <1>8 DEF OpenFails
    <2>2. RecoverOK' BY <1>1, <1>4, <1>8, <2>1 DEF CInv, RecoverOK
    <2> QED BY <1>1, <1>3, <1>7, <2>1, <2>2, RestStill
<1>9. CASE lake' = rec.snap /\ view' = ViewOf(rec.snap) /\ mode' = "up" /\ rec' = NoRec
    <2>1. /\ SqlStep /\ ActiveStays /\ Settled' = Settled
          /\ UNCHANGED <<txns, nextTxn, parts, nextPart, jobs>>
        BY <1>1, StillFacts
    <2>2. RowsStay /\ VisibleStays /\ SettledGrows
        BY <1>1, <2>1 DEF RowsStay, VisibleStays, SettledGrows
    <2>3. TableOK'
        <3>1. \A p \in Parts : Act(p)' => Act(p) BY <2>1 DEF ActiveStays
        <3>2. StoreMoves BY <1>1, StoreStill
        <3> QED BY <1>1, <2>1, <2>2, <3>1, <3>2, QuietRows, QuietFirst, QuietVersions
                DEF CInv, TableOK
    <2>4. SessionOK'
        BY <1>3 DEF SessionOK, Session, OwnRow, Owning, Target, Working, LogsOK, OutOK, NewOK,
                    Written, ViewOK
    <2>5. RecoverOK' BY <1>4, <1>9 DEF RecoverOK
    <2>6. \A w \in Writers : ~Working(w)' BY <1>3 DEF Working
    <2>7. \A p \in Parts : Act(p) => Clean(p, parts[p].visible) BY DEF CInv, TableOK, VersionsOK
    <2>8. CatalogOK'
        <3> SUFFICES ASSUME NEW p \in Parts PROVE CatalogPart(p)' BY DEF CatalogOK
        <3> QED BY <1>1, <1>2, <1>9, <2>1, <2>6, <2>7 DEF CatalogPart, Clean, Act
    <2>9. PICK p \in Parts, v \in Versions :
             /\ p = ViewOf(parts).part /\ v = ViewOf(parts).version
             /\ Opened(p) /\ parts[p].state = "ACTIVE" /\ v = parts[p].visible
        BY CatalogFacts, ViewFacts
    <2>10. ReaderOK(p, v)'
        <3>1. Clean(p, v)' BY <1>1, <2>1, <2>7, <2>9 DEF Clean, Act
        <3>2. v <= v BY DEF Versions
        <3> QED BY <1>2, <1>9, <2>1, <2>6, <2>9, <3>1, <3>2 DEF ReaderOK, Opened, Act
    <2>11. ReaderOK(view.part, view.version)'
        BY <1>2, <1>9, <2>9, <2>10 DEF ReaderOK, Clean, Act, Opened
    <2>12. ddl'.pc = "idle" BY <1>1, <1>2 DEF Resting, ddlVars
    <2>13. UpOK' BY <2>8, <2>11, <2>12 DEF UpOK, SnapOK, OldOK
    <2> QED BY <1>7, <2>3, <2>4, <2>5, <2>13 DEF CInv
<1> QED BY <1>8, <1>9 DEF FinishOpen

-----------------------------------------------------------------------------
(* The induction.                                                          *)

LEMMA InitCalm ==
    ASSUME Init
    PROVE  CInv /\ Calm
<1>1. LInv BY InitLInv
<1>2. /\ StoreInit /\ mode = "up" /\ lake = parts /\ view = [part |-> 1, version |-> 1]
      /\ ws = [w \in Writers |-> Idle] /\ acked = {} /\ faults = [obj |-> 0, sql |-> 0]
      /\ ddl = NoDdl /\ rec = NoRec /\ reopens = 0
    BY DEF Init
<1>3. SqlShape BY <1>1 DEF LInv, Shape
<1>4. NoRec.published = FALSE /\ Idle.pc = "idle" BY <1>3, NoRecType, IdleType
<1>5. /\ \A w \in Writers : ws[w].pc = "idle"
      /\ ddl.pc = "idle" /\ rec.published = FALSE
    BY <1>2, <1>4 DEF NoDdl
<1>6. nextTxn = 1 /\ nextPart = 2 BY <1>2 DEF StoreInit
<1>7. 1 \in Parts /\ 1 \in Versions /\ \A i \in TxnIds : i \in Nat /\ ~(i < nextTxn)
    BY <1>6, StoreAssumption DEF Parts, Versions, TxnIds
<1>8. \A i \in TxnIds : txns[i].state = "NONE" /\ \A t \in Tablets : logs[i][t] = "none"
    BY <1>2 DEF StoreInit, NoTxn
<1>9. /\ parts[1].state = "ACTIVE" /\ parts[1].visible = 1
      /\ \A p \in Parts : p # 1 => parts[p].state = "NONE"
    BY <1>2, <1>7 DEF StoreInit, NoPart
<1>10. bundle[1][1] = EmptyMeta /\ \A p \in Parts : p # 1 => bundle[p][1] = NoMeta
    BY <1>2, <1>7 DEF StoreInit
<1>11. Clean(1, 1) BY <1>10, EmptyRows DEF Clean
<1>12. TableOK
    <2>1. RowsOK BY <1>2, <1>7, <1>8 DEF RowsOK
    <2>2. FirstOK BY <1>10 DEF FirstOK
    <2>3. VersionsOK BY <1>8, <1>9, <1>11 DEF VersionsOK, Act, Whole
    <2> QED BY <2>1, <2>2, <2>3 DEF TableOK
<1>13. UpOK
    <2>1. Opened(1) BY <1>6, <1>9 DEF Opened
    <2>2. ReaderOK(1, 1) BY <1>2, <1>5, <1>9, <1>11, <2>1 DEF ReaderOK, Working
    <2>3. CatalogOK BY <1>2, <1>5, <1>9, <1>11 DEF CatalogOK, CatalogPart, Working
    <2> QED BY <1>2, <1>5, <2>2, <2>3 DEF UpOK, SnapOK, OldOK
<1>14. SessionOK
    BY <1>5 DEF SessionOK, Session, OwnRow, Owning, Target, Working, LogsOK, OutOK, NewOK,
                Written, ViewOK
<1>15. LeftOK BY <1>8 DEF LeftOK
<1>16. RecoverOK BY <1>2, <1>5 DEF RecoverOK
<1>17. Calm BY <1>2, <1>5 DEF Calm, Busy
<1> QED BY <1>12, <1>13, <1>14, <1>15, <1>16, <1>17 DEF CInv

LEMMA StutterCalm ==
    ASSUME CInv, Calm, UNCHANGED vars
    PROVE  CInv' /\ Calm'
<1>1. /\ UNCHANGED <<txns, nextTxn, parts, nextPart, jobs, logs, bundle, mode, reg, lake, view>>
      /\ UNCHANGED <<ws, routed, acked, faults, ddl, drops, truncated, eraser>>
      /\ UNCHANGED <<rec, crashes, reopens, budget>>
    BY DEF vars, sqlVars, objVars, memVars, insertVars, histVars, ddlVars, recVars
<1>2. TableOK' BY <1>1 DEF CInv, TableOK, RowsOK, FirstOK, VersionsOK, Act, Whole, Clean, Settled
<1>3. UpOK'
    BY <1>1 DEF CInv, UpOK, ReaderOK, CatalogOK, CatalogPart, Advancing, SnapOK, OldOK, Current,
                Act, Clean, Settled, Working, Opened
<1>4. SessionOK'
    <2> SUFFICES ASSUME NEW w \in Writers PROVE Session(w)' BY DEF SessionOK
    <2>1. Session(w) BY DEF CInv, SessionOK
    <2>2. (OwnRow(w) /\ Target(w))'
        BY <1>1, <2>1 DEF Session, OwnRow, Owning, Target, Working, Clean, Settled, Act, Current,
                          Commit
    <2>3. (LogsOK(w) /\ OutOK(w))'
        BY <1>1, <2>1 DEF Session, LogsOK, OutOK, Proper, NextRows, BaseRowsets, Fresh, Settled,
                          Act, Commit
    <2>4. (NewOK(w) /\ ViewOK(w))'
        BY <1>1, <2>1 DEF Session, NewOK, Written, NextRows, BaseRowsets, Fresh, Settled, Act,
                          Commit, ViewOK, ReaderOK, Opened, Clean, Working
    <2> QED BY <2>2, <2>3, <2>4 DEF Session
<1>5. LeftOK' /\ RecoverOK' BY <1>1 DEF CInv, LeftOK, Owning, RecoverOK
<1>6. Calm' BY <1>1 DEF Calm, Busy
<1> QED BY <1>2, <1>3, <1>4, <1>5, <1>6 DEF CInv

LEMMA OpenCalm ==
    ASSUME LInv, CInv, Calm, Crash \/ Reopen \/ OpenStep, UNCHANGED budget
    PROVE  CInv'
<1>1. ~ReplayVisible BY DEF CInv, RecoverOK, ReplayVisible
<1> QED BY <1>1, CrashCalm, ReopenCalm, StartCalm, ReplayPublishCalm, FinishOpenCalm DEF OpenStep

LEMMA NextCalm ==
    ASSUME LInv, CInv, Calm, [Next /\ Calm']_vars
    PROVE  CInv' /\ Calm'
<1>1. CASE UNCHANGED vars BY <1>1, StutterCalm
<1>2. CASE Next /\ Calm'
    <2>1. ASSUME NEW w \in Writers, Plan(w) \/ InsertStep(w), UNCHANGED <<ddlVars, eraser, recVars>>
          PROVE  CInv'
        BY <1>2, <2>1, InsertCalm
    <2>2. CASE (TruncStage \/ DropReload \/ DdlStep) /\ UNCHANGED recVars BY <1>2, <2>2, DdlCalm
    <2>3. CASE ((\E p \in Parts : EraseClaim(p)) \/ EraseStep) /\ UNCHANGED recVars
        BY <1>2, <2>3, EraseCalm
    <2>4. CASE (Crash \/ Reopen \/ OpenStep) /\ UNCHANGED budget BY <1>2, <2>4, OpenCalm
    <2> QED BY <1>2, <2>1, <2>2, <2>3, <2>4 DEF Next
<1> QED BY <1>1, <1>2

\* Metadata is written only at versions that nobody reads.
LEMMA StoreSteps ==
    ASSUME LInv, CInv, Calm, Next
    PROVE  StoreMoves
<1>1. ASSUME NEW w \in Writers, Plan(w) \/ InsertStep(w) PROVE StoreMoves
    <2>1. CASE PublishWrite(w) BY <2>1, PublishMoves
    <2>2. CASE ~PublishWrite(w)
        <3>1. bundle' = bundle
            BY <1>1, <2>2 DEF Plan, InsertStep, Prepare, Abort, MarkWritten, WriteLog, PublishRead,
               PublishCleanup, MarkVisible, AdvanceCatalog, RegisterView, objVars
        <3> QED BY <3>1, StoreStill
    <2> QED BY <2>1, <2>2
<1>2. CASE TruncStage \/ DropReload \/ DdlStep
    <2>1. CASE TruncBootstrap BY <2>1, BootstrapMoves
    <2>2. CASE ~TruncBootstrap
        <3>1. bundle' = bundle
            BY <1>2, <2>2 DEF TruncStage, DropReload, DdlStep, TruncActivate, TruncCleanup,
               TruncRemoveRuntimes, TruncReload, TruncSwap, TruncRegister, DropSwap, objVars
        <3> QED BY <3>1, StoreStill
    <2> QED BY <2>1, <2>2
<1>3. CASE (\E p \in Parts : EraseClaim(p)) \/ EraseStep
    <2>1. CASE EraseRoot BY <2>1, EraseMoves
    <2>2. CASE ~EraseRoot
        <3>1. bundle' = bundle
            BY <1>3, <2>2 DEF EraseClaim, EraseStep, ErasePurge, EraseFinish, EraseFail, objVars
        <3> QED BY <3>1, StoreStill
    <2> QED BY <2>1, <2>2
<1>4. CASE (Crash \/ Reopen \/ OpenStep) /\ UNCHANGED budget
    <2>1. CASE ReplayPublish BY <1>4, <2>1, ReplayFails, StoreStill
    <2>2. ~ReplayVisible BY DEF CInv, RecoverOK, ReplayVisible
    <2>3. CASE ~ReplayPublish
        <3>1. bundle' = bundle
            BY <1>4, <2>2, <2>3 DEF Crash, Reopen, OpenStep, Start, FinishOpen, objVars
        <3> QED BY <3>1, StoreStill
    <2> QED BY <2>1, <2>3
<1> QED BY <1>1, <1>2, <1>3, <1>4 DEF Next

-----------------------------------------------------------------------------
(* The theorems.                                                           *)

\* CalmSpec restricts what clients do and nothing else: its behaviours are behaviours of
\* the server (engine/mod.rs, managed/txn.rs, managed/ddl.rs).
LEMMA CalmIsServed == CalmSpec => Spec
<1>1. [Next /\ Calm']_vars => [Next]_vars OBVIOUS
<1> QED BY <1>1, PTL DEF CalmSpec, Spec

\* With one INSERT at a time, and no INSERT between the reload and the swap of a DROP,
\* the rows and the objects satisfy CInv through every TRUNCATE, erase job, storage
\* failure, crash and open.
THEOREM CalmInvariance == CalmSpec => [](LInv /\ CInv /\ Calm)
<1>1. Init => LInv /\ CInv /\ Calm BY InitLInv, InitCalm
<1>2. LInv /\ CInv /\ Calm /\ [Next /\ Calm']_vars => (LInv /\ CInv /\ Calm)'
    BY NextLInv, NextCalm
<1> QED BY <1>1, <1>2, PTL DEF CalmSpec

\* INSERT is atomic across tablets and its commit is durable (managed/txn.rs): every
\* VISIBLE transaction of an active partition shows all its rows, on every tablet they
\* were routed to, although publish writes the bundle before SQLite commits the version.
THEOREM TxnsAreWhole == CalmSpec => []VisibleTxnWhole
<1>1. LInv /\ CInv => VisibleTxnWhole
    BY DEF LInv, StoreOK, ActiveReadable, CInv, TableOK, VersionsOK, Act, Whole, VisibleTxnWhole,
           Shows, ActiveMeta, ActiveParts
<1> QED BY <1>1, CalmInvariance, PTL

\* An INSERT that returned Ok (commit_catalog_visible_version, managed/txn.rs) keeps its
\* rows in the visible version of its partition as long as TRUNCATE has not replaced it.
THEOREM AckedRowsStay == CalmSpec => []AckedRowsKept
<1>1. LInv /\ CInv => AckedRowsKept
    <2> SUFFICES ASSUME LInv, CInv, NEW i \in acked, NEW p \in ActiveParts(parts), txns[i].part = p
                 PROVE  ActiveMeta(p) # NoMeta /\ Shows(p, i)
        BY DEF AckedRowsKept
    <2>1. p \in Parts /\ Act(p) BY DEF ActiveParts, Act
    <2>2. i \in TxnIds /\ i < nextTxn /\ txns[i].state \in {"VISIBLE", "NONE"}
        BY DEF CInv, TableOK, RowsOK, Settled
    <2>3. txns[i].state = "VISIBLE" BY <2>1, <2>2 DEF CInv, TableOK, RowsOK
    <2>4. Shows(p, i)
        BY <2>1, <2>2, <2>3 DEF CInv, TableOK, VersionsOK, Whole, Shows, ActiveMeta
    <2> QED BY <2>4 DEF LInv, StoreOK, ActiveReadable
<1> QED BY <1>1, CalmInvariance, PTL

\* SELECT returns no row of a transaction in flight or aborted: the version registered
\* for readers holds rowsets of VISIBLE transactions (or of rows the erase worker purged).
THEOREM ReadersSeeCommitted == CalmSpec => []ReadsOnlyVisible
<1>1. LInv /\ CInv => ReadsOnlyVisible
    <2> SUFFICES ASSUME LInv, CInv, mode = "up", bundle[view.part][view.version] # NoMeta,
                        NEW t \in Tablets, NEW i \in bundle[view.part][view.version][t]
                 PROVE  txns[i].state \in {"VISIBLE", "NONE"}
        BY DEF ReadsOnlyVisible
    <2>1. Clean(view.part, view.version) BY DEF CInv, UpOK, ReaderOK
    <2>2. i \in Settled BY <2>1 DEF Clean
    <2> QED BY <2>2 DEF Settled
<1> QED BY <1>1, CalmInvariance, PTL

\* A version that readers may hold is never rewritten (finalize_publish_outputs in
\* lake/transactions.rs overwrites the bundle of its version without looking at it).
THEOREM SnapshotsAreStable == CalmSpec => SnapshotsStable
<1>1. /\ LInv /\ CInv /\ Calm
      /\ [Next /\ Calm']_vars
      => [\A p \in ActiveParts(parts) \cap ActiveParts(parts') :
             \A v \in 1..parts[p].visible : bundle'[p][v] = bundle[p][v]]_vars
    <2> SUFFICES ASSUME LInv, CInv, Calm, Next, NEW p \in ActiveParts(parts),
                        NEW v \in 1..parts[p].visible
                 PROVE  bundle'[p][v] = bundle[p][v]
        OBVIOUS
    <2>1. p \in Parts /\ Act(p) BY DEF ActiveParts, Act
    <2>2. parts[p].visible \in Versions BY <2>1, Numbers
    <2>3. MaxTxns \in Nat BY StoreAssumption
    <2>4. v \in Versions /\ v <= parts[p].visible BY <2>2, <2>3 DEF Versions
    <2>5. ~Unread(p, v) BY <2>1, <2>4, VisibleIsRead DEF CInv
    <2>6. StoreMoves BY StoreSteps
    <2> QED BY <2>1, <2>4, <2>5, <2>6 DEF StoreMoves
<1> QED BY <1>1, CalmInvariance, PTL DEF CalmSpec, SnapshotsStable

\* When an open succeeds (reconcile_on_open and rebuild, managed/catalog.rs), the catalog
\* in memory is the partitions table of SQLite, row by row.
THEOREM OpenAgrees == CalmSpec => RecoveredAgrees
<1>1. /\ LInv /\ CInv /\ Calm
      /\ [Next /\ Calm']_vars
      => [mode = "opening" /\ mode' = "up" => lake' = parts']_vars
    <2> SUFFICES ASSUME LInv, CInv, Next, mode = "opening", mode' = "up" PROVE lake' = parts'
        OBVIOUS
    <2>1. Resting /\ OpenOK BY RestFacts
    <2>2. ASSUME NEW w \in Writers, Plan(w) \/ InsertStep(w) PROVE FALSE
        BY <2>1, <2>2 DEF Resting, Plan, InsertStep, Prepare, Abort, MarkWritten, WriteLog,
           PublishRead, PublishWrite, PublishCleanup, MarkVisible, AdvanceCatalog, RegisterView
    <2>3. CASE TruncStage \/ DropReload \/ DdlStep
        BY <2>1, <2>3 DEF Resting, TruncStage, DropReload, DdlStep, TruncBootstrap, TruncActivate,
           TruncCleanup, TruncRemoveRuntimes, TruncReload, TruncSwap, TruncRegister, DropSwap
    <2>4. CASE (\E p \in Parts : EraseClaim(p)) \/ EraseStep
        BY <2>1, <2>4 DEF Resting, EraseClaim, EraseStep, EraseRoot, ErasePurge, EraseFinish,
           EraseFail
    <2>5. CASE Crash \/ Reopen \/ Start BY <2>5 DEF Crash, Reopen, Start
    <2>6. CASE ReplayPublish BY <2>6 DEF ReplayPublish, OpenFails
    <2>7. CASE ReplayVisible BY <2>7 DEF ReplayVisible, CInv, RecoverOK
    <2>8. CASE FinishOpen BY <2>8 DEF FinishOpen, OpenFails, CInv, RecoverOK, sqlVars
    <2> QED BY <2>2, <2>3, <2>4, <2>5, <2>6, <2>7, <2>8 DEF Next, OpenStep
<1> QED BY <1>1, CalmInvariance, PTL DEF CalmSpec, RecoveredAgrees
=============================================================================
