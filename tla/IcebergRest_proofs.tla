------------------------- MODULE IcebergRest_proofs -------------------------
(***************************************************************************)
(* Theorems about an Iceberg table in a REST catalog, for any number of    *)
(* statements, sessions, retries and failing calls.                        *)
(*                                                                         *)
(* Parts: the inductive invariant; histories (Ancestors is a recursive     *)
(* function, so facts about it are shown of walks, functions of any        *)
(* length); what a statement that has no snapshot may do to the table; one *)
(* lemma per action; commits; the initial table; the invariants; and the   *)
(* refinement of VersionedTable by main.                                   *)
(***************************************************************************)
EXTENDS Iceberg, FiniteSetTheorems, WellFoundedInduction, TLAPS

-----------------------------------------------------------------------------
(* The inductive invariant, of a table in a REST catalog.                  *)

RestPcs == {"free", "loaded", "written", "built", "cleanup",
            "acked", "refused", "error", "gone"}
RestKinds == {"insert", "append", "overwrite", "create", "drop"}

Metas == [snaps : UNION {[D -> Snapshots] : D \in SUBSET Ids},
          refs : [Refs -> Ids \cup {NoSnap}], nextRow : Nat, lastSeq : Nat,
          by : Stmts \cup {0}, log : SUBSET MetaVersions]
Bodies == [rows : SUBSET RowSet, target : Stmts \cup {0}]
RestStmts == [pc : RestPcs, kind : RestKinds \cup {"none"}, ref : Refs,
              at : MetaVersions \cup {0}, row0 : Nat, try : 0..MaxRetries,
              prep : Snapshots, new : {NoTableMeta}, next : {0}, log : SUBSET Files,
              pick : SUBSET (Ids \cup {NoSnap}), late : BOOLEAN]

RestShape ==
    /\ load \in Workloads /\ load.cat = "rest"
    /\ meta \in [MetaVersions -> Metas] /\ hint \in MetaVersions
    /\ disk \subseteq Files /\ body \in [Stmts -> Bodies]
    /\ st \in [Stmts -> RestStmts] /\ slips \in 0..load.slips

\* The statements with a snapshot in the table, and those that may still get one.
Comm(m) == {id[1] : id \in DOMAIN m.snaps}
Pending(s) == st[s].pc = "built" \/ st[s].late
Open(s) == st[s].pc \in {"free", "loaded", "written", "built", "cleanup"} \/ st[s].late
Spent == {s \in Stmts : ~Open(s)}

\* No statement of a REST table writes delete files.
SnapOK(m, x) ==
    /\ x.dels = {} /\ x.data \subseteq Comm(m) /\ x.man \subseteq Comm(m)
    /\ x.parent \in DOMAIN m.snaps \cup {NoSnap}
MetaOK(m) ==
    /\ m.refs["main"] \in DOMAIN m.snaps
    /\ \A r \in Refs : m.refs[r] \in DOMAIN m.snaps \cup {NoSnap}
    /\ \A id \in DOMAIN m.snaps : SnapOK(m, m.snaps[id])
RefsOK(m) == \A r \in Refs : m.refs[r] \in DOMAIN m.snaps \cup {NoSnap}

TableOK ==
    /\ MetaOK(Current) /\ \A v \in MetaVersions : RefsOK(meta[v])
    /\ NoDanglingFiles /\ RowIdsUnique
    /\ {1, 2} \subseteq Comm(Current) /\ \A f \in Comm(Current) : body[f].rows = New(f)
    /\ hint + 1 <= Cardinality(Spent)

\* The snapshot of a pending commit: made of files that are there, with row ids that
\* were free, and on main of the data of its parent.
PrepFiles(s) ==
    {ManifestList(<<s, st[s].try>>)} \cup {Manifest(q) : q \in st[s].prep.man}
        \cup {DataFile(q) : q \in st[s].prep.data}
PrepOK(s) ==
    /\ st[s].prep.dels = {}
    /\ st[s].prep.data \subseteq Comm(Current) \cup {s}
    /\ st[s].prep.man \subseteq Comm(Current) \cup {s}
    /\ PrepFiles(s) \subseteq disk
    /\ st[s].prep.row0 <= Current.nextRow
    /\ st[s].prep.added = Added
    /\ st[s].ref = "main" =>
          /\ st[s].prep.parent \in DOMAIN Current.snaps
          /\ st[s].prep.data =
                IF st[s].kind = "overwrite" THEN {s}
                ELSE Current.snaps[st[s].prep.parent].data \cup {s}

StmtOK(s) ==
    /\ Open(s) \/ st[s].pc = "refused" => s \notin Comm(Current)
    /\ st[s].pc = "free" => st[s] = NoStmt
    /\ st[s].late => st[s].pc \in {"error", "gone"}
    /\ \A f \in st[s].log : f[2] = s
    /\ st[s].row0 <= Current.nextRow
    /\ st[s].kind = "insert" => st[s].ref = "main"
    /\ st[s].kind \in {"create", "drop"} => st[s].pc \notin {"loaded", "written", "cleanup"}
    /\ st[s].kind = "create" /\ Pending(s) => st[s].pick # {}
    /\ st[s].kind = "none" => st[s].pc = "free"
    /\ st[s].kind \in Dml /\ (st[s].pc = "written" \/ Pending(s)) =>
          DataFile(s) \in disk /\ body[s].rows = New(s)
    /\ st[s].kind \in Dml /\ Pending(s) => PrepOK(s)
StmtsOK == \A s \in Stmts : StmtOK(s)

RestInv == RestShape /\ TableOK /\ StmtsOK /\ AckedKept
-----------------------------------------------------------------------------
(* The history of a snapshot. IcebergTable follows the parents with a      *)
(* recursive function; a walk is that function, of any length.             *)

\* Induction, in the form the provers can use.
LEMMA LeastNumber ==
    ASSUME NEW S, S \subseteq Nat, S # {}
    PROVE  \E n \in S : \A k \in Nat : k < n => k \notin S
<1>1. PICK x \in S : \A y \in S : <<y, x>> \notin OpToRel(<, Nat)
    BY NatLessThanWellFounded, WFMin
<1> QED BY <1>1 DEF OpToRel

Back(S, X) == X \cup ({S[x].parent : x \in X} \cap DOMAIN S)
Walk(S, id, N, f) ==
    /\ f = [n \in 0..N |-> f[n]]
    /\ f[0] = {id} \cap DOMAIN S
    /\ \A n \in 1..N : f[n] = Back(S, f[n - 1])

\* There is a walk of every length.
LEMMA WalkExists ==
    ASSUME NEW S, NEW id, NEW N \in Nat
    PROVE  \E f : Walk(S, id, N, f)
<1> DEFINE K == {n \in Nat : ~ \E f : Walk(S, id, n, f)}
<1> SUFFICES ASSUME K # {} PROVE FALSE
    OBVIOUS
<1>1. PICK n \in K : \A k \in Nat : k < n => k \notin K
    BY LeastNumber
<1>2. CASE n = 0
    <2> DEFINE f == [k \in 0..0 |-> {id} \cap DOMAIN S]
    <2>1. Walk(S, id, 0, f) BY DEF Walk
    <2> QED BY <1>1, <1>2, <2>1
<1>3. CASE n # 0
    <2>1. n \in Nat /\ n - 1 \in Nat /\ n - 1 < n BY <1>1, <1>3
    <2>2. PICK g : Walk(S, id, n - 1, g) BY <1>1, <2>1
    <2> DEFINE f == [k \in 0..n |-> IF k = n THEN Back(S, g[n - 1]) ELSE g[k]]
    <2>3. f = [k \in 0..n |-> f[k]] OBVIOUS
    <2>4. \A k \in 0..(n - 1) : f[k] = g[k] BY <2>1
    <2>5. f[n] = Back(S, g[n - 1]) BY <2>1
    <2> HIDE DEF f
    <2>6. f[0] = {id} \cap DOMAIN S BY <2>1, <2>2, <2>4 DEF Walk
    <2>7. ASSUME NEW k \in 1..n PROVE f[k] = Back(S, f[k - 1])
        <3>1. CASE k = n BY <2>1, <2>4, <2>5, <3>1
        <3>2. CASE k # n
            <4>1. k \in 1..(n - 1) /\ k \in 0..(n - 1) /\ k - 1 \in 0..(n - 1) BY <2>1, <3>2
            <4> QED BY <2>2, <2>4, <4>1 DEF Walk
        <3> QED BY <3>1, <3>2
    <2>8. Walk(S, id, n, f) BY <2>3, <2>6, <2>7 DEF Walk
    <2> QED BY <1>1, <2>8
<1> QED BY <1>2, <1>3

\* Two walks from one snapshot agree as far as both go.
LEMMA WalksAgree ==
    ASSUME NEW S, NEW id, NEW N \in Nat, NEW M \in Nat, N <= M, NEW f, NEW g,
           Walk(S, id, N, f), Walk(S, id, M, g)
    PROVE  \A n \in 0..N : f[n] = g[n]
<1> DEFINE K == {n \in 0..N : f[n] # g[n]}
<1> SUFFICES ASSUME K # {} PROVE FALSE
    OBVIOUS
<1>1. K \subseteq Nat OBVIOUS
<1>2. PICK n \in K : \A k \in Nat : k < n => k \notin K BY <1>1, LeastNumber
<1>3. n # 0 BY <1>2 DEF Walk
<1>4. n \in 1..N /\ n \in 1..M /\ n - 1 \in 0..N /\ n - 1 < n /\ n - 1 \in Nat BY <1>2, <1>3
<1>5. f[n - 1] = g[n - 1] BY <1>2, <1>4
<1>6. f[n] = g[n] BY <1>4, <1>5 DEF Walk
<1> QED BY <1>2, <1>6

\* The recursive function of Ancestors is a walk.
LEMMA AncestorsWalk ==
    ASSUME NEW m, IsFiniteSet(DOMAIN m.snaps), NEW id,
           NEW f, Walk(m.snaps, id, Cardinality(DOMAIN m.snaps), f)
    PROVE  Ancestors(m, id) = f[Cardinality(DOMAIN m.snaps)]
<1> DEFINE C == Cardinality(DOMAIN m.snaps)
           Def(g) == [n \in 0..C |->
                        IF n = 0 THEN {id} \cap DOMAIN m.snaps
                        ELSE g[n - 1] \cup
                               ({m.snaps[x].parent : x \in g[n - 1]} \cap DOMAIN m.snaps)]
           back == CHOOSE g : g = Def(g)
<1>0. C \in Nat BY FS_CardinalityType
<1>1. Ancestors(m, id) = back[C] BY Zenon DEF Ancestors
<1>2. f = Def(f)
    <2>1. f = [n \in 0..C |-> f[n]] BY DEF Walk
    <2>2. ASSUME NEW n \in 0..C PROVE f[n] = Def(f)[n]
        <3>1. CASE n = 0 BY <3>1 DEF Walk
        <3>2. CASE n # 0
            <4>1. n \in 1..C BY <1>0, <3>2
            <4>2. f[n] = Back(m.snaps, f[n - 1]) BY <4>1 DEF Walk
            <4> QED BY <3>2, <4>2 DEF Back
        <3> QED BY <3>1, <3>2
    <2> QED BY <2>1, <2>2
<1>3. back = Def(back) BY <1>2, Zenon
<1>4. Walk(m.snaps, id, C, back)
    <2>1. back = [n \in 0..C |-> back[n]] BY <1>3
    <2>2. \A n \in 0..C : back[n] = Def(back)[n] BY <1>3
    <2> HIDE DEF back
    <2>3. 0 \in 0..C BY <1>0
    <2>4. back[0] = {id} \cap DOMAIN m.snaps BY <2>2, <2>3
    <2>5. ASSUME NEW n \in 1..C PROVE back[n] = Back(m.snaps, back[n - 1])
        <3>1. n \in 0..C /\ n # 0 BY <1>0
        <3> QED BY <2>2, <3>1 DEF Back
    <2> HIDE DEF C
    <2> QED BY <2>1, <2>4, <2>5 DEF Walk
<1>5. back[C] = f[C] BY <1>0, <1>4, WalksAgree
<1> QED BY <1>1, <1>5

\* A walk stays within the snapshots and keeps what it found.
LEMMA WalkGrows ==
    ASSUME NEW S, NEW id \in DOMAIN S, NEW N \in Nat, NEW f, Walk(S, id, N, f)
    PROVE  \A n \in 0..N : id \in f[n] /\ f[n] \subseteq DOMAIN S
<1> DEFINE K == {n \in 0..N : ~(id \in f[n] /\ f[n] \subseteq DOMAIN S)}
<1> SUFFICES ASSUME K # {} PROVE FALSE
    OBVIOUS
<1>1. K \subseteq Nat OBVIOUS
<1>2. PICK n \in K : \A k \in Nat : k < n => k \notin K BY <1>1, LeastNumber
<1>3. n # 0 BY <1>2 DEF Walk
<1>4. n \in 1..N /\ n - 1 \in 0..N /\ n - 1 < n /\ n - 1 \in Nat BY <1>2, <1>3
<1>5. id \in f[n - 1] /\ f[n - 1] \subseteq DOMAIN S BY <1>2, <1>4
<1>6. f[n] = Back(S, f[n - 1]) BY <1>4 DEF Walk
<1> QED BY <1>2, <1>5, <1>6 DEF Back

\* Nothing is found after as many steps as there are snapshots in reach.
LEMMA WalkEnds ==
    ASSUME NEW S, NEW D, IsFiniteSet(D), NEW id \in DOMAIN S, NEW N \in Nat, NEW f,
           Walk(S, id, N, f), \A n \in 0..N : f[n] \subseteq D
    PROVE  \A n \in 0..N : n >= Cardinality(D) => f[n] = f[Cardinality(D)]
<1> DEFINE C == Cardinality(D)
<1>0. C \in Nat BY FS_CardinalityType
<1>1. \A n \in 0..N : n + 1 \in 0..N => f[n + 1] = Back(S, f[n])
    <2> SUFFICES ASSUME NEW n \in 0..N, n + 1 \in 0..N PROVE f[n + 1] = Back(S, f[n])
        OBVIOUS
    <2>1. n + 1 \in 1..N /\ (n + 1) - 1 = n OBVIOUS
    <2> QED BY <2>1 DEF Walk
\* A step that finds nothing is the last that could.
<1> DEFINE Stuck(n) == n + 1 \in 0..N => f[n + 1] = f[n]
<1>2. \A n \in 0..N : IsFiniteSet(f[n]) /\ Cardinality(f[n]) \in Nat /\ Cardinality(f[n]) <= C
    BY FS_Subset, FS_CardinalityType
<1>3. \A n \in 0..N : Stuck(n) \/ Cardinality(f[n]) >= n + 1
    <2> DEFINE K == {n \in 0..N : ~(Stuck(n) \/ Cardinality(f[n]) >= n + 1)}
    <2> SUFFICES ASSUME K # {} PROVE FALSE
        OBVIOUS
    <2>1. K \subseteq Nat OBVIOUS
    <2>2. PICK n \in K : \A k \in Nat : k < n => k \notin K BY <2>1, LeastNumber
    <2>3. CASE n = 0
        <3>1. f[0] = {id} BY DEF Walk
        <3>2. Cardinality({id}) = 1 BY FS_Singleton
        <3> QED BY <2>2, <2>3, <3>1, <3>2
    <2>4. CASE n # 0
        <3>1. n \in 0..N /\ n - 1 \in 0..N /\ n - 1 < n /\ n - 1 \in Nat /\ (n - 1) + 1 = n
            BY <2>2, <2>4
        <3>2. Stuck(n - 1) \/ Cardinality(f[n - 1]) >= n BY <2>2, <3>1
        <3>3. f[n] = Back(S, f[n - 1]) BY <1>1, <3>1
        <3>4. CASE f[n] = f[n - 1]
            <4>1. Stuck(n) BY <1>1, <3>1, <3>3, <3>4
            <4> QED BY <2>2, <4>1
        <3>5. CASE f[n] # f[n - 1]
            <4>1. Cardinality(f[n - 1]) >= n BY <3>1, <3>2, <3>5
            <4>2. f[n - 1] \subseteq f[n] BY <3>3 DEF Back
            <4>3. Cardinality(f[n - 1]) < Cardinality(f[n])
                BY <1>2, <3>1, <3>5, <4>2, FS_Subset
            <4>4. Cardinality(f[n]) >= n + 1 BY <1>2, <3>1, <4>1, <4>3
            <4> QED BY <2>2, <4>4
        <3> QED BY <3>4, <3>5
    <2> QED BY <2>3, <2>4
<1>4. \A n \in 0..N : n >= C => Stuck(n)
    <2> SUFFICES ASSUME NEW n \in 0..N, n >= C PROVE Stuck(n)
        OBVIOUS
    <2>1. ~(Cardinality(f[n]) >= n + 1) BY <1>0, <1>2
    <2> QED BY <1>3, <2>1
<1> DEFINE L == {n \in 0..N : n >= C /\ f[n] # f[C]}
<1> SUFFICES ASSUME L # {} PROVE FALSE
    OBVIOUS
<1>5. L \subseteq Nat OBVIOUS
<1>6. PICK n \in L : \A k \in Nat : k < n => k \notin L BY <1>5, LeastNumber
<1>7. n # C BY <1>6
<1>8. n - 1 \in 0..N /\ n - 1 >= C /\ n - 1 < n /\ n - 1 \in Nat /\ (n - 1) + 1 = n /\ n \in 0..N
    BY <1>0, <1>6, <1>7
<1>9. f[n - 1] = f[C] BY <1>6, <1>8
<1>10. f[n] = f[n - 1] BY <1>4, <1>8
<1> QED BY <1>6, <1>9, <1>10

\* Hence a history is the same in a walk of any length that is enough.
LEMMA AncestorsAre ==
    ASSUME NEW m, IsFiniteSet(DOMAIN m.snaps), NEW id \in DOMAIN m.snaps,
           NEW N \in Nat, N >= Cardinality(DOMAIN m.snaps), NEW f, Walk(m.snaps, id, N, f)
    PROVE  Ancestors(m, id) = f[N]
<1> DEFINE C == Cardinality(DOMAIN m.snaps)
<1>0. C \in Nat BY FS_CardinalityType
<1>1. PICK g : Walk(m.snaps, id, C, g) BY <1>0, WalkExists
<1>2. g[C] = f[C] BY <1>0, <1>1, WalksAgree
<1>3. \A n \in 0..N : f[n] \subseteq DOMAIN m.snaps BY WalkGrows
<1>4. f[N] = f[C] BY <1>3, WalkEnds
<1>5. Ancestors(m, id) = g[C] BY <1>1, AncestorsWalk
<1> QED BY <1>2, <1>4, <1>5

\* A history holds its snapshot and every parent that the metadata still holds.
LEMMA AncestorsClosed ==
    ASSUME NEW m, IsFiniteSet(DOMAIN m.snaps), NEW id \in DOMAIN m.snaps
    PROVE  /\ id \in Ancestors(m, id) /\ Ancestors(m, id) \subseteq DOMAIN m.snaps
           /\ Back(m.snaps, Ancestors(m, id)) = Ancestors(m, id)
<1> DEFINE C == Cardinality(DOMAIN m.snaps)
<1>0. C \in Nat /\ C + 1 \in Nat BY FS_CardinalityType
<1>1. PICK f : Walk(m.snaps, id, C + 1, f) BY <1>0, WalkExists
<1>2. \A n \in 0..(C + 1) : id \in f[n] /\ f[n] \subseteq DOMAIN m.snaps BY <1>0, <1>1, WalkGrows
<1>3. f[C + 1] = f[C] BY <1>0, <1>1, <1>2, WalkEnds
<1>4. C + 1 \in 1..(C + 1) /\ (C + 1) - 1 = C BY <1>0
<1>5. f[C + 1] = Back(m.snaps, f[C]) BY <1>1, <1>4 DEF Walk
<1>6. Ancestors(m, id) = f[C + 1] BY <1>0, <1>1, AncestorsAre
<1> QED BY <1>0, <1>2, <1>3, <1>4, <1>5, <1>6

\* A history is of snapshots that the metadata holds, also when it starts from none.
LEMMA HistoryWithin ==
    ASSUME NEW m, IsFiniteSet(DOMAIN m.snaps), NEW id
    PROVE  Ancestors(m, id) \subseteq DOMAIN m.snaps
<1> DEFINE C == Cardinality(DOMAIN m.snaps)
<1>0. C \in Nat BY FS_CardinalityType
<1>1. PICK f : Walk(m.snaps, id, C, f) BY <1>0, WalkExists
<1>2. Ancestors(m, id) = f[C] BY <1>1, AncestorsWalk
<1> DEFINE K == {n \in 0..C : ~(f[n] \subseteq DOMAIN m.snaps)}
<1>3. ASSUME K # {} PROVE FALSE
    <2>1. K \subseteq Nat OBVIOUS
    <2>2. PICK n \in K : \A k \in Nat : k < n => k \notin K BY <1>3, <2>1, LeastNumber
    <2>3. n # 0 BY <1>1, <2>2 DEF Walk
    <2>4. n \in 1..C /\ n - 1 \in 0..C /\ n - 1 < n /\ n - 1 \in Nat BY <1>0, <2>2, <2>3
    <2>5. f[n - 1] \subseteq DOMAIN m.snaps BY <2>2, <2>4
    <2>6. f[n] = Back(m.snaps, f[n - 1]) BY <1>1, <2>4 DEF Walk
    <2> QED BY <2>2, <2>5, <2>6 DEF Back
<1>4. C \in 0..C BY <1>0
<1> QED BY <1>2, <1>3, <1>4

\* Another metadata that agrees on a history has the same one.
LEMMA HistoryKept ==
    ASSUME NEW m, IsFiniteSet(DOMAIN m.snaps), NEW k, IsFiniteSet(DOMAIN k.snaps),
           NEW h \in DOMAIN m.snaps,
           \A i \in Ancestors(m, h) : /\ i \in DOMAIN k.snaps /\ k.snaps[i] = m.snaps[i]
                                      /\ m.snaps[i].parent \in DOMAIN k.snaps =>
                                            m.snaps[i].parent \in DOMAIN m.snaps
    PROVE  Ancestors(k, h) = Ancestors(m, h)
<1> DEFINE N == Cardinality(DOMAIN m.snaps) + Cardinality(DOMAIN k.snaps)
           X == Ancestors(m, h)
<1>0. /\ Cardinality(DOMAIN m.snaps) \in Nat /\ Cardinality(DOMAIN k.snaps) \in Nat
      /\ N \in Nat
    BY FS_CardinalityType
<1>1. PICK f : Walk(m.snaps, h, N, f) BY <1>0, WalkExists
<1>2. PICK g : Walk(k.snaps, h, N, g) BY <1>0, WalkExists
<1>3. h \in X /\ X \subseteq DOMAIN m.snaps /\ Back(m.snaps, X) = X BY AncestorsClosed
<1>4. h \in DOMAIN k.snaps BY <1>3
<1> HIDE DEF N, X
<1>5. ASSUME NEW Y, Y \subseteq X
      PROVE  Back(m.snaps, Y) \subseteq X /\ Back(k.snaps, Y) = Back(m.snaps, Y)
    <2>1. Back(m.snaps, Y) \subseteq Back(m.snaps, X) BY <1>5 DEF Back
    <2>2. \A i \in Y : /\ k.snaps[i].parent = m.snaps[i].parent
                       /\ m.snaps[i].parent \in DOMAIN k.snaps => m.snaps[i].parent \in DOMAIN m.snaps
        BY <1>5 DEF X
    <2>3. \A i \in Y : m.snaps[i].parent \in DOMAIN m.snaps => m.snaps[i].parent \in X
        BY <1>3, <1>5 DEF Back
    <2>4. \A i \in X : i \in DOMAIN k.snaps BY DEF X
    <2>5. \A i \in Y : m.snaps[i].parent \in DOMAIN m.snaps => m.snaps[i].parent \in DOMAIN k.snaps
        BY <2>3, <2>4
    <2> QED BY <1>3, <2>1, <2>2, <2>5 DEF Back
<1>6. \A n \in 0..N : f[n] \subseteq X /\ g[n] = f[n]
    <2> DEFINE K == {n \in 0..N : ~(f[n] \subseteq X /\ g[n] = f[n])}
    <2> SUFFICES ASSUME K # {} PROVE FALSE
        OBVIOUS
    <2>1. K \subseteq Nat OBVIOUS
    <2>2. PICK n \in K : \A j \in Nat : j < n => j \notin K BY <2>1, LeastNumber
    <2>3. CASE n = 0
        <3>1. f[0] = {h} \cap DOMAIN m.snaps BY <1>1 DEF Walk
        <3>2. g[0] = {h} \cap DOMAIN k.snaps BY <1>2 DEF Walk
        <3>3. f[0] = {h} /\ g[0] = {h} BY <1>4, <3>1, <3>2
        <3> QED BY <1>3, <2>2, <2>3, <3>3
    <2>4. CASE n # 0
        <3>1. n \in 1..N /\ n - 1 \in 0..N /\ n - 1 < n /\ n - 1 \in Nat BY <1>0, <2>2, <2>4
        <3>2. f[n - 1] \subseteq X /\ g[n - 1] = f[n - 1] BY <2>2, <3>1
        <3>3. f[n] = Back(m.snaps, f[n - 1]) BY <1>1, <3>1 DEF Walk
        <3>4. g[n] = Back(k.snaps, f[n - 1]) BY <1>2, <3>1, <3>2 DEF Walk
        <3>5. f[n] \subseteq X /\ g[n] = f[n] BY <1>5, <3>2, <3>3, <3>4
        <3> QED BY <2>2, <3>5
    <2> QED BY <2>3, <2>4
<1>7. N >= Cardinality(DOMAIN m.snaps) /\ N >= Cardinality(DOMAIN k.snaps) BY <1>0 DEF N
<1>8. Ancestors(m, h) = f[N] BY <1>0, <1>1, <1>7, AncestorsAre
<1>9. Ancestors(k, h) = g[N] BY <1>0, <1>2, <1>4, <1>7, AncestorsAre
<1>10. N \in 0..N BY <1>0
<1> QED BY <1>6, <1>8, <1>9, <1>10

\* A new snapshot on top of another adds itself to its history.
LEMMA HistoryGrows ==
    ASSUME NEW m, IsFiniteSet(DOMAIN m.snaps), NEW k, NEW id, id \notin DOMAIN m.snaps,
           DOMAIN k.snaps = DOMAIN m.snaps \cup {id},
           \A i \in DOMAIN m.snaps : k.snaps[i] = m.snaps[i],
           NEW h \in DOMAIN m.snaps, k.snaps[id].parent = h
    PROVE  Ancestors(k, id) = {id} \cup Ancestors(m, h)
<1> DEFINE C == Cardinality(DOMAIN m.snaps)
<1>0. C \in Nat /\ C + 1 \in Nat BY FS_CardinalityType
<1>1. IsFiniteSet(DOMAIN k.snaps) /\ Cardinality(DOMAIN k.snaps) = C + 1
    BY FS_AddElement
<1> HIDE DEF C
<1>2. PICK f : Walk(m.snaps, h, C, f) BY <1>0, WalkExists
<1>3. PICK g : Walk(k.snaps, id, C + 1, g) BY <1>0, WalkExists
<1>4. \A n \in 0..C : h \in f[n] /\ f[n] \subseteq DOMAIN m.snaps BY <1>0, <1>2, WalkGrows
<1>5. ASSUME NEW Y, Y \subseteq DOMAIN m.snaps, h \in Y
      PROVE  Back(k.snaps, {id} \cup Y) = {id} \cup Back(m.snaps, Y)
    <2>1. \A i \in Y : k.snaps[i].parent = m.snaps[i].parent BY <1>5
    <2> QED BY <1>5, <2>1 DEF Back
<1>6. \A n \in 0..C : g[n + 1] = {id} \cup f[n]
    <2> DEFINE K == {n \in 0..C : g[n + 1] # {id} \cup f[n]}
    <2> SUFFICES ASSUME K # {} PROVE FALSE
        OBVIOUS
    <2>1. K \subseteq Nat OBVIOUS
    <2>2. PICK n \in K : \A j \in Nat : j < n => j \notin K BY <2>1, LeastNumber
    <2>3. n + 1 \in 1..(C + 1) /\ (n + 1) - 1 = n BY <1>0, <2>2
    <2>4. g[n + 1] = Back(k.snaps, g[n]) BY <1>3, <2>3 DEF Walk
    <2>5. CASE n = 0
        <3>0. {id} \cap DOMAIN k.snaps = {id} /\ {h} \cap DOMAIN m.snaps = {h} OBVIOUS
        <3>1. g[0] = {id} /\ f[0] = {h}
            <4>1. f[0] = {h} \cap DOMAIN m.snaps BY <1>2 DEF Walk
            <4>2. g[0] = {id} \cap DOMAIN k.snaps BY <1>3 DEF Walk
            <4> QED BY <3>0, <4>1, <4>2
        <3>2. Back(k.snaps, {id}) = {id} \cup {h} BY DEF Back
        <3> QED BY <2>2, <2>4, <2>5, <3>1, <3>2
    <2>6. CASE n # 0
        <3>1. n \in 1..C /\ n - 1 \in 0..C /\ n - 1 < n /\ n - 1 \in Nat /\ (n - 1) + 1 = n
            BY <1>0, <2>2, <2>6
        <3>2. g[n] = {id} \cup f[n - 1] BY <2>2, <3>1
        <3>3. f[n] = Back(m.snaps, f[n - 1]) BY <1>2, <3>1 DEF Walk
        <3>4. g[n + 1] = {id} \cup f[n] BY <1>4, <1>5, <2>4, <3>1, <3>2, <3>3
        <3> QED BY <2>2, <3>4
    <2> QED BY <2>5, <2>6
<1>7. Ancestors(m, h) = f[C] BY <1>0, <1>2, AncestorsAre DEF C
<1>8. Ancestors(k, id) = g[C + 1]
    <2>1. id \in DOMAIN k.snaps /\ C + 1 >= Cardinality(DOMAIN k.snaps) BY <1>0, <1>1
    <2> QED BY <1>0, <1>1, <1>3, <2>1, AncestorsAre
<1>9. C \in 0..C BY <1>0
<1> QED BY <1>6, <1>7, <1>8, <1>9

-----------------------------------------------------------------------------
(* Basic facts.                                                            *)

\* The constants.
LEMMA Basics ==
    /\ Cardinality(Stmts) \in Nat /\ Cardinality(Stmts) >= 2 /\ 1 \in Stmts /\ 2 \in Stmts
    /\ \A s \in Stmts : s \in Nat /\ s >= 1
    /\ IsFiniteSet(Ids) /\ NoSnap \notin Ids /\ \A id \in Ids : id[1] \in Stmts
    /\ \A s \in Stmts : \A t \in 0..MaxRetries : <<s, t>> \in Ids /\ <<s, t>>[1] = s
    /\ MetaVersions \subseteq Nat /\ 1 \in MetaVersions
<1>1. Cardinality(Stmts) \in Nat /\ 1 \in Stmts /\ 2 \in Stmts BY TableAssumption, FS_CardinalityType
<1>2. Cardinality(Stmts) >= 2 /\ \A s \in Stmts : s \in Nat /\ s >= 1
    BY <1>1, TableAssumption
<1>3. IsFiniteSet(Ids)
    <2>1. IsFiniteSet(0..MaxRetries) BY TableAssumption, FS_Interval
    <2> QED BY <2>1, TableAssumption, FS_Product DEF Ids
<1>4. NoSnap \notin Ids BY <1>2 DEF Ids, NoSnap
<1> QED BY <1>1, <1>2, <1>3, <1>4 DEF Ids, MetaVersions

\* Every file names the statement that wrote it.
LEMMA FileNames ==
    /\ \A s \in Stmts : /\ DataFile(s) \in Files /\ Manifest(s) \in Files
                        /\ DataFile(s)[2] = s /\ Manifest(s)[2] = s
    /\ \A id \in Ids : ManifestList(id) \in Files /\ ManifestList(id)[2] = id[1]
BY DEF DataFile, Manifest, ManifestList, Files

\* What metadata of the right shape offers.
LEMMA MetaFacts ==
    ASSUME NEW m \in Metas
    PROVE  /\ DOMAIN m.snaps \subseteq Ids /\ IsFiniteSet(DOMAIN m.snaps)
           /\ \A id \in DOMAIN m.snaps : m.snaps[id] \in Snapshots
           /\ NoSnap \notin DOMAIN m.snaps /\ Comm(m) \subseteq Stmts
           /\ m.snaps = [id \in DOMAIN m.snaps |-> m.snaps[id]]
<1>1. PICK D \in SUBSET Ids : m.snaps \in [D -> Snapshots] BY DEF Metas
<1>2. DOMAIN m.snaps = D BY <1>1
<1>3. IsFiniteSet(D) BY <1>1, Basics, FS_Subset
<1> QED BY <1>1, <1>2, <1>3, Basics DEF Comm

\* A commit adds its snapshot and moves its ref.
LEMMA Snapped ==
    ASSUME NEW m \in Metas, NEW id \in Ids, NEW x \in Snapshots, NEW r \in Refs,
           NEW k, k = WithSnapshot(m, id, x, r)
    PROVE  /\ k \in Metas
           /\ DOMAIN k.snaps = DOMAIN m.snaps \cup {id} /\ k.snaps[id] = x
           /\ \A i \in DOMAIN m.snaps \ {id} : k.snaps[i] = m.snaps[i]
           /\ k.refs[r] = id /\ \A q \in Refs \ {r} : k.refs[q] = m.refs[q]
           /\ k.nextRow = m.nextRow + x.added
<1> DEFINE S == [i \in DOMAIN m.snaps \cup {id} |-> IF i = id THEN x ELSE m.snaps[i]]
           R == [m.refs EXCEPT ![r] = id]
<1>1. DOMAIN S = DOMAIN m.snaps \cup {id} /\ S[id] = x
    OBVIOUS
<1>2. \A i \in DOMAIN m.snaps \ {id} : S[i] = m.snaps[i]
    OBVIOUS
<1>3. S = [i \in DOMAIN S |-> S[i]] OBVIOUS
<1> HIDE DEF S
<1>4. S \in [DOMAIN S -> Snapshots] /\ DOMAIN S \in SUBSET Ids
    BY <1>1, <1>2, <1>3, MetaFacts
<1>5. S \in UNION {[D -> Snapshots] : D \in SUBSET Ids} BY <1>4
<1>6. m.nextRow + x.added \in Nat /\ x.seq \in Nat BY DEF Snapshots, Metas
<1>7. /\ R \in [Refs -> Ids \cup {NoSnap}] /\ R[r] = id
      /\ \A q \in Refs \ {r} : R[q] = m.refs[q]
    BY DEF Metas
<1> HIDE DEF R
<1>8. k = [m EXCEPT !.snaps = S, !.refs = R, !.nextRow = m.nextRow + x.added, !.lastSeq = x.seq]
    BY DEF WithSnapshot, S, R
<1>9. k \in Metas BY <1>5, <1>6, <1>7, <1>8 DEF Metas
<1>10. k.snaps = S /\ k.refs = R /\ k.nextRow = m.nextRow + x.added
    BY <1>8 DEF Metas
<1> QED BY <1>1, <1>2, <1>7, <1>9, <1>10

-----------------------------------------------------------------------------
(* Frames.                                                                 *)

\* The files that the table or a pending commit needs name committed statements, or
\* the one that commits.
LEMMA NeededBy ==
    ASSUME RestShape, MetaOK(Current), NEW id \in DOMAIN Current.snaps,
           NEW f \in NeededFiles(Current, id)
    PROVE  f[2] \in Comm(Current)
<1>1. Current \in Metas BY DEF RestShape, Current
<1>2. id \in Ids /\ id[1] \in Comm(Current) BY <1>1, MetaFacts DEF Comm
<1>3. /\ Current.snaps[id].dels = {} /\ Current.snaps[id].data \subseteq Comm(Current)
      /\ Current.snaps[id].man \subseteq Comm(Current) /\ Comm(Current) \subseteq Stmts
    BY <1>1, MetaFacts DEF MetaOK, SnapOK
<1>4. CASE f = ManifestList(id) BY <1>2, <1>4, FileNames
<1>5. CASE \E q \in Current.snaps[id].man : f = Manifest(q) BY <1>3, <1>5, FileNames
<1>6. CASE \E q \in Current.snaps[id].data : f = DataFile(q) BY <1>3, <1>6, FileNames
<1> QED BY <1>3, <1>4, <1>5, <1>6 DEF NeededFiles

\* The same of the files of a pending commit.
LEMMA PreparedBy ==
    ASSUME RestShape, NEW s \in Stmts, st[s].prep.data \subseteq Comm(Current) \cup {s},
           st[s].prep.man \subseteq Comm(Current) \cup {s}, NEW f \in PrepFiles(s)
    PROVE  f[2] \in Comm(Current) \cup {s}
<1>1. Current \in Metas BY DEF RestShape, Current
<1>2. Comm(Current) \subseteq Stmts BY <1>1, MetaFacts
<1>3. <<s, st[s].try>> \in Ids /\ <<s, st[s].try>>[1] = s BY Basics DEF RestShape, RestStmts
<1>4. CASE f = ManifestList(<<s, st[s].try>>) BY <1>3, <1>4, FileNames
<1>5. CASE \E q \in st[s].prep.man : f = Manifest(q) BY <1>2, <1>5, FileNames
<1>6. CASE \E q \in st[s].prep.data : f = DataFile(q) BY <1>2, <1>6, FileNames
<1> QED BY <1>4, <1>5, <1>6 DEF PrepFiles

\* A statement that has no snapshot moves, touches its own files, and the table stays.
LEMMA StepKeeps ==
    ASSUME RestInv, NEW s \in Stmts, Open(s), UNCHANGED <<load, meta, hint>>,
           slips' \in 0..load.slips,
           disk' \subseteq Files, \A f \in disk : f[2] # s => f \in disk',
           body' \in [Stmts -> Bodies], \A q \in Stmts \ {s} : body'[q] = body[q],
           st' \in [Stmts -> RestStmts], \A q \in Stmts \ {s} : st'[q] = st[q],
           StmtOK(s)', st'[s].pc # "acked"
    PROVE  RestInv'
<1>1. RestShape /\ MetaOK(Current) /\ StmtsOK BY DEF RestInv, TableOK
<1>2. Current' = Current /\ Current \in Metas BY <1>1 DEF Current, RestShape
<1>3. s \notin Comm(Current) BY <1>1 DEF StmtsOK, StmtOK
<1>4. RestShape' BY <1>1 DEF RestShape
<1>5. TableOK'
    <2>1. MetaOK(Current)' /\ (\A v \in MetaVersions : RefsOK(meta[v]))'
        BY <1>2 DEF RestInv, TableOK, MetaOK, RefsOK, SnapOK, Comm
    <2>2. NoDanglingFiles'
        <3> SUFFICES ASSUME NEW id \in DOMAIN Current.snaps, NEW f \in NeededFiles(Current, id)
                     PROVE  f \in disk'
            BY <1>2 DEF NoDanglingFiles, NeededFiles
        <3>1. f \in disk BY DEF RestInv, TableOK, NoDanglingFiles
        <3>2. f[2] # s BY <1>1, <1>3, NeededBy
        <3> QED BY <3>1, <3>2
    <2>3. RowIdsUnique' BY <1>2 DEF RestInv, TableOK, RowIdsUnique
    <2>4. Comm(Current)' = Comm(Current) BY <1>2 DEF Comm
    <2>5. ({1, 2} \subseteq Comm(Current) /\ \A f \in Comm(Current) : body[f].rows = New(f))'
        <3>1. Comm(Current) \subseteq Stmts \ {s} BY <1>2, <1>3, MetaFacts
        <3> QED BY <2>4, <3>1 DEF RestInv, TableOK, New
    <2>6. hint' + 1 <= Cardinality(Spent')
        <3>1. Spent \subseteq Spent' /\ Spent' \subseteq Stmts BY DEF Spent, Open
        <3>2. IsFiniteSet(Spent') /\ Cardinality(Spent) <= Cardinality(Spent')
              /\ Cardinality(Spent) \in Nat /\ Cardinality(Spent') \in Nat
            BY <3>1, TableAssumption, FS_Subset, FS_CardinalityType
        <3>3. hint \in Nat /\ hint + 1 <= Cardinality(Spent)
            BY <1>1, Basics DEF RestInv, TableOK, RestShape
        <3> QED BY <3>2, <3>3
    <2> QED BY <2>1, <2>2, <2>3, <2>5, <2>6 DEF TableOK
<1>6. StmtsOK'
    <2> SUFFICES ASSUME NEW q \in Stmts, q # s PROVE StmtOK(q)'
        BY DEF StmtsOK
    <2>1. st'[q] = st[q] /\ body'[q] = body[q] /\ StmtOK(q) BY <1>1 DEF StmtsOK
    <2>2. (Open(q)' <=> Open(q)) /\ (Pending(q)' <=> Pending(q)) BY <2>1 DEF Open, Pending
    <2>3. ASSUME PrepOK(q) PROVE PrepOK(q)'
        <3>1. PrepFiles(q)' = PrepFiles(q) BY <2>1 DEF PrepFiles
        <3>2. \A f \in PrepFiles(q) : f[2] # s BY <1>1, <1>3, <2>3, PreparedBy DEF PrepOK
        <3>3. PrepFiles(q) \subseteq disk' BY <2>3, <3>2 DEF PrepOK
        <3>4. Added' = Added BY DEF Added
        <3> QED BY <1>2, <2>1, <2>3, <3>1, <3>3, <3>4 DEF PrepOK, Comm
    <2>4. DataFile(q) \in disk => DataFile(q) \in disk' BY FileNames
    <2> QED BY <1>2, <2>1, <2>2, <2>3, <2>4 DEF StmtOK, Comm
<1>7. AckedKept'
    <2>1. MainChain' = MainChain BY <1>2 DEF MainChain, Ancestors, RefHead
    <2> QED BY <2>1 DEF RestInv, AckedKept, MainDml
<1> QED BY <1>4, <1>5, <1>6, <1>7 DEF RestInv

-----------------------------------------------------------------------------
(* One lemma per action.                                                   *)

\* The record of a statement that has not begun.
LEMMA NoStmtType ==
    /\ NoSnapshot \in Snapshots /\ NoStmt \in RestStmts
    /\ NoStmt = [pc |-> "free", kind |-> "none", ref |-> "main", at |-> 0, row0 |-> 0,
                 try |-> 0, prep |-> NoSnapshot, new |-> NoTableMeta, next |-> 0, log |-> {},
                 pick |-> {}, late |-> FALSE]
<1>1. NoSnapshot \in Snapshots BY DEF NoSnapshot, Snapshots
<1>2. 0 \in 0..MaxRetries BY TableAssumption
<1> QED BY <1>1, <1>2 DEF NoStmt, RestStmts, RestPcs, Refs

\* What Ends does to the statements.
LEMMA EndsIs ==
    ASSUME RestShape, NEW s \in Stmts, NEW p \in RestPcs, Ends(s, p)
    PROVE  /\ st' \in [Stmts -> RestStmts] /\ \A q \in Stmts \ {s} : st'[q] = st[q]
           /\ st'[s].pc = p /\ st'[s].kind = st[s].kind /\ st'[s].ref = st[s].ref
           /\ st'[s].late = FALSE /\ st'[s].log = {} /\ st'[s].row0 = 0
<1> DEFINE x == [NoStmt EXCEPT !.pc = p, !.kind = st[s].kind, !.ref = st[s].ref]
<1>1. st[s] \in RestStmts BY DEF RestShape
<1>2. st[s].kind \in RestKinds \cup {"none"} /\ st[s].ref \in Refs BY <1>1 DEF RestStmts
<1>3. /\ x \in RestStmts /\ x.pc = p /\ x.kind = st[s].kind /\ x.ref = st[s].ref
      /\ x.late = FALSE /\ x.log = {} /\ x.row0 = 0
    BY <1>2, NoStmtType DEF RestStmts
<1>4. st' = [st EXCEPT ![s] = x] BY DEF Ends
<1> HIDE DEF x
<1> QED BY <1>3, <1>4 DEF RestShape

\* A statement that ends without a commit.
LEMMA EndKeeps ==
    ASSUME RestInv, NEW s \in Stmts, Open(s), st[s].pc # "free",
           NEW p \in {"refused", "error", "gone"}, Ends(s, p),
           UNCHANGED <<load, meta, hint>>, slips' \in 0..load.slips,
           disk' \subseteq Files, \A f \in disk : f[2] # s => f \in disk',
           body' \in [Stmts -> Bodies], \A q \in Stmts \ {s} : body'[q] = body[q]
    PROVE  RestInv'
<1>1. RestShape /\ StmtOK(s) BY DEF RestInv, StmtsOK
<1>2. /\ st' \in [Stmts -> RestStmts] /\ \A q \in Stmts \ {s} : st'[q] = st[q]
      /\ st'[s].pc = p /\ st'[s].kind = st[s].kind /\ st'[s].ref = st[s].ref
      /\ st'[s].late = FALSE /\ st'[s].log = {} /\ st'[s].row0 = 0
    BY <1>1, EndsIs DEF RestPcs
<1>3. Current' = Current /\ Current.nextRow \in Nat BY <1>1 DEF Current, RestShape, Metas
<1>4. s \notin Comm(Current)' BY <1>1, <1>3 DEF StmtOK, Comm
<1>5. ~Open(s)' /\ ~Pending(s)' BY <1>2 DEF Open, Pending
<1>6. StmtOK(s)' BY <1>1, <1>2, <1>3, <1>4, <1>5 DEF StmtOK
<1> QED BY <1>2, <1>6, StepKeeps

\* A call fails, or not.
LEMMA SlipIs ==
    ASSUME RestShape, UNCHANGED slips \/ Slip
    PROVE  slips' \in 0..load.slips
<1>1. load.slips \in Nat /\ slips \in 0..load.slips BY WorkloadAssumption DEF RestShape
<1> QED BY <1>1 DEF Slip

\* A DML statement loads the table, or the catalog does not answer.
LEMMA BeginKeeps ==
    ASSUME RestInv, NEW s \in Stmts, NEW k \in Dml, NEW r \in Refs, Begin(s, k, r), UNCHANGED load
    PROVE  RestInv'
<1>1. RestShape /\ StmtOK(s) BY DEF RestInv, StmtsOK
<1>2. k \in {"insert", "append", "overwrite"} /\ (k = "insert" => r = "main")
    BY <1>1, WorkloadAssumption DEF Begin, RestShape, Dml, Refs
<1>3. Open(s) /\ st[s].pc = "free" BY DEF Begin, Starts, Open
<1>4. /\ Current' = Current /\ Current.nextRow \in Nat /\ hint \in MetaVersions
      /\ UNCHANGED <<meta, hint, disk, body>>
    BY <1>1, <1>2 DEF Current, RestShape, Metas, Begin
<1>5. s \notin Comm(Current)' BY <1>1, <1>3, <1>4 DEF StmtOK, Comm
<1>6. slips' \in 0..load.slips BY <1>1, SlipIs DEF Begin
<1>7. \/ st' = [st EXCEPT ![s] = With(s, k, r, "loaded")]
      \/ st' = [st EXCEPT ![s] = [NoStmt EXCEPT !.pc = "refused", !.kind = k, !.ref = r]]
    BY <1>2 DEF Begin
<1>8. PICK x : /\ st' = [st EXCEPT ![s] = x]
               /\ \/ x = With(s, k, r, "loaded")
                  \/ x = [NoStmt EXCEPT !.pc = "refused", !.kind = k, !.ref = r]
    BY <1>7
<1>9. /\ x \in RestStmts /\ x.pc \in {"loaded", "refused"} /\ x.kind = k /\ x.ref = r
      /\ x.late = FALSE /\ x.log = {} /\ x.row0 \in Nat /\ x.row0 <= Current.nextRow
    <2>1. CASE x = With(s, k, r, "loaded")
        <3>1. x = [pc |-> "loaded", kind |-> k, ref |-> r, at |-> hint, row0 |-> Current.nextRow,
                   try |-> 0, prep |-> NoSnapshot, new |-> NoTableMeta, next |-> 0, log |-> {},
                   pick |-> {}, late |-> FALSE]
            BY <1>1, <2>1, NoStmtType DEF With, RestShape
        <3> QED BY <1>2, <1>4, <3>1, NoStmtType DEF RestStmts, RestPcs, RestKinds
    <2>2. CASE x = [NoStmt EXCEPT !.pc = "refused", !.kind = k, !.ref = r]
        <3>1. x = [pc |-> "refused", kind |-> k, ref |-> r, at |-> 0, row0 |-> 0,
                   try |-> 0, prep |-> NoSnapshot, new |-> NoTableMeta, next |-> 0, log |-> {},
                   pick |-> {}, late |-> FALSE]
            BY <2>2, NoStmtType
        <3> QED BY <1>2, <1>4, <3>1, NoStmtType DEF RestStmts, RestPcs, RestKinds
    <2> QED BY <1>8, <2>1, <2>2
<1>10. /\ st' \in [Stmts -> RestStmts] /\ st'[s] = x /\ \A q \in Stmts \ {s} : st'[q] = st[q]
    BY <1>1, <1>8, <1>9 DEF RestShape
<1>11. ~Pending(s)' BY <1>9, <1>10 DEF Pending
<1>12. StmtOK(s)' BY <1>2, <1>4, <1>5, <1>9, <1>10, <1>11 DEF StmtOK
<1> QED BY <1>1, <1>3, <1>4, <1>6, <1>9, <1>10, <1>12, StepKeeps DEF RestShape

\* A statement on a REST table that has begun and not ended.
LEMMA RestDml ==
    ASSUME RestInv, NEW s \in Stmts, st[s].pc \in {"loaded", "written", "cleanup"}
    PROVE  /\ st[s].kind \in {"insert", "append", "overwrite"} /\ st[s].kind \in Dml
           /\ Open(s) /\ s \notin Comm(Current) /\ ~st[s].late /\ st[s].kind # "none"
           /\ RowsToWrite(s) = New(s) /\ New(s) # {} /\ New(s) \subseteq RowSet
<1>1. st[s] \in RestStmts /\ StmtOK(s) BY DEF RestInv, RestShape, StmtsOK
<1>2. st[s].kind \in {"insert", "append", "overwrite"} BY <1>1 DEF RestStmts, RestKinds, StmtOK
<1>3. Open(s) /\ ~st[s].late BY <1>1 DEF Open, StmtOK
<1>4. RowsToWrite(s) = New(s) BY <1>2 DEF RowsToWrite
<1>5. New(s) # {} /\ New(s) \subseteq RowSet
    <2>1. <<s, 1>> \in New(s) BY DEF New
    <2> QED BY <2>1 DEF New, RowSet
<1> QED BY <1>1, <1>2, <1>3, <1>4, <1>5 DEF Dml, StmtOK

\* The data file appears; it is nobody else's.
LEMMA WriteFilesKeeps ==
    ASSUME RestInv, NEW s \in Stmts, WriteFiles(s), UNCHANGED load
    PROVE  RestInv'
<1>1. RestShape /\ StmtOK(s) /\ st[s] \in RestStmts BY DEF RestInv, StmtsOK, RestShape
<1>2. st[s].pc = "loaded" BY DEF WriteFiles
<1>3. /\ st[s].kind \in {"insert", "append", "overwrite"} /\ st[s].kind \in Dml
      /\ Open(s) /\ s \notin Comm(Current) /\ ~st[s].late /\ st[s].kind # "none"
      /\ RowsToWrite(s) = New(s) /\ New(s) # {} /\ New(s) \subseteq RowSet
    BY <1>2, RestDml
<1>4. /\ disk' = disk \cup {DataFile(s)} /\ body' = [body EXCEPT ![s].rows = New(s)]
      /\ \/ /\ st' = [st EXCEPT ![s].pc = "written",
                                ![s].log = IF st[s].kind = "insert" THEN {} ELSE {DataFile(s)}]
            /\ UNCHANGED slips
         \/ Slip /\ Ends(s, "refused")
      /\ UNCHANGED <<meta, hint>>
    BY <1>3 DEF WriteFiles
<1>5. slips' \in 0..load.slips BY <1>1, <1>4, SlipIs
<1>6. disk' \subseteq Files /\ DataFile(s) \in disk' /\ (\A f \in disk : f \in disk')
    BY <1>1, <1>4, FileNames DEF RestShape
<1>7. /\ body' \in [Stmts -> Bodies] /\ body'[s].rows = New(s)
      /\ \A q \in Stmts \ {s} : body'[q] = body[q]
    <2>1. body[s] \in Bodies BY <1>1 DEF RestShape
    <2>2. [body[s] EXCEPT !.rows = New(s)] \in Bodies /\ [body[s] EXCEPT !.rows = New(s)].rows = New(s)
        BY <1>3, <2>1 DEF Bodies
    <2> QED BY <1>1, <1>4, <2>2 DEF RestShape
<1>8. CASE Ends(s, "refused")
    BY <1>2, <1>3, <1>4, <1>5, <1>6, <1>7, <1>8, EndKeeps
<1>9. CASE st' = [st EXCEPT ![s].pc = "written",
                            ![s].log = IF st[s].kind = "insert" THEN {} ELSE {DataFile(s)}]
    <2> DEFINE L == IF st[s].kind = "insert" THEN {} ELSE {DataFile(s)}
    <2>1. L \subseteq Files /\ \A f \in L : f[2] = s BY FileNames
    <2>2. st' = [st EXCEPT ![s].pc = "written", ![s].log = L] BY <1>9
    <2> HIDE DEF L
    <2>3. PICK x : x = [[st[s] EXCEPT !.pc = "written"] EXCEPT !.log = L] OBVIOUS
    <2>4. /\ x \in RestStmts /\ x.pc = "written" /\ x.log = L /\ x.kind = st[s].kind
          /\ x.ref = st[s].ref /\ x.late = st[s].late /\ x.row0 = st[s].row0
        BY <1>1, <2>1, <2>3 DEF RestStmts, RestPcs
    <2>5. st' \in [Stmts -> RestStmts] /\ st'[s] = x /\ \A q \in Stmts \ {s} : st'[q] = st[q]
        BY <1>1, <2>2, <2>3, <2>4 DEF RestShape
    <2>6. Current' = Current BY <1>4 DEF Current
    <2>7. ~Pending(s)' /\ s \notin Comm(Current)' BY <1>3, <2>4, <2>5, <2>6 DEF Pending, Comm
    <2>8. New(s)' = New(s) BY DEF New
    <2>9. StmtOK(s)' BY <1>1, <1>3, <1>6, <1>7, <2>1, <2>4, <2>5, <2>6, <2>7, <2>8 DEF StmtOK
    <2> QED BY <1>3, <1>4, <1>5, <1>6, <1>7, <2>4, <2>5, <2>9, StepKeeps
<1> QED BY <1>4, <1>8, <1>9

\* Every file in the abort log names the statement, which has no snapshot.
LEMMA CleanupKeeps ==
    ASSUME RestInv, NEW s \in Stmts, Cleanup(s), UNCHANGED load
    PROVE  RestInv'
<1>1. RestShape /\ StmtOK(s) BY DEF RestInv, StmtsOK
<1>2. Open(s) /\ st[s].pc = "cleanup" BY DEF Cleanup, Open
<1>3. disk' \subseteq disk /\ \A f \in disk : f[2] # s => f \in disk'
    <2>1. \A f \in st[s].log : f[2] = s BY <1>1 DEF StmtOK
    <2> QED BY <2>1 DEF Cleanup
<1>4. slips' \in 0..load.slips BY <1>1, SlipIs DEF Cleanup
<1>5. UNCHANGED <<meta, hint, body>> /\ Ends(s, "refused") BY DEF Cleanup
<1> QED BY <1>1, <1>2, <1>3, <1>4, <1>5, EndKeeps DEF RestShape

\* The snapshot that a REST statement builds.
LEMMA BuiltIs ==
    ASSUME RestInv, NEW s \in Stmts, st[s].pc = "written", NEW x, x = NewSnapshot(s, Current),
           NEW base, base = Main(Current)
    PROVE  /\ x \in Snapshots /\ x.dels = {} /\ s \in x.man
           /\ x.parent = Current.refs[st[s].ref]
           /\ x.data = IF st[s].kind = "overwrite" THEN {s} ELSE base.data \cup {s}
           /\ x.man \subseteq base.man \cup {s}
           /\ x.row0 <= Current.nextRow /\ x.added = Added
<1>1. RestShape /\ StmtOK(s) /\ st[s] \in RestStmts /\ MetaOK(Current)
    BY DEF RestInv, StmtsOK, RestShape, TableOK
<1>2. st[s].kind \in {"insert", "append", "overwrite"} BY RestDml
<1>3. Current \in Metas BY <1>1 DEF Current, RestShape
<1>4. base \in Snapshots /\ base.dels = {}
    BY <1>1, <1>3, MetaFacts DEF Main, RefHead, MetaOK, SnapOK
<1>5. /\ base.data \subseteq Stmts /\ base.man \subseteq Stmts /\ base.names \subseteq Stmts
    BY <1>4 DEF Snapshots
<1>6. /\ Current.nextRow \in Nat /\ Current.lastSeq + 1 \in Nat /\ st[s].row0 \in Nat
      /\ st[s].row0 <= Current.nextRow /\ st[s].ref \in Refs
      /\ \A r \in Refs : Current.refs[r] \in Ids \cup {NoSnap}
    BY <1>1, <1>3 DEF Metas, RestStmts, StmtOK
<1>7. Added \in 0..2 BY DEF Added
<1>9. PICK d : d = base.data \cup {s} OBVIOUS
<1>10. PICK e : e = base.man \cup {s} OBVIOUS
<1>11. PICK n : n = base.names \cup {s} OBVIOUS
<1>12. PICK o : o = {s} OBVIOUS
<1>13. PICK w : w = base.data \cup {s} OBVIOUS
<1>14. /\ d \in SUBSET Stmts /\ e \in SUBSET Stmts /\ n \in SUBSET Stmts /\ o \in SUBSET Stmts
       /\ w \in SUBSET Stmts
    BY <1>5, <1>9, <1>10, <1>11, <1>12, <1>13
<1>15. CASE st[s].kind = "insert"
    <2>2. st[s].ref = "main" BY <1>1, <1>15 DEF StmtOK
    <2>1. x = [parent |-> Current.refs[st[s].ref], seq |-> Current.lastSeq + 1, row0 |-> Current.nextRow,
               added |-> Added, data |-> d, dels |-> {}, man |-> e, names |-> n]
        BY <1>4, <1>9, <1>10, <1>11, <1>15, <2>2 DEF NewSnapshot, Appended, Built, RefHead
    <2> QED BY <1>6, <1>7, <1>9, <1>10, <1>11, <1>14, <1>15, <2>1 DEF Snapshots
<1>16. CASE st[s].kind = "append"
    <2>1. x = [parent |-> Current.refs[st[s].ref], seq |-> Current.lastSeq + 1, row0 |-> st[s].row0,
               added |-> Added, data |-> d, dels |-> {}, man |-> e, names |-> n]
        BY <1>4, <1>9, <1>10, <1>11, <1>16 DEF NewSnapshot, Appended, Built, RefHead
    <2> QED BY <1>6, <1>7, <1>9, <1>10, <1>11, <1>14, <1>16, <2>1 DEF Snapshots
<1>17. CASE st[s].kind = "overwrite"
    <2>1. x = [parent |-> Current.refs[st[s].ref], seq |-> Current.lastSeq + 1, row0 |-> st[s].row0,
               added |-> Added, data |-> o, dels |-> {}, man |-> o, names |-> w]
        BY <1>4, <1>12, <1>13, <1>17 DEF NewSnapshot, Overwritten, Built, RefHead
    <2> QED BY <1>6, <1>7, <1>12, <1>13, <1>14, <1>17, <2>1 DEF Snapshots
<1> QED BY <1>2, <1>15, <1>16, <1>17

\* The files of the snapshot are there before it is offered to the catalog.
LEMMA BuildKeeps ==
    ASSUME RestInv, NEW s \in Stmts, Build(s), UNCHANGED load
    PROVE  RestInv'
<1> PICK x : x = NewSnapshot(s, Current) OBVIOUS
<1> PICK base : base = Main(Current) OBVIOUS
<1> PICK files : files = AttemptFiles(s, x) OBVIOUS
<1>1. RestShape /\ StmtOK(s) /\ st[s] \in RestStmts /\ MetaOK(Current)
    BY DEF RestInv, StmtsOK, RestShape, TableOK
<1>2. st[s].pc = "written" BY DEF Build
<1>3. /\ st[s].kind \in {"insert", "append", "overwrite"} /\ st[s].kind \in Dml
      /\ Open(s) /\ s \notin Comm(Current) /\ ~st[s].late /\ st[s].kind # "none"
    BY <1>2, RestDml
<1>4. /\ x \in Snapshots /\ x.dels = {} /\ s \in x.man
      /\ x.parent = Current.refs[st[s].ref]
      /\ x.data = IF st[s].kind = "overwrite" THEN {s} ELSE base.data \cup {s}
      /\ x.man \subseteq base.man \cup {s}
      /\ x.row0 <= Current.nextRow /\ x.added = Added
    BY <1>2, BuiltIs
<1>5. Loaded(s) = Current BY <1>1 DEF Loaded, RestShape
<1>6. Current' = Current /\ Current \in Metas /\ UNCHANGED <<meta, hint>>
    BY <1>1 DEF Current, RestShape, Build
<1>7. files = {ManifestList(<<s, st[s].try>>), Manifest(s)}
    <2>1. x.man \cap {s} = {s} BY <1>4
    <2> QED BY <1>3, <2>1 DEF AttemptFiles
<1>8. files \subseteq Files /\ \A f \in files : f[2] = s
    <2>1. <<s, st[s].try>> \in Ids /\ <<s, st[s].try>>[1] = s BY <1>1, Basics DEF RestStmts
    <2> QED BY <1>7, <2>1, FileNames
<1>9. UNCHANGED body /\ slips' \in 0..load.slips
    <2>1. UNCHANGED body BY <1>3 DEF Build
    <2>2. UNCHANGED slips \/ Slip BY <1>3 DEF Build
    <2> QED BY <1>1, <2>1, <2>2, SlipIs
<1>10. CASE Ends(s, "error") /\ \E F \in SUBSET files : disk' = disk \cup F
    <2>1. disk' \subseteq Files /\ \A f \in disk : f \in disk' BY <1>1, <1>8, <1>10 DEF RestShape
    <2> QED BY <1>1, <1>2, <1>3, <1>6, <1>9, <1>10, <2>1, EndKeeps DEF RestShape
<1>11. CASE /\ disk' = disk \cup files
            /\ \E p \in {"built", "cleanup"} :
                 st' = [[st EXCEPT ![s].prep = x, ![s].log = @ \cup Logged(s, files)]
                            EXCEPT ![s].pc = p]
    <2> PICK L : L = st[s].log \cup Logged(s, files) OBVIOUS
    <2>1. PICK p \in {"built", "cleanup"} :
                 st' = [[st EXCEPT ![s].prep = x, ![s].log = @ \cup Logged(s, files)]
                            EXCEPT ![s].pc = p]
        BY <1>11
    <2>2. L \subseteq Files /\ \A f \in L : f[2] = s
        <3>1. Logged(s, files) \subseteq files BY DEF Logged
        <3>2. st[s].log \subseteq Files /\ \A f \in st[s].log : f[2] = s BY <1>1 DEF RestStmts, StmtOK
        <3> QED BY <1>8, <3>1, <3>2
    <2>3. PICK y : y = [[[st[s] EXCEPT !.prep = x] EXCEPT !.log = L] EXCEPT !.pc = p] OBVIOUS
    <2>4. /\ y \in RestStmts /\ y.pc = p /\ y.log = L /\ y.prep = x /\ y.kind = st[s].kind
          /\ y.ref = st[s].ref /\ y.late = st[s].late /\ y.row0 = st[s].row0 /\ y.try = st[s].try
        BY <1>1, <1>4, <2>2, <2>3 DEF RestStmts, RestPcs
    <2>5. st' \in [Stmts -> RestStmts] /\ st'[s] = y /\ \A q \in Stmts \ {s} : st'[q] = st[q]
        <3>1. st' = [st EXCEPT ![s] = y] BY <1>1, <2>1, <2>3 DEF RestShape
        <3> QED BY <1>1, <2>4, <3>1 DEF RestShape
    <2>6. disk' \subseteq Files /\ \A f \in disk : f \in disk' BY <1>1, <1>8, <1>11 DEF RestShape
    <2>7. /\ New(s)' = New(s) /\ Comm(Current)' = Comm(Current) /\ Added' = Added
        BY <1>6 DEF New, Comm, Added
    <2>8. DataFile(s) \in disk' /\ body'[s].rows = New(s)
        BY <1>1, <1>2, <1>3, <1>9, <2>6 DEF StmtOK
    <2>9. Current.refs["main"] \in DOMAIN Current.snaps /\ base = Current.snaps[Current.refs["main"]]
        BY <1>1 DEF MetaOK, Main, RefHead
    <2>10. base.data \subseteq Comm(Current) /\ base.man \subseteq Comm(Current)
        BY <1>1, <2>9 DEF MetaOK, SnapOK
    <2>11. PrepFiles(s)' \subseteq disk'
        <3>1. /\ {Manifest(q) : q \in base.man} \subseteq disk
              /\ {DataFile(q) : q \in base.data} \subseteq disk
            BY <2>9 DEF RestInv, TableOK, NoDanglingFiles, NeededFiles
        <3>2. ASSUME NEW f \in PrepFiles(s)' PROVE f \in disk'
            <4>1. CASE f = ManifestList(<<s, st[s].try>>) BY <1>7, <1>11, <4>1
            <4>2. CASE \E q \in x.man : f = Manifest(q)
                <5>1. PICK q \in base.man \cup {s} : f = Manifest(q) BY <1>4, <4>2
                <5> QED BY <1>7, <1>11, <3>1, <5>1
            <4>3. CASE \E q \in x.data : f = DataFile(q)
                <5>1. PICK q \in base.data \cup {s} : f = DataFile(q) BY <1>4, <4>3
                <5> QED BY <2>6, <2>8, <3>1, <5>1
            <4> QED BY <2>4, <2>5, <3>2, <4>1, <4>2, <4>3 DEF PrepFiles
        <3> QED BY <3>2
    <2>12. PrepOK(s)'
        <3>1. x.data \subseteq Comm(Current) \cup {s} /\ x.man \subseteq Comm(Current) \cup {s}
            BY <1>4, <2>10
        <3>2. st[s].ref = "main" => x.parent \in DOMAIN Current.snaps /\ base = Current.snaps[x.parent]
            BY <1>4, <2>9
        <3> QED BY <1>4, <1>6, <2>4, <2>5, <2>7, <2>11, <3>1, <3>2 DEF PrepOK
    <2>13. StmtOK(s)'
        <3>1. s \notin Comm(Current)' BY <1>3, <2>7
        <3>2. Current'.nextRow = Current.nextRow BY <1>6
        <3> QED BY <1>1, <1>3, <2>1, <2>2, <2>4, <2>5, <2>7, <2>8, <2>12, <3>1, <3>2 DEF StmtOK
    <2>14. body' \in [Stmts -> Bodies] /\ \A q \in Stmts \ {s} : body'[q] = body[q]
        BY <1>1, <1>9 DEF RestShape
    <2>15. st'[s].pc # "acked" BY <2>1, <2>4, <2>5
    <2> QED BY <1>3, <1>6, <1>9, <2>5, <2>6, <2>13, <2>14, <2>15, StepKeeps
<1> QED BY <1>3, <1>5, <1>10, <1>11 DEF Build

\* A pending snapshot stays good while the table and its files stay.
LEMMA PrepStays ==
    ASSUME RestShape, NEW s \in Stmts, PrepOK(s), UNCHANGED <<load, meta, hint, disk>>,
           st'[s].prep = st[s].prep, st'[s].try = st[s].try, st'[s].kind = st[s].kind,
           st'[s].ref = st[s].ref
    PROVE  PrepOK(s)'
<1>1. Current' = Current BY DEF Current
<1>2. PrepFiles(s)' = PrepFiles(s) BY DEF PrepFiles
<1>3. Added' = Added BY DEF Added
<1> QED BY <1>1, <1>2, <1>3 DEF PrepOK, Comm

\* A pending statement changes some of its own record; the table and its files stay.
LEMMA PendingKeeps ==
    ASSUME RestInv, NEW s \in Stmts, st[s].pc = "built", NEW y \in RestStmts,
           st' = [st EXCEPT ![s] = y], UNCHANGED <<load, meta, hint, disk, body>>,
           slips' \in 0..load.slips,
           y.kind = st[s].kind, y.ref = st[s].ref, y.row0 = st[s].row0, y.log \subseteq st[s].log,
           \/ y.pc \in {"written", "cleanup"} /\ ~y.late /\ st[s].kind \in Dml
           \/ /\ y.pc \in {"error", "gone"} /\ y.late
              /\ y.prep = st[s].prep /\ y.try = st[s].try /\ y.pick = st[s].pick
    PROVE  RestInv'
<1>1. RestShape /\ StmtOK(s) BY DEF RestInv, StmtsOK
<1>2. Open(s) /\ Pending(s) BY DEF Open, Pending
<1>3. st' \in [Stmts -> RestStmts] /\ st'[s] = y /\ \A q \in Stmts \ {s} : st'[q] = st[q]
    BY <1>1 DEF RestShape
<1>4. Current' = Current /\ Comm(Current)' = Comm(Current) BY DEF Current, Comm
<1>5. s \notin Comm(Current)' BY <1>1, <1>2, <1>4 DEF StmtOK
<1>6. Pending(s)' => y.prep = st[s].prep /\ y.try = st[s].try /\ y.pick = st[s].pick
    BY <1>3 DEF Pending
<1>7. st[s].kind \in Dml /\ Pending(s)' => PrepOK(s)'
    BY <1>1, <1>2, <1>3, <1>6, PrepStays DEF StmtOK
<1>8. New(s)' = New(s) BY DEF New
<1>9. st[s].kind # "none" /\ (st[s].kind \in Dml => st[s].kind \notin {"create", "drop"})
    BY <1>1 DEF StmtOK, Dml
<1>10. StmtOK(s)'
    <2>1. y.pc # "free" /\ (y.late => y.pc \in {"error", "gone"}) OBVIOUS
    <2>2. \A f \in y.log : f[2] = s BY <1>1 DEF StmtOK
    <2>3. st[s].kind \in Dml => DataFile(s) \in disk /\ body[s].rows = New(s)
        BY <1>1, <1>2 DEF StmtOK
    <2>4. st[s].kind \in {"create", "drop"} => y.pc \notin {"loaded", "written", "cleanup"}
        BY <1>9
    <2>5. st[s].kind = "create" /\ Pending(s)' => y.pick # {}
        BY <1>1, <1>2, <1>6 DEF StmtOK
    <2>6. st[s].row0 <= Current.nextRow /\ (st[s].kind = "insert" => st[s].ref = "main")
        BY <1>1 DEF StmtOK
    <2> QED BY <1>3, <1>4, <1>5, <1>7, <1>8, <1>9, <2>1, <2>2, <2>3, <2>4, <2>5, <2>6 DEF StmtOK
<1>11. st'[s].pc # "acked" BY <1>3
<1> QED BY <1>1, <1>2, <1>3, <1>10, <1>11, StepKeeps DEF RestShape

\* A conflict is retried with the same files, or cleaned up.
LEMMA ConflictKeeps ==
    ASSUME RestInv, NEW s \in Stmts, st[s].pc = "built", Conflict(s),
           UNCHANGED <<load, meta, hint, disk, body, slips>>
    PROVE  RestInv'
<1>1. RestShape /\ StmtOK(s) /\ st[s] \in RestStmts BY DEF RestInv, StmtsOK, RestShape
<1>2. slips' \in 0..load.slips /\ Open(s) /\ ~st[s].late BY <1>1 DEF RestShape, Open, StmtOK
<1>3. CASE Ends(s, "error") BY <1>1, <1>2, <1>3, EndKeeps DEF RestShape
<1>4. CASE ~Ends(s, "error")
    <2>1. st[s].kind \in {"insert", "append", "overwrite"} /\ st[s].kind \in Dml
        BY <1>1, <1>4 DEF Conflict, RestStmts, RestKinds, StmtOK, Dml
    <2>2. CASE st[s].try < MaxRetries
        <3> PICK y : y = [[[st[s] EXCEPT !.pc = "written"] EXCEPT !.try = st[s].try + 1]
                               EXCEPT !.prep = NoSnapshot]
            OBVIOUS
        <3>1. st[s].try + 1 \in 0..MaxRetries BY <1>1, <2>2, TableAssumption DEF RestStmts
        <3>2. /\ y \in RestStmts /\ y.pc = "written" /\ y.late = st[s].late /\ y.log = st[s].log
              /\ y.kind = st[s].kind /\ y.ref = st[s].ref /\ y.row0 = st[s].row0
            BY <1>1, <3>1, NoStmtType DEF RestStmts, RestPcs
        <3>3. st' = [st EXCEPT ![s] = y] BY <1>1, <2>1, <2>2 DEF Conflict, RestShape
        <3> QED BY <1>2, <2>1, <3>2, <3>3, PendingKeeps
    <2>3. CASE ~(st[s].try < MaxRetries)
        <3> PICK y : y = [st[s] EXCEPT !.pc = "cleanup"] OBVIOUS
        <3>1. /\ y \in RestStmts /\ y.pc = "cleanup" /\ y.late = st[s].late /\ y.log = st[s].log
              /\ y.kind = st[s].kind /\ y.ref = st[s].ref /\ y.row0 = st[s].row0
            BY <1>1 DEF RestStmts, RestPcs
        <3>2. st' = [st EXCEPT ![s] = y]
            BY <1>1, <1>4, <2>1, <2>3 DEF Conflict, FailsDefinitely, Goes, RestShape
        <3> QED BY <1>2, <2>1, <3>1, <3>2, PendingKeeps
    <2> QED BY <2>2, <2>3
<1> QED BY <1>3, <1>4

\* No answer: nothing is deleted, so a request that is under way can still be applied.
LEMMA RestLostKeeps ==
    ASSUME RestInv, NEW s \in Stmts, RestLost(s), UNCHANGED load
    PROVE  RestInv'
<1>1. RestShape /\ st[s] \in RestStmts BY DEF RestInv, RestShape
<1>2. st[s].pc = "built" /\ UNCHANGED <<meta, hint, disk, body>> BY DEF RestLost
<1>3. slips' \in 0..load.slips /\ Open(s) BY <1>1, <1>2, SlipIs DEF RestLost, Open
<1>4. CASE Ends(s, "error") BY <1>1, <1>2, <1>3, <1>4, EndKeeps DEF RestShape
<1>5. CASE st' = [st EXCEPT ![s].pc = "error", ![s].late = TRUE, ![s].log = {}]
    <2> PICK y : y = [[[st[s] EXCEPT !.pc = "error"] EXCEPT !.late = TRUE] EXCEPT !.log = {}]
        OBVIOUS
    <2>1. /\ y \in RestStmts /\ y.pc = "error" /\ y.late = TRUE /\ y.log = {}
          /\ y.kind = st[s].kind /\ y.ref = st[s].ref /\ y.row0 = st[s].row0
          /\ y.prep = st[s].prep /\ y.try = st[s].try /\ y.pick = st[s].pick
        BY <1>1 DEF RestStmts, RestPcs
    <2>2. st' = [st EXCEPT ![s] = y] BY <1>1, <1>5 DEF RestShape
    <2> QED BY <1>2, <1>3, <2>1, <2>2, PendingKeeps
<1> QED BY <1>4, <1>5 DEF RestLost

\* A statement on the branch itself checks the refs it loaded.
LEMMA RefBeginKeeps ==
    ASSUME RestInv, NEW s \in Stmts, NEW k \in {"create", "drop"}, RefBegin(s, k), UNCHANGED load
    PROVE  RestInv'
<1>1. RestShape /\ StmtOK(s) BY DEF RestInv, StmtsOK
<1>2. Open(s) /\ st[s].pc = "free" BY DEF RefBegin, Starts, Open
<1>3. /\ Current' = Current /\ Current \in Metas /\ hint \in MetaVersions
      /\ UNCHANGED <<meta, hint, disk, body, slips>>
    BY <1>1 DEF Current, RestShape, RefBegin, tableVars
<1>4. s \notin Comm(Current)' BY <1>1, <1>2, <1>3 DEF StmtOK, Comm
<1>5. Current.nextRow \in Nat /\ Current.refs["dev"] \in Ids \cup {NoSnap} BY <1>3 DEF Metas, Refs
<1>6. PICK y : /\ st' = [st EXCEPT ![s] = y]
               /\ \/ \E id \in DOMAIN Current.snaps \cup {NoSnap} :
                       y = [With(s, k, "dev", "built") EXCEPT
                               !.prep.parent = RefHead(Current, "dev"), !.pick = {id}]
                  \/ y = [NoStmt EXCEPT !.pc = "refused", !.kind = k]
    BY DEF RefBegin
<1>7. /\ y \in RestStmts /\ y.pc \in {"built", "refused"} /\ y.kind = k
      /\ y.late = FALSE /\ y.log = {} /\ y.row0 \in Nat /\ y.row0 <= Current.nextRow
      /\ y.pc = "built" => y.pick # {}
    <2>1. CASE y = [NoStmt EXCEPT !.pc = "refused", !.kind = k]
        <3>1. y = [pc |-> "refused", kind |-> k, ref |-> "main", at |-> 0, row0 |-> 0,
                   try |-> 0, prep |-> NoSnapshot, new |-> NoTableMeta, next |-> 0, log |-> {},
                   pick |-> {}, late |-> FALSE]
            BY <2>1, NoStmtType
        <3> QED BY <1>5, <3>1, NoStmtType, TableAssumption DEF RestStmts, RestPcs, RestKinds, Refs
    <2>2. CASE y # [NoStmt EXCEPT !.pc = "refused", !.kind = k]
        <3>1. PICK id \in DOMAIN Current.snaps \cup {NoSnap} :
                  y = [With(s, k, "dev", "built") EXCEPT
                          !.prep.parent = RefHead(Current, "dev"), !.pick = {id}]
            BY <1>6, <2>2
        <3>2. id \in Ids \cup {NoSnap} BY <1>3, MetaFacts
        <3> PICK p : p = [NoSnapshot EXCEPT !.parent = RefHead(Current, "dev")] OBVIOUS
        <3>3. p \in Snapshots BY <1>5, NoStmtType DEF RefHead, Snapshots
        <3>4. y = [pc |-> "built", kind |-> k, ref |-> "dev", at |-> hint, row0 |-> Current.nextRow,
                   try |-> 0, prep |-> p, new |-> NoTableMeta, next |-> 0, log |-> {},
                   pick |-> {id}, late |-> FALSE]
            BY <3>1, NoStmtType DEF With
        <3> QED BY <1>3, <1>5, <3>2, <3>3, <3>4, TableAssumption DEF RestStmts, RestPcs, RestKinds, Refs
    <2> QED BY <2>1, <2>2
<1>8. st' \in [Stmts -> RestStmts] /\ st'[s] = y /\ \A q \in Stmts \ {s} : st'[q] = st[q]
    BY <1>1, <1>6, <1>7 DEF RestShape
<1>9. Current'.nextRow = Current.nextRow /\ k \notin Dml BY <1>3 DEF Dml
<1>10. StmtOK(s)' BY <1>4, <1>7, <1>8, <1>9 DEF StmtOK, Pending
<1> QED BY <1>1, <1>2, <1>3, <1>7, <1>8, <1>10, StepKeeps DEF RestShape

-----------------------------------------------------------------------------
(* A commit.                                                               *)

\* The metadata of a DML commit.
LEMMA NextDml ==
    ASSUME RestInv, NEW s \in Stmts, Pending(s), st[s].kind \in Dml,
           Requirement(Current, s), Valid(Current, s),
           NEW id, id = <<s, st[s].try>>, NEW x, x = st[s].prep,
           NEW n, n = NextMeta(Current, hint, s)
    PROVE  /\ n \in Metas /\ id \in Ids /\ id[1] = s /\ id \notin DOMAIN Current.snaps
           /\ DOMAIN n.snaps = DOMAIN Current.snaps \cup {id} /\ n.snaps[id] = x
           /\ \A i \in DOMAIN Current.snaps : n.snaps[i] = Current.snaps[i]
           /\ n.refs[st[s].ref] = id
           /\ \A q \in Refs \ {st[s].ref} : n.refs[q] = Current.refs[q]
           /\ n.nextRow = Current.nextRow + x.added
           /\ x \in Snapshots /\ st[s].ref \in Refs /\ x.parent = Current.refs[st[s].ref]
<1>1. RestShape /\ StmtOK(s) /\ st[s] \in RestStmts /\ Current \in Metas /\ hint \in MetaVersions
    BY DEF RestInv, StmtsOK, RestShape, Current
<1>2. id \in Ids /\ id[1] = s /\ x \in Snapshots /\ st[s].ref \in Refs
    BY <1>1, Basics DEF RestStmts
<1>3. s \notin Comm(Current) BY <1>1 DEF StmtOK, Open, Pending
<1>4. id \notin DOMAIN Current.snaps BY <1>2, <1>3 DEF Comm
<1>5. PICK k : k = WithSnapshot(Current, id, x, st[s].ref) OBVIOUS
<1>6. /\ k \in Metas
      /\ DOMAIN k.snaps = DOMAIN Current.snaps \cup {id} /\ k.snaps[id] = x
      /\ \A i \in DOMAIN Current.snaps \ {id} : k.snaps[i] = Current.snaps[i]
      /\ k.refs[st[s].ref] = id /\ \A q \in Refs \ {st[s].ref} : k.refs[q] = Current.refs[q]
      /\ k.nextRow = Current.nextRow + x.added
    BY <1>1, <1>2, <1>5, Snapped
<1>7. n = [k EXCEPT !.by = s, !.log = k.log \cup {hint}]
    <2>1. Updated(Current, s) = k BY <1>5 DEF Updated, Dml
    <2> QED BY <2>1 DEF NextMeta
<1>8. n \in Metas /\ n.snaps = k.snaps /\ n.refs = k.refs /\ n.nextRow = k.nextRow
    <2>1. k \in Metas /\ hint \in MetaVersions BY <1>1, <1>6
    <2> PICK L : L = k.log \cup {hint} OBVIOUS
    <2>2. L \in SUBSET MetaVersions BY <2>1 DEF Metas
    <2>3. n = [k EXCEPT !.by = s, !.log = L] BY <1>7
    <2> QED BY <2>1, <2>2, <2>3 DEF Metas
<1>9. x.parent = Current.refs[st[s].ref] BY DEF Requirement, RefMatches, RefHead
<1> QED BY <1>2, <1>4, <1>6, <1>8, <1>9

\* The metadata of a statement that makes or drops the branch.
LEMMA NextRef ==
    ASSUME RestInv, NEW s \in Stmts, Pending(s), st[s].kind \notin Dml,
           Requirement(Current, s), Valid(Current, s), NEW n, n = NextMeta(Current, hint, s)
    PROVE  /\ n \in Metas /\ n.snaps = Current.snaps /\ n.nextRow = Current.nextRow
           /\ n.refs["main"] = Current.refs["main"]
           /\ n.refs["dev"] \in DOMAIN Current.snaps \cup {NoSnap}
<1>1. RestShape /\ StmtOK(s) /\ st[s] \in RestStmts /\ Current \in Metas /\ hint \in MetaVersions
    BY DEF RestInv, StmtsOK, RestShape, Current
<1>2. st[s].kind \in {"create", "drop"} /\ st[s].kind \notin Dml
    BY <1>1 DEF StmtOK, RestStmts, RestKinds, Dml, Pending
<1>3. PICK id : /\ id \in DOMAIN Current.snaps \cup {NoSnap}
                /\ Updated(Current, s) = WithRef(Current, "dev", id)
    <2>1. CASE st[s].kind = "create"
        <3> PICK id : id = CHOOSE i \in st[s].pick : TRUE OBVIOUS
        <3>1. id \in st[s].pick BY <1>1, <2>1 DEF StmtOK
        <3>2. id \in DOMAIN Current.snaps BY <2>1, <3>1 DEF Valid
        <3>3. Updated(Current, s) = WithRef(Current, "dev", id) BY <2>1 DEF Updated, Dml
        <3> QED BY <3>2, <3>3
    <2>2. CASE st[s].kind = "drop"
        <3>1. Updated(Current, s) = WithRef(Current, "dev", NoSnap) BY <2>2 DEF Updated, Dml
        <3> QED BY <3>1
    <2> QED BY <1>2, <2>1, <2>2
<1>4. id \in Ids \cup {NoSnap} BY <1>1, <1>3, MetaFacts
<1>5. PICK R : R = [Current.refs EXCEPT !["dev"] = id] OBVIOUS
<1>6. R \in [Refs -> Ids \cup {NoSnap}] /\ R["main"] = Current.refs["main"] /\ R["dev"] = id
    BY <1>1, <1>4, <1>5 DEF Metas, Refs
<1>7. n = [[Current EXCEPT !.refs = R] EXCEPT !.by = s, !.log = @ \cup {hint}]
    BY <1>1, <1>3, <1>5 DEF NextMeta, WithRef, Metas
<1>8. n \in Metas /\ n.snaps = Current.snaps /\ n.nextRow = Current.nextRow /\ n.refs = R
    <2> PICK k : k = [Current EXCEPT !.refs = R] OBVIOUS
    <2>1. /\ k \in Metas /\ k.snaps = Current.snaps /\ k.nextRow = Current.nextRow /\ k.refs = R
        BY <1>1, <1>6 DEF Metas
    <2>2. n = [k EXCEPT !.by = s, !.log = k.log \cup {hint}] BY <1>7
    <2> PICK L : L = k.log \cup {hint} OBVIOUS
    <2>4. L \in SUBSET MetaVersions BY <1>1, <2>1 DEF Metas
    <2>5. n = [k EXCEPT !.by = s, !.log = L] BY <2>2
    <2>3. n \in Metas /\ n.snaps = k.snaps /\ n.refs = k.refs /\ n.nextRow = k.nextRow
        BY <2>1, <2>4, <2>5 DEF Metas
    <2> QED BY <2>1, <2>3
<1> QED BY <1>3, <1>6, <1>8

\* main's history after a DML commit: on main the statement joins it, on the branch it
\* stays.
LEMMA ChainGrows ==
    ASSUME RestInv, NEW s \in Stmts, Pending(s), st[s].kind \in Dml,
           Requirement(Current, s), Valid(Current, s), Current' = NextMeta(Current, hint, s)
    PROVE  MainChain' = IF st[s].ref = "main" THEN MainChain \cup {s} ELSE MainChain
<1> PICK id : id = <<s, st[s].try>> OBVIOUS
<1> PICK x : x = st[s].prep OBVIOUS
<1> PICK n : n = NextMeta(Current, hint, s) OBVIOUS
<1>1. /\ n \in Metas /\ id \in Ids /\ id[1] = s /\ id \notin DOMAIN Current.snaps
      /\ DOMAIN n.snaps = DOMAIN Current.snaps \cup {id} /\ n.snaps[id] = x
      /\ \A i \in DOMAIN Current.snaps : n.snaps[i] = Current.snaps[i]
      /\ n.refs[st[s].ref] = id
      /\ \A q \in Refs \ {st[s].ref} : n.refs[q] = Current.refs[q]
      /\ st[s].ref \in Refs /\ x.parent = Current.refs[st[s].ref]
    BY NextDml
<1>2. MetaOK(Current) /\ Current \in Metas BY DEF RestInv, TableOK, RestShape, Current
<1>3. IsFiniteSet(DOMAIN Current.snaps) /\ IsFiniteSet(DOMAIN n.snaps) /\ NoSnap \notin Ids
    BY <1>1, <1>2, MetaFacts, Basics
<1> PICK m : m = Current OBVIOUS
<1> PICK h : h = m.refs["main"] OBVIOUS
<1>4. h \in DOMAIN m.snaps BY <1>2 DEF MetaOK
<1>5. MainChain = {i[1] : i \in Ancestors(m, h)} BY DEF MainChain, RefHead
<1>6. MainChain' = {i[1] : i \in Ancestors(n, n.refs["main"])} BY DEF MainChain, RefHead
<1>7. CASE st[s].ref = "main"
    <2>1. n.refs["main"] = id /\ n.snaps[id].parent = h BY <1>1, <1>7
    <2>2. Ancestors(n, id) = {id} \cup Ancestors(m, h)
        BY <1>1, <1>3, <1>4, <2>1, HistoryGrows
    <2> QED BY <1>1, <1>5, <1>6, <1>7, <2>1, <2>2
<1>8. CASE st[s].ref # "main"
    <2>1. n.refs["main"] = h BY <1>1, <1>8 DEF Refs
    <2>2. Ancestors(m, h) \subseteq DOMAIN m.snaps BY <1>3, <1>4, AncestorsClosed
    <2>3. \A i \in Ancestors(m, h) : /\ i \in DOMAIN n.snaps /\ n.snaps[i] = m.snaps[i]
                                     /\ m.snaps[i].parent \in DOMAIN m.snaps \cup {NoSnap}
        BY <1>1, <1>2, <2>2 DEF MetaOK, SnapOK
    <2>4. NoSnap \notin DOMAIN n.snaps BY <1>1, MetaFacts
    <2>5. Ancestors(n, h) = Ancestors(m, h) BY <1>3, <1>4, <2>3, <2>4, HistoryKept
    <2> QED BY <1>5, <1>6, <1>8, <2>1, <2>5
<1> QED BY <1>7, <1>8

\* Snapshots only come, and next-row-id only grows.
Grown(m, n) ==
    /\ DOMAIN m.snaps \subseteq DOMAIN n.snaps /\ m.nextRow <= n.nextRow
    /\ \A i \in DOMAIN m.snaps : n.snaps[i] = m.snaps[i]

\* What a commit leaves to the others: snapshots only come, and next-row-id only grows.
LEMMA OthersKept ==
    ASSUME RestInv, NEW s \in Stmts, NEW q \in Stmts \ {s}, NEW n \in Metas, Current' = n,
           UNCHANGED <<load, disk, body>>, st'[q] = st[q],
           Comm(n) \subseteq Comm(Current) \cup {s}, DOMAIN Current.snaps \subseteq DOMAIN n.snaps,
           \A i \in DOMAIN Current.snaps : n.snaps[i] = Current.snaps[i],
           Current.nextRow <= n.nextRow
    PROVE  StmtOK(q)'
<1>1. RestShape /\ StmtOK(q) /\ st[q] \in RestStmts /\ Current \in Metas
    BY DEF RestInv, StmtsOK, RestShape, Current
<1>2. (Open(q)' <=> Open(q)) /\ (Pending(q)' <=> Pending(q)) BY DEF Open, Pending
<1>3. Comm(Current)' = Comm(n) /\ Comm(Current) \subseteq Comm(n) BY DEF Comm
<1>4. /\ Current.nextRow \in Nat /\ n.nextRow \in Nat /\ st[q].row0 \in Nat
      /\ st[q].prep.row0 \in Nat
    BY <1>1 DEF Metas, RestStmts, Snapshots
<1>5. ASSUME PrepOK(q) PROVE PrepOK(q)'
    <2>1. PrepFiles(q)' = PrepFiles(q) BY DEF PrepFiles
    <2>2. Added' = Added BY DEF Added
    <2>3. st[q].prep.row0 <= n.nextRow BY <1>4, <1>5 DEF PrepOK
    <2> QED BY <1>3, <1>5, <2>1, <2>2, <2>3 DEF PrepOK
<1>6. st[q].row0 <= n.nextRow BY <1>1, <1>4 DEF StmtOK
<1>7. New(q)' = New(q) BY DEF New
<1>8. q \notin Comm(Current) => q \notin Comm(n) OBVIOUS
<1> QED BY <1>1, <1>2, <1>3, <1>5, <1>6, <1>7, <1>8 DEF StmtOK

\* The table after a DML commit.
LEMMA DmlTable ==
    ASSUME RestInv, NEW s \in Stmts, Pending(s), st[s].kind \in Dml,
           Requirement(Current, s), Valid(Current, s), Current' = NextMeta(Current, hint, s),
           UNCHANGED <<load, disk, body>>
    PROVE  /\ MetaOK(Current)' /\ NoDanglingFiles' /\ RowIdsUnique'
           /\ ({1, 2} \subseteq Comm(Current) /\ \A f \in Comm(Current) : body[f].rows = New(f))'
           /\ Comm(Current)' = Comm(Current) \cup {s}
<1> PICK id : id = <<s, st[s].try>> OBVIOUS
<1> PICK x : x = st[s].prep OBVIOUS
<1> PICK n : n = NextMeta(Current, hint, s) OBVIOUS
<1> PICK m : m = Current OBVIOUS
<1>1. /\ n \in Metas /\ id \in Ids /\ id[1] = s /\ id \notin DOMAIN m.snaps
      /\ DOMAIN n.snaps = DOMAIN m.snaps \cup {id} /\ n.snaps[id] = x
      /\ n.refs[st[s].ref] = id /\ n.nextRow = m.nextRow + x.added
      /\ x \in Snapshots /\ st[s].ref \in Refs /\ x.parent = m.refs[st[s].ref]
      /\ \A i \in DOMAIN m.snaps : n.snaps[i] = m.snaps[i]
      /\ \A q \in Refs \ {st[s].ref} : n.refs[q] = m.refs[q]
    BY NextDml
<1>2. MetaOK(m) /\ m \in Metas /\ TableOK /\ RestShape
    BY DEF RestInv, TableOK, RestShape, Current
<1>3. StmtOK(s) /\ PrepOK(s) /\ DataFile(s) \in disk /\ body[s].rows = New(s)
    BY DEF RestInv, StmtsOK, StmtOK
<1>4. Comm(n) = Comm(m) \cup {s} BY <1>1 DEF Comm
<1>5. /\ x.dels = {} /\ x.data \subseteq Comm(n) /\ x.man \subseteq Comm(n)
      /\ PrepFiles(s) \subseteq disk /\ x.row0 <= m.nextRow /\ x.added = Added
    BY <1>3, <1>4 DEF PrepOK
<1>6. MetaOK(n)
    <2>1. n.refs["main"] \in DOMAIN n.snaps BY <1>1, <1>2 DEF MetaOK, Refs
    <2>2. \A r \in Refs : n.refs[r] \in DOMAIN n.snaps \cup {NoSnap} BY <1>1, <1>2 DEF MetaOK
    <2>3. SnapOK(n, n.snaps[id]) BY <1>1, <1>2, <1>5 DEF MetaOK, SnapOK
    <2>4. \A i \in DOMAIN m.snaps : SnapOK(n, n.snaps[i])
        BY <1>1, <1>2, <1>4 DEF MetaOK, SnapOK
    <2> QED BY <1>1, <2>1, <2>2, <2>3, <2>4 DEF MetaOK
<1>7. \A i \in DOMAIN n.snaps : NeededFiles(n, i) \subseteq disk
    <2>1. NeededFiles(n, id) \subseteq PrepFiles(s) BY <1>1, <1>5 DEF NeededFiles, PrepFiles
    <2>2. ASSUME NEW i \in DOMAIN m.snaps PROVE NeededFiles(n, i) \subseteq disk
        <3>1. NeededFiles(n, i) = NeededFiles(m, i) BY <1>1 DEF NeededFiles
        <3> QED BY <1>2, <3>1 DEF TableOK, NoDanglingFiles
    <2> QED BY <1>1, <1>5, <2>1, <2>2
<1>8. ASSUME load.fmt = 3, NEW i \in DOMAIN n.snaps, NEW j \in DOMAIN n.snaps
      PROVE  /\ n.snaps[i].row0 + n.snaps[i].added <= n.nextRow
             /\ i # j => \/ n.snaps[i].row0 + n.snaps[i].added <= n.snaps[j].row0
                         \/ n.snaps[j].row0 + n.snaps[j].added <= n.snaps[i].row0
                         \/ n.snaps[i].added = 0 \/ n.snaps[j].added = 0
    <2>1. ASSUME NEW k \in DOMAIN n.snaps PROVE n.snaps[k].row0 \in Nat /\ n.snaps[k].added \in Nat
        <3>1. n.snaps[k] \in Snapshots BY <1>1, MetaFacts
        <3> QED BY <3>1 DEF Snapshots
    <2>2. m.nextRow \in Nat /\ x.row0 \in Nat /\ x.added \in Nat BY <1>1, <1>2 DEF Metas, Snapshots
    <2>3. x.row0 >= m.nextRow BY <1>8 DEF Valid, Accepts
    <2>4. x.row0 = m.nextRow BY <1>5, <2>2, <2>3
    <2>5. \A k \in DOMAIN m.snaps : n.snaps[k].row0 + n.snaps[k].added <= m.nextRow
        BY <1>1, <1>2, <1>8 DEF TableOK, RowIdsUnique
    <2>6. \A k \in DOMAIN n.snaps : n.snaps[k].row0 + n.snaps[k].added <= n.nextRow
        <3>1. n.snaps[id].row0 + n.snaps[id].added <= n.nextRow BY <1>1, <2>2, <2>4
        <3>2. ASSUME NEW k \in DOMAIN m.snaps PROVE n.snaps[k].row0 + n.snaps[k].added <= n.nextRow
            <4>1. n.snaps[k].row0 + n.snaps[k].added <= m.nextRow BY <2>5
            <4>2. n.snaps[k].row0 \in Nat /\ n.snaps[k].added \in Nat BY <1>1, <2>1
            <4> QED BY <1>1, <2>2, <4>1, <4>2
        <3> QED BY <1>1, <3>1, <3>2
    <2>7. CASE i = j BY <2>6, <2>7
    <2>8. CASE i # j /\ i = id
        <3>1. j \in DOMAIN m.snaps BY <1>1, <2>8
        <3>2. n.snaps[j].row0 + n.snaps[j].added <= n.snaps[i].row0 BY <1>1, <2>4, <2>5, <2>8, <3>1
        <3> QED BY <2>6, <3>2
    <2>9. CASE i # j /\ j = id
        <3>1. i \in DOMAIN m.snaps BY <1>1, <2>9
        <3>2. n.snaps[i].row0 + n.snaps[i].added <= n.snaps[j].row0 BY <1>1, <2>4, <2>5, <2>9, <3>1
        <3> QED BY <2>6, <3>2
    <2>10. CASE i # j /\ i # id /\ j # id
        <3>1. i \in DOMAIN m.snaps /\ j \in DOMAIN m.snaps BY <1>1, <2>10
        <3>2. \/ m.snaps[i].row0 + m.snaps[i].added <= m.snaps[j].row0
              \/ m.snaps[j].row0 + m.snaps[j].added <= m.snaps[i].row0
              \/ m.snaps[i].added = 0 \/ m.snaps[j].added = 0
            BY <1>2, <1>8, <2>10, <3>1 DEF TableOK, RowIdsUnique
        <3> QED BY <1>1, <2>6, <3>1, <3>2
    <2> QED BY <2>7, <2>8, <2>9, <2>10
<1>9. Current' = n OBVIOUS
<1>10. MetaOK(Current)' BY <1>6, <1>9 DEF MetaOK, SnapOK, Comm
<1>11. NoDanglingFiles' BY <1>7, <1>9 DEF NoDanglingFiles, NeededFiles
<1>12. RowIdsUnique' BY <1>8, <1>9 DEF RowIdsUnique
<1>13. ({1, 2} \subseteq Comm(Current) /\ \A f \in Comm(Current) : body[f].rows = New(f))'
    <2>1. {1, 2} \subseteq Comm(m) /\ \A f \in Comm(m) : body[f].rows = New(f) BY <1>2 DEF TableOK
    <2> QED BY <1>3, <1>4, <1>9, <2>1 DEF Comm, New
<1> QED BY <1>4, <1>9, <1>10, <1>11, <1>12, <1>13 DEF Comm

\* The table after the branch was made or dropped.
LEMMA RefTable ==
    ASSUME RestInv, NEW s \in Stmts, Pending(s), st[s].kind \notin Dml,
           Requirement(Current, s), Valid(Current, s), Current' = NextMeta(Current, hint, s),
           UNCHANGED <<load, disk, body>>
    PROVE  /\ MetaOK(Current)' /\ NoDanglingFiles' /\ RowIdsUnique'
           /\ ({1, 2} \subseteq Comm(Current) /\ \A f \in Comm(Current) : body[f].rows = New(f))'
           /\ Comm(Current)' = Comm(Current) /\ MainChain' = MainChain
<1> PICK n : n = NextMeta(Current, hint, s) OBVIOUS
<1> PICK m : m = Current OBVIOUS
<1>1. /\ n \in Metas /\ n.snaps = m.snaps /\ n.nextRow = m.nextRow
      /\ n.refs["main"] = m.refs["main"] /\ n.refs["dev"] \in DOMAIN m.snaps \cup {NoSnap}
    BY NextRef
<1>2. MetaOK(m) /\ TableOK BY DEF RestInv, TableOK
<1>3. Current' = n OBVIOUS
<1>4. MetaOK(n) BY <1>1, <1>2 DEF MetaOK, SnapOK, Comm, Refs
<1>5. MetaOK(Current)' BY <1>3, <1>4 DEF MetaOK, SnapOK, Comm
<1>6. NoDanglingFiles' BY <1>1, <1>2, <1>3 DEF TableOK, NoDanglingFiles, NeededFiles
<1>7. RowIdsUnique' BY <1>1, <1>2, <1>3 DEF TableOK, RowIdsUnique
<1>8. Comm(Current)' = Comm(Current) BY <1>1, <1>3 DEF Comm
<1>9. MainChain' = MainChain BY <1>1, <1>3 DEF MainChain, Ancestors, RefHead
<1>10. ({1, 2} \subseteq Comm(Current) /\ \A f \in Comm(Current) : body[f].rows = New(f))'
    BY <1>2, <1>8 DEF TableOK, New
<1> QED BY <1>5, <1>6, <1>7, <1>8, <1>9, <1>10

\* There is a version left for a commit: every version but the first is of a statement
\* that can commit no more, and so are the two that made the table.
LEMMA AppliesIs ==
    ASSUME RestInv, NEW s \in Stmts, Pending(s), Applies(s)
    PROVE  /\ Requirement(Current, s) /\ Valid(Current, s)
           /\ hint \in Nat /\ hint + 1 \in MetaVersions /\ hint' = hint + 1
           /\ NextMeta(Current, hint, s) \in Metas /\ Current' = NextMeta(Current, hint, s)
           /\ meta' = [meta EXCEPT ![hint + 1] = Current'] /\ meta' \in [MetaVersions -> Metas]
<1> PICK n : n = NextMeta(Current, hint, s) OBVIOUS
<1>1. RestShape /\ StmtOK(s) /\ TableOK BY DEF RestInv, StmtsOK
<1>2. Requirement(Current, s) /\ Valid(Current, s) BY DEF Applies
<1>3. Open(s) BY DEF Open, Pending
<1>4. IsFiniteSet(Spent) /\ Cardinality(Spent) \in Nat /\ hint + 1 <= Cardinality(Spent)
    BY <1>1, TableAssumption, FS_Subset, FS_CardinalityType DEF Spent, TableOK
<1>5. hint \in Nat /\ hint + 1 \in MetaVersions
    <2>1. Spent \subseteq Stmts \ {s} BY <1>3 DEF Spent
    <2>2. IsFiniteSet(Stmts \ {s}) /\ Cardinality(Stmts \ {s}) = Cardinality(Stmts) - 1
        BY TableAssumption, FS_RemoveElement
    <2>3. Cardinality(Spent) <= Cardinality(Stmts) - 1 BY <2>1, <2>2, FS_Subset
    <2>4. hint \in Nat /\ hint >= 1 BY <1>1 DEF RestShape, MetaVersions
    <2> QED BY <1>4, <2>3, <2>4, Basics DEF MetaVersions
<1>6. n \in Metas
    <2> PICK id : id = <<s, st[s].try>> OBVIOUS
    <2> PICK x : x = st[s].prep OBVIOUS
    <2>1. CASE st[s].kind \in Dml BY <1>2, <2>1, NextDml
    <2>2. CASE st[s].kind \notin Dml BY <1>2, <2>2, NextRef
    <2> QED BY <2>1, <2>2
<1>7. meta' = [meta EXCEPT ![hint + 1] = n] /\ hint' = hint + 1 BY DEF Applies
<1>8. Current' = n /\ meta' \in [MetaVersions -> Metas]
    BY <1>1, <1>5, <1>6, <1>7 DEF Current, RestShape
<1> QED BY <1>2, <1>5, <1>6, <1>7, <1>8

\* A commit, heard of by its client or not.
LEMMA CommitKeeps ==
    ASSUME RestInv, NEW s \in Stmts, Pending(s), Applies(s),
           NEW p \in {"acked", "error", "gone"}, Ends(s, p), UNCHANGED <<load, disk, body, slips>>
    PROVE  RestInv'
<1> PICK n : n = NextMeta(Current, hint, s) OBVIOUS
<1>1. RestShape /\ StmtOK(s) /\ st[s] \in RestStmts /\ TableOK /\ Current \in Metas
    BY DEF RestInv, StmtsOK, RestShape, Current
<1>2. Requirement(Current, s) /\ Valid(Current, s) BY AppliesIs
<1>3. Open(s) /\ s \notin Comm(Current) BY <1>1 DEF Open, Pending, StmtOK
<1>4. IsFiniteSet(Spent) /\ Cardinality(Spent) \in Nat /\ hint + 1 <= Cardinality(Spent)
    BY <1>1, TableAssumption, FS_Subset, FS_CardinalityType DEF Spent, TableOK
<1>5. hint \in Nat /\ hint + 1 \in MetaVersions BY AppliesIs
<1>6. n \in Metas BY AppliesIs
<1>7. meta' = [meta EXCEPT ![hint + 1] = n] /\ hint' = hint + 1 BY DEF Applies
<1>8. Current' = n /\ meta' \in [MetaVersions -> Metas] BY AppliesIs
<1>9. /\ st' \in [Stmts -> RestStmts] /\ \A q \in Stmts \ {s} : st'[q] = st[q]
      /\ st'[s].pc = p /\ st'[s].kind = st[s].kind /\ st'[s].ref = st[s].ref
      /\ st'[s].late = FALSE /\ st'[s].log = {} /\ st'[s].row0 = 0
    BY <1>1, EndsIs DEF RestPcs
<1>10. RestShape' BY <1>1, <1>5, <1>7, <1>8, <1>9 DEF RestShape
<1>11. Grown(Current, n) /\ Comm(n) \subseteq Comm(Current) \cup {s}
    <2>1. CASE st[s].kind \in Dml
        <3> PICK x : x = st[s].prep OBVIOUS
        <3> PICK id : id = <<s, st[s].try>> OBVIOUS
        <3>1. /\ id[1] = s /\ DOMAIN n.snaps = DOMAIN Current.snaps \cup {id}
              /\ \A i \in DOMAIN Current.snaps : n.snaps[i] = Current.snaps[i]
              /\ n.nextRow = Current.nextRow + x.added /\ x \in Snapshots
            BY <1>2, <2>1, NextDml
        <3>2. Current.nextRow \in Nat /\ x.added \in Nat BY <1>1, <3>1 DEF Metas, Snapshots
        <3>3. Current.nextRow <= n.nextRow BY <3>1, <3>2
        <3> QED BY <3>1, <3>3 DEF Grown, Comm
    <2>2. CASE st[s].kind \notin Dml
        <3>1. n.snaps = Current.snaps /\ n.nextRow = Current.nextRow BY <1>2, <2>2, NextRef
        <3>2. Current.nextRow \in Nat BY <1>1 DEF Metas
        <3> QED BY <3>1, <3>2 DEF Grown, Comm
    <2> QED BY <2>1, <2>2
<1>12. TableOK'
    <2>1. /\ MetaOK(Current)' /\ NoDanglingFiles' /\ RowIdsUnique'
          /\ ({1, 2} \subseteq Comm(Current) /\ \A f \in Comm(Current) : body[f].rows = New(f))'
        <3>1. CASE st[s].kind \in Dml BY <1>2, <1>8, <3>1, DmlTable
        <3>2. CASE st[s].kind \notin Dml BY <1>2, <1>8, <3>2, RefTable
        <3> QED BY <3>1, <3>2
    <2>2. (\A v \in MetaVersions : RefsOK(meta[v]))'
        <3>1. RefsOK(n) BY <1>8, <2>1 DEF MetaOK, RefsOK
        <3> QED BY <1>1, <1>5, <1>7, <3>1 DEF TableOK, RestShape, RefsOK
    <2>3. hint' + 1 <= Cardinality(Spent')
        <3>1. ~Open(s)' /\ \A q \in Stmts \ {s} : Open(q)' <=> Open(q) BY <1>9 DEF Open
        <3>2. Spent' = Spent \cup {s} /\ s \notin Spent BY <1>3, <3>1 DEF Spent
        <3>3. Cardinality(Spent') = Cardinality(Spent) + 1 BY <1>4, <3>2, FS_AddElement
        <3> QED BY <1>4, <1>5, <1>7, <3>3
    <2> QED BY <2>1, <2>2, <2>3 DEF TableOK
<1>13. StmtsOK'
    <2>1. ASSUME NEW q \in Stmts \ {s} PROVE StmtOK(q)'
        BY <1>6, <1>8, <1>9, <1>11, OthersKept DEF Grown
    <2>2. StmtOK(s)'
        <3>1. ~Open(s)' /\ ~Pending(s)' BY <1>9 DEF Open, Pending
        <3>2. n.nextRow \in Nat BY <1>6 DEF Metas
        <3> QED BY <1>1, <1>8, <1>9, <3>1, <3>2 DEF StmtOK, Pending
    <2> QED BY <2>1, <2>2 DEF StmtsOK
<1>14. AckedKept'
    <2>1. MainChain \subseteq MainChain' /\ (MainDml(s) => s \in MainChain')
        <3>1. CASE st[s].kind \in Dml BY <1>2, <1>8, <3>1, ChainGrows DEF MainDml
        <3>2. CASE st[s].kind \notin Dml BY <1>2, <1>8, <3>2, RefTable DEF MainDml
        <3> QED BY <3>1, <3>2
    <2>2. \A q \in Stmts : MainDml(q)' <=> MainDml(q) BY <1>9 DEF MainDml
    <2> QED BY <1>9, <2>1, <2>2 DEF RestInv, AckedKept
<1> QED BY <1>10, <1>12, <1>13, <1>14 DEF RestInv

\* The server's answer.
LEMMA RestUpdateKeeps ==
    ASSUME RestInv, NEW s \in Stmts, RestUpdate(s), UNCHANGED load
    PROVE  RestInv'
<1>1. RestShape /\ StmtOK(s) /\ st[s] \in RestStmts BY DEF RestInv, StmtsOK, RestShape
<1>2. /\ st[s].pc = "built" /\ UNCHANGED <<disk, body, slips>> /\ Pending(s) /\ Open(s)
      /\ slips' \in 0..load.slips
    BY <1>1 DEF RestUpdate, Pending, Open, RestShape
<1>3. CASE Applies(s) /\ Committed(s)
    <2>1. st[s].kind # "expire" BY <1>1 DEF RestStmts, RestKinds
    <2>2. Ends(s, "acked") BY <1>3, <2>1 DEF Committed
    <2> QED BY <1>2, <1>3, <2>2, CommitKeeps
<1>4. CASE Conflict(s) /\ UNCHANGED <<meta, hint>> BY <1>2, <1>4, ConflictKeeps
<1>5. CASE Ends(s, "error") /\ UNCHANGED <<meta, hint>>
    BY <1>1, <1>2, <1>5, EndKeeps DEF RestShape
<1> QED BY <1>3, <1>4, <1>5 DEF RestUpdate

\* A request that arrives after its client gave up.
LEMMA RestLateKeeps ==
    ASSUME RestInv, NEW s \in Stmts, RestLate(s), UNCHANGED load
    PROVE  RestInv'
<1>1. RestShape /\ StmtOK(s) BY DEF RestInv, StmtsOK
<1>2. /\ st[s].late /\ UNCHANGED <<disk, body, slips>> /\ Pending(s) /\ Open(s)
      /\ slips' \in 0..load.slips /\ Ends(s, st[s].pc) /\ st[s].pc \in {"error", "gone"}
    BY <1>1 DEF RestLate, Pending, Open, RestShape, StmtOK
<1> PICK p : p = st[s].pc OBVIOUS
<1>3. CASE Applies(s) BY <1>2, <1>3, CommitKeeps
<1>4. CASE UNCHANGED <<meta, hint>> BY <1>1, <1>2, <1>4, EndKeeps DEF RestShape
<1> QED BY <1>3, <1>4 DEF RestLate

\* The process dies; the requests in L are under way.
LEMMA DieKeeps ==
    ASSUME RestInv, Die, UNCHANGED load
    PROVE  RestInv'
<1>1. RestShape /\ StmtsOK /\ TableOK BY DEF RestInv
<1>2. UNCHANGED <<meta, hint, disk, body>> /\ slips' \in 0..load.slips
    BY <1>1, SlipIs DEF Die, tableVars
<1>3. PICK L \in SUBSET {s \in Running : st[s].pc = "built"} :
         st' = [s \in Stmts |->
                  IF s \in L THEN [st[s] EXCEPT !.pc = "gone", !.late = TRUE, !.log = {}]
                  ELSE IF s \in Running
                  THEN [NoStmt EXCEPT !.pc = "gone", !.kind = st[s].kind, !.ref = st[s].ref]
                  ELSE st[s]]
    BY DEF Die
<1>4. Current' = Current /\ Comm(Current)' = Comm(Current) /\ Current.nextRow \in Nat
    BY <1>1, <1>2 DEF Current, Comm, RestShape, Metas
<1>5. ASSUME NEW s \in Stmts
      PROVE  /\ st'[s] \in RestStmts /\ StmtOK(s)' /\ (Open(s)' => Open(s))
             /\ st'[s].kind = st[s].kind /\ st'[s].ref = st[s].ref
             /\ st'[s].pc \in {"acked", "refused"} <=> st[s].pc \in {"acked", "refused"}
             /\ st'[s].pc = st[s].pc \/ st'[s].pc = "gone"
    <2>1. st[s] \in RestStmts /\ StmtOK(s) BY <1>1 DEF RestShape, StmtsOK
    <2>2. New(s)' = New(s) BY DEF New
    <2>3. CASE s \in L
        <3>1. st[s].pc = "built" /\ Open(s) /\ Pending(s) BY <1>3, <2>3 DEF Open, Pending
        <3> PICK y : y = [[[st[s] EXCEPT !.pc = "gone"] EXCEPT !.late = TRUE] EXCEPT !.log = {}]
            OBVIOUS
        <3>2. /\ y \in RestStmts /\ y.pc = "gone" /\ y.late = TRUE /\ y.log = {}
              /\ y.kind = st[s].kind /\ y.ref = st[s].ref /\ y.row0 = st[s].row0
              /\ y.prep = st[s].prep /\ y.try = st[s].try /\ y.pick = st[s].pick
            BY <2>1 DEF RestStmts, RestPcs
        <3>3. st'[s] = y BY <1>3, <2>3
        <3>4. s \notin Comm(Current)' BY <1>4, <2>1, <3>1 DEF StmtOK
        <3>5. st[s].kind \in Dml => PrepOK(s)'
            <4>1. st[s].kind \in Dml => PrepOK(s) BY <2>1, <3>1 DEF StmtOK
            <4>2. PrepOK(s) => PrepOK(s)' BY <1>1, <1>2, <3>2, <3>3, PrepStays
            <4> QED BY <4>1, <4>2
        <3>6. StmtOK(s)'
            <4>1. st[s].kind \in Dml => DataFile(s) \in disk /\ body[s].rows = New(s)
                BY <2>1, <3>1 DEF StmtOK
            <4>2. st[s].kind = "create" => y.pick # {} BY <2>1, <3>1, <3>2 DEF StmtOK
            <4>3. /\ st[s].row0 <= Current.nextRow /\ (st[s].kind = "insert" => st[s].ref = "main")
                  /\ st[s].kind # "none"
                BY <2>1, <3>1 DEF StmtOK
            <4> QED BY <1>2, <1>4, <2>2, <3>2, <3>3, <3>4, <3>5, <4>1, <4>2, <4>3 DEF StmtOK
        <3> QED BY <3>1, <3>2, <3>3, <3>6
    <2>4. CASE s \notin L /\ s \in Running
        <3>1. st[s].pc \in {"loaded", "written", "built", "cleanup"} /\ Open(s)
            BY <2>1, <2>4 DEF Running, Ended, RestStmts, RestPcs, Open
        <3> PICK y : y = [NoStmt EXCEPT !.pc = "gone", !.kind = st[s].kind, !.ref = st[s].ref]
            OBVIOUS
        <3>2. st[s].kind \in RestKinds \cup {"none"} /\ st[s].ref \in Refs BY <2>1 DEF RestStmts
        <3>3. /\ y \in RestStmts /\ y.pc = "gone" /\ y.kind = st[s].kind /\ y.ref = st[s].ref
              /\ y.late = FALSE /\ y.log = {} /\ y.row0 = 0
            BY <3>2, NoStmtType DEF RestStmts, RestPcs
        <3>4. st'[s] = y BY <1>3, <2>4
        <3>5. ~Open(s)' /\ ~Pending(s)' BY <3>3, <3>4 DEF Open, Pending
        <3>6. s \notin Comm(Current)' /\ st[s].kind # "none" /\ (st[s].kind = "insert" => st[s].ref = "main")
            BY <1>4, <2>1, <3>1 DEF StmtOK
        <3>7. StmtOK(s)' BY <1>4, <3>3, <3>4, <3>5, <3>6 DEF StmtOK
        <3> QED BY <3>1, <3>3, <3>4, <3>5, <3>7
    <2>5. CASE s \notin L /\ s \notin Running
        <3>1. st'[s] = st[s] BY <1>3, <2>5
        <3>2. (Open(s)' <=> Open(s)) /\ (Pending(s)' <=> Pending(s)) BY <3>1 DEF Open, Pending
        <3>3. PrepOK(s) => PrepOK(s)' BY <1>1, <1>2, <3>1, PrepStays
        <3>4. StmtOK(s)' BY <1>2, <1>4, <2>1, <2>2, <3>1, <3>2, <3>3 DEF StmtOK
        <3> QED BY <2>1, <3>1, <3>2, <3>4
    <2> QED BY <2>3, <2>4, <2>5
<1>6. RestShape'
    <2> PICK h : h = [s \in Stmts |-> st'[s]] OBVIOUS
    <2>1. h = st' BY <1>3
    <2>2. st' \in [Stmts -> RestStmts] BY <1>5, <2>1
    <2> QED BY <1>1, <1>2, <2>2 DEF RestShape
<1>7. TableOK'
    <2>1. hint' + 1 <= Cardinality(Spent')
        <3>1. Spent \subseteq Spent' /\ Spent' \subseteq Stmts BY <1>5 DEF Spent
        <3>2. IsFiniteSet(Spent') /\ Cardinality(Spent) <= Cardinality(Spent')
              /\ Cardinality(Spent) \in Nat /\ Cardinality(Spent') \in Nat
            BY <3>1, TableAssumption, FS_Subset, FS_CardinalityType
        <3>3. hint \in Nat /\ hint + 1 <= Cardinality(Spent)
            BY <1>1, Basics DEF TableOK, RestShape
        <3> QED BY <1>2, <3>2, <3>3
    <2>2. MetaOK(Current)' /\ (\A v \in MetaVersions : RefsOK(meta[v]))'
        BY <1>1, <1>2, <1>4 DEF TableOK, MetaOK, RefsOK, SnapOK, Comm
    <2>3. NoDanglingFiles' /\ RowIdsUnique'
        BY <1>1, <1>2, <1>4 DEF TableOK, NoDanglingFiles, NeededFiles, RowIdsUnique
    <2>4. ({1, 2} \subseteq Comm(Current) /\ \A f \in Comm(Current) : body[f].rows = New(f))'
        BY <1>1, <1>2, <1>4 DEF TableOK, New
    <2> QED BY <2>1, <2>2, <2>3, <2>4 DEF TableOK
<1>8. AckedKept'
    <2>1. MainChain' = MainChain BY <1>4 DEF MainChain, Ancestors, RefHead
    <2>2. \A s \in Stmts : MainDml(s)' <=> MainDml(s) BY <1>5 DEF MainDml
    <2> QED BY <1>5, <2>1, <2>2 DEF RestInv, AckedKept
<1>9. StmtsOK' BY <1>5 DEF StmtsOK
<1> QED BY <1>6, <1>7, <1>8, <1>9 DEF RestInv

-----------------------------------------------------------------------------
(* The table that a behaviour starts from.                                 *)

\* A metadata version that is not there.
LEMMA NoMetaType ==
    /\ NoTableMeta \in Metas /\ NoTableMeta.snaps = <<>>
    /\ NoTableMeta.refs = [r \in Refs |-> NoSnap] /\ NoTableMeta.log = {}
<1>1. <<>> \in UNION {[D -> Snapshots] : D \in SUBSET Ids}
    <2>1. <<>> \in [1..0 -> Snapshots] OBVIOUS
    <2>2. 1..0 = {} OBVIOUS
    <2>3. <<>> \in [{} -> Snapshots] BY <2>1, <2>2
    <2> QED BY <2>3
<1>2. [r \in Refs |-> NoSnap] \in [Refs -> Ids \cup {NoSnap}] OBVIOUS
<1> QED BY <1>1, <1>2 DEF NoTableMeta, Metas

\* The first metadata: two snapshots, the second on the first.
LEMMA FirstIs ==
    ASSUME NEW f \in {2, 3}, NEW m, m = FirstMeta(f)
    PROVE  /\ m \in Metas /\ DOMAIN m.snaps = {<<1, 0>>, <<2, 0>>}
           /\ m.snaps[<<1, 0>>].parent = NoSnap /\ m.snaps[<<2, 0>>].parent = <<1, 0>>
           /\ m.snaps[<<1, 0>>].data = {1} /\ m.snaps[<<2, 0>>].data = {1, 2}
           /\ m.snaps[<<1, 0>>].man = {1} /\ m.snaps[<<2, 0>>].man = {1, 2}
           /\ m.snaps[<<1, 0>>].names = {1} /\ m.snaps[<<2, 0>>].names = {1, 2}
           /\ m.snaps[<<1, 0>>].dels = {} /\ m.snaps[<<2, 0>>].dels = {}
           /\ f = 3 => /\ m.snaps[<<1, 0>>].row0 = 0 /\ m.snaps[<<2, 0>>].row0 = 2
                       /\ m.snaps[<<1, 0>>].added = 2 /\ m.snaps[<<2, 0>>].added = 2
                       /\ m.nextRow = 4
           /\ m.refs["main"] = IF f = 3 THEN <<1, 0>> ELSE <<2, 0>>
           /\ m.refs["dev"] = IF f = 3 THEN <<2, 0>> ELSE <<1, 0>>
<1>1. <<1, 0>> # <<2, 0>> /\ <<1, 0>> \in Ids /\ <<2, 0>> \in Ids
    BY Basics, TableAssumption DEF Ids
<1>2. PICK c : c = IF f = 3 THEN 2 ELSE 0 OBVIOUS
<1>3. PICK w \in Nat : w = IF f = 3 THEN 4 ELSE 0 OBVIOUS
<1>4. PICK d : d = {1, 2} OBVIOUS
<1>5. PICK e : e = {1} OBVIOUS
<1>6. /\ c \in 0..2 /\ c \in Nat /\ w \in Nat /\ d \in SUBSET Stmts /\ e \in SUBSET Stmts
      /\ 1 \in Stmts \cup {0}
    BY <1>2, <1>3, <1>4, <1>5, Basics
<1>7. PICK x : x = [NoSnapshot EXCEPT !.seq = 1, !.added = IF f = 3 THEN 2 ELSE 0, !.data = {1},
                                      !.man = {1}, !.names = {1}]
    OBVIOUS
<1>8. PICK y : y = [NoSnapshot EXCEPT !.parent = <<1, 0>>, !.seq = 2, !.row0 = IF f = 3 THEN 2 ELSE 0,
                                      !.added = x.added, !.data = {1, 2}, !.man = {1, 2},
                                      !.names = {1, 2}]
    OBVIOUS
<1>9. NoSnapshot \in Snapshots /\ NoSnapshot.parent = NoSnap /\ NoSnapshot.dels = {} /\ NoSnapshot.row0 = 0
    BY NoStmtType DEF NoSnapshot
<1>10. /\ x \in Snapshots /\ x.parent = NoSnap /\ x.row0 = 0 /\ x.added = c /\ x.data = e
       /\ x.dels = {} /\ x.man = e /\ x.names = e
    <2>1. x = [NoSnapshot EXCEPT !.seq = 1, !.added = c, !.data = e, !.man = e, !.names = e]
        BY <1>2, <1>5, <1>7
    <2> QED BY <1>6, <1>9, <2>1 DEF Snapshots
<1>11. /\ y \in Snapshots /\ y.parent = <<1, 0>> /\ y.row0 = c /\ y.added = c /\ y.data = d
       /\ y.dels = {} /\ y.man = d /\ y.names = d
    <2>1. y = [NoSnapshot EXCEPT !.parent = <<1, 0>>, !.seq = 2, !.row0 = c, !.added = c,
                                 !.data = d, !.man = d, !.names = d]
        BY <1>2, <1>4, <1>8, <1>10
    <2> QED BY <1>1, <1>6, <1>9, <2>1 DEF Snapshots
<1>12. PICK S \in UNION {[D -> Snapshots] : D \in SUBSET Ids} :
            S = [id \in {<<1, 0>>, <<2, 0>>} |-> IF id = <<1, 0>> THEN x ELSE y]
    <2>1. {<<1, 0>>, <<2, 0>>} \in SUBSET Ids BY <1>1
    <2>2. [id \in {<<1, 0>>, <<2, 0>>} |-> IF id = <<1, 0>> THEN x ELSE y]
                \in [{<<1, 0>>, <<2, 0>>} -> Snapshots]
        BY <1>10, <1>11
    <2> QED BY <2>1, <2>2
<1>13. PICK R \in [Refs -> Ids \cup {NoSnap}] :
            R = IF f = 3 THEN [main |-> <<1, 0>>, dev |-> <<2, 0>>]
                ELSE [main |-> <<2, 0>>, dev |-> <<1, 0>>]
    <2>1. CASE f = 3
        <3>1. [main |-> <<1, 0>>, dev |-> <<2, 0>>] \in [Refs -> Ids \cup {NoSnap}] BY <1>1 DEF Refs
        <3> QED BY <2>1, <3>1
    <2>2. CASE f # 3
        <3>1. [main |-> <<2, 0>>, dev |-> <<1, 0>>] \in [Refs -> Ids \cup {NoSnap}] BY <1>1 DEF Refs
        <3> QED BY <2>2, <3>1
    <2> QED BY <2>1, <2>2
<1>14. m = [NoTableMeta EXCEPT !.snaps = S, !.refs = R, !.nextRow = w, !.lastSeq = 2, !.by = 1]
    <2>1. m = [NoTableMeta EXCEPT
                 !.snaps = [id \in {<<1, 0>>, <<2, 0>>} |->
                              IF id = <<1, 0>> THEN x
                              ELSE [NoSnapshot EXCEPT
                                      !.parent = <<1, 0>>, !.seq = 2, !.row0 = IF f = 3 THEN 2 ELSE 0,
                                      !.added = x.added, !.data = {1, 2}, !.man = {1, 2},
                                      !.names = {1, 2}]],
                 !.refs = IF f = 3 THEN [main |-> <<1, 0>>, dev |-> <<2, 0>>]
                          ELSE [main |-> <<2, 0>>, dev |-> <<1, 0>>],
                 !.nextRow = IF f = 3 THEN 4 ELSE 0, !.lastSeq = 2, !.by = 1]
        BY <1>7 DEF FirstMeta
    <2> QED BY <1>3, <1>8, <1>12, <1>13, <2>1
<1>15. DOMAIN S = {<<1, 0>>, <<2, 0>>} /\ S[<<1, 0>>] = x /\ S[<<2, 0>>] = y
    BY <1>1, <1>12
<1>16. /\ R["main"] = (IF f = 3 THEN <<1, 0>> ELSE <<2, 0>>)
       /\ R["dev"] = (IF f = 3 THEN <<2, 0>> ELSE <<1, 0>>)
    BY <1>13
<1>17. m \in Metas /\ m.snaps = S /\ m.refs = R /\ m.nextRow = w
    <2>1. w \in Nat /\ 1 \in Stmts \cup {0} /\ NoTableMeta \in Metas BY <1>6, NoMetaType
    <2>2. m = [snaps |-> S, refs |-> R, nextRow |-> w, lastSeq |-> 2, by |-> 1,
               log |-> NoTableMeta.log]
        BY <1>14, <2>1 DEF Metas
    <2>3. NoTableMeta.log \in SUBSET MetaVersions BY <2>1 DEF Metas
    <2> QED BY <2>1, <2>2, <2>3 DEF Metas
<1> QED BY <1>2, <1>3, <1>4, <1>5, <1>10, <1>11, <1>15, <1>16, <1>17

\* Two statements are done, and the table is theirs.
LEMMA RestInitInv ==
    ASSUME IceInit, load.cat = "rest"
    PROVE  RestInv
<1> PICK a : a = <<1, 0>> OBVIOUS
<1> PICK b : b = <<2, 0>> OBVIOUS
<1> PICK f : f = load.fmt OBVIOUS
<1> PICK m : m = FirstMeta(f) OBVIOUS
<1>1. f \in {2, 3} /\ load \in Workloads /\ load.slips \in Nat
    BY WorkloadAssumption DEF IceInit
<1>2. 1 \in MetaVersions /\ hint = 1 /\ slips = 0 BY Basics DEF IceInit
<1>3. meta = [v \in MetaVersions |-> IF v = 1 THEN m ELSE NoTableMeta] BY DEF IceInit
<1>4. Current = m BY <1>2, <1>3 DEF Current
<1>5. /\ m \in Metas /\ DOMAIN m.snaps = {a, b}
      /\ m.snaps[a].parent = NoSnap /\ m.snaps[b].parent = a
      /\ m.snaps[a].data = {1} /\ m.snaps[b].data = {1, 2}
      /\ m.snaps[a].man = {1} /\ m.snaps[b].man = {1, 2}
      /\ m.snaps[a].names = {1} /\ m.snaps[b].names = {1, 2}
      /\ m.snaps[a].dels = {} /\ m.snaps[b].dels = {}
      /\ f = 3 => /\ m.snaps[a].row0 = 0 /\ m.snaps[b].row0 = 2
                  /\ m.snaps[a].added = 2 /\ m.snaps[b].added = 2 /\ m.nextRow = 4
      /\ m.refs["main"] = IF f = 3 THEN a ELSE b
      /\ m.refs["dev"] = IF f = 3 THEN b ELSE a
    BY <1>1, FirstIs
<1>6. a \in Ids /\ b \in Ids /\ a[1] = 1 /\ b[1] = 2 /\ a # b
    BY Basics, TableAssumption DEF Ids
<1>7. Comm(m) = {1, 2} BY <1>5, <1>6 DEF Comm
<1>8. MetaOK(m) /\ IsFiniteSet(DOMAIN m.snaps)
    <2>1. SnapOK(m, m.snaps[a]) /\ SnapOK(m, m.snaps[b]) BY <1>5, <1>7 DEF SnapOK
    <2> QED BY <1>5, <2>1, MetaFacts DEF MetaOK, Refs
<1>9. disk = FilesOf(m, {a, b}) BY <1>2, <1>3, <1>5 DEF IceInit
<1>10. disk \subseteq Files
    <2>1. \A i \in {a, b} : /\ ManifestList(i) \in Files
                            /\ \A s \in m.snaps[i].man : Manifest(s) \in Files
                            /\ \A s \in m.snaps[i].names : DataFile(s) \in Files
        BY <1>5, <1>6, FileNames, Basics
    <2> QED BY <1>9, <2>1 DEF FilesOf
<1>11. \A i \in {a, b} : NeededFiles(m, i) \subseteq disk
    BY <1>5, <1>9 DEF NeededFiles, FilesOf
<1>12. body = [s \in Stmts |-> [rows |-> IF s <= 2 THEN New(s) ELSE {}, target |-> 0]]
    BY DEF IceInit
<1>13. body \in [Stmts -> Bodies]
    <2>1. \A s \in Stmts : New(s) \in SUBSET RowSet BY DEF New, RowSet
    <2>2. \A s \in Stmts : (IF s <= 2 THEN New(s) ELSE {}) \in SUBSET RowSet BY <2>1
    <2> QED BY <1>12, <2>2 DEF Bodies
<1>14. \A s \in {1, 2} : body[s].rows = New(s) BY <1>12, Basics
<1>15. ASSUME NEW s \in Stmts
       PROVE  /\ s \notin {1, 2} => st[s] = NoStmt
              /\ s \in {1, 2} => /\ st[s] \in RestStmts /\ st[s].pc = "acked"
                                 /\ st[s].kind = "append" /\ ~st[s].late /\ st[s].log = {}
                                 /\ st[s].row0 = 0
                                 /\ st[s].ref = IF f = 3 /\ s = 2 THEN "dev" ELSE "main"
    <2>1. s \in Nat /\ s >= 1 BY Basics
    <2>2. s <= 2 <=> s \in {1, 2} BY <2>1
    <2>3. CASE s \in {1, 2}
        <3> PICK r : r = IF f = 3 /\ s = 2 THEN "dev" ELSE "main" OBVIOUS
        <3>1. r \in Refs BY DEF Refs
        <3> PICK y : y = [NoStmt EXCEPT !.pc = "acked", !.kind = "append", !.ref = r] OBVIOUS
        <3>2. st[s] = y BY <2>2, <2>3 DEF IceInit
        <3>3. /\ y.pc = "acked" /\ y.kind = "append" /\ y.ref = r
              /\ y.late = FALSE /\ y.log = {} /\ y.row0 = 0
            BY NoStmtType
        <3>4. y \in RestStmts BY <3>1, NoStmtType DEF RestStmts, RestPcs, RestKinds
        <3> QED BY <2>3, <3>2, <3>3, <3>4
    <2>4. CASE s \notin {1, 2} BY <2>2, <2>4 DEF IceInit
    <2> QED BY <2>3, <2>4
<1>16. st \in [Stmts -> RestStmts]
    <2>1. \A s \in Stmts : st[s] \in RestStmts BY <1>15, NoStmtType
    <2>2. st = [s \in Stmts |-> st[s]] BY DEF IceInit
    <2> QED BY <2>1, <2>2
<1>17. meta \in [MetaVersions -> Metas] BY <1>3, <1>5, NoMetaType
<1>18. RestShape BY <1>1, <1>2, <1>10, <1>13, <1>16, <1>17 DEF RestShape
<1>19. NoStmt.pc = "free" /\ ~NoStmt.late /\ NoStmt.log = {} /\ NoStmt.row0 = 0 /\ NoStmt.kind = "none"
    BY NoStmtType
<1>20. TableOK
    <2>1. RefsOK(m) /\ RefsOK(NoTableMeta) BY <1>8, NoMetaType DEF MetaOK, RefsOK
    <2>2. \A v \in MetaVersions : RefsOK(meta[v]) BY <1>3, <2>1
    <2>3. NoDanglingFiles BY <1>4, <1>5, <1>11 DEF NoDanglingFiles
    <2>4. RowIdsUnique BY <1>4, <1>5 DEF RowIdsUnique
    <2>5. Cardinality(Spent) = 2
        <3>1. Spent = {1, 2} BY <1>15, <1>19, Basics DEF Spent, Open
        <3>2. 2 \notin {1} /\ {1, 2} = {1} \cup {2} OBVIOUS
        <3>3. IsFiniteSet({1}) /\ Cardinality({1}) = 1 BY FS_Singleton
        <3> QED BY <3>1, <3>2, <3>3, FS_AddElement
    <2> QED BY <1>2, <1>4, <1>7, <1>8, <1>14, <2>2, <2>3, <2>4, <2>5 DEF TableOK
<1>21. StmtsOK
    <2> SUFFICES ASSUME NEW s \in Stmts PROVE StmtOK(s)
        BY DEF StmtsOK
    <2>1. Current.nextRow \in Nat BY <1>4, <1>5 DEF Metas
    <2>2. CASE s \in {1, 2}
        <3>1. ~Open(s) /\ ~Pending(s) BY <1>15, <2>2 DEF Open, Pending
        <3> QED BY <1>15, <2>1, <2>2, <3>1 DEF StmtOK
    <2>3. CASE s \notin {1, 2}
        <3>1. st[s] = NoStmt /\ ~Pending(s) BY <1>15, <1>19, <2>3 DEF Pending
        <3> QED BY <1>4, <1>7, <1>19, <2>1, <2>3, <3>1 DEF StmtOK, Dml
    <2> QED BY <2>2, <2>3
<1>22. AckedKept
    <2> PICK h : h = m.refs["main"] OBVIOUS
    <2>1. h \in DOMAIN m.snaps BY <1>8 DEF MetaOK
    <2>2. h \in Ancestors(m, h) /\ Back(m.snaps, Ancestors(m, h)) = Ancestors(m, h)
        BY <1>8, <2>1, AncestorsClosed
    <2>3. MainChain = {i[1] : i \in Ancestors(m, h)} BY <1>4 DEF MainChain, RefHead
    <2>4. CASE f = 3
        <3>1. h = a BY <1>5, <2>4
        <3>2. 1 \in MainChain BY <1>6, <2>2, <2>3, <3>1
        <3> QED BY <1>15, <1>19, <2>4, <3>2 DEF AckedKept, MainDml
    <2>5. CASE f # 3
        <3>1. h = b BY <1>5, <2>5
        <3>2. a \in Ancestors(m, h) BY <1>5, <2>2, <3>1 DEF Back
        <3>3. 1 \in MainChain /\ 2 \in MainChain BY <1>6, <2>2, <2>3, <3>1, <3>2
        <3> QED BY <1>15, <1>19, <3>3 DEF AckedKept
    <2> QED BY <2>4, <2>5
<1> QED BY <1>18, <1>20, <1>21, <1>22 DEF RestInv

-----------------------------------------------------------------------------
(* Every step keeps the invariant.  The statements that go to the Hadoop   *)
(* catalog, and the steps of that catalog, have no place in this workload. *)

\* Their guards are false.
LEMMA RestOnly ==
    ASSUME RestInv, NEW s \in Stmts
    PROVE  /\ ~ExpireBegin(s) /\ ~OrphanBegin(s) /\ ~HadoopApply(s) /\ ~HadoopWriteMeta(s)
           /\ ~HadoopWriteHint(s) /\ ~OptimizeStep(s) /\ ~MaintenanceStep(s)
<1>1. RestShape /\ load \in Workloads /\ load.cat = "rest" /\ st[s] \in RestStmts
    BY DEF RestInv, RestShape
<1>2. "expire" \notin load.kinds /\ "orphan" \notin load.kinds /\ "rewrite" \notin load.kinds
    BY <1>1, WorkloadAssumption
<1>3. /\ st[s].pc \notin {"applied", "saved", "deleting", "scanning", "queued", "reload"}
      /\ st[s].kind # "expire"
    BY <1>1 DEF RestStmts, RestPcs, RestKinds
<1> QED BY <1>1, <1>2, <1>3 DEF ExpireBegin, OrphanBegin, HadoopApply, HadoopWriteMeta,
                                HadoopWriteHint, OptimizeStep, OptimizeQueue, OptimizeClaim,
                                OptimizeReload, MaintenanceStep, ExpirePlan, ExpireDelete,
                                OrphanDelete

\* The steps that a table of the REST catalog takes.
RestStep ==
    \/ \E s \in Stmts, k \in Dml, r \in Refs : Begin(s, k, r)
    \/ \E s \in Stmts, k \in {"create", "drop"} : RefBegin(s, k)
    \/ \E s \in Stmts : WriteFiles(s) \/ Build(s) \/ Cleanup(s)
    \/ \E s \in Stmts : RestUpdate(s) \/ RestLost(s) \/ RestLate(s)
    \/ Die

\* Hence a step of the table is one of these.
LEMMA RestSteps ==
    ASSUME RestInv, IceNext
    PROVE  RestStep /\ UNCHANGED load
<1>1. UNCHANGED load BY DEF IceNext
<1>2. RestStep BY RestOnly DEF IceNext, RestStep, CommitStep, CatalogStep
<1> QED BY <1>1, <1>2

\* The invariant is inductive.
LEMMA RestNextInv ==
    ASSUME RestInv, [IceNext]_iceVars
    PROVE  RestInv'
<1>1. CASE IceNext
    <2>1. RestStep /\ UNCHANGED load BY <1>1, RestSteps
    <2> QED BY <2>1, BeginKeeps, RefBeginKeeps, WriteFilesKeeps, BuildKeeps, CleanupKeeps,
               RestUpdateKeeps, RestLostKeeps, RestLateKeeps, DieKeeps DEF RestStep
<1>2. CASE UNCHANGED iceVars
    <2>1. UNCHANGED <<load, meta, hint, disk, body, st, slips>> BY <1>2 DEF iceVars
    <2>2. RestShape' BY <2>1 DEF RestInv, RestShape
    <2>3. Current' = Current /\ Spent' = Spent BY <2>1 DEF Current, Spent, Open
    <2>4. TableOK' BY <2>1, <2>3 DEF RestInv, TableOK, MetaOK, RefsOK, SnapOK, NoDanglingFiles,
                                     NeededFiles, RowIdsUnique, Comm, New
    <2>5. StmtsOK'
        <3> SUFFICES ASSUME NEW s \in Stmts PROVE StmtOK(s)'
            BY DEF StmtsOK
        <3>1. StmtOK(s) /\ RestShape BY DEF RestInv, StmtsOK
        <3>2. PrepOK(s) => PrepOK(s)' BY <2>1, <3>1, PrepStays
        <3> QED BY <2>1, <2>3, <3>1, <3>2 DEF StmtOK, Open, Pending, Comm, New
    <2>6. AckedKept'
        <3>1. MainChain' = MainChain BY <2>3 DEF MainChain, Ancestors, RefHead
        <3> QED BY <2>1, <3>1 DEF RestInv, AckedKept, MainDml
    <2> QED BY <2>2, <2>4, <2>5, <2>6 DEF RestInv
<1> QED BY <1>1, <1>2

-----------------------------------------------------------------------------
\* Of a table in a REST catalog.
RestHolds == load.cat = "rest" => RestInv

\* The workload never changes, so the invariant holds throughout.
LEMMA RestHoldsAlways == IceSpec => []RestHolds
<1>1. IceInit => RestHolds BY RestInitInv DEF RestHolds
<1>2. RestHolds /\ [IceNext]_iceVars => RestHolds'
    <2> SUFFICES ASSUME RestHolds, [IceNext]_iceVars, load'.cat = "rest" PROVE RestInv'
        BY DEF RestHolds
    <2>1. load' = load BY DEF IceNext, iceVars
    <2> QED BY <2>1, RestNextInv DEF RestHolds
<1> QED BY <1>1, <1>2, PTL DEF IceSpec

\* Of a REST table: metadata, table files and statements are well formed, every ref of
\* every metadata names a snapshot in it, and there is a metadata version for each
\* commit (TableMetadataBuilder, Catalog::update_table).
THEOREM RestTypes == IceSpec => [](load.cat = "rest" => IceTypeOK)
<1>1. ASSUME RestInv PROVE IceTypeOK
    <2>1. RestShape /\ TableOK BY <1>1 DEF RestInv
    <2>2. ASSUME NEW m \in TableMetas
          PROVE  /\ DOMAIN m.snaps \subseteq Ids
                 /\ \A id \in DOMAIN m.snaps : m.snaps[id] \in Snapshots
                 /\ \A r \in Refs : m.refs[r] \in DOMAIN m.snaps \cup {NoSnap}
                 /\ m.log \subseteq MetaVersions /\ m.by \in Stmts \cup {0}
        <3>1. m \in Metas /\ RefsOK(m) BY <2>1 DEF TableMetas, RestShape, TableOK
        <3> QED BY <3>1, MetaFacts DEF RefsOK, Metas
    <2>3. ASSUME NEW s \in Stmts
          PROVE  /\ st[s].kind \in Kinds \cup {"none"} /\ st[s].ref \in Refs
                 /\ st[s].try \in 0..MaxRetries /\ st[s].prep \in Snapshots
                 /\ st[s].log \subseteq Files
        <3>1. st[s] \in RestStmts BY <2>1 DEF RestShape
        <3> QED BY <3>1 DEF RestStmts, RestKinds, Kinds, Dml
    <2> QED BY <2>1, <2>2, <2>3 DEF IceTypeOK, RestShape, Bodies
<1>2. RestHolds => (load.cat = "rest" => IceTypeOK) BY <1>1 DEF RestHolds
<1> QED BY <1>2, RestHoldsAlways, PTL

\* Of a REST table: a statement on main that returned Ok is in main's history ever after,
\* whatever other sessions do, and although requests get lost, arrive late, conflict and
\* are retried (run_iceberg_commit, Transaction::do_commit).
THEOREM RestAckedKept == IceSpec => [](load.cat = "rest" => AckedKept)
<1>1. RestHolds => (load.cat = "rest" => AckedKept) BY DEF RestHolds, RestInv
<1> QED BY <1>1, RestHoldsAlways, PTL

\* Of a REST table: the clean-up after an abort deletes no file that a snapshot needs, also
\* when the commit it gave up on was one of several attempts (AbortLog::cleanup).
THEOREM RestNoDanglingFiles == IceSpec => [](load.cat = "rest" => NoDanglingFiles)
<1>1. RestHolds => (load.cat = "rest" => NoDanglingFiles) BY DEF RestHolds, RestInv, TableOK
<1> QED BY <1>1, RestHoldsAlways, PTL

\* Of a REST table: row ids are assigned once, although a statement takes its first row id
\* when it loads the table and commits after others (FastAppendV3TxnAction, add_snapshot).
THEOREM RestRowIdsUnique == IceSpec => [](load.cat = "rest" => RowIdsUnique)
<1>1. RestHolds => (load.cat = "rest" => RowIdsUnique) BY DEF RestHolds, RestInv, TableOK
<1> QED BY <1>1, RestHoldsAlways, PTL

-----------------------------------------------------------------------------
(* main of a REST table is a VersionedTable.                               *)

AbsRows == Visible(Current, RefHead(Current, "main"))
AbsKind == [s \in Stmts |-> AbstractKind(s)]
AbsDone == (MainChain \ {1, 2}) \cup NoOps
AbsAcked == {s \in Stmts \ {1, 2} : st[s].pc \in {"acked", "noop"} /\ MainDml(s)}
AbsRefused == {s \in Stmts \ {1, 2} : st[s].pc = "refused" /\ MainDml(s)}

\* Without delete files, main's rows are those of its data files, each whole.
LEMMA RowsAre ==
    ASSUME RestInv
    PROVE  AbsRows = UNION {New(f) : f \in Main(Current).data}
<1> PICK x : x = Main(Current) OBVIOUS
<1>1. MetaOK(Current) /\ \A f \in Comm(Current) : body[f].rows = New(f)
    BY DEF RestInv, TableOK
<1>2. x = Current.snaps[Current.refs["main"]] /\ x.dels = {} /\ x.data \subseteq Comm(Current)
    BY <1>1 DEF Main, RefHead, MetaOK, SnapOK
<1>3. ASSUME NEW f \in x.data
      PROVE  body[f].rows \ UNION {body[d].rows : d \in {e \in x.dels : body[e].target = f}} = New(f)
    <2>1. UNION {body[d].rows : d \in {e \in x.dels : body[e].target = f}} = {} BY <1>2
    <2> QED BY <1>1, <1>2, <2>1
<1>4. AbsRows = UNION {body[f].rows \ UNION {body[d].rows : d \in {e \in x.dels : body[e].target = f}} :
                          f \in x.data}
    BY <1>2 DEF AbsRows, Visible, RefHead
<1> QED BY <1>3, <1>4

\* No REST statement ends as a no-op, and main's history is of committed statements.
LEMMA DoneIs ==
    ASSUME RestInv
    PROVE  AbsDone = MainChain \ {1, 2} /\ MainChain \subseteq Comm(Current)
<1>1. NoOps = {} BY DEF NoOps, RestInv, RestShape, RestStmts, RestPcs
<1>2. Current \in Metas BY DEF RestInv, RestShape, Current
<1>3. Ancestors(Current, RefHead(Current, "main")) \subseteq DOMAIN Current.snaps
    BY <1>2, MetaFacts, HistoryWithin
<1> QED BY <1>1, <1>3 DEF AbsDone, MainChain, Comm

RowsWhole == AbsRows = UNION {New(f) : f \in Main(Current).data}
DoneCommitted == AbsDone = MainChain \ {1, 2} /\ MainChain \subseteq Comm(Current)

LEMMA AbsAfter == RestInv' => RowsWhole' /\ DoneCommitted'
<1>1. RestInv => RowsWhole /\ DoneCommitted BY RowsAre, DoneIs DEF RowsWhole, DoneCommitted
<1> QED BY <1>1, PTL

\* An open statement moves and the table stays.
Moved(s) ==
    /\ Open(s) /\ UNCHANGED <<meta, hint>> /\ st'[s].pc # "acked"
    /\ \/ st[s].pc = "free"
       \/ st'[s].kind = st[s].kind /\ st'[s].ref = st[s].ref
    /\ \A q \in Stmts \ {s} : st'[q] = st[q]

\* Asked, refused, or nothing that main's clients could see.
LEMMA MovedRefines ==
    ASSUME RestInv, RestInv', NEW s \in Stmts, Moved(s)
    PROVE  MainTable!TNext \/ UNCHANGED MainTable!tv
<1>1. Current' = Current BY DEF Moved, Current
<1>2. AbsRows' = AbsRows
    <2>1. Main(Current)' = Main(Current) BY <1>1 DEF Main, RefHead
    <2>2. AbsRows' = UNION {New(f) : f \in Main(Current)'.data} BY AbsAfter DEF RowsWhole, New
    <2> QED BY <2>1, <2>2, RowsAre
<1>3. AbsDone' = AbsDone
    <2>1. MainChain' = MainChain BY <1>1 DEF MainChain, Ancestors, RefHead
    <2>2. AbsDone' = MainChain' \ {1, 2} BY AbsAfter DEF DoneCommitted
    <2> QED BY <2>1, <2>2, DoneIs
<1>4. StmtOK(s) /\ Open(s) /\ s \notin Comm(Current) /\ {1, 2} \subseteq Comm(Current)
    BY DEF RestInv, StmtsOK, StmtOK, TableOK, Moved
<1>5. s \notin {1, 2} /\ s \notin AbsDone BY <1>4, DoneIs
<1>6. st[s].pc \notin {"acked", "refused", "noop"} BY <1>4 DEF Open, StmtOK
<1>7. /\ st'[s] \in RestStmts /\ st'[s].pc \notin {"acked", "noop"} /\ st[s] \in RestStmts
      /\ \A q \in Stmts \ {s} : st'[q] = st[q]
    BY DEF Moved, RestInv, RestShape, RestStmts, RestPcs
<1>8. AbsAcked' = AbsAcked BY <1>6, <1>7 DEF AbsAcked, MainDml
<1>9. AbsRefused' = IF st'[s].pc = "refused" /\ MainDml(s)' THEN AbsRefused \cup {s} ELSE AbsRefused
    BY <1>5, <1>6, <1>7 DEF AbsRefused, MainDml
<1>10. \A q \in Stmts \ {s} : AbstractKind(q)' = AbstractKind(q)
    BY <1>7 DEF AbstractKind, MainDml
<1>11. s \in Nat /\ ~(s <= 2)
    BY <1>5, Basics
<1>12. s \notin AbsRefused BY <1>6 DEF AbsRefused
<1>13. CASE AbstractKind(s)' = AbstractKind(s)
    <2>1. AbsKind' = AbsKind BY <1>10, <1>13 DEF AbsKind
    <2>2. CASE AbsRefused' = AbsRefused
        <3>1. UNCHANGED <<AbsRows, AbsKind, AbsDone, AbsAcked, AbsRefused>>
            BY <1>2, <1>3, <1>8, <2>1, <2>2
        <3> QED BY <3>1 DEF MainTable!tv, AbsRows, AbsKind, AbsDone, AbsAcked, AbsRefused
    <2>3. CASE AbsRefused' # AbsRefused
        <3>1. AbsRefused' = AbsRefused \cup {s} /\ MainDml(s)' BY <1>9, <2>3
        <3>2. AbstractKind(s)' # "none" BY <1>11, <3>1 DEF AbstractKind, MainDml, Dml
        <3>3. AbsKind[s] # "none" BY <1>13, <3>2 DEF AbsKind
        <3>4. MainTable!Refuse(s)
            BY <1>2, <1>3, <1>5, <1>8, <1>12, <2>1, <3>1, <3>3
            DEF MainTable!Refuse, AbsRows, AbsKind, AbsDone, AbsAcked, AbsRefused
        <3> QED BY <3>4 DEF MainTable!TNext
    <2> QED BY <2>2, <2>3
<1>14. CASE AbstractKind(s)' # AbstractKind(s)
    <2>1. st[s].pc = "free" BY <1>14 DEF Moved, AbstractKind, MainDml
    <2>2. st[s].kind = "none" BY <1>4, <2>1, NoStmtType DEF StmtOK
    <2>3. AbstractKind(s) = "none" BY <2>2 DEF AbstractKind, MainDml, Dml
    <2>4. AbstractKind(s)' \in {"append", "overwrite"}
        <3>1. st'[s].kind \in Dml /\ AbstractKind(s)' = IF st'[s].kind = "insert" THEN "append"
                                                      ELSE st'[s].kind
            BY <1>14, <2>3 DEF AbstractKind, MainDml
        <3>2. st'[s].kind \in RestKinds \cup {"none"} BY <1>7 DEF RestStmts
        <3> QED BY <3>1, <3>2 DEF RestKinds, Dml
    <2>5. AbsKind[s] = "none" BY <2>3 DEF AbsKind
    <2>6. PICK k \in {"append", "overwrite", "delete", "rewrite", "truncate"} :
               AbsKind' = [AbsKind EXCEPT ![s] = k]
        BY <1>10, <2>4 DEF AbsKind
    <2>7. AbsRefused' \in {AbsRefused, AbsRefused \cup {s}} BY <1>9
    <2>8. MainTable!Ask(s)
        BY <1>2, <1>3, <1>8, <2>5, <2>6, <2>7
        DEF MainTable!Ask, AbsRows, AbsKind, AbsDone, AbsAcked, AbsRefused
    <2> QED BY <2>8 DEF MainTable!TNext
<1> QED BY <1>13, <1>14

\* A commit: on main the statement takes effect, anywhere else main stays.
LEMMA CommitRefines ==
    ASSUME RestInv, RestInv', NEW s \in Stmts, Pending(s), Applies(s),
           NEW p \in {"acked", "error", "gone"}, Ends(s, p), UNCHANGED <<load, disk, body>>
    PROVE  MainTable!TNext \/ UNCHANGED MainTable!tv
<1> PICK id : id = <<s, st[s].try>> OBVIOUS
<1> PICK x : x = st[s].prep OBVIOUS
<1> PICK n : n = NextMeta(Current, hint, s) OBVIOUS
<1> PICK m : m = Current OBVIOUS
<1>1. RestShape /\ StmtOK(s) /\ MetaOK(m) /\ {1, 2} \subseteq Comm(m) /\ m \in Metas
    BY DEF RestInv, StmtsOK, TableOK, RestShape, Current
<1>2. Requirement(Current, s) /\ Valid(Current, s) /\ Current' = n BY AppliesIs
<1>3. Open(s) /\ s \notin Comm(m) /\ st[s].pc \notin {"acked", "refused", "noop"}
    BY <1>1 DEF Open, Pending, StmtOK
<1>4. s \notin {1, 2} /\ s \notin AbsDone BY <1>1, <1>3, DoneIs
<1>5. /\ \A q \in Stmts \ {s} : st'[q] = st[q]
      /\ st'[s].pc = p /\ st'[s].kind = st[s].kind /\ st'[s].ref = st[s].ref
    BY <1>1, EndsIs DEF RestPcs
<1>6. \A q \in Stmts : MainDml(q)' = MainDml(q) /\ AbstractKind(q)' = AbstractKind(q)
    BY <1>5 DEF MainDml, AbstractKind
<1>7. AbsKind' = AbsKind BY <1>6 DEF AbsKind
<1>8. AbsRefused' = AbsRefused /\ s \notin AbsRefused BY <1>3, <1>5, <1>6 DEF AbsRefused
<1>9. /\ AbsAcked' \in {AbsAcked, AbsAcked \cup {s}} /\ (~MainDml(s) => AbsAcked' = AbsAcked)
    <2>1. AbsAcked' = IF p = "acked" /\ MainDml(s) THEN AbsAcked \cup {s} ELSE AbsAcked
        BY <1>3, <1>4, <1>5, <1>6 DEF AbsAcked
    <2> QED BY <2>1
<1>10. AbsRows' = UNION {New(f) : f \in Main(n).data} /\ AbsRows = UNION {New(f) : f \in Main(m).data}
    BY <1>2, RowsAre, AbsAfter DEF RowsWhole, New, Main, RefHead
<1>11. AbsDone' = MainChain' \ {1, 2} /\ AbsDone = MainChain \ {1, 2}
    BY DoneIs, AbsAfter DEF DoneCommitted
<1>12. CASE MainDml(s)
    <2>1. st[s].kind \in Dml /\ st[s].ref = "main" BY <1>12 DEF MainDml
    <2>2. n.snaps[id] = x /\ n.refs["main"] = id /\ x.parent = m.refs["main"]
        BY <1>2, <2>1, NextDml
    <2>3. Main(n).data = IF st[s].kind = "overwrite" THEN {s} ELSE Main(m).data \cup {s}
        <3>1. PrepOK(s) BY <1>1, <2>1 DEF StmtOK
        <3> QED BY <2>1, <2>2, <3>1 DEF PrepOK, Main, RefHead
    <2>4. AbsRows' = IF st[s].kind = "overwrite" THEN New(s) ELSE AbsRows \cup New(s)
        <3>1. CASE st[s].kind = "overwrite" BY <1>10, <2>3, <3>1
        <3>2. CASE st[s].kind # "overwrite" BY <1>10, <2>3, <3>2
        <3> QED BY <3>1, <3>2
    <2>5. MainChain' = MainChain \cup {s} BY <1>2, <2>1, ChainGrows
    <2>6. AbsDone' = AbsDone \cup {s} BY <1>4, <1>11, <2>5
    <2>7. s \in Nat /\ ~(s <= 2) BY <1>4, Basics
    <2>8. /\ AbsKind[s] = IF st[s].kind = "overwrite" THEN "overwrite" ELSE "append"
          /\ AbsKind[s] # "none"
        <3>1. st[s].kind \in {"insert", "append", "overwrite"}
            BY <1>1, <2>1 DEF RestShape, RestStmts, RestKinds, Dml
        <3> QED BY <1>12, <2>7, <3>1 DEF AbsKind, AbstractKind
    <2>9. MainTable!Effect(s, AbsKind[s])
        <3>1. CASE st[s].kind = "overwrite"
            <4>1. AbsKind[s] = "overwrite" /\ AbsRows' = New(s) BY <2>4, <2>8, <3>1
            <4>2. MainTable!Effect(s, "overwrite") BY <4>1 DEF MainTable!Effect, AbsRows
            <4> QED BY <4>1, <4>2
        <3>2. CASE st[s].kind # "overwrite"
            <4>1. AbsKind[s] = "append" /\ AbsRows' = AbsRows \cup New(s) BY <2>4, <2>8, <3>2
            <4>2. MainTable!Effect(s, "append") BY <4>1 DEF MainTable!Effect, AbsRows
            <4> QED BY <4>1, <4>2
        <3> QED BY <3>1, <3>2
    <2>10. MainTable!Take(s)
        BY <1>4, <1>7, <1>8, <1>9, <2>6, <2>8, <2>9
        DEF MainTable!Take, AbsKind, AbsDone, AbsAcked, AbsRefused
    <2> QED BY <2>10 DEF MainTable!TNext
<1>13. CASE ~MainDml(s)
    <2>1. Main(n).data = Main(m).data /\ MainChain' = MainChain
        <3>1. CASE st[s].kind \in Dml
            <4>1. st[s].ref # "main" BY <1>13, <3>1 DEF MainDml
            <4>2. /\ \A i \in DOMAIN m.snaps : n.snaps[i] = m.snaps[i]
                  /\ \A q \in Refs \ {st[s].ref} : n.refs[q] = m.refs[q]
                BY <1>2, <3>1, NextDml
            <4>3. m.refs["main"] \in DOMAIN m.snaps /\ n.refs["main"] = m.refs["main"]
                BY <1>1, <4>1, <4>2 DEF MetaOK, Refs
            <4>4. MainChain' = MainChain BY <1>2, <3>1, <4>1, ChainGrows
            <4> QED BY <4>2, <4>3, <4>4 DEF Main, RefHead
        <3>2. CASE st[s].kind \notin Dml
            <4>1. n.snaps = m.snaps /\ n.refs["main"] = m.refs["main"] BY <1>2, <3>2, NextRef
            <4>2. MainChain' = MainChain BY <1>2, <3>2, RefTable
            <4> QED BY <4>1, <4>2 DEF Main, RefHead
        <3> QED BY <3>1, <3>2
    <2>2. UNCHANGED <<AbsRows, AbsKind, AbsDone, AbsAcked, AbsRefused>>
        BY <1>7, <1>8, <1>9, <1>10, <1>11, <1>13, <2>1
    <2> QED BY <2>2 DEF MainTable!tv, AbsRows, AbsKind, AbsDone, AbsAcked, AbsRefused
<1> QED BY <1>12, <1>13

\* The actions move one statement.
LEMMA EndMoves ==
    ASSUME RestInv, NEW s \in Stmts, Open(s), NEW p \in {"refused", "error", "gone"}, Ends(s, p),
           UNCHANGED <<meta, hint>>
    PROVE  Moved(s)
<1>1. /\ \A q \in Stmts \ {s} : st'[q] = st[q]
      /\ st'[s].pc = p /\ st'[s].kind = st[s].kind /\ st'[s].ref = st[s].ref
    BY EndsIs DEF RestInv, RestPcs
<1> QED BY <1>1 DEF Moved

\* A step of one statement that sets fields of its record.
LEMMA FieldsMove ==
    ASSUME RestInv, NEW s \in Stmts, Open(s), UNCHANGED <<meta, hint>>, NEW y,
           st' = [st EXCEPT ![s] = y], y.pc # "acked",
           st[s].pc = "free" \/ (y.kind = st[s].kind /\ y.ref = st[s].ref)
    PROVE  Moved(s)
<1>1. st'[s] = y /\ \A q \in Stmts \ {s} : st'[q] = st[q] BY DEF RestInv, RestShape
<1> QED BY <1>1 DEF Moved

LEMMA BeginMoves ==
    ASSUME RestInv, NEW s \in Stmts, NEW k \in Dml, NEW r \in Refs, Begin(s, k, r)
    PROVE  Moved(s)
<1>1. RestShape BY DEF RestInv
<1>2. k \in {"insert", "append", "overwrite"}
    BY <1>1, WorkloadAssumption DEF Begin, RestShape, Dml
<1>3. Open(s) /\ st[s].pc = "free" /\ UNCHANGED <<meta, hint>> BY DEF Begin, Starts, Open
<1>4. CASE st' = [st EXCEPT ![s] = With(s, k, r, "loaded")]
    <2> PICK y : y = With(s, k, r, "loaded") OBVIOUS
    <2>1. y.pc = "loaded" BY NoStmtType DEF With
    <2> QED BY <1>3, <1>4, <2>1, FieldsMove
<1>5. CASE st' = [st EXCEPT ![s] = [NoStmt EXCEPT !.pc = "refused", !.kind = k, !.ref = r]]
    <2> PICK y : y = [NoStmt EXCEPT !.pc = "refused", !.kind = k, !.ref = r] OBVIOUS
    <2>1. y.pc = "refused" BY NoStmtType
    <2> QED BY <1>3, <1>5, <2>1, FieldsMove
<1> QED BY <1>2, <1>4, <1>5 DEF Begin

LEMMA RefBeginMoves ==
    ASSUME RestInv, NEW s \in Stmts, NEW k \in {"create", "drop"}, RefBegin(s, k)
    PROVE  Moved(s)
<1>1. Open(s) /\ st[s].pc = "free" /\ UNCHANGED <<meta, hint>>
    BY DEF RefBegin, Starts, Open, tableVars
<1>2. CASE \E id : st' = [st EXCEPT ![s] = [With(s, k, "dev", "built") EXCEPT
                             !.prep.parent = RefHead(Current, "dev"), !.pick = {id}]]
    <2> PICK id : st' = [st EXCEPT ![s] = [With(s, k, "dev", "built") EXCEPT
                             !.prep.parent = RefHead(Current, "dev"), !.pick = {id}]]
        BY <1>2
    <2> PICK y : y = [With(s, k, "dev", "built") EXCEPT
                             !.prep.parent = RefHead(Current, "dev"), !.pick = {id}]
        OBVIOUS
    <2>1. y.pc = "built" BY NoStmtType DEF With
    <2> QED BY <1>1, <2>1, FieldsMove
<1>3. CASE st' = [st EXCEPT ![s] = [NoStmt EXCEPT !.pc = "refused", !.kind = k]]
    <2> PICK y : y = [NoStmt EXCEPT !.pc = "refused", !.kind = k] OBVIOUS
    <2>1. y.pc = "refused" BY NoStmtType
    <2> QED BY <1>1, <1>3, <2>1, FieldsMove
<1> QED BY <1>2, <1>3 DEF RefBegin

LEMMA WriteFilesMoves ==
    ASSUME RestInv, NEW s \in Stmts, WriteFiles(s)
    PROVE  Moved(s)
<1>1. Open(s) /\ UNCHANGED <<meta, hint>> /\ st[s] \in RestStmts
    BY DEF WriteFiles, Open, RestInv, RestShape
<1>2. CASE Ends(s, "refused") BY <1>1, <1>2, EndMoves
<1>3. CASE ~Ends(s, "refused")
    <2> st[s].kind # "rewrite" BY <1>1 DEF RestStmts, RestKinds
    <2>1. PICK L : st' = [st EXCEPT ![s].pc = "written", ![s].log = L] BY <1>3 DEF WriteFiles
    <2> PICK y : y = [[st[s] EXCEPT !.pc = "written"] EXCEPT !.log = L] OBVIOUS
    <2>2. y.pc = "written" /\ y.kind = st[s].kind /\ y.ref = st[s].ref BY <1>1 DEF RestStmts
    <2>3. st' = [st EXCEPT ![s] = y] BY <2>1 DEF RestInv, RestShape
    <2> QED BY <1>1, <2>2, <2>3, FieldsMove
<1> QED BY <1>2, <1>3

LEMMA BuildMoves ==
    ASSUME RestInv, NEW s \in Stmts, Build(s)
    PROVE  Moved(s)
<1>1. Open(s) /\ UNCHANGED <<meta, hint>> /\ st[s] \in RestStmts
    BY DEF Build, Open, RestInv, RestShape
<1>2. CASE Ends(s, "error") BY <1>1, <1>2, EndMoves
<1>3. CASE ~Ends(s, "error")
    <2>1. PICK x, L, p : /\ st' = [[st EXCEPT ![s].prep = x, ![s].log = st[s].log \cup L] EXCEPT ![s].pc = p]
                         /\ p \in {"built", "cleanup"}
        BY <1>3 DEF Build
    <2> PICK y : y = [[[st[s] EXCEPT !.prep = x] EXCEPT !.log = st[s].log \cup L] EXCEPT !.pc = p]
        OBVIOUS
    <2>2. y.pc = p /\ y.kind = st[s].kind /\ y.ref = st[s].ref BY <1>1 DEF RestStmts
    <2>3. st' = [st EXCEPT ![s] = y] BY <2>1 DEF RestInv, RestShape
    <2> QED BY <1>1, <2>1, <2>2, <2>3, FieldsMove
<1> QED BY <1>2, <1>3

LEMMA ConflictMoves ==
    ASSUME RestInv, NEW s \in Stmts, st[s].pc = "built", Conflict(s), UNCHANGED <<meta, hint>>
    PROVE  Moved(s)
<1>1. Open(s) /\ st[s] \in RestStmts BY DEF Open, RestInv, RestShape
<1>2. CASE Ends(s, "error") BY <1>1, <1>2, EndMoves
<1>3. CASE Goes(s, "cleanup")
    <2> PICK y : y = [st[s] EXCEPT !.pc = "cleanup"] OBVIOUS
    <2>1. y.pc = "cleanup" /\ y.kind = st[s].kind /\ y.ref = st[s].ref BY <1>1 DEF RestStmts
    <2>2. st' = [st EXCEPT ![s] = y] BY <1>3 DEF Goes, RestInv, RestShape
    <2> QED BY <1>1, <2>1, <2>2, FieldsMove
<1>4. CASE \E p \in {"loaded", "written"} :
              st' = [st EXCEPT ![s].pc = p, ![s].try = st[s].try + 1, ![s].prep = NoSnapshot]
    <2> PICK p \in {"loaded", "written"} :
              st' = [st EXCEPT ![s].pc = p, ![s].try = st[s].try + 1, ![s].prep = NoSnapshot]
        BY <1>4
    <2> PICK y : y = [[[st[s] EXCEPT !.pc = p] EXCEPT !.try = st[s].try + 1] EXCEPT !.prep = NoSnapshot]
        OBVIOUS
    <2>1. y.pc = p /\ y.kind = st[s].kind /\ y.ref = st[s].ref BY <1>1 DEF RestStmts
    <2>2. st' = [st EXCEPT ![s] = y] BY DEF RestInv, RestShape
    <2> QED BY <1>1, <2>1, <2>2, FieldsMove
<1> QED BY <1>2, <1>3, <1>4 DEF Conflict, FailsDefinitely

LEMMA RestLostMoves ==
    ASSUME RestInv, NEW s \in Stmts, RestLost(s)
    PROVE  Moved(s)
<1>1. Open(s) /\ UNCHANGED <<meta, hint>> /\ st[s] \in RestStmts
    BY DEF RestLost, Open, RestInv, RestShape
<1>2. CASE Ends(s, "error") BY <1>1, <1>2, EndMoves
<1>3. CASE st' = [st EXCEPT ![s].pc = "error", ![s].late = TRUE, ![s].log = {}]
    <2> PICK y : y = [[[st[s] EXCEPT !.pc = "error"] EXCEPT !.late = TRUE] EXCEPT !.log = {}]
        OBVIOUS
    <2>1. y.pc = "error" /\ y.kind = st[s].kind /\ y.ref = st[s].ref BY <1>1 DEF RestStmts
    <2>2. st' = [st EXCEPT ![s] = y] BY <1>3 DEF RestInv, RestShape
    <2> QED BY <1>1, <2>1, <2>2, FieldsMove
<1> QED BY <1>2, <1>3 DEF RestLost

\* A process that dies leaves main as it was and answers nobody.
LEMMA DieRefines ==
    ASSUME RestInv, RestInv', Die
    PROVE  UNCHANGED MainTable!tv
<1>1. UNCHANGED <<meta, hint>> /\ Current' = Current BY DEF Die, tableVars, Current
<1>2. PICK L \in SUBSET {s \in Running : st[s].pc = "built"} :
         st' = [s \in Stmts |->
                  IF s \in L THEN [st[s] EXCEPT !.pc = "gone", !.late = TRUE, !.log = {}]
                  ELSE IF s \in Running
                  THEN [NoStmt EXCEPT !.pc = "gone", !.kind = st[s].kind, !.ref = st[s].ref]
                  ELSE st[s]]
    BY DEF Die
<1>3. ASSUME NEW s \in Stmts
      PROVE  /\ st'[s].kind = st[s].kind /\ st'[s].ref = st[s].ref
             /\ \A p \in {"acked", "noop", "refused"} : st'[s].pc = p <=> st[s].pc = p
    <2>1. st[s] \in RestStmts BY DEF RestInv, RestShape
    <2>2. s \in Running => st[s].pc \notin {"acked", "noop", "refused"} BY DEF Running, Ended
    <2>3. CASE s \in L
        <3> PICK y : y = [[[st[s] EXCEPT !.pc = "gone"] EXCEPT !.late = TRUE] EXCEPT !.log = {}]
            OBVIOUS
        <3>1. y.pc = "gone" /\ y.kind = st[s].kind /\ y.ref = st[s].ref BY <2>1 DEF RestStmts
        <3>2. st'[s] = y BY <1>2, <2>3
        <3> QED BY <1>2, <2>2, <2>3, <3>1, <3>2
    <2>4. CASE s \notin L /\ s \in Running
        <3> PICK y : y = [NoStmt EXCEPT !.pc = "gone", !.kind = st[s].kind, !.ref = st[s].ref]
            OBVIOUS
        <3>1. y.pc = "gone" /\ y.kind = st[s].kind /\ y.ref = st[s].ref BY NoStmtType
        <3>2. st'[s] = y BY <1>2, <2>4
        <3> QED BY <2>2, <2>4, <3>1, <3>2
    <2>5. CASE s \notin L /\ s \notin Running BY <1>2, <2>5
    <2> QED BY <2>3, <2>4, <2>5
<1>4. \A s \in Stmts : MainDml(s)' = MainDml(s) /\ AbstractKind(s)' = AbstractKind(s)
    BY <1>3 DEF MainDml, AbstractKind
<1>5. AbsKind' = AbsKind BY <1>4 DEF AbsKind
<1>6. AbsAcked' = AbsAcked /\ AbsRefused' = AbsRefused BY <1>3, <1>4 DEF AbsAcked, AbsRefused
<1>7. AbsRows' = AbsRows
    <2>1. Main(Current)' = Main(Current) BY <1>1 DEF Main, RefHead
    <2>2. AbsRows' = UNION {New(f) : f \in Main(Current)'.data} BY AbsAfter DEF RowsWhole, New
    <2> QED BY <2>1, <2>2, RowsAre
<1>8. AbsDone' = AbsDone
    <2>1. MainChain' = MainChain BY <1>1 DEF MainChain, Ancestors, RefHead
    <2>2. AbsDone' = MainChain' \ {1, 2} BY AbsAfter DEF DoneCommitted
    <2> QED BY <2>1, <2>2, DoneIs
<1> QED BY <1>5, <1>6, <1>7, <1>8 DEF MainTable!tv, AbsRows, AbsKind, AbsDone, AbsAcked, AbsRefused

LEMMA RestStepRefines ==
    ASSUME RestInv, RestInv', [IceNext]_iceVars
    PROVE  [MainTable!TNext]_MainTable!tv
<1>1. CASE UNCHANGED iceVars
    BY <1>1 DEF iceVars, MainTable!tv, Visible, Current, RefHead, AbstractKind, MainDml, MainChain,
                NoOps, Ancestors
<1>2. CASE IceNext
    <2>1. RestStep /\ UNCHANGED load BY <1>2, RestSteps
    <2>2. CASE \E s \in Stmts : Moved(s) BY <2>2, MovedRefines
    <2>3. CASE Die BY <2>3, DieRefines
    <2>4. ASSUME NEW s \in Stmts, RestUpdate(s) \/ RestLate(s)
          PROVE  MainTable!TNext \/ UNCHANGED MainTable!tv
        <3>1. StmtOK(s) /\ st[s] \in RestStmts BY DEF RestInv, StmtsOK, RestShape
        <3>2. Pending(s) /\ Open(s) /\ UNCHANGED <<disk, body>>
            BY <2>4 DEF RestUpdate, RestLate, Pending, Open
        <3>3. CASE RestUpdate(s)
            <4>1. CASE Applies(s) /\ Committed(s)
                <5>1. Ends(s, "acked") BY <3>1, <4>1 DEF Committed, RestStmts, RestKinds
                <5> QED BY <2>1, <3>2, <4>1, <5>1, CommitRefines
            <4>2. CASE Conflict(s) /\ UNCHANGED <<meta, hint>>
                <5>1. Moved(s) BY <3>3, <4>2, ConflictMoves DEF RestUpdate
                <5> QED BY <5>1, MovedRefines
            <4>3. CASE Ends(s, "error") /\ UNCHANGED <<meta, hint>>
                <5>1. Moved(s) BY <3>2, <4>3, EndMoves
                <5> QED BY <5>1, MovedRefines
            <4> QED BY <3>3, <4>1, <4>2, <4>3 DEF RestUpdate
        <3>4. CASE RestLate(s)
            <4> PICK p : p = st[s].pc OBVIOUS
            <4>1. p \in {"error", "gone"} /\ Ends(s, p) BY <3>1, <3>4 DEF StmtOK, RestLate
            <4>2. CASE Applies(s) BY <2>1, <3>2, <4>1, <4>2, CommitRefines
            <4>3. CASE UNCHANGED <<meta, hint>>
                <5>1. Moved(s) BY <3>2, <4>1, <4>3, EndMoves
                <5> QED BY <5>1, MovedRefines
            <4> QED BY <3>4, <4>2, <4>3 DEF RestLate
        <3> QED BY <2>4, <3>3, <3>4
    <2>5. ASSUME NEW s \in Stmts, Cleanup(s) PROVE Moved(s)
        BY <2>5, EndMoves DEF Cleanup, Open
    <2> QED BY <2>1, <2>2, <2>3, <2>4, <2>5, BeginMoves, RefBeginMoves, WriteFilesMoves, BuildMoves,
               RestLostMoves DEF RestStep
<1> QED BY <1>1, <1>2

LEMMA RestInitRefines ==
    ASSUME IceInit, load.cat = "rest"
    PROVE  MainTable!TInit
<1>1. RestInv BY RestInitInv
<1> PICK m : m = FirstMeta(load.fmt) OBVIOUS
<1>2. load.fmt \in {2, 3} BY WorkloadAssumption DEF IceInit
<1>3. DOMAIN m.snaps = {<<1, 0>>, <<2, 0>>} BY <1>2, FirstIs
<1>4. Current = m BY Basics DEF IceInit, Current
<1>5. Comm(Current) = {1, 2}
    <2>1. Comm(Current) = {i[1] : i \in {<<1, 0>>, <<2, 0>>}} BY <1>3, <1>4 DEF Comm
    <2>2. <<1, 0>>[1] = 1 /\ <<2, 0>>[1] = 2 OBVIOUS
    <2> QED BY <2>1, <2>2
<1>6. AbsDone = {} BY <1>1, <1>5, DoneIs
<1>7. \A s \in Stmts : s \in Nat /\ s >= 1 BY Basics
<1>8. \A s \in Stmts : ~(s <= 2) => st[s] = NoStmt BY DEF IceInit
<1>9. \A s \in Stmts : AbstractKind(s) = "none"
    BY <1>8, NoStmtType DEF AbstractKind, MainDml, Dml
<1>10. AbsKind = [s \in Stmts |-> "none"] BY <1>9 DEF AbsKind
<1>11. \A s \in Stmts \ {1, 2} : ~(s <= 2) BY <1>7
<1>12. AbsAcked = {} /\ AbsRefused = {} BY <1>8, <1>11, NoStmtType DEF AbsAcked, AbsRefused
<1> QED BY <1>6, <1>10, <1>12 DEF MainTable!TInit, AbsKind, AbsDone, AbsAcked, AbsRefused

\* main of a REST table implements VersionedTable: every statement on it takes effect at
\* most once, in one step and whole, is acknowledged only after its effect, and never has
\* one when it was refused; one with an unknown outcome may take effect late or never.
THEOREM RestMainIsVersioned == IceSpec /\ load.cat = "rest" => MainIsVersioned
<1>1. IceInit /\ load.cat = "rest" => RestInv BY RestInitInv
<1>2. RestInv /\ [IceNext]_iceVars => RestInv' BY RestNextInv
<1>3. IceInit /\ load.cat = "rest" => MainTable!TInit BY RestInitRefines
<1>4. RestInv /\ RestInv' /\ [IceNext]_iceVars => [MainTable!TNext]_MainTable!tv
    BY RestStepRefines
<1> QED BY <1>1, <1>2, <1>3, <1>4, PTL DEF IceSpec, MainIsVersioned, MainTable!TSpec
=============================================================================
