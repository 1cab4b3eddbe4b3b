---------------------- MODULE ExchangeAccounting_proofs ----------------------
(***************************************************************************)
(* Proofs about the bookkeeping of the send queue: the reserved bytes and  *)
(* every driver's count of tasks are exact, payloads that respect the      *)
(* limit fit the capacity, and the variables of the exchange keep their    *)
(* types. They rest on the invariant of Exchange_proofs.                   *)
(***************************************************************************)
EXTENDS Exchange_proofs

-----------------------------------------------------------------------------
(* The size of a set of tasks. The library sums a set by a recursive        *)
(* function on its subsets; what follows replaces that by adding a member.  *)

Sum(S) == MapThenSumSet(Size, S)
Sized(S) == IsFiniteSet(S) /\ \A x \in S : Size(x) \in Nat
SumFn(S, a) == a = [T \in SUBSET S |-> IF T = {} THEN 0
                     ELSE Size(CHOOSE x \in T : TRUE) + a[T \ {CHOOSE x \in T : TRUE}]]
Adds(S, w) ==
    /\ w \in [SUBSET S -> Nat] /\ w[{}] = 0
    /\ \A T \in SUBSET S : \A x \in S \ T : w[T \cup {x}] = w[T] + Size(x)

LEMMA SumIs ==
    ASSUME NEW S, NEW h, SumFn(S, h)
    PROVE  \E a : SumFn(S, a) /\ Sum(S) = a[S]
<1> DEFINE F(a) == [T \in SUBSET S |-> IF T = {} THEN 0
                     ELSE Size(CHOOSE x \in T : TRUE) + a[T \ {CHOOSE x \in T : TRUE}]]
           iter == CHOOSE a : a = F(a)
<1>1. Sum(S) = iter[S] BY Zenon DEF Sum, MapThenSumSet, MapThenFoldSet
<1>2. iter = F(iter) BY Zenon DEF SumFn
<1> QED BY <1>1, <1>2, Zenon DEF SumFn

\* A finite set has a smallest subset of any kind.
LEMMA SmallestSubset ==
    ASSUME NEW S, IsFiniteSet(S), NEW K, K \subseteq SUBSET S, K # {}
    PROVE  \E T \in K : /\ IsFiniteSet(T)
                        /\ \A x \in T : T \ {x} \notin K
<1>1. \A T \in K : IsFiniteSet(T) /\ Cardinality(T) \in Nat BY FS_Subset, FS_CardinalityType
<1> DEFINE N == {Cardinality(T) : T \in K}
<1>2. N \subseteq Nat /\ N # {} BY <1>1
<1>3. PICK n \in N : \A m \in Nat : m < n => m \notin N BY <1>2, LeastNat
<1>4. PICK T \in K : Cardinality(T) = n BY <1>3
<1>5. ASSUME NEW x \in T, T \ {x} \in K PROVE FALSE
    <2>1. Cardinality(T \ {x}) = n - 1 BY <1>1, <1>4, <1>5, FS_RemoveElement
    <2>2. n \in Nat /\ Cardinality(T \ {x}) \in Nat BY <1>1, <1>4, <1>5
    <2>3. Cardinality(T \ {x}) \in N BY <1>5
    <2> HIDE DEF N
    <2>4. Cardinality(T \ {x}) < n BY <2>1, <2>2
    <2> QED BY <1>3, <2>2, <2>3, <2>4
<1> QED BY <1>1, <1>4, <1>5

LEMMA AddsExists ==
    ASSUME NEW S, Sized(S)
    PROVE  \E w : Adds(S, w)
<1> DEFINE K == {T \in SUBSET S : ~ \E w : Adds(T, w)}
<1> SUFFICES ASSUME K # {} PROVE FALSE
    OBVIOUS
<1>1. PICK T \in K : \A x \in T : T \ {x} \notin K
    BY SmallestSubset DEF Sized
<1>2. CASE T = {}
    <2> DEFINE w == [X \in SUBSET {} |-> 0]
    <2>1. w \in [SUBSET {} -> Nat] /\ w[{}] = 0 OBVIOUS
    <2>2. Adds({}, w) BY <2>1 DEF Adds
    <2> QED BY <1>1, <1>2, <2>2
<1>3. CASE T # {}
    <2>1. PICK x \in T : TRUE BY <1>3
    <2>2. PICK w : Adds(T \ {x}, w) BY <1>1, <2>1
    <2>3. \A y \in T : Size(y) \in Nat BY <1>1 DEF Sized
    <2> DEFINE v == [X \in SUBSET T |-> IF x \in X THEN w[X \ {x}] + Size(x) ELSE w[X]]
    <2>4. w \in [SUBSET (T \ {x}) -> Nat] /\ w[{}] = 0 BY <2>2 DEF Adds
    <2>5. v \in [SUBSET T -> Nat] BY <2>1, <2>3, <2>4
    <2>6. v[{}] = 0 BY <2>4
    <2>7. ASSUME NEW X \in SUBSET T, NEW y \in T \ X PROVE v[X \cup {y}] = v[X] + Size(y)
        <3>0. X \cup {y} \in SUBSET T BY <2>7
        <3>1. CASE y = x
            <4>1. (X \cup {y}) \ {x} = X /\ x \notin X BY <2>7, <3>1
            <4> QED BY <3>0, <3>1, <4>1
        <3>2. CASE y # x /\ x \in X
            <4>1. (X \cup {y}) \ {x} = (X \ {x}) \cup {y} BY <3>2
            <4>2. X \ {x} \in SUBSET (T \ {x}) /\ y \in (T \ {x}) \ (X \ {x})
                BY <2>7, <3>2
            <4>3. w[(X \ {x}) \cup {y}] = w[X \ {x}] + Size(y) BY <2>2, <4>2 DEF Adds
            <4>4. v[X \cup {y}] = w[(X \ {x}) \cup {y}] + Size(x) BY <3>0, <3>2, <4>1
            <4>5. v[X] = w[X \ {x}] + Size(x) BY <3>2
            <4>6. w[X \ {x}] \in Nat /\ Size(x) \in Nat /\ Size(y) \in Nat
                BY <2>3, <2>4, <4>2
            <4> QED BY <4>3, <4>4, <4>5, <4>6
        <3>3. CASE y # x /\ x \notin X
            <4>1. X \in SUBSET (T \ {x}) /\ y \in (T \ {x}) \ X BY <2>7, <3>3
            <4>2. w[X \cup {y}] = w[X] + Size(y) BY <2>2, <4>1 DEF Adds
            <4> QED BY <3>0, <3>3, <4>2
        <3> QED BY <3>1, <3>2, <3>3
    <2> HIDE DEF v
    <2>8. Adds(T, v) BY <2>5, <2>6, <2>7 DEF Adds
    <2> QED BY <1>1, <2>8
<1> QED BY <1>2, <1>3

\* The sum is the value of any such function.
LEMMA SumAdds ==
    ASSUME NEW S, Sized(S), NEW w, Adds(S, w)
    PROVE  Sum(S) = w[S]
<1> DEFINE pick(T) == CHOOSE x \in T : TRUE
<1>1. \A T \in SUBSET S : T # {} =>
          /\ pick(T) \in T /\ T \ {pick(T)} \in SUBSET S
          /\ w[T] = w[T \ {pick(T)}] + Size(pick(T))
    <2> SUFFICES ASSUME NEW T \in SUBSET S, T # {}
                 PROVE  /\ pick(T) \in T /\ T \ {pick(T)} \in SUBSET S
                        /\ w[T] = w[T \ {pick(T)}] + Size(pick(T))
        OBVIOUS
    <2>1. pick(T) \in T OBVIOUS
    <2> HIDE DEF pick
    <2>2. (T \ {pick(T)}) \cup {pick(T)} = T BY <2>1
    <2>3. T \ {pick(T)} \in SUBSET S /\ pick(T) \in S \ (T \ {pick(T)}) BY <2>1
    <2> QED BY <2>1, <2>2, <2>3 DEF Adds
<1>2. /\ w \in [SUBSET S -> Nat] /\ w[{}] = 0 /\ \A x \in S : Size(x) \in Nat
    BY DEF Adds, Sized
<1>3. SumFn(S, w)
    <2> DEFINE v == [T \in SUBSET S |-> IF T = {} THEN 0 ELSE Size(pick(T)) + w[T \ {pick(T)}]]
    <2>1. \A T \in SUBSET S : w[T] = v[T]
        <3> SUFFICES ASSUME NEW T \in SUBSET S PROVE w[T] = v[T]
            OBVIOUS
        <3>1. CASE T = {} BY <1>2, <3>1
        <3>2. CASE T # {}
            <4>1. /\ pick(T) \in S /\ T \ {pick(T)} \in SUBSET S
                  /\ w[T] = w[T \ {pick(T)}] + Size(pick(T))
                BY <1>1, <3>2
            <4> HIDE DEF pick
            <4>2. v[T] = Size(pick(T)) + w[T \ {pick(T)}] BY <3>2
            <4>3. w[T \ {pick(T)}] \in Nat /\ Size(pick(T)) \in Nat BY <1>2, <4>1
            <4> QED BY <4>1, <4>2, <4>3
        <3> QED BY <3>1, <3>2
    <2>2. w = v BY <1>2, <2>1
    <2> QED BY <2>2, Zenon DEF SumFn
<1>4. PICK a : SumFn(S, a) /\ Sum(S) = a[S] BY <1>3, SumIs
<1>5. /\ a[{}] = 0
      /\ \A T \in SUBSET S : T # {} => a[T] = Size(pick(T)) + a[T \ {pick(T)}]
    BY <1>4 DEF SumFn
<1> HIDE DEF pick
<1> DEFINE K == {T \in SUBSET S : a[T] # w[T]}
<1>6. K = {}
    <2> SUFFICES ASSUME K # {} PROVE FALSE
        OBVIOUS
    <2>1. PICK T \in K : \A x \in T : T \ {x} \notin K
        BY SmallestSubset DEF Sized
    <2>2. T # {} BY <1>2, <1>5, <2>1
    <2>3. /\ pick(T) \in T /\ T \ {pick(T)} \in SUBSET S
          /\ w[T] = w[T \ {pick(T)}] + Size(pick(T))
        BY <1>1, <2>1, <2>2
    <2>4. a[T \ {pick(T)}] = w[T \ {pick(T)}] BY <2>1, <2>3
    <2>5. a[T] = Size(pick(T)) + w[T \ {pick(T)}] BY <1>5, <2>1, <2>2, <2>4
    <2>6. Size(pick(T)) \in Nat /\ w[T \ {pick(T)}] \in Nat BY <1>2, <2>1, <2>3
    <2> QED BY <2>1, <2>3, <2>5, <2>6
<1>7. a[S] = w[S] BY <1>6
<1> QED BY <1>4, <1>7

\* A set is the sum of its members, and a part is never more than the whole.
LEMMA SumNone == Sum({}) = 0
<1>1. Sized({}) BY FS_EmptySet DEF Sized
<1>2. PICK w : Adds({}, w) BY <1>1, AddsExists
<1> QED BY <1>1, <1>2, SumAdds DEF Adds

LEMMA SumParts ==
    ASSUME NEW S, Sized(S), NEW w, Adds(S, w), NEW T \in SUBSET S
    PROVE  Sized(T) /\ Sum(T) = w[T] /\ Sum(T) \in Nat
<1>1. Sized(T) BY FS_Subset DEF Sized
<1> DEFINE v == [X \in SUBSET T |-> w[X]]
<1>2. Adds(T, v)
    <2>1. v \in [SUBSET T -> Nat] /\ v[{}] = 0 BY DEF Adds
    <2>2. ASSUME NEW X \in SUBSET T, NEW x \in T \ X PROVE v[X \cup {x}] = v[X] + Size(x)
        <3>1. X \cup {x} \in SUBSET T /\ x \in S \ X BY <2>2
        <3> QED BY <3>1 DEF Adds
    <2> HIDE DEF v
    <2> QED BY <2>1, <2>2 DEF Adds
<1>3. Sum(T) = v[T] BY <1>1, <1>2, SumAdds
<1> QED BY <1>1, <1>3 DEF Adds

LEMMA SumPlus ==
    ASSUME NEW S, Sized(S), NEW x, x \notin S, Size(x) \in Nat
    PROVE  /\ Sized(S \cup {x}) /\ Sum(S) \in Nat
           /\ Sum(S \cup {x}) = Sum(S) + Size(x)
           /\ Cardinality(S \cup {x}) = Cardinality(S) + 1 /\ Cardinality(S) \in Nat
<1>1. Sized(S \cup {x}) BY FS_AddElement DEF Sized
<1>2. PICK w : Adds(S \cup {x}, w) BY <1>1, AddsExists
<1>3. Sum(S) = w[S] /\ Sum(S \cup {x}) = w[S \cup {x}] /\ Sum(S) \in Nat
    BY <1>1, <1>2, SumParts
<1>4. w[S \cup {x}] = w[S] + Size(x)
    <2>1. S \in SUBSET (S \cup {x}) /\ x \in (S \cup {x}) \ S OBVIOUS
    <2> QED BY <1>2, <2>1 DEF Adds
<1>5. Cardinality(S \cup {x}) = Cardinality(S) + 1 /\ Cardinality(S) \in Nat
    BY FS_AddElement, FS_CardinalityType DEF Sized
<1> QED BY <1>1, <1>3, <1>4, <1>5

LEMMA SumMinus ==
    ASSUME NEW S, Sized(S), NEW x \in S
    PROVE  /\ Sized(S \ {x}) /\ Sum(S \ {x}) \in Nat
           /\ Sum(S \ {x}) = Sum(S) - Size(x)
           /\ Cardinality(S \ {x}) = Cardinality(S) - 1
<1> DEFINE R == S \ {x}
<1>1. Sized(R) /\ x \notin R /\ Size(x) \in Nat BY FS_Subset DEF Sized
<1>2. R \cup {x} = S OBVIOUS
<1> HIDE DEF R
<1>3. /\ Sum(R) \in Nat /\ Sum(S) = Sum(R) + Size(x)
      /\ Cardinality(S) = Cardinality(R) + 1 /\ Cardinality(R) \in Nat
    BY <1>1, <1>2, SumPlus
<1>4. Sum(R) = Sum(S) - Size(x) /\ Cardinality(R) = Cardinality(S) - 1 BY <1>1, <1>3
<1> QED BY <1>1, <1>3, <1>4 DEF R

LEMMA SumMono ==
    ASSUME NEW S, Sized(S), NEW R, R \subseteq S
    PROVE  Sum(R) \in Nat /\ Sum(S) \in Nat /\ Sum(R) <= Sum(S)
<1>1. PICK w : Adds(S, w) BY AddsExists
<1>2. \A T \in SUBSET S : Sized(T) /\ Sum(T) = w[T] /\ Sum(T) \in Nat BY <1>1, SumParts
<1> DEFINE K == {T \in SUBSET S : R \subseteq T /\ ~(Sum(R) <= Sum(T))}
<1>3. K = {}
    <2> SUFFICES ASSUME K # {} PROVE FALSE
        OBVIOUS
    <2>0. K \subseteq SUBSET S /\ IsFiniteSet(S) BY DEF Sized
    <2>1. PICK T \in K : \A x \in T : T \ {x} \notin K
        <3> HIDE DEF K
        <3> QED BY <2>0, SmallestSubset
    <2>2. T # R BY <1>2, <2>1
    <2>3. PICK x \in T : x \notin R BY <2>1, <2>2
    <2>4. T \ {x} \in SUBSET S /\ R \subseteq T \ {x} BY <2>1, <2>3
    <2>5. Sum(R) <= Sum(T \ {x}) BY <2>1, <2>3, <2>4
    <2>6. Sum(T \ {x}) = Sum(T) - Size(x) BY <1>2, <2>1, <2>3, SumMinus
    <2>7. Size(x) \in Nat BY <2>1, <2>3 DEF Sized
    <2>8. Sum(T) \in Nat /\ Sum(R) \in Nat /\ ~(Sum(R) <= Sum(T)) BY <1>2, <2>1
    <2> QED BY <2>5, <2>6, <2>7, <2>8
<1> QED BY <1>2, <1>3

-----------------------------------------------------------------------------
(* What is reserved by a set A of tasks, and how it changes with A.         *)

Limited(A) == {t \in A : ~t.over}
Of(A, d) == {t \in A : t.drv = d}
Holds(A, i) == Sized(A) /\ i = Sum(A) /\ Sum(Limited(A)) <= MaxInflight

LEMMA HoldsParts ==
    ASSUME NEW A, Sized(A), NEW d
    PROVE  /\ Sized(Limited(A)) /\ Sized(Of(A, d))
           /\ Sum(A) \in Nat /\ Sum(Limited(A)) \in Nat /\ Sum(Limited(A)) <= Sum(A)
<1>1. Limited(A) \subseteq A /\ Of(A, d) \subseteq A BY DEF Limited, Of
<1>2. Sized(Limited(A)) /\ Sized(Of(A, d)) BY <1>1, FS_Subset DEF Sized
<1> QED BY <1>1, <1>2, SumMono

\* A task is added, past the limit or where it fits.
LEMMA HoldsAdd ==
    ASSUME NEW A, NEW i, Holds(A, i), NEW x, x \notin A, Size(x) \in Nat, MaxInflight \in Nat,
           x.over \/ Sum(Limited(A)) + Size(x) <= MaxInflight
    PROVE  /\ Holds(A \cup {x}, i + Size(x))
           /\ \A d : Cardinality(Of(A \cup {x}, d))
                       = Cardinality(Of(A, d)) + IF x.drv = d THEN 1 ELSE 0
<1>1. Sized(A) /\ i = Sum(A) /\ Sum(Limited(A)) <= MaxInflight BY DEF Holds
<1>2. Sized(A \cup {x}) /\ Sum(A \cup {x}) = i + Size(x) BY <1>1, SumPlus
<1>3. /\ Sized(Limited(A)) /\ Sum(A) \in Nat /\ Sum(Limited(A)) \in Nat
      /\ Sum(Limited(A)) <= Sum(A)
    BY <1>1, HoldsParts
<1>4. Sum(Limited(A \cup {x})) <= MaxInflight
    <2>1. CASE x.over
        <3>1. Limited(A \cup {x}) = Limited(A) BY <2>1 DEF Limited
        <3> QED BY <1>1, <3>1
    <2>2. CASE ~x.over
        <3>1. Limited(A \cup {x}) = Limited(A) \cup {x} /\ x \notin Limited(A)
            BY <2>2 DEF Limited
        <3>2. Sum(Limited(A) \cup {x}) = Sum(Limited(A)) + Size(x) BY <1>3, <3>1, SumPlus
        <3> QED BY <2>2, <3>1, <3>2
    <2> QED BY <2>1, <2>2
<1>5. ASSUME NEW d
      PROVE  Cardinality(Of(A \cup {x}, d)) = Cardinality(Of(A, d)) + IF x.drv = d THEN 1 ELSE 0
    <2>1. Sized(Of(A, d)) BY <1>1, HoldsParts
    <2>2. CASE x.drv = d
        <3>1. Of(A \cup {x}, d) = Of(A, d) \cup {x} /\ x \notin Of(A, d) BY <2>2 DEF Of
        <3> QED BY <2>1, <2>2, <3>1, SumPlus
    <2>3. CASE x.drv # d
        <3>1. Of(A \cup {x}, d) = Of(A, d) BY <2>3 DEF Of
        <3>2. Cardinality(Of(A, d)) \in Nat BY <2>1, FS_CardinalityType DEF Sized
        <3> QED BY <2>3, <3>1, <3>2
    <2> QED BY <2>2, <2>3
<1> QED BY <1>2, <1>4, <1>5 DEF Holds

LEMMA HoldsDrop ==
    ASSUME NEW A, NEW i, Holds(A, i), NEW x \in A, MaxInflight \in Nat
    PROVE  /\ Holds(A \ {x}, i - Size(x))
           /\ \A d : Cardinality(Of(A \ {x}, d))
                       = Cardinality(Of(A, d)) - IF x.drv = d THEN 1 ELSE 0
<1>1. Sized(A) /\ i = Sum(A) /\ Sum(Limited(A)) <= MaxInflight BY DEF Holds
<1>2. Sized(A \ {x}) /\ Sum(A \ {x}) = i - Size(x) BY <1>1, SumMinus
<1>3. /\ Sum(Limited(A \ {x})) \in Nat /\ Sum(Limited(A)) \in Nat
      /\ Sum(Limited(A \ {x})) <= Sum(Limited(A))
    <2>1. Limited(A \ {x}) \subseteq Limited(A) BY DEF Limited
    <2>2. Sized(Limited(A)) BY <1>1, HoldsParts
    <2> QED BY <2>1, <2>2, SumMono
<1>4. Sum(Limited(A \ {x})) <= MaxInflight BY <1>1, <1>3
<1>5. ASSUME NEW d
      PROVE  Cardinality(Of(A \ {x}, d)) = Cardinality(Of(A, d)) - IF x.drv = d THEN 1 ELSE 0
    <2>1. Sized(Of(A, d)) BY <1>1, HoldsParts
    <2>2. CASE x.drv = d
        <3>1. Of(A \ {x}, d) = Of(A, d) \ {x} /\ x \in Of(A, d) BY <2>2 DEF Of
        <3> QED BY <2>1, <2>2, <3>1, SumMinus
    <2>3. CASE x.drv # d
        <3>1. Of(A \ {x}, d) = Of(A, d) BY <2>3 DEF Of
        <3>2. Cardinality(Of(A, d)) \in Nat BY <2>1, FS_CardinalityType DEF Sized
        <3> QED BY <2>3, <3>1, <3>2
    <2> QED BY <2>2, <2>3
<1> QED BY <1>2, <1>4, <1>5 DEF Holds

\* A task moves on in its call: neither its size nor whose it is changes.
LEMMA HoldsSwap ==
    ASSUME NEW A, NEW i, Holds(A, i), NEW x \in A, NEW y, y \notin A \ {x}, MaxInflight \in Nat,
           x \in TaskRecs, y.chunks = x.chunks, y.drv = x.drv, y.over = x.over
    PROVE  /\ Holds((A \ {x}) \cup {y}, i)
           /\ \A d : Cardinality(Of((A \ {x}) \cup {y}, d)) = Cardinality(Of(A, d))
<1> DEFINE B == A \ {x}
           z == Size(x)
<1>1. Size(y) = z /\ z \in Nat BY SizeNat DEF Size
<1> HIDE DEF z
<1>2. /\ Holds(B, i - z)
      /\ \A d : Cardinality(Of(B, d)) = Cardinality(Of(A, d)) - IF x.drv = d THEN 1 ELSE 0
    BY HoldsDrop DEF z
<1>3. Sized(A) /\ i = Sum(A) /\ Sum(Limited(A)) <= MaxInflight BY DEF Holds
<1>4. i \in Nat /\ Sized(Limited(A)) /\ Sum(Limited(A)) \in Nat BY <1>3, HoldsParts
<1>5. y.over \/ Sum(Limited(B)) + Size(y) <= MaxInflight
    <2>1. CASE x.over BY <2>1
    <2>2. CASE ~x.over
        <3>1. Limited(B) = Limited(A) \ {x} /\ x \in Limited(A) BY <2>2 DEF Limited
        <3>2. Sum(Limited(B)) = Sum(Limited(A)) - z BY <1>4, <3>1, SumMinus DEF z
        <3> QED BY <1>1, <1>3, <1>4, <3>2
    <2> QED BY <2>1, <2>2
<1>6. y \notin B /\ Size(y) \in Nat BY <1>1
<1> HIDE DEF B
<1>7. /\ Holds(B \cup {y}, (i - z) + Size(y))
      /\ \A d : Cardinality(Of(B \cup {y}, d))
                  = Cardinality(Of(B, d)) + IF y.drv = d THEN 1 ELSE 0
    <2> DEFINE j == i - z
    <2>1. Holds(B, j) BY <1>2
    <2> HIDE DEF j
    <2>2. /\ Holds(B \cup {y}, j + Size(y))
          /\ \A d : Cardinality(Of(B \cup {y}, d))
                      = Cardinality(Of(B, d)) + IF y.drv = d THEN 1 ELSE 0
        BY <1>5, <1>6, <2>1, HoldsAdd
    <2> QED BY <2>2 DEF j
<1>8. (i - z) + Size(y) = i BY <1>1, <1>4
<1>9. ASSUME NEW d PROVE Cardinality(Of(B \cup {y}, d)) = Cardinality(Of(A, d))
    <2>1. Sized(Of(A, d)) BY <1>3, HoldsParts
    <2>2. Cardinality(Of(A, d)) \in Nat BY <2>1, FS_CardinalityType DEF Sized
    <2>3. Cardinality(Of(B, d)) = Cardinality(Of(A, d)) - IF x.drv = d THEN 1 ELSE 0 BY <1>2
    <2>4. Cardinality(Of(B \cup {y}, d))
              = Cardinality(Of(B, d)) + IF x.drv = d THEN 1 ELSE 0
        BY <1>7
    <2> QED BY <2>2, <2>3, <2>4
<1>10. Holds(B \cup {y}, i) BY <1>7, <1>8
<1> QED BY <1>9, <1>10 DEF B
-----------------------------------------------------------------------------
(* Flushing: R holds what was reserved before sink d's flush, k its tasks.  *)

Elems(out) == {out[i] : i \in 1 .. Len(out)}
RestOK(d, R, m) ==
    \A t \in R : t \in TaskRecs /\ (t.drv = d => ~t.eos /\ t.chunks # <<>> /\ Hi(t) <= m)
FlushAcc(d, R, k, f) ==
    /\ Holds(R \cup Elems(f.out), f.inflight)
    /\ Cardinality(Of(R \cup Elems(f.out), d)) = k + Len(f.out)

LEMMA ElemsAppend ==
    ASSUME NEW S, NEW out \in Seq(S), NEW q \in S
    PROVE  /\ Elems(Append(out, q)) = Elems(out) \cup {q}
           /\ Len(Append(out, q)) = Len(out) + 1 /\ Len(out) \in Nat
<1>1. /\ Len(Append(out, q)) = Len(out) + 1 /\ Len(out) \in Nat
      /\ \A i \in 1 .. Len(out) : Append(out, q)[i] = out[i]
      /\ Append(out, q)[Len(out) + 1] = q
    BY AppendProperties, LenProperties
<1> DEFINE new == Append(out, q)
<1> HIDE DEF new
<1>2. /\ Len(new) = Len(out) + 1 /\ \A i \in 1 .. Len(out) : new[i] = out[i]
      /\ new[Len(out) + 1] = q
    BY <1>1 DEF new
<1>3. ASSUME NEW x PROVE x \in Elems(new) <=> x \in Elems(out) \cup {q}
    <2>1. ASSUME x \in Elems(new) PROVE x \in Elems(out) \cup {q}
        <3>1. PICK i \in 1 .. Len(new) : x = new[i] BY <2>1 DEF Elems
        <3>2. CASE i = Len(out) + 1 BY <1>2, <3>1, <3>2
        <3>3. CASE i \in 1 .. Len(out) BY <1>2, <3>1, <3>3 DEF Elems
        <3> QED BY <1>1, <1>2, <3>2, <3>3
    <2>2. ASSUME x \in Elems(out) PROVE x \in Elems(new)
        <3>1. PICK i \in 1 .. Len(out) : x = out[i] BY <2>2 DEF Elems
        <3>2. i \in 1 .. Len(new) /\ x = new[i] BY <1>1, <1>2, <3>1
        <3> QED BY <3>2 DEF Elems
    <2>3. q \in Elems(new)
        <3>1. Len(out) + 1 \in 1 .. Len(new) BY <1>1, <1>2
        <3> QED BY <1>2, <3>1 DEF Elems
    <2> QED BY <2>1, <2>2, <2>3
<1> QED BY <1>1, <1>3 DEF new

\* A payload that is about to be enqueued is not among the tasks reserved so
\* far: it begins where the last of its driver's ends.
Fresh(p, A) == \A q \in TaskRecs : q.drv = p.drv /\ q.chunks = p.chunks => q \notin A

LEMMA FreshTask ==
    ASSUME setup \in Setups, NEW d, NEW n \in Nat, NEW m \in Nat, NEW f \in FlushRecs,
           NEW p \in TaskRecs, p.pc = "send", p.at = 0, PartsOK(d, n, m, f.pend, p, f.out),
           NEW R, RestOK(d, R, m)
    PROVE  Fresh(p, R \cup Elems(f.out)) /\ p.drv = d
<1> DEFINE hi == n - Len(f.pend) - Len(p.chunks)
<1>1. p # NoPayload BY SomePayload
<1>2. PayLen(p) = Len(p.chunks) BY <1>1 DEF PayLen
<1>3. m <= hi /\ PayOK(d, p, hi) /\ OutOK(d, f.out, m, hi) BY <1>2 DEF PartsOK, SentBy
<1>4. f.pend \in Seq(Chunks) /\ p.chunks \in Seq(Chunks) BY DEF FlushRecs, TaskRecs
<1>5. hi \in Int
    <2>1. Len(f.pend) \in Nat /\ Len(p.chunks) \in Nat BY <1>4, LenProperties
    <2> QED BY <2>1
<1> HIDE DEF hi
<1>6. p.drv = d /\ p.chunks # <<>> /\ Run(d, p.chunks, hi) BY <1>1, <1>3 DEF PayOK
<1> SUFFICES ASSUME NEW q \in TaskRecs, q.drv = p.drv, q.chunks = p.chunks
             PROVE  q \notin R \cup Elems(f.out)
    BY <1>6 DEF Fresh
<1>7. Len(q.chunks) \in Nat \ {0} /\ Hi(q) = hi + Len(q.chunks) BY <1>5, <1>6, RunBounds
<1>8. hi < Hi(q) /\ m < Hi(q) BY <1>3, <1>5, <1>7
<1>9. q \notin R
    <2> SUFFICES ASSUME q \in R PROVE FALSE
        OBVIOUS
    <2>1. Hi(q) <= m BY <1>6 DEF RestOK
    <2> QED BY <1>5, <1>7, <1>8, <2>1
<1>10. q \notin Elems(f.out)
    <2> SUFFICES ASSUME NEW i \in 1 .. Len(f.out), q = f.out[i] PROVE FALSE
        BY DEF Elems
    <2>1. Hi(q) <= hi BY <1>3 DEF OutOK, OutTask
    <2> QED BY <1>5, <1>7, <1>8, <2>1
<1> QED BY <1>6, <1>9, <1>10

LEMMA TryAcc ==
    ASSUME setup \in Setups, NEW d, NEW n \in Nat, NEW m \in Nat, NEW f \in FlushRecs,
           NEW p \in TaskRecs, p.pc = "send", p.at = 0, PartsOK(d, n, m, f.pend, p, f.out),
           NEW R, RestOK(d, R, m), NEW k \in Int, FlushAcc(d, R, k, f), NEW overflow \in BOOLEAN
    PROVE  FlushAcc(d, R, k, TryEnqueuePayload(f, p, overflow))
<1> DEFINE g == TryEnqueuePayload(f, p, overflow)
           A == R \cup Elems(f.out)
<1>0. f.out \in Seq(TaskRecs) /\ f.inflight \in Int /\ MaxInflight \in Nat
    BY SetupFacts DEF FlushRecs
<1>1. ASSUME NEW over \in BOOLEAN, g = Enqueued(f, p, over),
             over \/ f.inflight + Size(p) <= MaxInflight
      PROVE  FlushAcc(d, R, k, g)
    <2> DEFINE q == [p EXCEPT !.over = over]
    <2>1. q \in TaskRecs /\ q.drv = p.drv /\ q.chunks = p.chunks /\ q.over = over
        BY DEF TaskRecs
    <2>2. g.out = Append(f.out, q) /\ g.inflight = f.inflight + Size(p)
        BY <1>1 DEF FlushRecs, Enqueued
    <2> HIDE DEF q, g
    <2>3. q \notin A /\ p.drv = d 
        <3>1. Fresh(p, A) /\ p.drv = d BY FreshTask
        <3> QED BY <2>1, <3>1 DEF Fresh
    <2>4. Elems(g.out) = Elems(f.out) \cup {q} /\ Len(g.out) = Len(f.out) + 1 /\ Len(f.out) \in Nat
        BY <1>0, <2>1, <2>2, ElemsAppend
    <2>5. R \cup Elems(g.out) = A \cup {q} BY <2>4
    <2>6. Size(q) = Size(p) /\ Size(q) \in Nat BY <2>1, SizeNat DEF Size
    <2>7. Holds(A, f.inflight) /\ Cardinality(Of(A, d)) = k + Len(f.out) BY DEF FlushAcc
    <2> HIDE DEF A
    <2>8. q.over \/ Sum(Limited(A)) + Size(q) <= MaxInflight
        <3>1. CASE over BY <2>1, <3>1
        <3>2. CASE f.inflight + Size(p) <= MaxInflight
            <4>1. f.inflight = Sum(A) /\ Sized(A) BY <2>7 DEF Holds
            <4>2. Sum(A) \in Nat /\ Sum(Limited(A)) \in Nat /\ Sum(Limited(A)) <= Sum(A)
                BY <4>1, HoldsParts
            <4>3. Sum(Limited(A)) + Size(q) <= MaxInflight BY <1>0, <2>6, <3>2, <4>1, <4>2
            <4> QED BY <4>3
        <3> QED BY <1>1, <3>1, <3>2
    <2>9. /\ Holds(A \cup {q}, f.inflight + Size(q))
          /\ Cardinality(Of(A \cup {q}, d)) = Cardinality(Of(A, d)) + IF q.drv = d THEN 1 ELSE 0
        <3> PICK i : i = f.inflight OBVIOUS
        <3>1. Holds(A, i) BY <2>7
        <3>2. /\ Holds(A \cup {q}, i + Size(q))
              /\ \A x : Cardinality(Of(A \cup {q}, x))
                          = Cardinality(Of(A, x)) + IF q.drv = x THEN 1 ELSE 0
            BY <1>0, <2>3, <2>6, <2>8, <3>1, HoldsAdd
        <3> QED BY <3>2
    <2>10. Cardinality(Of(A \cup {q}, d)) = k + Len(g.out) BY <2>1, <2>3, <2>4, <2>7, <2>9
    <2> QED BY <2>2, <2>5, <2>6, <2>9, <2>10 DEF FlushAcc
<1>2. CASE g = [f EXCEPT !.pay = p]
    <2>1. g.out = f.out /\ g.inflight = f.inflight BY <1>2 DEF FlushRecs
    <2> HIDE DEF g
    <2>2. FlushAcc(d, R, k, g) BY <2>1 DEF FlushAcc
    <2> QED BY <2>2 DEF g
<1> HIDE DEF g, A
<1>3. \/ \E over \in BOOLEAN : /\ g = Enqueued(f, p, over)
                               /\ over \/ f.inflight + Size(p) <= MaxInflight
      \/ g = [f EXCEPT !.pay = p]
    BY TryCases, Zenon DEF g
<1> QED BY <1>1, <1>2, <1>3 DEF g

LEMMA WaitingAcc ==
    ASSUME setup \in Setups, NEW d, NEW n \in Nat, NEW m \in Nat, NEW f, FlushOK(d, n, m, f),
           NEW R, RestOK(d, R, m), NEW k \in Int, FlushAcc(d, R, k, f), NEW overflow \in BOOLEAN
    PROVE  FlushAcc(d, R, k, FlushWaiting(f, overflow))
<1>1. CASE f.pay = NoPayload BY <1>1 DEF FlushWaiting
<1>2. CASE f.pay # NoPayload
    <2>1. f \in FlushRecs /\ f.pay \in TaskRecs BY <1>2 DEF FlushOK, FlushRecs
    <2>2. PartsOK(d, n, m, f.pend, f.pay, f.out) BY DEF FlushOK
    <2>3. f.pay.pc = "send" /\ f.pay.at = 0 BY <1>2, <2>2 DEF PartsOK, PayOK
    <2>4. FlushWaiting(f, overflow) = TryEnqueuePayload(f, f.pay, overflow)
        BY <1>2 DEF FlushWaiting
    <2> QED BY <2>1, <2>2, <2>3, <2>4, TryAcc
<1> QED BY <1>1, <1>2

LEMMA TransmitAcc ==
    ASSUME setup \in Setups, NEW d \in Sinks, NEW n \in Nat, NEW m \in Nat, NEW f,
           FlushOK(d, n, m, f), f.pay = NoPayload, f.pend # <<>>,
           NEW R, RestOK(d, R, m), NEW k \in Int, FlushAcc(d, R, k, f), NEW overflow \in BOOLEAN
    PROVE  FlushAcc(d, R, k, TransmitBatch(d, f, overflow))
<1>1. PICK g \in FlushRecs, p \in TaskRecs :
          /\ TransmitBatch(d, f, overflow) = TryEnqueuePayload(g, p, overflow)
          /\ g.out = f.out /\ g.inflight = f.inflight /\ Len(g.pend) < Len(f.pend)
          /\ p.pc = "send" /\ p.at = 0 /\ PartsOK(d, n, m, g.pend, p, g.out)
    BY TransmitParts
<1>2. FlushAcc(d, R, k, g) BY <1>1 DEF FlushAcc
<1>3. FlushAcc(d, R, k, TryEnqueuePayload(g, p, overflow)) BY <1>1, <1>2, TryAcc
<1> QED BY <1>1, <1>3

LEMMA PendingAcc ==
    ASSUME setup \in Setups, NEW d \in Sinks, NEW n \in Nat, NEW m \in Nat, NEW f,
           FlushOK(d, n, m, f), NEW R, RestOK(d, R, m), NEW k \in Int, FlushAcc(d, R, k, f)
    PROVE  FlushAcc(d, R, k, FlushPending(d, f))
<1> DEFINE g == FlushWaiting(f, FALSE)
<1>1. FlushOK(d, n, m, g) BY WaitingOK
<1>2. FlushAcc(d, R, k, g) BY WaitingAcc
<1>3. FlushPending(d, f) = IF g.pay # NoPayload \/ Len(g.pend) < BatchBytes THEN g
                           ELSE TransmitBatch(d, g, FALSE)
    BY DEF FlushPending
<1> HIDE DEF g
<1>4. CASE g.pay # NoPayload \/ Len(g.pend) < BatchBytes BY <1>2, <1>3, <1>4
<1>5. CASE g.pay = NoPayload /\ ~(Len(g.pend) < BatchBytes)
    <2>1. g.pend # <<>> BY <1>5, SetupFacts, EmptySeq
    <2> QED BY <1>1, <1>2, <1>3, <1>5, <2>1, TransmitAcc
<1> QED BY <1>4, <1>5

LEMMA ForcedAcc ==
    ASSUME setup \in Setups, NEW d \in Sinks, NEW n \in Nat, NEW m \in Nat, NEW f,
           FlushOK(d, n, m, f), NEW R, RestOK(d, R, m), NEW k \in Int, FlushAcc(d, R, k, f)
    PROVE  FlushAcc(d, R, k, FlushForced(d, f))
<1> DEFINE g == FlushWaiting(f, TRUE)
           len == Len(g.pend)
<1>1. FlushOK(d, n, m, g) /\ g.pay = NoPayload BY WaitingOK
<1>2. FlushAcc(d, R, k, g) BY WaitingAcc
<1>3. g.pend \in Seq(Chunks) BY <1>1 DEF FlushOK, FlushRecs
<1>4. len \in Nat /\ len = Len(g.pend) BY <1>3, LenProperties
<1>5. PICK h : Steps(d, g, len, h) /\ FlushForced(d, f) = h[len] BY <1>4, ForcedSteps
<1> HIDE DEF g, len
<1>6. \A j \in 0 .. len : FlushOK(d, n, m, h[j]) /\ h[j].pay = NoPayload
    BY <1>1, <1>4, <1>5, StepsOK
<1> DEFINE Bad == {j \in 0 .. len : ~FlushAcc(d, R, k, h[j])}
<1>7. Bad = {}
    <2> SUFFICES ASSUME Bad # {} PROVE FALSE
        OBVIOUS
    <2>0. Bad \subseteq Nat BY <1>4
    <2>1. PICK j \in Bad : \A i \in Nat : i < j => i \notin Bad BY <2>0, LeastNat
    <2>2. j # 0 BY <1>2, <1>5, <2>1 DEF Steps
    <2>3. j \in 1 .. len /\ j - 1 \in Nat /\ j - 1 < j /\ j - 1 \in 0 .. len
        BY <1>4, <2>1, <2>2
    <2> DEFINE u == h[j - 1]
    <2>4. FlushAcc(d, R, k, u) /\ FlushOK(d, n, m, u) /\ u.pay = NoPayload
        BY <1>6, <2>1, <2>3
    <2>5. h[j] = ForceStep(d, u) BY <1>5, <2>3 DEF Steps
    <2> HIDE DEF u
    <2>6. FlushAcc(d, R, k, ForceStep(d, u)) BY <2>4, TransmitAcc DEF ForceStep
    <2> QED BY <2>1, <2>5, <2>6
<1>8. len \in 0 .. len BY <1>4
<1> QED BY <1>5, <1>7, <1>8

-----------------------------------------------------------------------------
(* The steps of the exchange *)

Accounted == /\ Holds(Reserved, inflight)
             /\ \A d \in Sinks : track[d] = Cardinality(Of(Reserved, d))

LEMMA AccountedStill ==
    ASSUME Accounted, setup' = setup, Reserved' = Reserved, UNCHANGED <<inflight, track>>
    PROVE  Accounted'
<1>1. MaxInflight' = MaxInflight /\ Sinks' = Sinks BY SameSets
<1>2. Holds(Reserved, inflight)' BY <1>1 DEF Accounted, Holds
<1>3. \A d : Of(Reserved, d)' = Of(Reserved, d) BY DEF Of
<1> QED BY <1>1, <1>2, <1>3 DEF Accounted

LEMMA QueueUntouched ==
    ASSUME Accounted, UNCHANGED <<setup, lane, io, inflight, track>>
    PROVE  Accounted'
<1>1. Senders' = Senders BY SameSets
<1>2. Tasks' = Tasks BY <1>1 DEF Tasks
<1>3. Reserved' = Reserved BY <1>2 DEF Reserved
<1> QED BY <1>3, AccountedStill

\* A flush that accounts for what it enqueues leaves the queue accounted for.
LEMMA StoreAcc ==
    ASSUME SendShape, QueueOK, Accounted, setup' = setup, NEW d \in Sinks, NEW f,
           f.out \in Seq(TaskRecs), FlushAcc(d, Reserved, track[d], f), Store(d, f),
           \A i \in 1 .. Len(f.out) : f.out[i].drv = d /\ f.out[i].pc = "send"
    PROVE  Accounted'
<1> PICK out, R, A : out = f.out /\ R = Reserved /\ A = R \cup Elems(out) OBVIOUS
<1>1. inflight' = f.inflight /\ EnqueueTasks(d, out) BY DEF Store
<1>2. \A t : t \in Tasks' <=> t \in Tasks \/ \E i \in 1 .. Len(out) : t = out[i]
    BY <1>1, EnqueuedTasks
<1>3. Reserved' = A BY <1>2 DEF Reserved, Elems
<1>4. MaxInflight' = MaxInflight /\ Sinks' = Sinks BY SameSets
<1>5. Holds(A, f.inflight) /\ Cardinality(Of(A, d)) = track[d] + Len(out) BY DEF FlushAcc
<1>6. Holds(Reserved, inflight)'
    BY <1>1, <1>3, <1>4, <1>5 DEF Holds
<1>7. \A x \in Sinks : track'[x] = Cardinality(Of(A, x))
    <2> SUFFICES ASSUME NEW x \in Sinks PROVE track'[x] = Cardinality(Of(A, x))
        OBVIOUS
    <2>1. track \in [Sinks -> Int] /\ track' = [track EXCEPT ![d] = @ + Len(out)]
        BY <1>1 DEF EnqueueTasks, SendShape
    <2>2. CASE x = d BY <1>5, <2>1, <2>2
    <2>3. CASE x # d
        <3>1. Of(A, x) = Of(R, x) BY <2>3 DEF Of, Elems
        <3> QED BY <2>1, <2>3, <3>1 DEF Accounted
    <2> QED BY <2>2, <2>3
<1>8. \A x : Of(Reserved, x)' = Of(A, x) BY <1>3 DEF Of
<1> QED BY <1>4, <1>6, <1>7, <1>8 DEF Accounted

\* What a flush starts from.
LEMMA StartAcc ==
    ASSUME ExInv, Accounted, NEW d \in Sinks, left[SenderOf[d]] # 0
    PROVE  /\ RestOK(d, Reserved, Sent(d)) /\ track[d] \in Int
           /\ FlushAcc(d, Reserved, track[d], Buffers(d))
<1>0. SendShape /\ TasksOK /\ QueueOK BY DEF ExInv
<1>1. RestOK(d, Reserved, Sent(d))
    <2> SUFFICES ASSUME NEW t \in Tasks
                 PROVE  /\ t \in TaskRecs
                        /\ t.drv = d => ~t.eos /\ t.chunks # <<>> /\ Hi(t) <= Sent(d)
        BY DEF RestOK, Reserved
    <2>1. t \in TaskRecs /\ TaskOK(t) BY <1>0, TaskFacts
    <2> QED BY <2>1 DEF TaskOK
<1>2. track[d] \in Int BY <1>0 DEF SendShape
<1>3. Buffers(d).out = <<>> /\ Buffers(d).inflight = inflight BY DEF Buffers
<1> PICK f : f = Buffers(d) OBVIOUS
<1>4. Len(f.out) = 0 BY <1>3, EmptySeq
<1>5. Elems(f.out) = {} BY <1>4 DEF Elems
<1>6. Reserved \cup Elems(f.out) = Reserved BY <1>5
<1>7. track[d] = Cardinality(Of(Reserved, d)) /\ track[d] + 0 = track[d] BY <1>2 DEF Accounted
<1>8. FlushAcc(d, Reserved, track[d], f)
    <2> PICK R : R = Reserved OBVIOUS
    <2>1. Holds(R, f.inflight) BY <1>3 DEF Accounted
    <2>2. R \cup Elems(f.out) = R BY <1>6
    <2> QED BY <1>4, <1>7, <2>1, <2>2 DEF FlushAcc
<1> QED BY <1>1, <1>2, <1>8

LEMMA FlushOut ==
    ASSUME NEW d, NEW n, NEW m, NEW f, FlushOK(d, n, m, f)
    PROVE  /\ f.out \in Seq(TaskRecs)
           /\ \A i \in 1 .. Len(f.out) : f.out[i].drv = d /\ f.out[i].pc = "send"
BY DEF FlushOK, FlushRecs, PartsOK, OutOK, OutTask

LEMMA PushChunkAcc ==
    ASSUME ExInv, Accounted, setup' = setup, NEW d \in Sinks, PushChunk(d)
    PROVE  Accounted'
<1>0. SendShape /\ SinkOK /\ QueueOK /\ setup \in Setups BY DEF ExInv, SendShape
<1>1. pushed[d] \in Nat /\ ChunksPerSink \in Nat BY <1>0, SetupFacts DEF SendShape
<1>2. sink[d] = "asked" /\ pushed[d] + 1 <= ChunksPerSink
    BY <1>0, <1>1 DEF PushChunk, SinkOK, BuffersOK
<1>3. left[SenderOf[d]] # 0 BY <1>0, <1>2, StillCounted DEF Buffered
<1> PICK n, m, b, R, k : /\ n = pushed[d] /\ m = Sent(d) /\ b = Buffers(d)
                         /\ R = Reserved /\ k = track[d]
    OBVIOUS
<1>4. m \in Nat /\ FlushOK(d, n, m, b) BY <1>0, StartFlush
<1>5. RestOK(d, R, m) /\ k \in Int /\ FlushAcc(d, R, k, b) BY <1>3, StartAcc
<1> PICK f : f = FlushPending(d, b) OBVIOUS
<1>6. FlushOK(d, n, m, f) BY <1>0, <1>1, <1>4, PendingOK
<1>7. FlushAcc(d, R, k, f) BY <1>0, <1>1, <1>4, <1>5, PendingAcc
<1> PICK g : g = [f EXCEPT !.pend = Append(@, <<d, n + 1>>)] OBVIOUS
<1>8. FlushOK(d, n + 1, m, g) BY <1>0, <1>1, <1>2, <1>4, <1>6, PushOnto
<1>9. FlushAcc(d, R, k, g)
    <2>1. f \in FlushRecs BY <1>6 DEF FlushOK
    <2>2. g.out = f.out /\ g.inflight = f.inflight BY <2>1 DEF FlushRecs
    <2> QED BY <1>7, <2>2 DEF FlushAcc
<1> PICK h : h = FlushPending(d, g) OBVIOUS
<1> PICK j : j = n + 1 OBVIOUS
<1>10. FlushOK(d, j, m, h) /\ FlushAcc(d, R, k, h)
    <2>1. j \in Nat /\ FlushOK(d, j, m, g) BY <1>1, <1>8
    <2> QED BY <1>0, <1>4, <1>5, <1>9, <2>1, PendingOK, PendingAcc
<1>11. Store(d, h) BY DEF PushChunk
<1> QED BY <1>0, <1>10, <1>11, FlushOut, StoreAcc

LEMMA SetFinishingAcc ==
    ASSUME ExInv, Accounted, setup' = setup, NEW d \in Sinks, SetFinishing(d)
    PROVE  Accounted'
<1>0. SendShape /\ SinkOK /\ QueueOK /\ setup \in Setups BY DEF ExInv, SendShape
<1>1. pushed[d] \in Nat BY <1>0, SetupFacts DEF SendShape
<1>2. sink[d] = "open" BY DEF SetFinishing
<1>3. left[SenderOf[d]] # 0 BY <1>0, <1>2, StillCounted DEF Buffered
<1> PICK n, m, b, R, k : /\ n = pushed[d] /\ m = Sent(d) /\ b = Buffers(d)
                         /\ R = Reserved /\ k = track[d]
    OBVIOUS
<1>4. m \in Nat /\ FlushOK(d, n, m, b) BY <1>0, StartFlush
<1>5. RestOK(d, R, m) /\ k \in Int /\ FlushAcc(d, R, k, b) BY <1>3, StartAcc
<1> PICK f : f = FlushForced(d, b) OBVIOUS
<1>6. FlushOK(d, n, m, f) BY <1>0, <1>1, <1>4, ForcedOK
<1>7. FlushAcc(d, R, k, f) BY <1>0, <1>1, <1>4, <1>5, ForcedAcc
<1>8. Store(d, f) BY DEF SetFinishing
<1> QED BY <1>0, <1>6, <1>7, <1>8, FlushOut, StoreAcc

\* The end-of-stream is the first of its sender: the count has not been zero.
LEMMA CountDownAcc ==
    ASSUME ExInv, Accounted, setup' = setup, NEW d \in Sinks, CountDown(d)
    PROVE  Accounted'
<1>0. SendShape /\ QueueOK /\ setup \in Setups BY DEF ExInv, SendShape
<1>1. CASE left[SenderOf[d]] # 1
    <2>1. UNCHANGED queueVars BY <1>1 DEF CountDown
    <2> QED BY <2>1, QueueUntouched DEF queueVars
<1>2. CASE left[SenderOf[d]] = 1
    <2> DEFINE p == Payload(d, <<>>, FALSE, TRUE)
               q == [p EXCEPT !.over = TRUE]
    <2>0. PICK b, f : b = Buffers(d) /\ f = TryEnqueuePayload(b, p, TRUE) OBVIOUS
    <2>1. Store(d, f) BY <1>2, <2>0 DEF CountDown
    <2>2. p \in TaskRecs /\ p.drv = d /\ p.pc = "send" /\ p.eos /\ p.chunks = <<>>
        BY EmptySeq DEF Payload, TaskRecs, Places
    <2>3. q \in TaskRecs /\ q.drv = d /\ q.pc = "send" /\ q.eos /\ q.chunks = <<>> /\ q.over
        BY <2>2 DEF TaskRecs
    <2> HIDE DEF p
    <2>4. b.out = <<>> /\ b.inflight = inflight BY <2>0 DEF Buffers
    <2>5. f.out = Append(<<>>, q) /\ f.inflight = inflight + Size(p)
        <3>1. f = Enqueued(b, p, TRUE) BY <2>0 DEF TryEnqueuePayload, Enqueued
        <3>2. {"out", "inflight", "pay"} \subseteq DOMAIN b BY <2>0 DEF Buffers
        <3> QED BY <2>4, <3>1, <3>2 DEF Enqueued
    <2> HIDE DEF q
    <2>6. Size(q) = Size(p) /\ Size(q) \in Nat BY <2>2, <2>3, SizeNat DEF Size
    <2>7. <<>> \in Seq(TaskRecs) /\ Len(<<>>) = 0 BY EmptySeq
    <2>8. /\ f.out \in Seq(TaskRecs) /\ Len(f.out) = 1 /\ f.out[1] = q
        <3>1. \A e \in Seq(TaskRecs) : Len(e) = 0 =>
                  /\ Append(e, q) \in Seq(TaskRecs) /\ Len(Append(e, q)) = 1
                  /\ Append(e, q)[1] = q
            BY <2>3, AppendProperties
        <3> QED BY <2>5, <2>7, <3>1
    <2> PICK R, k, i : R = Reserved /\ k = track[d] /\ i = inflight OBVIOUS
    <2>9. Elems(f.out) = {q} /\ \A j \in 1 .. Len(f.out) : f.out[j] = q
        <3>1. 1 .. Len(f.out) = {1} BY <2>8
        <3> QED BY <2>8, <3>1 DEF Elems
    <2>10. R \cup Elems(f.out) = R \cup {q} BY <2>9
    <2>11. q \notin R
        <3>1. RestOK(d, R, Sent(d)) BY <1>2, StartAcc
        <3> QED BY <2>3, <3>1 DEF RestOK
    <2>12. Holds(R, i) /\ k = Cardinality(Of(R, d)) /\ MaxInflight \in Nat
        BY <1>0, SetupFacts DEF Accounted
    <2>13. /\ Holds(R \cup {q}, i + Size(q))
           /\ \A x : Cardinality(Of(R \cup {q}, x))
                       = Cardinality(Of(R, x)) + IF q.drv = x THEN 1 ELSE 0
        <3>1. q.over \/ Sum(Limited(R)) + Size(q) <= MaxInflight BY <2>3, Zenon
        <3> QED BY <2>6, <2>11, <2>12, <3>1, HoldsAdd
    <2>14. Cardinality(Of(R \cup {q}, d)) = k + 1 BY <2>3, <2>12, <2>13
    <2>15. f.inflight = i + Size(q) BY <2>5, <2>6
    <2>16. FlushAcc(d, R, k, f) BY <2>8, <2>10, <2>13, <2>14, <2>15 DEF FlushAcc
    <2>17. \A j \in 1 .. Len(f.out) : f.out[j].drv = d /\ f.out[j].pc = "send"
        BY <2>3, <2>9
    <2> QED BY <1>0, <2>1, <2>8, <2>16, <2>17, StoreAcc
<1> QED BY <1>1, <1>2

\* A task that moves on in its call leaves its old self and meets nothing new.
LEMMA TaskMoves ==
    ASSUME ExInv, QueueStill, NEW t \in io, NEW u \in TaskRecs, SameTask(t, u),
           io' = (io \ {t}) \cup {u}
    PROVE  /\ Tasks' = (Tasks \ {t}) \cup {u} /\ t \in Tasks /\ t \in TaskRecs
           /\ u \notin Tasks \ {t}
<1>0. SendShape /\ TasksOK /\ QueueOK /\ setup \in Setups BY DEF ExInv, SendShape
<1>1. /\ t \in Tasks /\ u \in Tasks' /\ t \in TaskRecs /\ TaskOK(t)
      /\ \A x \in Tasks' : x = u \/ x \in Tasks
      /\ \A x \in Tasks : x = t \/ x \in Tasks'
      /\ \A x \in Tasks' : x # u /\ SenderOf[x.drv] = SenderOf[t.drv] => Before(t, x)
    BY <1>0, GoesQueue
<1>2. ASSUME NEW x, x.drv = t.drv, x.eos = t.eos, Before(t, x), Lo(x) = Lo(t) PROVE FALSE
    <2>1. ~t.eos /\ Hi(t) <= Lo(t) BY <1>2 DEF Before
    <2>2. t.chunks # <<>> BY <1>1, <2>1 DEF TaskOK
    <2> QED BY <1>0, <1>1, <2>1, <2>2, TaskBounds
<1>3. ASSUME t \in Tasks', t # u PROVE FALSE
    <2>1. Before(t, t) BY <1>1, <1>3
    <2> QED BY <1>2, <2>1
<1>4. ASSUME u \in Tasks, u # t PROVE FALSE
    <2>1. u.drv = t.drv /\ u.eos = t.eos /\ Lo(u) = Lo(t) BY DEF SameTask, Lo
    <2>2. u \notin io BY <1>0, <1>4, <2>1 DEF QueueOK
    <2>3. PICK s \in Senders : \E i \in 1 .. Len(lane[s]) : u = lane[s][i]
        BY <1>0, <1>4, <2>2, InTasks DEF SendShape
    <2>4. PICK i \in 1 .. Len(lane[s]) : u = lane[s][i] BY <2>3
    <2>5. LaneOK(s) BY <1>0 DEF QueueOK
    <2>6. SenderOf[t.drv] = s BY <2>1, <2>4, <2>5 DEF LaneOK
    <2>7. Before(t, u) BY <2>4, <2>5, <2>6 DEF LaneOK
    <2> QED BY <1>2, <2>1, <2>7
<1> QED BY <1>1, <1>3, <1>4

LEMMA CallAcc ==
    ASSUME ExInv, Accounted, QueueStill, UNCHANGED <<inflight, track>>,
           NEW t \in io, NEW u \in TaskRecs, SameTask(t, u), u.over = t.over,
           t.pc # "next", u.pc # "next", io' = (io \ {t}) \cup {u}
    PROVE  Accounted'
<1> PICK R, i : R = Reserved /\ i = inflight OBVIOUS
<1>1. /\ Tasks' = (Tasks \ {t}) \cup {u} /\ t \in Tasks /\ t \in TaskRecs
      /\ u \notin Tasks \ {t}
    BY TaskMoves
<1>2. t \in R /\ u \notin R \ {t} BY <1>1 DEF Reserved
<1> PICK Q : Q = (R \ {t}) \cup {u} OBVIOUS
<1>3. Reserved' = Q BY <1>1 DEF Reserved
<1>4. u.chunks = t.chunks /\ u.drv = t.drv BY DEF SameTask
<1>5. MaxInflight \in Nat /\ Holds(R, i) BY SetupFacts DEF ExInv, SendShape, Accounted
<1>6. Holds(Q, i) /\ \A d : Cardinality(Of(Q, d)) = Cardinality(Of(R, d))
    BY <1>1, <1>2, <1>4, <1>5, HoldsSwap
<1>7. setup' = setup BY DEF QueueStill
<1>8. MaxInflight' = MaxInflight /\ Sinks' = Sinks BY <1>7, SameSets
<1>9. Holds(Reserved, inflight)' BY <1>3, <1>6, <1>8 DEF Holds
<1>10. \A d : Of(Reserved, d)' = Of(Q, d) BY <1>3 DEF Of
<1>11. \A d \in Sinks : track[d] = Cardinality(Of(Q, d)) BY <1>6 DEF Accounted
<1> QED BY <1>8, <1>9, <1>10, <1>11 DEF Accounted

LEMMA CompleteSendAcc ==
    ASSUME ExInv, Accounted, NEW t \in io, CompleteSend(t), setup' = setup
    PROVE  Accounted'
<1>0. t \in TaskRecs /\ track \in [Sinks -> Int] /\ inflight \in Int BY CallFacts
<1> PICK u : u = [t EXCEPT !.pc = "next"] OBVIOUS
<1>1. u \in TaskRecs /\ SameTask(t, u) /\ u.pc = "next"
    BY <1>0 DEF TaskRecs, Places, SameTask
<1>2. /\ t.pc \in {"acked", "refused"} /\ io' = (io \ {t}) \cup {u} /\ QueueStill
      /\ inflight' = inflight - Size(t) /\ track' = [track EXCEPT ![t.drv] = @ - 1]
    BY DEF CompleteSend, QueueStill, sinkVars
<1>3. Tasks' = (Tasks \ {t}) \cup {u} /\ t \in Tasks BY <1>1, <1>2, TaskMoves
<1> PICK R, i, z, Q : R = Reserved /\ i = inflight /\ z = Size(t) /\ Q = R \ {t} OBVIOUS
<1>4. t \in R /\ Reserved' = Q BY <1>1, <1>2, <1>3 DEF Reserved
<1>5. MaxInflight \in Nat /\ Holds(R, i) BY SetupFacts DEF ExInv, SendShape, Accounted
<1>6. /\ Holds(Q, i - z)
      /\ \A d : Cardinality(Of(Q, d)) = Cardinality(Of(R, d)) - IF t.drv = d THEN 1 ELSE 0
    BY <1>4, <1>5, HoldsDrop
<1>7. MaxInflight' = MaxInflight /\ Sinks' = Sinks BY SameSets
<1>8. Holds(Reserved, inflight)' BY <1>2, <1>4, <1>6, <1>7 DEF Holds
<1>9. \A d \in Sinks : track'[d] = Cardinality(Of(Q, d))
    <2> SUFFICES ASSUME NEW d \in Sinks PROVE track'[d] = Cardinality(Of(Q, d))
        OBVIOUS
    <2>1. track[d] = Cardinality(Of(R, d)) /\ track[d] \in Int BY <1>0 DEF Accounted
    <2>2. Cardinality(Of(Q, d)) = Cardinality(Of(R, d)) - IF t.drv = d THEN 1 ELSE 0 BY <1>6
    <2>3. track'[d] = track[d] - IF t.drv = d THEN 1 ELSE 0 BY <1>0, <1>2, <2>1
    <2> QED BY <2>1, <2>2, <2>3
<1>10. \A d : Of(Reserved, d)' = Of(Q, d) BY <1>4 DEF Of
<1> QED BY <1>7, <1>8, <1>9, <1>10 DEF Accounted

LEMMA OnTaskCompleteAcc ==
    ASSUME ExInv, Accounted, NEW t \in io, OnTaskComplete(t), setup' = setup
    PROVE  Accounted'
<1>0. SendShape /\ QueueOK BY DEF ExInv
<1>1. /\ \A x \in Tasks' : x \in Tasks
      /\ \A x \in Tasks : x = t \/ x \in Tasks'
    BY <1>0, RetireQueue
<1>2. t.pc = "next" /\ UNCHANGED <<inflight, track>> BY DEF OnTaskComplete
<1>3. Reserved' = Reserved BY <1>1, <1>2 DEF Reserved
<1> QED BY <1>2, <1>3, AccountedStill

LEMMA SinkStepAcc ==
    ASSUME ExInv, Accounted, NEW d \in Sinks, SinkStep(d) \/ SinkFailure(d)
    PROVE  Accounted'
<1>1. setup' = setup BY DEF SinkStep, SinkFailure, lifeVars
<1>2. CASE PushChunk(d) BY <1>1, <1>2, PushChunkAcc
<1>3. CASE SetFinishing(d) BY <1>1, <1>3, SetFinishingAcc
<1>4. CASE CountDown(d) BY <1>1, <1>4, CountDownAcc
<1>5. CASE \/ AskInput(d) \/ FailOnError(d) \/ CheckError(d) \/ MaybeMarkFinished(d)
           \/ UpstreamFails(d)
    <2>1. UNCHANGED queueVars
        BY <1>5 DEF AskInput, FailOnError, CheckError, MaybeMarkFinished, UpstreamFails
    <2> QED BY <1>1, <2>1, QueueUntouched DEF queueVars
<1> QED BY <1>2, <1>3, <1>4, <1>5 DEF SinkStep, SinkFailure

\* The steps of a call before its completion: a new place, a receiver, no more.
LEMMA GoesAcc ==
    ASSUME ExInv, Accounted, NEW t \in io, NEW pc \in Places, NEW g \in Nat, Goes(t, pc, g),
           QueueStill, UNCHANGED <<inflight, track>>, t.pc # "next", pc # "next"
    PROVE  Accounted'
<1>0. t \in TaskRecs BY CallFacts
<1> PICK u : u = [t EXCEPT !.pc = pc, !.at = g] OBVIOUS
<1>1. u \in TaskRecs /\ SameTask(t, u) /\ u.over = t.over /\ u.pc = pc
    BY <1>0 DEF TaskRecs, SameTask
<1>2. io' = (io \ {t}) \cup {u} BY DEF Goes
<1> QED BY <1>1, <1>2, CallAcc

LEMMA CallStepAcc ==
    ASSUME ExInv, Accounted, NEW t \in io, CallStep(t) \/ CallFailure(t)
    PROVE  Accounted'
<1>0. made \in Nat /\ t.at \in Nat /\ RecvOK /\ setup \in Setups BY CallFacts
<1>1. CASE (CompleteSend(t) \/ OnTaskComplete(t)) /\ UNCHANGED <<recvVars, lifeVars>>
    <2>1. setup' = setup BY <1>1 DEF lifeVars
    <2> QED BY <1>1, <2>1, CompleteSendAcc, OnTaskCompleteAcc
<1>2. CASE \/ Arrive(t) \/ DecodeLookup(t) \/ DecodeMeta(t)
           \/ PushCheck(t) \/ PushLookup(t) \/ PushChunks(t) \/ SendFails(t) \/ ResponseLost(t)
    <2>1. UNCHANGED CallVars /\ t.pc # "next"
        BY <1>2 DEF Arrive, DecodeLookup, DecodeMeta, PushCheck, PushLookup, PushChunks,
                    SendFails, ResponseLost
    <2>2. QueueStill /\ UNCHANGED <<inflight, track>>
        BY <2>1 DEF CallVars, QueueStill, sinkVars
    <2>3. \E pc \in Places \ {"next"}, g \in Nat : Goes(t, pc, g)
        <3>1. CASE \/ Arrive(t) \/ DecodeMeta(t) \/ PushCheck(t) \/ SendFails(t)
            <4>1. \E pc \in {"check", "decode", "refused", "acked", "lookup"} : Goes(t, pc, 0)
                BY <3>1, Zenon DEF Arrive, DecodeMeta, PushCheck, SendFails
            <4> QED BY <4>1 DEF Places
        <3>2. CASE PushChunks(t) \/ ResponseLost(t)
            <4>1. \E pc \in {"refused", "acked"} : Goes(t, pc, t.at)
                BY <3>2, Zenon DEF PushChunks, ResponseLost
            <4> QED BY <1>0, <4>1 DEF Places
        <3>3. CASE DecodeLookup(t) \/ PushLookup(t)
            <4>1. GetOrCreate /\ \E pc \in {"meta", "push"} : Goes(t, pc, Receiver)
                BY <3>3, Zenon DEF DecodeLookup, PushLookup
            <4>2. RecvShape BY <1>0 DEF RecvOK
            <4>3. made' \in Nat /\ Receiver \in 1 .. made' BY <1>0, <4>1, <4>2, GetFacts, SetupFacts
            <4>4. Receiver \in Nat BY <4>3
            <4> QED BY <4>1, <4>4 DEF Places
        <3> QED BY <1>2, <3>1, <3>2, <3>3
    <2>4. PICK pc \in Places \ {"next"}, g \in Nat : Goes(t, pc, g) BY <2>3
    <2> QED BY <2>1, <2>2, <2>4, GoesAcc
<1> QED BY <1>1, <1>2 DEF CallStep, CallFailure

LEMMA AccountedInit ==
    ASSUME Init
    PROVE  Accounted
<1>1. /\ setup \in Setups /\ io = {} /\ lane = [s \in Senders |-> <<>>] /\ inflight = 0
      /\ track = [d \in Sinks |-> 0]
    BY DEF Init, SendInit
<1>2. \A s \in Senders : lane[s] = <<>> /\ DOMAIN lane[s] = {} BY <1>1, EmptySeq
<1>3. Tasks = {} BY <1>1, <1>2 DEF Tasks
<1>4. Reserved = {} /\ Limited(Reserved) = {} /\ \A d : Of(Reserved, d) = {}
    BY <1>3 DEF Reserved, Limited, Of
<1>5. Sized({}) /\ Cardinality({}) = 0 BY FS_EmptySet DEF Sized
<1>6. MaxInflight \in Nat /\ 0 <= MaxInflight BY <1>1, SetupFacts
<1>7. Holds(Reserved, inflight) BY <1>1, <1>4, <1>5, <1>6, SumNone DEF Holds
<1> QED BY <1>1, <1>4, <1>5, <1>7 DEF Accounted

\* The send queue is accounted for in every state.
THEOREM AccountedInvariance == Spec => [](ExInv /\ Accounted)
<1>1. Init => Accounted BY AccountedInit
<1>2. ExInv /\ Accounted /\ [Next]_vars => Accounted'
    <2> SUFFICES ASSUME ExInv, Accounted, [Next]_vars PROVE Accounted'
        OBVIOUS
    <2>1. CASE \E d \in Sinks : SinkStep(d) \/ SinkFailure(d) BY <2>1, SinkStepAcc
    <2>2. CASE \E t \in io : CallStep(t) \/ CallFailure(t) BY <2>2, CallStepAcc
    <2>3. CASE UNCHANGED sendVars
        BY <2>3, QueueUntouched DEF sendVars, queueVars
    <2>4. CASE \E r \in Sources : SourceStep(r) \/ SourceEnds(r)
        BY <2>3, <2>4 DEF SourceStep, SourceEnds, AbortFromQuery
    <2>5. CASE FragmentStep \/ FeCancel \/ Forget \/ (\E s \in Senders : CancelPeers(s))
        BY <2>3, <2>5 DEF FragmentStep, TailCancel, TailRemove, FeCancel, Forget, CancelPeers
    <2>6. CASE UNCHANGED vars BY <2>3, <2>6 DEF vars
    <2> QED BY <2>1, <2>2, <2>4, <2>5, <2>6 DEF Next
<1> QED BY <1>1, <1>2, ExchangeInvariance, PTL DEF Spec

\* For any exchange and with every fault: the bytes reserved and every driver's
\* tracker are exactly the tasks queued or being sent, so that a failed call gives
\* back what it took, once (run_send_task releases on both paths).
THEOREM AccountsAreExact == Spec => []AccountingExact
<1>1. Accounted => AccountingExact BY DEF Accounted, AccountingExact, Holds, Sum, Of
<1> QED BY <1>1, AccountedInvariance, PTL

\* For any exchange: the payloads that asked for room never occupy more than the
\* capacity, whatever is sent past it and however many drivers ask between a
\* need_input and its push_chunk (reserve_bytes checks and adds in one step).
THEOREM LimitIsKept == Spec => []Backpressure
<1>1. Accounted => Backpressure BY DEF Accounted, Backpressure, Holds, Sum, Limited
<1> QED BY <1>1, AccountedInvariance, PTL

\* The variables of the exchange keep their types: in particular no counter of the
\* send queue becomes negative, and no call or source holds a receiver that was
\* never made.
THEOREM ExchangeTypeCorrect == Spec => []TypeOK
<1>1. ExInv /\ Accounted => TypeOK
    <2> SUFFICES ASSUME ExInv, Accounted PROVE TypeOK
        OBVIOUS
    <2>0. SendShape /\ TasksOK /\ QueueOK /\ RecvOK /\ RecvShape /\ setup \in Setups
        BY DEF ExInv, SendShape, RecvOK
    <2>1. made \in Nat /\ MaxReceivers \in Nat BY <2>0, SetupFacts DEF RecvShape
    <2>2. inflight \in Nat
        <3>1. Sized(Reserved) /\ inflight = Sum(Reserved) BY DEF Accounted, Holds
        <3> QED BY <3>1, HoldsParts
    <2>3. track \in [Sinks -> Nat]
        <3>1. \A d \in Sinks : track[d] \in Nat
            <4> SUFFICES ASSUME NEW d \in Sinks PROVE track[d] \in Nat
                OBVIOUS
            <4>1. Sized(Reserved) BY DEF Accounted, Holds
            <4>2. Sized(Of(Reserved, d)) BY <4>1, HoldsParts
            <4>3. Cardinality(Of(Reserved, d)) \in Nat BY <4>2, FS_CardinalityType DEF Sized
            <4> QED BY <4>3 DEF Accounted
        <3> QED BY <2>0, <3>1 DEF SendShape
    <2>4. \A t \in Tasks : t.pc \in Places /\ t.at \in 0 .. made
        <3> SUFFICES ASSUME NEW t \in Tasks PROVE t.pc \in Places /\ t.at \in 0 .. made
            OBVIOUS
        <3>1. t \in TaskRecs /\ (t \notin io => t.pc = "send" /\ t.at = 0) BY <2>0, TaskFacts
        <3>2. t.pc \in Places /\ t.at \in Nat BY <3>1 DEF TaskRecs
        <3>3. t.at <= made BY <2>0, <2>1, <3>1 DEF RecvOK
        <3> QED BY <2>1, <3>2, <3>3
    <2>5. \A g \in 1 .. MaxReceivers : rcv[g].finished \cup rcv[g].metas \subseteq Senders
        <3> SUFFICES ASSUME NEW g \in 1 .. MaxReceivers
                     PROVE  rcv[g].finished \cup rcv[g].metas \subseteq Senders
            OBVIOUS
        <3>1. rcv[g] \in RcvRecs BY <2>0 DEF RecvShape
        <3> QED BY <3>1 DEF RcvRecs
    <2> QED BY <2>0, <2>2, <2>3, <2>4, <2>5 DEF TypeOK, SendShape, RecvShape
<1> QED BY <1>1, AccountedInvariance, PTL
=============================================================================
