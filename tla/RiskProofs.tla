----------------------------- MODULE RiskProofs -----------------------------
(***************************************************************************)
(* What the ways to measure a column compute, for every column and every   *)
(* minimum: the counts are folds over the rows, and so the lemmas below    *)
(* first say what a fold is, row by row.                                   *)
(***************************************************************************)
EXTENDS Risk, SequenceTheorems, FiniteSetTheorems, TLAPS

\* Induction over the natural numbers, for a set of them: the least number that
\* is not in the set would have a predecessor that is.
LEMMA SetInduction ==
    ASSUME NEW S, 0 \in S, \A n \in Nat : n \in S => n + 1 \in S
    PROVE  \A n \in Nat : n \in S
<1> DEFINE T == Nat \ S
<1> SUFFICES ASSUME T # {}
             PROVE  FALSE
  OBVIOUS
<1>1. PICK n \in T : \A m \in T : ~(<<m, n>> \in OpToRel(<, Nat))
  BY NatLessThanWellFounded, WFMin
<1>2. n \in Nat /\ n # 0 /\ n - 1 \in Nat /\ n - 1 < n
  OBVIOUS
<1>3. <<n - 1, n>> \in OpToRel(<, Nat)
  BY <1>2 DEF OpToRel
<1>4. n - 1 \in S
  BY <1>1, <1>2, <1>3
<1> QED BY <1>2, <1>4

\* The last row of a set of rows.
LEMMA LastRow ==
    ASSUME NEW m \in Nat, NEW s \in SUBSET (1..m + 1), m + 1 \in s
    PROVE  Max(s) = m + 1 /\ s \ {Max(s)} \in SUBSET (1..m)
<1>1. \A x \in s : x \in Nat /\ m + 1 >= x
  OBVIOUS
<1>2. \E x \in s : \A y \in s : x >= y
  BY <1>1
<1>3. Max(s) \in s /\ Max(s) >= m + 1
  BY <1>2 DEF Max
<1>4. Max(s) \in Nat /\ m + 1 >= Max(s)
  BY <1>1, <1>3
<1>5. Max(s) = m + 1
  BY <1>3, <1>4
<1>6. s \ {m + 1} \in SUBSET (1..m)
  OBVIOUS
<1> QED BY <1>5, <1>6

\* The first row has no row before it, and every other is the last of its rows.
LEMMA FirstRows ==
    ASSUME NEW k \in Nat
    PROVE  Max(1..k + 1) = k + 1 /\ (1..k + 1) \ {Max(1..k + 1)} = 1..k /\ 1..k + 1 # {}
<1>1. 1..k + 1 \in SUBSET (1..k + 1) /\ k + 1 \in 1..k + 1
  OBVIOUS
<1>2. Max(1..k + 1) = k + 1
  BY <1>1, LastRow
<1>3. (1..k + 1) \ {k + 1} = 1..k
  OBVIOUS
<1> QED BY <1>1, <1>2, <1>3

\* A set of rows, if there is one in it, has a last one.
LEMMA MaxIsARow ==
    ASSUME NEW n \in Nat, NEW s \in SUBSET (1..n), s # {}
    PROVE  Max(s) \in s /\ Max(s) \in 1..n /\ \A x \in s : Max(s) >= x
<1> DEFINE Bounded == {m \in Nat : \A t \in SUBSET (1..m) :
                          t # {} => \E x \in t : \A y \in t : x >= y}
<1>1. 0 \in Bounded
  <2>1. 1..0 = {}
    OBVIOUS
  <2> QED BY <2>1
<1>2. ASSUME NEW m \in Nat, m \in Bounded
      PROVE  m + 1 \in Bounded
  <2> SUFFICES ASSUME NEW t \in SUBSET (1..m + 1), t # {}
               PROVE  \E x \in t : \A y \in t : x >= y
    OBVIOUS
  <2>1. CASE m + 1 \in t
    BY <2>1
  <2>2. CASE m + 1 \notin t
    <3>1. \A x \in t : x \in 1..m + 1 /\ x # m + 1
      BY <2>2
    <3>2. t \in SUBSET (1..m)
      BY <3>1
    <3> QED BY <1>2, <3>2
  <2> QED BY <2>1, <2>2
<1>3. n \in Bounded
  <2> HIDE DEF Bounded
  <2> QED BY <1>1, <1>2, SetInduction
<1>4. \E x \in s : \A y \in s : x >= y
  BY <1>3
<1> QED BY <1>4 DEF Max

\* Folding the rows of a column from the left: there is a function that gives, for
\* every set of rows, what is folded from them, the last row last.
IsFold(f, n, X, base, step) ==
    /\ f = [s \in SUBSET (1..n) |-> IF s = {} THEN base ELSE step[Max(s)][f[s \ {Max(s)}]]]
    /\ \A s \in SUBSET (1..n) : f[s] \in X

LEMMA FoldOfRows ==
    ASSUME NEW n \in Nat, NEW X, NEW base \in X, NEW step \in [1..n -> [X -> X]]
    PROVE  \E f : IsFold(f, n, X, base, step)
<1> DEFINE Rec(f, s) == IF s = {} THEN base ELSE step[Max(s)][f[s \ {Max(s)}]]
           Folds(m, f) == /\ f = [s \in SUBSET (1..m) |-> Rec(f, s)]
                          /\ \A s \in SUBSET (1..m) : f[s] \in X
           Defined == {m \in Nat : m <= n => \E f : Folds(m, f)}
<1>1. 0 \in Defined
  <2> DEFINE g == [s \in {{}} |-> base]
  <2>1. SUBSET (1..0) = {{}}
    OBVIOUS
  <2>2. g = [s \in SUBSET (1..0) |-> Rec(g, s)]
    BY <2>1
  <2>3. Folds(0, g)
    BY <2>1, <2>2
  <2> QED BY <2>3
<1>2. ASSUME NEW m \in Nat, m \in Defined
      PROVE  m + 1 \in Defined
  <2> HIDE DEF Folds
  <2> SUFFICES ASSUME m + 1 <= n
               PROVE  \E f : Folds(m + 1, f)
    OBVIOUS
  <2>1. PICK f : Folds(m, f)
    BY <1>2
  <2> DEFINE g == [s \in SUBSET (1..m + 1) |->
                      IF m + 1 \in s THEN step[m + 1][f[s \ {m + 1}]] ELSE f[s]]
  <2>2. \A s \in SUBSET (1..m) : s \in SUBSET (1..m + 1) /\ m + 1 \notin s /\ g[s] = f[s]
    OBVIOUS
  <2>3. /\ \A s \in SUBSET (1..m) : f[s] = Rec(f, s)
        /\ \A s \in SUBSET (1..m) : f[s] \in X
    BY <2>1 DEF Folds
  <2>4. step[m + 1] \in [X -> X]
    OBVIOUS
  <2> HIDE DEF Rec
  <2>5. ASSUME NEW s \in SUBSET (1..m + 1)
        PROVE  g[s] = Rec(g, s) /\ g[s] \in X
    <3>1. CASE m + 1 \in s
      <4>1. Max(s) = m + 1 /\ s \ {Max(s)} \in SUBSET (1..m)
        BY <3>1, LastRow
      <4>2. g[s \ {Max(s)}] = f[s \ {m + 1}] /\ f[s \ {m + 1}] \in X
        BY <2>2, <2>3, <4>1
      <4>3. g[s] = step[m + 1][f[s \ {m + 1}]]
        BY <3>1
      <4> HIDE DEF g
      <4> QED BY <2>4, <3>1, <4>1, <4>2, <4>3 DEF Rec
    <3>2. CASE m + 1 \notin s
      <4>1. s \in SUBSET (1..m)
        <5>1. \A x \in s : x \in 1..m + 1 /\ x # m + 1
          BY <3>2
        <5> QED BY <5>1
      <4>2. s \ {Max(s)} \in SUBSET (1..m)
        BY <4>1
      <4>3. g[s] = f[s] /\ g[s \ {Max(s)}] = f[s \ {Max(s)}]
        BY <2>2, <4>1, <4>2
      <4>4. f[s] = Rec(f, s) /\ f[s] \in X
        BY <2>3, <4>1
      <4> HIDE DEF g
      <4> QED BY <4>3, <4>4 DEF Rec
    <3> QED BY <3>1, <3>2
  <2>6. g = [s \in SUBSET (1..m + 1) |-> g[s]]
    OBVIOUS
  <2> HIDE DEF g
  <2>7. g = [s \in SUBSET (1..m + 1) |-> Rec(g, s)]
    BY <2>5, <2>6
  <2>8. Folds(m + 1, g)
    BY <2>5, <2>7 DEF Folds
  <2> QED BY <2>8
<1>3. n \in Defined
  <2> HIDE DEF Defined
  <2> QED BY <1>1, <1>2, SetInduction
<1>4. \E f : Folds(n, f)
  <2> HIDE DEF Folds
  <2> QED BY <1>3
<1> QED BY <1>4 DEF IsFold

-----------------------------------------------------------------------------
(* profile_columns counts each value as often as it occurs. *)

\* The table of frequencies of a column's first n rows.
Table(col, n) == [v \in Value |-> Cardinality({i \in 1..n : col[i] = v})]

\* One row more.
LEMMA TableStep ==
    ASSUME NEW col, NEW k \in Nat, col[k + 1] \in Value \union {Null}
    PROVE  Table(col, k + 1) = Upsert(Table(col, k), col[k + 1])
<1> DEFINE Rows(v, n) == {i \in 1..n : col[i] = v}
<1>1. ASSUME NEW v
      PROVE  /\ IsFiniteSet(Rows(v, k)) /\ Cardinality(Rows(v, k)) \in Nat
             /\ Cardinality(Rows(v, k + 1)) =
                    Cardinality(Rows(v, k)) + IF col[k + 1] = v THEN 1 ELSE 0
  <2>1. IsFiniteSet(Rows(v, k)) /\ Cardinality(Rows(v, k)) \in Nat
    <3>1. IsFiniteSet(1..k) /\ Rows(v, k) \in SUBSET (1..k)
      BY FS_Interval
    <3> HIDE DEF Rows
    <3>2. IsFiniteSet(Rows(v, k))
      BY <3>1, FS_Subset
    <3> QED BY <3>2, FS_CardinalityType
  <2>2. k + 1 \notin Rows(v, k)
    OBVIOUS
  <2>3. CASE col[k + 1] = v
    <3>1. Rows(v, k + 1) = Rows(v, k) \union {k + 1}
      BY <2>3
    <3> QED BY <2>1, <2>2, <2>3, <3>1, FS_AddElement
  <2>4. CASE col[k + 1] # v
    <3>1. Rows(v, k + 1) = Rows(v, k)
      BY <2>4
    <3> QED BY <2>1, <2>4, <3>1
  <2> QED BY <2>1, <2>3, <2>4
<1>2. /\ Table(col, k) = [v \in Value |-> Cardinality(Rows(v, k))]
      /\ Table(col, k + 1) = [v \in Value |-> Cardinality(Rows(v, k + 1))]
  BY DEF Table
<1> HIDE DEF Rows
<1>3. CASE col[k + 1] = Null
  BY <1>1, <1>2, <1>3, NullAssumption DEF Upsert
<1>4. CASE col[k + 1] # Null
  <2>1. Upsert(Table(col, k), col[k + 1]) =
            [Table(col, k) EXCEPT ![col[k + 1]] = Table(col, k)[col[k + 1]] + 1]
    BY <1>4 DEF Upsert
  <2> QED BY <1>1, <1>2, <1>4, <2>1
<1> QED BY <1>3, <1>4

\* The fold, row by row, is the table.
LEMMA FrequencyFold ==
    ASSUME NEW col \in Seq(Value \union {Null})
    PROVE  FoldLeft(Upsert, [v \in Value |-> 0], col) = Table(col, Len(col))
<1> DEFINE n == Len(col)
           X == [Value -> Nat]
           base == [v \in Value |-> 0]
           step == [i \in 1..n |-> [table \in X |-> Upsert(table, col[i])]]
           iter == CHOOSE f : f = [s \in SUBSET DOMAIN col |->
                       IF s = {} THEN base ELSE Upsert(f[s \ {Max(s)}], col[Max(s)])]
<1>1. FoldLeft(Upsert, base, col) = iter[DOMAIN col]
  BY SMT DEF FoldLeft, MapThenFoldSet
<1>2. n \in Nat /\ DOMAIN col = 1..n /\ \A i \in 1..n : col[i] \in Value \union {Null}
  BY LenProperties, ElementOfSeq
<1> HIDE DEF n
<1>3. base \in X /\ step \in [1..n -> [X -> X]]
  <2>1. \A i \in 1..n : \A table \in X : Upsert(table, col[i]) \in X
    BY <1>2 DEF Upsert
  <2> QED BY <2>1
<1>4. PICK g : IsFold(g, n, X, base, step)
  <2> HIDE DEF X, base, step
  <2> QED BY <1>2, <1>3, FoldOfRows
<1>5. ASSUME NEW s \in SUBSET (1..n), s # {}
      PROVE  step[Max(s)][g[s \ {Max(s)}]] = Upsert(g[s \ {Max(s)}], col[Max(s)])
  <2>1. Max(s) \in 1..n
    BY <1>2, <1>5, MaxIsARow
  <2>2. g[s \ {Max(s)}] \in X
    BY <1>4 DEF IsFold
  <2> QED BY <2>1, <2>2
<1>6. g = [s \in SUBSET (1..n) |->
            IF s = {} THEN base ELSE Upsert(g[s \ {Max(s)}], col[Max(s)])]
  <2> HIDE DEF step
  <2> QED BY <1>4, <1>5 DEF IsFold
<1> HIDE DEF base
<1>7. iter = [s \in SUBSET (1..n) |->
                IF s = {} THEN base ELSE Upsert(iter[s \ {Max(s)}], col[Max(s)])]
  BY <1>2, <1>6
<1> HIDE DEF iter
<1>8. iter[{}] = base
  BY <1>7
<1>9. ASSUME NEW k \in Nat, k + 1 <= n
      PROVE  iter[1..k + 1] = Upsert(iter[1..k], col[k + 1])
  <2>1. 1..k + 1 \in SUBSET (1..n)
    BY <1>2, <1>9
  <2>2. iter[1..k + 1] = IF 1..k + 1 = {} THEN base
                         ELSE Upsert(iter[(1..k + 1) \ {Max(1..k + 1)}], col[Max(1..k + 1)])
    BY <1>7, <2>1
  <2> QED BY <2>2, FirstRows
<1> DEFINE Agree == {k \in Nat : k <= n => iter[1..k] = Table(col, k)}
<1>10. 0 \in Agree
  <2>1. 1..0 = {} /\ Cardinality({}) = 0
    BY FS_EmptySet
  <2>2. Table(col, 0) = base
    <3>1. \A v \in Value : {i \in 1..0 : col[i] = v} = {}
      OBVIOUS
    <3> QED BY <2>1, <3>1 DEF Table, base
  <2> QED BY <1>8, <2>1, <2>2
<1>11. ASSUME NEW k \in Nat, k \in Agree
       PROVE  k + 1 \in Agree
  <2> SUFFICES ASSUME k + 1 <= n
               PROVE  iter[1..k + 1] = Table(col, k + 1)
    OBVIOUS
  <2>1. iter[1..k] = Table(col, k)
    BY <1>2, <1>11
  <2>2. col[k + 1] \in Value \union {Null}
    BY <1>2
  <2> QED BY <1>9, <2>1, <2>2, TableStep
<1>12. n \in Agree
  <2> HIDE DEF Agree
  <2> QED BY <1>2, <1>10, <1>11, SetInduction
<1>13. iter[1..n] = Table(col, n)
  BY <1>2, <1>12
<1> QED BY <1>1, <1>2, <1>13 DEF n, base

-----------------------------------------------------------------------------
(* The bounded count. *)

\* The values in the first n rows.
DistinctIn(col, n) == {v \in Value : \E i \in 1..n : col[i] = v}

CountType == [open : BOOLEAN, nulls : Nat, counts : [Value -> Nat]]

\* What the count holds after the first n rows: the exact frequencies as long as
\* it is open, and min of the values from then on.
CountedSoFar(count, col, min, n) ==
    /\ count \in CountType
    /\ count.nulls = Cardinality({i \in 1..n : col[i] = Null})
    /\ count.open => /\ count.counts = Table(col, n)
                     /\ DistinctIn(col, n) = {} \/ Cardinality(DistinctIn(col, n)) < min
    /\ ~count.open => /\ Counted(count) \subseteq DistinctIn(col, n)
                      /\ Cardinality(Counted(count)) = min

\* The values that have a frequency are those that occur, a finite set.
LEMMA CountedAreDistinct ==
    ASSUME NEW n \in Nat, NEW col, \A i \in 1..n : col[i] \in Value \union {Null}
    PROVE  /\ IsFiniteSet(DistinctIn(col, n)) /\ Cardinality(DistinctIn(col, n)) \in Nat
           /\ \A v \in Value : /\ Table(col, n)[v] \in 0..n
                               /\ Table(col, n)[v] > 0 <=> v \in DistinctIn(col, n)
<1>1. ASSUME NEW v \in Value
      PROVE  /\ Table(col, n)[v] \in 0..n
             /\ Table(col, n)[v] > 0 <=> v \in DistinctIn(col, n)
  <2> DEFINE Rows == {i \in 1..n : col[i] = v}
  <2>1. IsFiniteSet(1..n) /\ Cardinality(1..n) = n /\ Rows \in SUBSET (1..n)
    BY FS_Interval
  <2>2. Table(col, n)[v] = Cardinality(Rows)
    BY DEF Table
  <2>3. v \in DistinctIn(col, n) <=> Rows # {}
    BY DEF DistinctIn
  <2> HIDE DEF Rows
  <2>4. IsFiniteSet(Rows) /\ Cardinality(Rows) <= n
    BY <2>1, FS_Subset
  <2>5. Cardinality(Rows) \in Nat /\ (Cardinality(Rows) = 0 <=> Rows = {})
    BY <2>4, FS_CardinalityType, FS_EmptySet
  <2> QED BY <2>2, <2>3, <2>4, <2>5
<1>2. IsFiniteSet(DistinctIn(col, n))
  <2> DEFINE Rows == {i \in 1..n : col[i] # Null}
             f == [i \in Rows |-> col[i]]
  <2>1. IsFiniteSet(Rows)
    <3>1. IsFiniteSet(1..n) /\ Rows \in SUBSET (1..n)
      BY FS_Interval
    <3> HIDE DEF Rows
    <3> QED BY <3>1, FS_Subset
  <2>2. f \in Surjection(Rows, DistinctIn(col, n))
    BY NullAssumption DEF Surjection, DistinctIn
  <2> HIDE DEF Rows, f
  <2> QED BY <2>1, <2>2, FS_Surjection
<1> QED BY <1>1, <1>2, FS_CardinalityType

\* One row more: a null, a value of a closed column, or a value of an open one.
LEMMA CountStep ==
    ASSUME NEW min \in Nat \ {0}, NEW k \in Nat, NEW col,
           \A i \in 1..k + 1 : col[i] \in Value \union {Null},
           NEW count, CountedSoFar(count, col, min, k)
    PROVE  CountedSoFar(CountRow(count, col[k + 1], min), col, min, k + 1)
<1> DEFINE v == col[k + 1]
           Nulls(n) == {i \in 1..n : col[i] = Null}
           more == CountRow(count, v, min)
<1>1. /\ count \in CountType
      /\ count.nulls = Cardinality(Nulls(k))
      /\ count.open => /\ count.counts = Table(col, k)
                       /\ DistinctIn(col, k) = {} \/ Cardinality(DistinctIn(col, k)) < min
      /\ ~count.open => /\ Counted(count) \subseteq DistinctIn(col, k)
                        /\ Cardinality(Counted(count)) = min
  BY DEF CountedSoFar
<1>2. /\ v \in Value \union {Null}
      /\ \A i \in 1..k : col[i] \in Value \union {Null}
  OBVIOUS
<1>3. /\ v = Null => Cardinality(Nulls(k + 1)) = Cardinality(Nulls(k)) + 1
      /\ v # Null => Cardinality(Nulls(k + 1)) = Cardinality(Nulls(k))
  <2>1. IsFiniteSet(Nulls(k)) /\ k + 1 \notin Nulls(k)
    <3>1. IsFiniteSet(1..k) /\ Nulls(k) \in SUBSET (1..k) /\ k + 1 \notin Nulls(k)
      BY FS_Interval
    <3> HIDE DEF Nulls
    <3> QED BY <3>1, FS_Subset
  <2>2. v = Null => Nulls(k + 1) = Nulls(k) \union {k + 1}
    OBVIOUS
  <2>3. v # Null => Nulls(k + 1) = Nulls(k)
    OBVIOUS
  <2> HIDE DEF Nulls, v
  <2> QED BY <2>1, <2>2, <2>3, FS_AddElement
<1>4. /\ v = Null => DistinctIn(col, k + 1) = DistinctIn(col, k)
      /\ v # Null => DistinctIn(col, k + 1) = DistinctIn(col, k) \union {v}
  BY NullAssumption DEF DistinctIn
<1>5. Table(col, k + 1) = Upsert(Table(col, k), v)
  BY <1>2, TableStep
<1>6. /\ IsFiniteSet(DistinctIn(col, k)) /\ Cardinality(DistinctIn(col, k)) \in Nat
      /\ IsFiniteSet(DistinctIn(col, k + 1)) /\ Cardinality(DistinctIn(col, k + 1)) \in Nat
  <2>1. k + 1 \in Nat
    OBVIOUS
  <2> QED BY <1>2, <2>1, CountedAreDistinct
<1> HIDE DEF v, Nulls
<1>7. CASE v = Null
  <2>1. more = [count EXCEPT !.nulls = count.nulls + 1]
    BY <1>7 DEF CountRow
  <2>2. Counted(more) = Counted(count)
    BY <1>1, <2>1 DEF Counted, CountType
  <2>3. Table(col, k + 1) = Table(col, k)
    BY <1>5, <1>7 DEF Upsert
  <2>4. /\ more \in CountType /\ more.nulls = count.nulls + 1 /\ more.open = count.open
        /\ more.counts = count.counts
    BY <1>1, <2>1 DEF CountType
  <2> HIDE DEF more
  <2>5. CountedSoFar(more, col, min, k + 1)
    BY <1>1, <1>3, <1>4, <1>7, <2>2, <2>3, <2>4 DEF CountedSoFar, Nulls
  <2> QED BY <2>5 DEF more, v
<1>8. CASE v # Null /\ ~count.open
  <2>1. more = count
    BY <1>8 DEF CountRow
  <2>2. DistinctIn(col, k) \subseteq DistinctIn(col, k + 1)
    BY <1>4, <1>8
  <2> HIDE DEF more
  <2>3. CountedSoFar(more, col, min, k + 1)
    BY <1>1, <1>3, <1>8, <2>1, <2>2 DEF CountedSoFar, Nulls
  <2> QED BY <2>3 DEF more, v
<1>9. CASE v # Null /\ count.open
  <2> DEFINE next == [count EXCEPT !.counts[v] = count.counts[v] + 1]
  <2>1. v \in Value
    BY <1>2, <1>9 DEF v
  <2>2. more = [next EXCEPT !.open = Cardinality(Counted(next)) < min]
    BY <1>9 DEF CountRow
  <2>3. /\ next \in CountType /\ next.nulls = count.nulls
        /\ next.counts = Table(col, k + 1)
    <3>1. Table(col, k + 1) = [Table(col, k) EXCEPT ![v] = Table(col, k)[v] + 1]
      BY <1>5, <1>9 DEF Upsert
    <3> QED BY <1>1, <1>9, <2>1, <3>1 DEF CountType
  <2>4. Counted(next) = DistinctIn(col, k + 1)
    <3>1. k + 1 \in Nat
      OBVIOUS
    <3>2. \A w \in Value : Table(col, k + 1)[w] > 0 <=> w \in DistinctIn(col, k + 1)
      BY <3>1, CountedAreDistinct
    <3> HIDE DEF next
    <3> QED BY <2>3, <3>2 DEF Counted, DistinctIn
  <2>5. /\ more \in CountType /\ more.nulls = next.nulls /\ more.counts = next.counts
        /\ more.open <=> Cardinality(DistinctIn(col, k + 1)) < min
    <3> DEFINE few == Cardinality(DistinctIn(col, k + 1)) < min
    <3>1. few \in BOOLEAN
      BY <1>6
    <3>2. more = [next EXCEPT !.open = few]
      BY <2>2, <2>4
    <3> HIDE DEF next, more, few
    <3>3. /\ more \in CountType /\ more.nulls = next.nulls /\ more.counts = next.counts
          /\ more.open = few
      BY <2>3, <3>1, <3>2 DEF CountType
    <3> QED BY <3>3 DEF few
  <2>6. Counted(more) = DistinctIn(col, k + 1)
    BY <2>4, <2>5 DEF Counted
  <2>7. Cardinality(DistinctIn(col, k + 1)) <= Cardinality(DistinctIn(col, k)) + 1
    BY <1>4, <1>6, <1>9, FS_AddElement
  <2>8. DistinctIn(col, k) = {} => Cardinality(DistinctIn(col, k)) = 0
    BY FS_EmptySet
  <2> HIDE DEF more, next
  <2>9. ~more.open => Cardinality(DistinctIn(col, k + 1)) = min
    BY <1>1, <1>6, <1>9, <2>5, <2>7, <2>8
  <2>10. CountedSoFar(more, col, min, k + 1)
    BY <1>3, <1>1, <1>9, <2>3, <2>5, <2>6, <2>9 DEF CountedSoFar, Nulls
  <2> QED BY <2>10 DEF more, v
<1> QED BY <1>7, <1>8, <1>9

\* Whatever it has counted so far, a count of finitely many values stays one.
FiniteCounts == {count \in CountType : IsFiniteSet(Counted(count))}

LEMMA CountStaysFinite ==
    ASSUME NEW count \in FiniteCounts, NEW v \in Value \union {Null}, NEW min \in Nat \ {0}
    PROVE  CountRow(count, v, min) \in FiniteCounts
<1> DEFINE more == CountRow(count, v, min)
<1>1. count \in CountType /\ IsFiniteSet(Counted(count))
  BY DEF FiniteCounts
<1>2. CASE v = Null
  <2>1. more = [count EXCEPT !.nulls = count.nulls + 1]
    BY <1>2 DEF CountRow
  <2>2. more \in CountType /\ more.counts = count.counts
    BY <1>1, <2>1 DEF CountType
  <2> HIDE DEF more
  <2>3. more \in FiniteCounts
    BY <1>1, <2>2 DEF FiniteCounts, Counted
  <2> QED BY <2>3 DEF more
<1>3. CASE v # Null /\ ~count.open
  BY <1>3 DEF CountRow
<1>4. CASE v # Null /\ count.open
  <2> DEFINE next == [count EXCEPT !.counts[v] = count.counts[v] + 1]
             few == Cardinality(Counted(next)) < min
  <2>1. more = [next EXCEPT !.open = few]
    BY <1>4 DEF CountRow
  <2>2. next \in CountType /\ Counted(next) \subseteq Counted(count) \union {v}
    BY <1>1, <1>4 DEF CountType, Counted
  <2> HIDE DEF next
  <2>3. IsFiniteSet(Counted(next))
    BY <1>1, <2>2, FS_AddElement, FS_Subset
  <2>4. few \in BOOLEAN
    BY <2>3, FS_CardinalityType
  <2> HIDE DEF few, more
  <2>5. more \in CountType /\ more.counts = next.counts
    BY <2>1, <2>2, <2>4 DEF CountType
  <2>6. more \in FiniteCounts
    BY <2>3, <2>5 DEF FiniteCounts, Counted
  <2> QED BY <2>6 DEF more
<1> QED BY <1>2, <1>3, <1>4

\* The count at the end of a column.
LEMMA CountFold ==
    ASSUME NEW col \in Seq(Value \union {Null}), NEW min \in Nat \ {0}
    PROVE  CountedSoFar(BoundedCount(col, min), col, min, Len(col))
<1> DEFINE n == Len(col)
           X == FiniteCounts
           step == [i \in 1..n |-> [count \in X |-> CountRow(count, col[i], min)]]
           iter == CHOOSE f : f = [s \in SUBSET DOMAIN col |->
                       IF s = {} THEN EmptyCount
                       ELSE CountRow(f[s \ {Max(s)}], col[Max(s)], min)]
<1>1. BoundedCount(col, min) = iter[DOMAIN col]
  BY SMT DEF BoundedCount, FoldLeft, MapThenFoldSet
<1>2. n \in Nat /\ DOMAIN col = 1..n /\ \A i \in 1..n : col[i] \in Value \union {Null}
  BY LenProperties, ElementOfSeq
<1> HIDE DEF n
<1>3. Counted(EmptyCount) = {} /\ EmptyCount \in CountType
  BY DEF Counted, EmptyCount, CountType
<1>4. EmptyCount \in X /\ step \in [1..n -> [X -> X]]
  <2>1. EmptyCount \in X
    BY <1>3, FS_EmptySet DEF FiniteCounts
  <2>2. \A i \in 1..n : \A count \in X : CountRow(count, col[i], min) \in X
    BY <1>2, CountStaysFinite
  <2> QED BY <2>1, <2>2
<1>5. PICK g : IsFold(g, n, X, EmptyCount, step)
  <2> HIDE DEF step
  <2> QED BY <1>2, <1>4, FoldOfRows
<1>6. ASSUME NEW s \in SUBSET (1..n), s # {}
      PROVE  step[Max(s)][g[s \ {Max(s)}]] = CountRow(g[s \ {Max(s)}], col[Max(s)], min)
  <2>1. Max(s) \in 1..n
    BY <1>2, <1>6, MaxIsARow
  <2>2. g[s \ {Max(s)}] \in X
    BY <1>5 DEF IsFold
  <2> QED BY <2>1, <2>2
<1>7. g = [s \in SUBSET (1..n) |->
            IF s = {} THEN EmptyCount ELSE CountRow(g[s \ {Max(s)}], col[Max(s)], min)]
  <2> HIDE DEF step
  <2> QED BY <1>5, <1>6 DEF IsFold
<1>8. iter = [s \in SUBSET (1..n) |->
                IF s = {} THEN EmptyCount
                ELSE CountRow(iter[s \ {Max(s)}], col[Max(s)], min)]
  BY <1>2, <1>7
<1> HIDE DEF iter
<1>9. iter[{}] = EmptyCount
  BY <1>8
<1>10. ASSUME NEW k \in Nat, k + 1 <= n
       PROVE  iter[1..k + 1] = CountRow(iter[1..k], col[k + 1], min)
  <2>1. 1..k + 1 \in SUBSET (1..n)
    BY <1>2, <1>10
  <2>2. iter[1..k + 1] = IF 1..k + 1 = {} THEN EmptyCount
                         ELSE CountRow(iter[(1..k + 1) \ {Max(1..k + 1)}],
                                       col[Max(1..k + 1)], min)
    BY <1>8, <2>1
  <2> QED BY <2>2, FirstRows
<1> DEFINE Agree == {k \in Nat : k <= n => CountedSoFar(iter[1..k], col, min, k)}
<1>11. 0 \in Agree
  <2>1. 1..0 = {} /\ Cardinality({}) = 0
    BY FS_EmptySet
  <2>2. \A v : {i \in 1..0 : col[i] = v} = {}
    BY <2>1
  <2>3. Table(col, 0) = EmptyCount.counts /\ DistinctIn(col, 0) = {}
    BY <2>1, <2>2 DEF Table, EmptyCount, DistinctIn
  <2>4. EmptyCount.open = TRUE /\ EmptyCount.nulls = 0
    BY DEF EmptyCount
  <2>5. CountedSoFar(EmptyCount, col, min, 0)
    BY <1>3, <2>1, <2>2, <2>3, <2>4 DEF CountedSoFar
  <2> QED BY <1>9, <2>1, <2>5
<1>12. ASSUME NEW k \in Nat, k \in Agree
       PROVE  k + 1 \in Agree
  <2> SUFFICES ASSUME k + 1 <= n
               PROVE  CountedSoFar(iter[1..k + 1], col, min, k + 1)
    OBVIOUS
  <2>1. CountedSoFar(iter[1..k], col, min, k)
    BY <1>2, <1>12
  <2>2. \A i \in 1..k + 1 : col[i] \in Value \union {Null}
    BY <1>2
  <2> QED BY <1>10, <2>1, <2>2, CountStep
<1>13. n \in Agree
  <2> HIDE DEF Agree
  <2> QED BY <1>2, <1>11, <1>12, SetInduction
<1>14. CountedSoFar(iter[1..n], col, min, n)
  BY <1>2, <1>13
<1> QED BY <1>1, <1>2, <1>14 DEF n

-----------------------------------------------------------------------------
(* What a profile says of a column. *)

\* And it has a first one.
LEMMA MinIsARow ==
    ASSUME NEW n \in Nat, NEW s \in SUBSET (1..n), s # {}
    PROVE  Min(s) \in s /\ Min(s) \in 1..n
<1>1. PICK x \in s : \A y \in s : ~(<<y, x>> \in OpToRel(<, Nat))
  <2>1. s \subseteq Nat
    OBVIOUS
  <2> QED BY <2>1, NatLessThanWellFounded, WFMin
<1>2. \A y \in s : x <= y
  <2> SUFFICES ASSUME NEW y \in s, y < x
               PROVE  FALSE
    OBVIOUS
  <2>1. <<y, x>> \in OpToRel(<, Nat)
    BY DEF OpToRel
  <2> QED BY <1>1, <2>1
<1>3. \E m \in s : \A y \in s : m <= y
  BY <1>2
<1> QED BY <1>3 DEF Min

\* The rows with values and those without are all rows; the values in them are
\* the distinct ones; and each occurs in at least one row and at most all of those.
LEMMA RowsOfAColumn ==
    ASSUME NEW col \in Seq(Value \union {Null})
    PROVE  /\ Len(col) \in Nat
           /\ \A i \in 1..Len(col) : col[i] \in Value \union {Null}
           /\ Cardinality(NonNull(col)) \in 0..Len(col)
           /\ Cardinality({i \in 1..Len(col) : col[i] = Null}) =
                  Len(col) - Cardinality(NonNull(col))
           /\ Distinct(col) = DistinctIn(col, Len(col)) /\ Distinct(col) \subseteq Value
           /\ IsFiniteSet(Distinct(col)) /\ Cardinality(Distinct(col)) \in Nat
           /\ Cardinality(Distinct(col)) = 0 <=> Cardinality(NonNull(col)) = 0
           /\ \A v \in Distinct(col) : Frequency(col, v) \in 1..Cardinality(NonNull(col))
<1> DEFINE n == Len(col)
           Nulls == {i \in 1..n : col[i] = Null}
           Rows(v) == {i \in 1..n : col[i] = v}
<1>1. n \in Nat /\ \A i \in 1..n : col[i] \in Value \union {Null}
  BY LenProperties, ElementOfSeq
<1> HIDE DEF n
<1>2. IsFiniteSet(1..n) /\ Cardinality(1..n) = n
  BY <1>1, FS_Interval
<1>3. NonNull(col) = (1..n) \ Nulls /\ Nulls \subseteq 1..n
  BY DEF NonNull, n
<1> HIDE DEF Nulls
<1>4. /\ IsFiniteSet(Nulls) /\ IsFiniteSet(NonNull(col))
      /\ Cardinality(NonNull(col)) = n - Cardinality(Nulls)
  <2>1. (1..n) \intersect Nulls = Nulls
    BY <1>3
  <2>2. IsFiniteSet(Nulls)
    BY <1>2, <1>3, FS_Subset
  <2>3. /\ IsFiniteSet((1..n) \ Nulls)
        /\ Cardinality((1..n) \ Nulls) = Cardinality(1..n) - Cardinality((1..n) \intersect Nulls)
    BY <1>2, FS_Difference
  <2> QED BY <1>2, <1>3, <2>1, <2>2, <2>3
<1>5. Cardinality(Nulls) \in Nat /\ Cardinality(NonNull(col)) \in Nat
  BY <1>4, FS_CardinalityType
<1>6. Distinct(col) = DistinctIn(col, n) /\ Distinct(col) \subseteq Value
  BY <1>1, NullAssumption DEF Distinct, DistinctIn, NonNull, n
<1>7. IsFiniteSet(Distinct(col)) /\ Cardinality(Distinct(col)) \in Nat
  BY <1>1, <1>6, CountedAreDistinct
<1>8. Distinct(col) = {} <=> NonNull(col) = {}
  BY DEF Distinct
<1>9. ASSUME NEW v \in Distinct(col)
      PROVE  Frequency(col, v) \in 1..Cardinality(NonNull(col))
  <2>1. Rows(v) \subseteq NonNull(col) /\ Rows(v) # {}
    <3>1. v # Null
      BY <1>6, NullAssumption
    <3> QED BY <3>1 DEF Distinct, NonNull, n
  <2>2. Frequency(col, v) = Cardinality(Rows(v))
    BY DEF Frequency, n
  <2> HIDE DEF Rows
  <2>3. IsFiniteSet(Rows(v)) /\ Cardinality(Rows(v)) <= Cardinality(NonNull(col))
    BY <1>4, <2>1, FS_Subset
  <2>4. Cardinality(Rows(v)) \in Nat /\ Cardinality(Rows(v)) # 0
    BY <2>1, <2>3, FS_CardinalityType, FS_EmptySet
  <2> QED BY <1>5, <2>2, <2>3, <2>4
<1>10. Cardinality(Distinct(col)) = 0 <=> Cardinality(NonNull(col)) = 0
  BY <1>4, <1>7, <1>8, FS_EmptySet
<1> QED BY <1>1, <1>4, <1>5, <1>6, <1>7, <1>9, <1>10 DEF n, Nulls

\* Two tables of frequencies with the same entries make the same profile.
LEMMA SameProfile ==
    ASSUME NEW rows, NEW nulls, NEW f, NEW g,
           {v \in DOMAIN f : f[v] > 0} = {v \in DOMAIN g : g[v] > 0},
           \A v \in DOMAIN f : f[v] > 0 => f[v] = g[v]
    PROVE  Profile(rows, nulls, f) = Profile(rows, nulls, g)
<1> DEFINE seen == {v \in DOMAIN g : g[v] > 0}
<1>1. {f[v] : v \in {v \in DOMAIN f : f[v] > 0}} = {g[v] : v \in seen}
  OBVIOUS
<1> QED BY <1>1 DEF Profile

\* The exact profile, field by field.
LEMMA ColumnRiskFields ==
    ASSUME NEW col \in Seq(Value \union {Null})
    PROVE  /\ NonNullRows(ColumnRisk(col)) = Cardinality(NonNull(col))
           /\ ColumnRisk(col).n_distinct = Cardinality(Distinct(col))
           /\ NonNull(col) # {} =>
                /\ ColumnRisk(col).min_frequency >= 1
                /\ ColumnRisk(col).min_frequency \in Nat
                /\ ColumnRisk(col).top \in 1..Cardinality(NonNull(col))
<1> DEFINE D == Distinct(col)
           m == Cardinality(NonNull(col))
           f == [v \in D |-> Frequency(col, v)]
           sizes == {f[v] : v \in D}
           r == ColumnRisk(col)
<1>1. /\ Len(col) \in Nat /\ m \in Nat /\ IsFiniteSet(D)
      /\ \A v \in D : f[v] \in 1..m
  <2>1. /\ Len(col) \in Nat /\ m \in 0..Len(col) /\ IsFiniteSet(D)
        /\ \A v \in D : Frequency(col, v) \in 1..m
    BY RowsOfAColumn
  <2> QED BY <2>1
<1>2. {v \in DOMAIN f : f[v] > 0} = D
  BY <1>1
<1>3. r = [n_rows |-> Len(col), n_null |-> Len(col) - m, n_distinct |-> Cardinality(D),
           min_frequency |-> IF sizes = {} THEN 0 ELSE Min(sizes),
           top |-> IF sizes = {} THEN 0 ELSE Max(sizes)]
  BY <1>2 DEF ColumnRisk, Profile
<1>4. NonNull(col) # {} => sizes # {}
  BY DEF Distinct
<1>5. sizes \in SUBSET (1..m)
  BY <1>1
<1> HIDE DEF sizes, r, m
<1>6. sizes # {} => Min(sizes) \in 1..m /\ Max(sizes) \in 1..m
  BY <1>1, <1>5, MinIsARow, MaxIsARow
<1>7. NonNullRows(r) = m /\ r.n_distinct = Cardinality(D)
  BY <1>1, <1>3 DEF NonNullRows
<1>8. NonNull(col) # {} => r.min_frequency >= 1 /\ r.min_frequency \in Nat /\ r.top \in 1..m
  BY <1>1, <1>3, <1>4, <1>6
<1> QED BY <1>7, <1>8 DEF r, m

\* profile_columns finds the exact profile, and so does any table of the
\* frequencies of all rows.
LEMMA TableIsExact ==
    ASSUME NEW col \in Seq(Value \union {Null})
    PROVE  Profile(Len(col), Cardinality({i \in 1..Len(col) : col[i] = Null}),
                   Table(col, Len(col))) = ColumnRisk(col)
<1> DEFINE f == Table(col, Len(col))
           g == [v \in Distinct(col) |-> Frequency(col, v)]
<1>1. /\ Len(col) \in Nat /\ \A i \in 1..Len(col) : col[i] \in Value \union {Null}
      /\ Cardinality(NonNull(col)) \in 0..Len(col)
      /\ Distinct(col) = DistinctIn(col, Len(col)) /\ Distinct(col) \subseteq Value
      /\ \A v \in Distinct(col) : Frequency(col, v) \in 1..Cardinality(NonNull(col))
  BY RowsOfAColumn
<1>2. {v \in DOMAIN f : f[v] > 0} = Distinct(col)
  <2>1. \A v \in Value : f[v] > 0 <=> v \in DistinctIn(col, Len(col))
    BY <1>1, CountedAreDistinct
  <2>2. DOMAIN f = Value
    BY DEF Table
  <2> QED BY <1>1, <2>1, <2>2
<1>3. {v \in DOMAIN g : g[v] > 0} = Distinct(col)
  BY <1>1
<1>4. \A v \in Distinct(col) : f[v] = g[v]
  BY <1>1 DEF Table, Frequency
<1> HIDE DEF f, g
<1>5. \A rows, nulls : Profile(rows, nulls, f) = Profile(rows, nulls, g)
  BY <1>2, <1>3, <1>4, SameProfile
<1>6. Cardinality({i \in 1..Len(col) : col[i] = Null}) = Len(col) - Cardinality(NonNull(col))
  BY RowsOfAColumn
<1> QED BY <1>5, <1>6 DEF ColumnRisk, f, g

\* Every way to check a column gives the same answer, for every column and every
\* minimum (column_risk, risk_violations, _check_rows_and_cardinality, cmd_report,
\* _check_cardinality of Spark).
THEOREM EveryCheckAgrees ==
    ASSUME NEW col \in Seq(Value \union {Null}), NEW min \in Nat \ {0}
    PROVE  SameVerdict(col, min)
<1> DEFINE verdict == IsLowCardinality(ColumnRisk(col), min)
           count == BoundedCount(col, min)
           D == Distinct(col)
           m == Cardinality(NonNull(col))
           expected == m > 0 /\ Cardinality(D) < min
<1>1. /\ Len(col) \in Nat /\ \A i \in 1..Len(col) : col[i] \in Value \union {Null}
      /\ m \in 0..Len(col)
      /\ Cardinality({i \in 1..Len(col) : col[i] = Null}) = Len(col) - m
      /\ D = DistinctIn(col, Len(col)) /\ IsFiniteSet(D) /\ Cardinality(D) \in Nat
      /\ Cardinality(D) = 0 <=> m = 0
  BY RowsOfAColumn
<1>2. verdict = expected
  BY ColumnRiskFields DEF IsLowCardinality
<1>3. SparkRefuses(col, min) = expected
  BY <1>1 DEF SparkRefuses
<1>4. /\ count.nulls = Len(col) - m
      /\ count.open => Counted(count) = D /\ (D = {} \/ Cardinality(D) < min)
      /\ ~count.open => Cardinality(D) >= min
      /\ count.open \in BOOLEAN
  <2>1. CountedSoFar(count, col, min, Len(col))
    BY CountFold
  <2> HIDE DEF count, m
  <2>2. count.open => Counted(count) = D
    <3>1. \A v \in Value : Table(col, Len(col))[v] > 0 <=> v \in D
      BY <1>1, CountedAreDistinct
    <3>2. D \subseteq Value
      BY <1>1 DEF DistinctIn
    <3> QED BY <2>1, <3>1, <3>2 DEF CountedSoFar, Counted
  <2>3. ~count.open => Cardinality(D) >= min
    <3>1. ~count.open => Cardinality(Counted(count)) = min /\ Counted(count) \subseteq D
      BY <1>1, <2>1 DEF CountedSoFar
    <3>2. Counted(count) \subseteq D => Cardinality(Counted(count)) <= Cardinality(D)
      BY <1>1, FS_Subset
    <3> QED BY <1>1, <3>1, <3>2
  <2> QED BY <1>1, <2>1, <2>2, <2>3 DEF CountedSoFar, CountType
<1>5. D = {} <=> m = 0
  BY <1>1, FS_EmptySet
<1> HIDE DEF count, m, D
<1>6. BoundedRefuses(count) = expected
  BY <1>1, <1>4, <1>5 DEF BoundedRefuses
<1>7. Report(col, min).low_cardinality = expected
  <2>1. Report(col, min).low_cardinality = (Len(col) - count.nulls > 0 /\ count.open)
    BY DEF Report, count
  <2>2. Len(col) - count.nulls = m
    BY <1>1, <1>4
  <2> QED BY <1>1, <1>4, <1>5, <2>1, <2>2
<1>8. RiskCheckFails(col, OnlyDistinct(min)) = expected
  <2> DEFINE r == ColumnRisk(col)
             limit == OnlyDistinct(min)
  <2>1. ProfileColumn(col) = r
    BY TableIsExact, FrequencyFold DEF ProfileColumn
  <2>2. /\ NonNullRows(r) = m /\ r.n_distinct = Cardinality(D)
        /\ m > 0 => r.min_frequency \in Nat /\ r.min_frequency >= 1 /\ r.top \in 1..m
    <3>1. m > 0 => NonNull(col) # {}
      <4>1. NonNull(col) = {} => m = 0
        BY FS_EmptySet DEF m
      <4> QED BY <4>1
    <3> QED BY <3>1, ColumnRiskFields DEF m, D
  <2>3. /\ limit.min_distinct = min /\ limit.min_frequency = 1
        /\ limit.max_top_share.num = 1 /\ limit.max_top_share.den = 1
    BY DEF OnlyDistinct, NoShare
  <2> HIDE DEF r, limit
  <2>4. CASE m = 0
    <3>1. RiskViolations(r, limit) = {}
      BY <2>2, <2>4 DEF RiskViolations
    <3> QED BY <2>1, <2>4, <3>1 DEF RiskCheckFails, limit
  <2>5. CASE m > 0
    <3>1. ~(r.top * 1 > m * 1) /\ ~(r.min_frequency < 1)
      BY <1>1, <2>2, <2>5
    <3>2. RiskViolations(r, limit) # {} <=> r.n_distinct < min
      <4> DEFINE Violated(x) ==
              \/ x = "distinct" /\ r.n_distinct < min
              \/ x = "top share" /\ r.top * 1 > m * 1
              \/ x = "minimum frequency" /\ r.min_frequency < 1
      <4>1. RiskViolations(r, limit) =
                {x \in {"distinct", "top share", "minimum frequency"} : Violated(x)}
        <5>1. NonNullRows(r) # 0
          BY <2>2, <2>5, <1>1
        <5>2. RiskViolations(r, limit) =
                {x \in {"distinct", "top share", "minimum frequency"} :
                    \/ x = "distinct" /\ r.n_distinct < limit.min_distinct
                    \/ x = "top share"
                       /\ r.top * limit.max_top_share.den >
                              NonNullRows(r) * limit.max_top_share.num
                    \/ x = "minimum frequency" /\ r.min_frequency < limit.min_frequency}
          BY <5>1 DEF RiskViolations
        <5> QED BY <2>2, <2>3, <5>2
      <4>2. \A x : Violated(x) <=> x = "distinct" /\ r.n_distinct < min
        BY <3>1
      <4> HIDE DEF Violated
      <4> QED BY <4>1, <4>2
    <3> QED BY <2>1, <2>2, <2>5, <3>2 DEF RiskCheckFails, limit
  <2> QED BY <1>1, <2>4, <2>5
<1> QED BY <1>2, <1>3, <1>6, <1>7, <1>8 DEF SameVerdict, count

\* A column that stays open was counted exactly, and a count never holds more
\* than min values ("Distinct values are tracked only until a column reaches
\* min_distinct", cli.py:822).
THEOREM BoundedCountIsExact ==
    ASSUME NEW col \in Seq(Value \union {Null}), NEW min \in Nat \ {0}
    PROVE  BoundedIsExact(col, min)
<1> DEFINE count == BoundedCount(col, min)
<1>1. CountedSoFar(count, col, min, Len(col))
  BY CountFold
<1>2. /\ Len(col) \in Nat /\ \A i \in 1..Len(col) : col[i] \in Value \union {Null}
  BY RowsOfAColumn
<1> HIDE DEF count
<1>3. Cardinality(Counted(count)) <= min
  <2>1. CASE count.open
    <3>1. Counted(count) = DistinctIn(col, Len(col))
      <4>1. \A v \in Value : Table(col, Len(col))[v] > 0 <=> v \in DistinctIn(col, Len(col))
        BY <1>2, CountedAreDistinct
      <4> QED BY <1>1, <2>1, <4>1 DEF CountedSoFar, Counted, DistinctIn
    <3>2. Cardinality(DistinctIn(col, Len(col))) \in Nat
      BY <1>2, CountedAreDistinct
    <3>3. DistinctIn(col, Len(col)) = {} => Cardinality(DistinctIn(col, Len(col))) = 0
      BY FS_EmptySet
    <3> QED BY <1>1, <2>1, <3>1, <3>2, <3>3 DEF CountedSoFar
  <2>2. CASE ~count.open
    BY <1>1, <2>2 DEF CountedSoFar
  <2> QED BY <2>1, <2>2
<1>4. BoundedRefuses(count) => BoundedProfile(col, count) = ColumnRisk(col)
  BY <1>1, TableIsExact DEF BoundedRefuses, BoundedProfile, CountedSoFar
<1>5. ProfileColumn(col) = ColumnRisk(col)
  BY TableIsExact, FrequencyFold DEF ProfileColumn
<1> QED BY <1>3, <1>4, <1>5 DEF BoundedIsExact, count

-----------------------------------------------------------------------------
(* A column under other names. *)

\* Whoever replaces equal values by equal ones and different values by different
\* ones, and leaves nulls alone, changes nothing that colgov measures.
SameShape(col, new) ==
    /\ Len(new) = Len(col)
    /\ \A i \in 1..Len(col) : new[i] = Null <=> col[i] = Null
    /\ \A i, j \in 1..Len(col) : new[i] = new[j] <=> col[i] = col[j]

LEMMA ShapeDecidesRisk ==
    ASSUME NEW col \in Seq(Value \union {Null}), NEW new, SameShape(col, new)
    PROVE  ColumnRisk(new) = ColumnRisk(col)
<1> DEFINE n == Len(col)
           D == Distinct(col)
           E == Distinct(new)
           f == [v \in D |-> Frequency(col, v)]
           g == [t \in E |-> Frequency(new, t)]
           seen == {v \in D : f[v] > 0}
           found == {t \in E : g[t] > 0}
           RowOf(v) == CHOOSE i \in 1..n : col[i] = v
           b == [v \in D |-> new[RowOf(v)]]
<1>1. /\ n \in Nat /\ IsFiniteSet(D)
      /\ Len(new) = n
      /\ \A i \in 1..n : new[i] = Null <=> col[i] = Null
      /\ \A i, j \in 1..n : new[i] = new[j] <=> col[i] = col[j]
  BY RowsOfAColumn DEF SameShape
<1>2. NonNull(new) = NonNull(col)
  BY <1>1 DEF NonNull
<1>3. /\ D = {col[i] : i \in NonNull(col)} /\ E = {new[i] : i \in NonNull(col)}
      /\ NonNull(col) \subseteq 1..n
  BY <1>2 DEF Distinct, NonNull
<1>4. \A i \in 1..n : Frequency(new, new[i]) = Frequency(col, col[i])
  <2> SUFFICES ASSUME NEW i \in 1..n
               PROVE  Frequency(new, new[i]) = Frequency(col, col[i])
    OBVIOUS
  <2>1. {j \in 1..n : new[j] = new[i]} = {j \in 1..n : col[j] = col[i]}
    BY <1>1
  <2> QED BY <1>1, <2>1 DEF Frequency
<1>5. \A v \in D : RowOf(v) \in NonNull(col) /\ col[RowOf(v)] = v
  <2> SUFFICES ASSUME NEW v \in D
               PROVE  RowOf(v) \in NonNull(col) /\ col[RowOf(v)] = v
    OBVIOUS
  <2>1. PICK i \in NonNull(col) : col[i] = v
    BY <1>3
  <2>2. RowOf(v) \in 1..n /\ col[RowOf(v)] = v
    BY <1>3, <2>1
  <2> QED BY <2>1, <2>2 DEF NonNull
<1> HIDE DEF RowOf, n
<1>6. \A v \in D : b[v] \in E /\ g[b[v]] = f[v]
  BY <1>3, <1>4, <1>5
<1>7. \A v, w \in D : b[v] = b[w] => v = w
  BY <1>1, <1>3, <1>5
<1>8. \A t \in E : \E v \in D : b[v] = t
  <2> SUFFICES ASSUME NEW i \in NonNull(col)
               PROVE  \E v \in D : b[v] = new[i]
    BY <1>3
  <2>1. col[i] \in D /\ RowOf(col[i]) \in 1..n /\ i \in 1..n /\ col[RowOf(col[i])] = col[i]
    BY <1>3, <1>5
  <2> QED BY <1>1, <2>1
<1>9. \A v \in D : f[v] > 0
  <2>1. \A v \in D : Frequency(col, v) \in 1..Cardinality(NonNull(col))
        /\ Cardinality(NonNull(col)) \in 0..Len(col) /\ Len(col) \in Nat
    BY RowsOfAColumn
  <2> QED BY <2>1
<1> HIDE DEF f, g, D, E, b
<1>10. seen = D /\ found = E
  BY <1>6, <1>8, <1>9
<1>11. Cardinality(E) = Cardinality(D)
  <2>1. b \in Bijection(D, E)
    <3>1. b \in [D -> E]
      BY <1>6 DEF b
    <3> QED BY <1>7, <1>8, <3>1 DEF Bijection, Injection, Surjection, IsInjective
  <2>2. ExistsBijection(D, E)
    BY <2>1 DEF ExistsBijection
  <2> QED BY <1>1, <2>2, FS_Bijection
<1>12. {g[t] : t \in found} = {f[v] : v \in seen}
  BY <1>6, <1>8, <1>10
<1>13. DOMAIN f = D /\ DOMAIN g = E
  BY DEF f, g
<1>14. \A rows, nulls : Profile(rows, nulls, g) = Profile(rows, nulls, f)
  BY <1>10, <1>11, <1>12, <1>13 DEF Profile
<1> QED BY <1>1, <1>2, <1>14 DEF ColumnRisk, f, g, D, E, n
=============================================================================
