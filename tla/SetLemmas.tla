------------------------------ MODULE SetLemmas ------------------------------
(***************************************************************************)
(* Facts about data that the proofs of several components need: induction  *)
(* over the naturals, and finite sets in order.                            *)
(***************************************************************************)
EXTENDS SortedSets, Sequences, FiniteSetTheorems, SequenceTheorems, WellFoundedInduction, TLAPS

-----------------------------------------------------------------------------
(* Induction over the naturals, for sets. *)

Less == {x \in Nat \X Nat : x[1] < x[2]}

(* A set of naturals with 0 and every successor has them all: the least    *)
(* number it lacks would have a predecessor in it.                         *)
LEMMA SetInduction ==
  ASSUME NEW S, 0 \in S, \A n \in Nat : n \in S => n + 1 \in S
  PROVE  \A n \in Nat : n \in S
<1> SUFFICES ASSUME Nat \ S # {} PROVE FALSE
  OBVIOUS
<1> DEFINE T == Nat \ S
<1>1. IsWellFoundedOn(Less, Nat)
  BY NatLessThanWellFounded, Zenon DEF OpToRel, Less
<1>2. PICK x \in T : \A y \in T : ~(<<y, x>> \in Less)
  <2>1. T \subseteq Nat /\ T # {}
    OBVIOUS
  <2> HIDE DEF T
  <2>2. QED BY <1>1, <2>1, WFMin, Zenon
<1>3. x \in Nat /\ x # 0 /\ x - 1 \in T /\ <<x - 1, x>> \in Less
  BY <1>2 DEF Less
<1>4. QED BY <1>2, <1>3

-----------------------------------------------------------------------------
(* Finite sets in order. *)

\* R orders S
Ordering(R, S) ==
  /\ \A x \in S : <<x, x>> \notin R
  /\ \A x, y \in S : x # y => <<x, y>> \in R \/ <<y, x>> \in R
  /\ \A x, y, z \in S : <<x, y>> \in R /\ <<y, z>> \in R => <<x, z>> \in R

\* the number of elements before x tells x from the others
LEMMA Ranks ==
  ASSUME NEW S, IsFiniteSet(S), NEW R, Ordering(R, S)
  PROVE  /\ \A x \in S : /\ Cardinality(Before(S, R, x)) \in 0..Cardinality(S) - 1
                         /\ Cardinality(NotAfter(S, R, x)) = Cardinality(Before(S, R, x)) + 1
         /\ \A x, y \in S : <<x, y>> \in R =>
              Cardinality(Before(S, R, x)) < Cardinality(Before(S, R, y))
<1>1. ASSUME NEW x \in S
      PROVE  /\ IsFiniteSet(Before(S, R, x))
             /\ Cardinality(Before(S, R, x)) \in Nat
             /\ IsFiniteSet(NotAfter(S, R, x))
             /\ Cardinality(NotAfter(S, R, x)) = Cardinality(Before(S, R, x)) + 1
             /\ Cardinality(NotAfter(S, R, x)) <= Cardinality(S)
  <2>1. Before(S, R, x) \in SUBSET S /\ NotAfter(S, R, x) \in SUBSET S /\ x \notin Before(S, R, x)
    BY DEF Before, NotAfter, Ordering
  <2>2. NotAfter(S, R, x) = Before(S, R, x) \cup {x}
    BY DEF Before, NotAfter, Ordering
  <2>3. IsFiniteSet(Before(S, R, x)) /\ Cardinality(NotAfter(S, R, x)) <= Cardinality(S)
    BY <2>1, FS_Subset
  <2>4. QED BY <2>1, <2>2, <2>3, FS_AddElement, FS_CardinalityType
<1>2. ASSUME NEW x \in S, NEW y \in S, <<x, y>> \in R
      PROVE  Cardinality(Before(S, R, x)) < Cardinality(Before(S, R, y))
  <2>1. NotAfter(S, R, x) \in SUBSET Before(S, R, y)
    BY <1>2 DEF Before, NotAfter, Ordering
  <2>2. Cardinality(NotAfter(S, R, x)) <= Cardinality(Before(S, R, y))
    BY <1>1, <2>1, FS_Subset
  <2>3. QED BY <1>1, <2>2
<1>3. Cardinality(S) \in Nat
  BY FS_CardinalityType
<1>4. QED BY <1>1, <1>2, <1>3

\* SortedBy has every element of S once, in the order of R
LEMMA SortedByOrder ==
  ASSUME NEW S, IsFiniteSet(S), NEW R, Ordering(R, S)
  PROVE  LET q == SortedBy(S, R)
             n == Cardinality(S)
         IN  /\ n \in Nat /\ q \in [1..n -> S]
             /\ \A i \in 1..n : Cardinality(Before(S, R, q[i])) = i - 1
             /\ \A x \in S : \E i \in 1..n : q[i] = x
             /\ \A i, j \in 1..n : i < j => <<q[i], q[j]>> \in R
<1> DEFINE n == Cardinality(S)
           rank == [x \in S |-> Cardinality(Before(S, R, x)) + 1]
<1>1. n \in Nat
  BY FS_CardinalityType
<1>2. rank \in Injection(S, 1..n)
  <2>1. rank \in [S -> 1..n]
    BY <1>1, Ranks
  <2>2. ASSUME NEW x \in S, NEW y \in S, rank[x] = rank[y] PROVE x = y
    <3>1. /\ Cardinality(Before(S, R, x)) = Cardinality(Before(S, R, y))
          /\ Cardinality(Before(S, R, x)) \in Int
      BY <1>1, <2>2, Ranks
    <3>2. <<x, y>> \notin R /\ <<y, x>> \notin R
      BY <3>1, Ranks
    <3>3. QED BY <3>2 DEF Ordering
  <2>3. QED BY <2>1, <2>2 DEF Injection, IsInjective
<1>3. rank \in Surjection(S, 1..n)
  <2>1. IsFiniteSet(1..n) /\ Cardinality(1..n) = n
    BY <1>1, FS_Interval
  <2> HIDE DEF rank
  <2>2. QED BY <1>2, <2>1, FS_Injection
<1>4. ASSUME NEW i \in 1..n
      PROVE  /\ SortedBy(S, R)[i] \in S
             /\ Cardinality(Before(S, R, SortedBy(S, R)[i])) = i - 1
  <2>1. \E x \in S : rank[x] = i
    BY <1>3 DEF Surjection
  <2>2. \E x \in S : Cardinality(Before(S, R, x)) < i /\ i <= Cardinality(NotAfter(S, R, x))
    BY <1>1, <2>1, Ranks
  <2>3. /\ SortedBy(S, R)[i] \in S
        /\ Cardinality(Before(S, R, SortedBy(S, R)[i])) < i
        /\ i <= Cardinality(NotAfter(S, R, SortedBy(S, R)[i]))
    BY <2>2 DEF SortedBy
  <2>4. QED BY <1>1, <2>3, Ranks
<1>5. SortedBy(S, R) \in [1..n -> S]
  BY <1>4 DEF SortedBy
<1>6. ASSUME NEW x \in S PROVE \E i \in 1..n : SortedBy(S, R)[i] = x
  <2>1. rank[x] \in 1..n
    BY <1>1, Ranks
  <2>2. Cardinality(Before(S, R, SortedBy(S, R)[rank[x]])) + 1 = rank[x]
    BY <1>1, <1>4, <2>1
  <2>3. SortedBy(S, R)[rank[x]] \in S
    BY <1>4, <2>1
  <2>4. rank[SortedBy(S, R)[rank[x]]] = rank[x]
    BY <2>2, <2>3
  <2>5. SortedBy(S, R)[rank[x]] = x
    BY <1>2, <2>3, <2>4 DEF Injection, IsInjective
  <2>6. QED BY <2>1, <2>5
<1>7. ASSUME NEW i \in 1..n, NEW j \in 1..n, i < j
      PROVE  <<SortedBy(S, R)[i], SortedBy(S, R)[j]>> \in R
  <2> DEFINE x == SortedBy(S, R)[i]
             y == SortedBy(S, R)[j]
  <2>1. /\ x \in S /\ Cardinality(Before(S, R, x)) = i - 1
        /\ y \in S /\ Cardinality(Before(S, R, y)) = j - 1
    BY <1>4
  <2> HIDE DEF x, y
  <2>2. x # y /\ <<y, x>> \notin R
    BY <1>1, <1>7, <2>1, Ranks
  <2>3. <<x, y>> \in R
    BY <2>1, <2>2 DEF Ordering
  <2>4. QED BY <2>3 DEF x, y
<1>8. QED BY <1>1, <1>4, <1>5, <1>6, <1>7

\* it is a sequence
LEMMA SortedBySeq ==
  ASSUME NEW S, IsFiniteSet(S), NEW R, Ordering(R, S)
  PROVE  /\ SortedBy(S, R) \in Seq(S)
         /\ Len(SortedBy(S, R)) = Cardinality(S)
<1> DEFINE q == SortedBy(S, R)
<1>1. Cardinality(S) \in Nat /\ q \in [1..Cardinality(S) -> S]
  BY SortedByOrder
<1> HIDE DEF q
<1>2. q \in UNION {[1..k -> S] : k \in Nat}
  BY <1>1
<1>3. q \in Seq(S)
  BY <1>2, SeqDef, Zenon
<1>4. 1..Len(q) = 1..Cardinality(S) /\ Len(q) \in Nat
  BY <1>1, <1>3, LenProperties
<1>5. QED BY <1>1, <1>3, <1>4 DEF q

\* what comes behind all of S does not move the elements of S
LEMMA SortedByExtends ==
  ASSUME NEW T, IsFiniteSet(T), NEW S \in SUBSET T, NEW R, Ordering(R, T),
         \A e \in S, f \in T \ S : <<e, f>> \in R
  PROVE  /\ IsFiniteSet(S) /\ Ordering(R, S) /\ Cardinality(S) <= Cardinality(T)
         /\ \A i \in 1..Cardinality(S) : SortedBy(T, R)[i] = SortedBy(S, R)[i]
<1>1. IsFiniteSet(S) /\ Ordering(R, S) /\ Cardinality(S) <= Cardinality(T)
  BY FS_Subset DEF Ordering
<1>2. \A x \in S : Before(T, R, x) = Before(S, R, x)
  BY DEF Before, Ordering
<1>3. ASSUME NEW i \in 1..Cardinality(S) PROVE SortedBy(T, R)[i] = SortedBy(S, R)[i]
  <2> DEFINE x == SortedBy(S, R)[i]
             y == SortedBy(T, R)[i]
  <2>1. x \in S /\ Cardinality(Before(S, R, x)) = i - 1
    BY <1>1, SortedByOrder
  <2>2. y \in T /\ Cardinality(Before(T, R, y)) = i - 1
    <3>1. i \in 1..Cardinality(T)
      BY <1>1, FS_CardinalityType
    <3>2. QED BY <3>1, SortedByOrder
  <2>3. Cardinality(Before(T, R, x)) = i - 1
    BY <1>2, <2>1
  <2> HIDE DEF x, y
  <2>4. x = y
    <3>1. x \in T
      BY <2>1
    <3>2. Cardinality(Before(T, R, x)) = Cardinality(Before(T, R, y))
      BY <2>2, <2>3
    <3>3. ~(<<x, y>> \in R) /\ ~(<<y, x>> \in R)
      BY <2>2, <2>3, <3>1, <3>2, Ranks
    <3>4. QED BY <2>2, <3>1, <3>3 DEF Ordering
  <2>5. QED BY <2>4 DEF x, y
<1>4. QED BY <1>1, <1>3

\* the order of S is all that counts of a relation
LEMMA SortedBySame ==
  ASSUME NEW S, IsFiniteSet(S), NEW R, NEW Q, Ordering(R, S),
         \A x, y \in S : <<x, y>> \in Q <=> <<x, y>> \in R
  PROVE  SortedBy(S, Q) = SortedBy(S, R)
<1>1. Ordering(Q, S)
  BY DEF Ordering
<1>2. ASSUME NEW i \in 1..Cardinality(S) PROVE SortedBy(S, Q)[i] = SortedBy(S, R)[i]
  <2> DEFINE x == SortedBy(S, R)[i]
             y == SortedBy(S, Q)[i]
  <2>1. x \in S /\ Cardinality(Before(S, R, x)) = i - 1
    BY SortedByOrder
  <2>2. y \in S /\ Cardinality(Before(S, Q, y)) = i - 1
    BY <1>1, SortedByOrder
  <2> HIDE DEF x, y
  <2>3. Before(S, Q, y) = Before(S, R, y)
    BY <2>2 DEF Before
  <2>4. ~(<<x, y>> \in R) /\ ~(<<y, x>> \in R)
    BY <2>1, <2>2, <2>3, Ranks
  <2>5. x = y
    BY <2>1, <2>2, <2>4 DEF Ordering
  <2>6. QED BY <2>5 DEF x, y
<1>3. QED BY <1>2 DEF SortedBy

\* what comes behind all of S is the last element
LEMMA SortedByAppend ==
  ASSUME NEW S, IsFiniteSet(S), NEW e, e \notin S, NEW R, Ordering(R, S \cup {e}),
         \A x \in S : <<x, e>> \in R
  PROVE  SortedBy(S \cup {e}, R) = Append(SortedBy(S, R), e)
<1> DEFINE T == S \cup {e}
           n == Cardinality(S)
           q == SortedBy(S, R)
           r == SortedBy(T, R)
<1>1. IsFiniteSet(T) /\ Cardinality(T) = n + 1 /\ n \in Nat
  BY FS_AddElement, FS_CardinalityType
<1>2. S \in SUBSET T /\ \A x \in S, y \in T \ S : <<x, y>> \in R
  OBVIOUS
<1>3. Ordering(R, S) /\ \A i \in 1..n : r[i] = q[i]
  <2> HIDE DEF T
  <2>1. QED BY <1>1, <1>2, SortedByExtends DEF T
<1>4. q \in Seq(S) /\ Len(q) = n
  BY <1>3, SortedBySeq
<1>5. /\ r \in Seq(T) /\ Len(r) = n + 1
  <2>1. Ordering(R, T)
    OBVIOUS
  <2> HIDE DEF T
  <2>2. QED BY <1>1, <2>1, SortedBySeq
<1>6. r[n + 1] = e
  <2>1. /\ \A i \in 1..n + 1 : Cardinality(Before(T, R, r[i])) = i - 1
        /\ \E i \in 1..n + 1 : r[i] = e
    <3>1. Ordering(R, T) /\ e \in T
      OBVIOUS
    <3> HIDE DEF T
    <3>2. QED BY <1>1, <3>1, SortedByOrder
  <2>2. Before(T, R, e) = S
    BY DEF Before, Ordering
  <2> HIDE DEF T, r
  <2>3. PICK i \in 1..n + 1 : r[i] = e
    BY <2>1
  <2>4. n = i - 1
    BY <2>1, <2>2, <2>3
  <2>5. QED BY <1>1, <2>3, <2>4
<1> HIDE DEF q, r, n
<1>7. /\ Append(q, e) \in Seq(T) /\ Len(Append(q, e)) = n + 1
      /\ \A i \in 1..n : Append(q, e)[i] = q[i]
      /\ Append(q, e)[n + 1] = e
  <2>1. q \in Seq(T) /\ e \in T
    BY <1>4
  <2> HIDE DEF T
  <2>2. QED BY <1>4, <2>1, AppendProperties
<1>8. \A i \in 1..n + 1 : r[i] = Append(q, e)[i]
  BY <1>1, <1>3, <1>6, <1>7
<1>9. r = Append(q, e)
  BY <1>5, <1>7, <1>8, SeqEqual
<1>10. QED BY <1>9 DEF q, r
=============================================================================
