--------------------------- MODULE DetectionProofs ---------------------------
(***************************************************************************)
(* What a run over all rules reports for any version of a dataset, and how *)
(* time and the flow of goods change it.  First what the sums and the      *)
(* concatenation that the rules are built from compute.                    *)
(***************************************************************************)
EXTENDS Detection, SetLemmas

-----------------------------------------------------------------------------
(* Sums over finite sets. *)

Pick(s) == CHOOSE x \in s : TRUE

\* g sums f over every set of family D
Sums(f, D, g) == g = [s \in D |-> IF s = {} THEN 0 ELSE f[Pick(s)] + g[s \ {Pick(s)}]]

\* the subsets of S with at most n elements
Small(S, n) == {s \in SUBSET S : Cardinality(s) <= n}

LEMMA PickOne ==
  ASSUME NEW S, IsFiniteSet(S), NEW s \in SUBSET S, s # {}
  PROVE  /\ Pick(s) \in s /\ IsFiniteSet(s) /\ Cardinality(s) \in Nat \ {0}
         /\ \A x \in s : s \ {x} \in SUBSET S /\ Cardinality(s \ {x}) = Cardinality(s) - 1
<1>1. Pick(s) \in s
  BY DEF Pick
<1>2. IsFiniteSet(s)
  BY FS_Subset
<1>3. Cardinality(s) \in Nat /\ Cardinality(s) # 0
  BY <1>2, FS_CardinalityType, FS_EmptySet
<1>4. QED BY <1>1, <1>2, <1>3, FS_RemoveElement

(* The recursive sum exists, also over all subsets. *)
LEMMA SumsExist ==
  ASSUME NEW S, IsFiniteSet(S), NEW f
  PROVE  \E g : Sums(f, SUBSET S, g)
<1> DEFINE N == {n \in Nat : \E g : Sums(f, Small(S, n), g)}
<1>1. \A s \in SUBSET S : IsFiniteSet(s) /\ Cardinality(s) \in Nat
  BY FS_Subset, FS_CardinalityType
<1>2. 0 \in N
  <2> DEFINE g == [s \in Small(S, 0) |-> 0]
  <2>1. \A s \in Small(S, 0) : s = {}
    BY <1>1, FS_EmptySet DEF Small
  <2>2. Sums(f, Small(S, 0), g)
    BY <2>1 DEF Sums
  <2>3. QED BY <2>2
<1>3. ASSUME NEW n \in Nat, n \in N PROVE n + 1 \in N
  <2>1. PICK g : Sums(f, Small(S, n), g)
    BY <1>3
  <2> DEFINE h == [s \in Small(S, n + 1) |->
                     IF s \in Small(S, n) THEN g[s] ELSE f[Pick(s)] + g[s \ {Pick(s)}]]
  <2>2. ASSUME NEW s \in Small(S, n + 1), s # {} PROVE s \ {Pick(s)} \in Small(S, n)
    BY <1>1, <2>2, PickOne DEF Small
  <2>3. ASSUME NEW s \in Small(S, n + 1)
        PROVE  h[s] = IF s = {} THEN 0 ELSE f[Pick(s)] + h[s \ {Pick(s)}]
    <3>1. CASE s = {}
      <4>1. s \in Small(S, n)
        BY <3>1, FS_EmptySet DEF Small
      <4>2. g[s] = 0
        BY <2>1, <3>1, <4>1 DEF Sums
      <4>3. QED BY <3>1, <4>1, <4>2
    <3>2. CASE s # {}
      <4> DEFINE r == s \ {Pick(s)}
      <4>1. r \in Small(S, n) /\ r \in Small(S, n + 1)
        BY <1>1, <2>2, <3>2 DEF Small
      <4>2. h[r] = g[r]
        BY <4>1
      <4>3. s \in Small(S, n) => g[s] = f[Pick(s)] + g[r]
        BY <2>1, <3>2 DEF Sums
      <4> HIDE DEF r
      <4>4. h[s] = f[Pick(s)] + g[r]
        BY <4>3 DEF r
      <4>5. QED BY <3>2, <4>2, <4>4 DEF r
    <3>3. QED BY <3>1, <3>2
  <2>4. Sums(f, Small(S, n + 1), h)
    BY <2>3 DEF Sums
  <2>5. QED BY <2>4
<1>4. \A n \in Nat : n \in N
  <2> HIDE DEF N
  <2>1. QED BY <1>2, <1>3, SetInduction
<1>5. Cardinality(S) \in Nat /\ SUBSET S = Small(S, Cardinality(S))
  BY FS_Subset, FS_CardinalityType DEF Small
<1>6. QED BY <1>4, <1>5

\* f on T alone
On(f, T) == [x \in T |-> f[x]]

(* SumFunction is that sum. *)
LEMMA SumIsFold ==
  ASSUME NEW S, IsFiniteSet(S), NEW f
  PROVE  \E g : Sums(On(f, S), SUBSET S, g) /\ SumFunction(On(f, S)) = g[S]
<1> DEFINE F == On(f, S)
           h == CHOOSE g : Sums(F, SUBSET S, g)
<1>1. DOMAIN F = S
  BY DEF On
<1>2. Sums(F, SUBSET S, h)
  BY SumsExist
<1>3. SumFunction(F) = h[S]
  <2> HIDE DEF F
  <2>1. QED
    BY <1>1 DEF SumFunction, SumFunctionOnSet, FoldFunctionOnSet, MapThenFoldSet, Sums, Pick
<1>4. QED BY <1>2, <1>3

\* the sum over T is that of one element and the rest
Split(f, T) ==
  /\ SumFunction(On(f, T)) \in Int
  /\ T = {} => SumFunction(On(f, T)) = 0
  /\ \A x \in T : SumFunction(On(f, T)) = f[x] + SumFunction(On(f, T \ {x}))

(* Two recursive sums agree where both are defined. *)
LEMMA SumsAgree ==
  ASSUME NEW S, IsFiniteSet(S), NEW T \in SUBSET S, NEW f, NEW g, NEW h,
         Sums(f, SUBSET S, g), Sums(f, SUBSET T, h)
  PROVE  \A s \in SUBSET T : h[s] = g[s]
<1> DEFINE N == {n \in Nat : \A s \in SUBSET T : Cardinality(s) = n => h[s] = g[s]}
<1>1. \A s \in SUBSET T : s \in SUBSET S /\ IsFiniteSet(s) /\ Cardinality(s) \in Nat
  BY FS_Subset, FS_CardinalityType
<1>2. /\ h[{}] = 0 /\ g[{}] = 0
      /\ \A s \in SUBSET T : s # {} => /\ h[s] = f[Pick(s)] + h[s \ {Pick(s)}]
                                       /\ g[s] = f[Pick(s)] + g[s \ {Pick(s)}]
  BY <1>1 DEF Sums
<1>3. 0 \in N
  BY <1>1, <1>2, FS_EmptySet
<1>4. ASSUME NEW n \in Nat, n \in N PROVE n + 1 \in N
  <2>1. ASSUME NEW s \in SUBSET T, Cardinality(s) = n + 1 PROVE h[s] = g[s]
    <3>1. s # {}
      BY <2>1, FS_EmptySet
    <3>2. s \ {Pick(s)} \in SUBSET T /\ Cardinality(s \ {Pick(s)}) = n
      BY <1>1, <2>1, <3>1, PickOne
    <3>3. QED BY <1>2, <1>4, <3>1, <3>2
  <2>2. QED BY <2>1
<1>5. \A n \in Nat : n \in N
  <2> HIDE DEF N
  <2>1. QED BY <1>3, <1>4, SetInduction
<1>6. QED BY <1>1, <1>5

\* g has the sum of f over each subset of S
HasSums(f, S, g) ==
  Sums(f, SUBSET S, g) /\ \A T \in SUBSET S : SumFunction(On(f, T)) = g[T]

(* SumFunction is one recursive sum for all subsets of S. *)
LEMMA SumsOfSubsets ==
  ASSUME NEW S, IsFiniteSet(S), NEW f
  PROVE  \E g : HasSums(f, S, g)
<1>1. \A T, g : Sums(On(f, T), SUBSET T, g) <=> Sums(f, SUBSET T, g)
  <2> SUFFICES ASSUME NEW T, NEW g
               PROVE  Sums(On(f, T), SUBSET T, g) <=> Sums(f, SUBSET T, g)
    OBVIOUS
  <2>1. \A s \in SUBSET T : s # {} => On(f, T)[Pick(s)] = f[Pick(s)]
    BY DEF On, Pick
  <2>2. [s \in SUBSET T |-> IF s = {} THEN 0 ELSE On(f, T)[Pick(s)] + g[s \ {Pick(s)}]]
          = [s \in SUBSET T |-> IF s = {} THEN 0 ELSE f[Pick(s)] + g[s \ {Pick(s)}]]
    BY <2>1
  <2>3. QED BY <2>2 DEF Sums
<1>2. PICK g : Sums(f, SUBSET S, g)
  BY SumsExist
<1>3. ASSUME NEW T \in SUBSET S PROVE SumFunction(On(f, T)) = g[T]
  <2>1. IsFiniteSet(T)
    BY FS_Subset
  <2>2. PICK h : Sums(On(f, T), SUBSET T, h) /\ SumFunction(On(f, T)) = h[T]
    BY <2>1, SumIsFold
  <2>3. h[T] = g[T]
    <3>1. Sums(f, SUBSET T, h)
      BY <1>1, <2>2
    <3>2. \A s \in SUBSET T : h[s] = g[s]
      BY <1>2, <3>1, SumsAgree, SMTT(30)
    <3>3. QED BY <3>2
  <2>4. QED BY <2>2, <2>3
<1>4. QED BY <1>2, <1>3 DEF HasSums

(* Sums of integers are integers. *)
LEMMA SumsAreIntegers ==
  ASSUME NEW S, IsFiniteSet(S), NEW f, \A x \in S : f[x] \in Int, NEW g, Sums(f, SUBSET S, g)
  PROVE  \A T \in SUBSET S : g[T] \in Int
<1> DEFINE N == {n \in Nat : \A T \in SUBSET S : Cardinality(T) = n => g[T] \in Int}
<1>1. \A T \in SUBSET S : IsFiniteSet(T) /\ Cardinality(T) \in Nat
  BY FS_Subset, FS_CardinalityType
<1>2. /\ g[{}] = 0
      /\ \A T \in SUBSET S : T # {} => g[T] = f[Pick(T)] + g[T \ {Pick(T)}]
  BY DEF Sums
<1>3. 0 \in N
  <2>1. ASSUME NEW T \in SUBSET S, Cardinality(T) = 0 PROVE g[T] \in Int
    <3>1. T = {}
      BY <1>1, <2>1, FS_EmptySet
    <3>2. QED BY <1>2, <3>1
  <2>2. QED BY <2>1
<1>4. ASSUME NEW n \in Nat, n \in N PROVE n + 1 \in N
  <2>1. ASSUME NEW T \in SUBSET S, Cardinality(T) = n + 1 PROVE g[T] \in Int
    <3>1. T # {}
      BY <2>1, FS_EmptySet
    <3>2. /\ f[Pick(T)] \in Int
          /\ T \ {Pick(T)} \in SUBSET S /\ Cardinality(T \ {Pick(T)}) = n
      BY <2>1, <3>1, PickOne
    <3>3. QED BY <1>2, <1>4, <3>1, <3>2
  <2>2. QED BY <2>1
<1>5. \A n \in Nat : n \in N
  <2> HIDE DEF N
  <2>1. QED BY <1>3, <1>4, SetInduction
<1>6. QED BY <1>1, <1>5

(* The sum does not depend on the order: any element can be taken out. *)
LEMMA SumSplits ==
  ASSUME NEW S, IsFiniteSet(S), NEW f, \A x \in S : f[x] \in Int
  PROVE  \A T \in SUBSET S : Split(f, T)
<1> DEFINE N == {n \in Nat : \A T \in SUBSET S : Cardinality(T) = n => Split(f, T)}
<1>1. \A T \in SUBSET S : IsFiniteSet(T) /\ Cardinality(T) \in Nat
  BY FS_Subset, FS_CardinalityType
<1>2. PICK g : Sums(f, SUBSET S, g) /\ \A T \in SUBSET S : SumFunction(On(f, T)) = g[T]
  <2>1. \E g : HasSums(f, S, g)
    BY SumsOfSubsets, Zenon
  <2>2. QED BY <2>1 DEF HasSums
<1>3. /\ g[{}] = 0
      /\ \A T \in SUBSET S : T # {} => g[T] = f[Pick(T)] + g[T \ {Pick(T)}]
  BY <1>2 DEF Sums
<1>8. \A T \in SUBSET S : g[T] \in Int
  BY <1>2, SumsAreIntegers
<1>4. 0 \in N
  <2>1. ASSUME NEW T \in SUBSET S, Cardinality(T) = 0 PROVE Split(f, T)
    <3>1. T = {}
      BY <1>1, <2>1, FS_EmptySet
    <3>2. QED BY <1>2, <1>3, <3>1 DEF Split
  <2>2. QED BY <2>1
<1>5. ASSUME NEW n \in Nat, n \in N PROVE n + 1 \in N
  <2>1. ASSUME NEW T \in SUBSET S, Cardinality(T) = n + 1 PROVE Split(f, T)
    <3> DEFINE y == Pick(T)
    <3>1. T # {} /\ IsFiniteSet(T)
      BY <1>1, <2>1, FS_EmptySet
    <3>2. /\ y \in T /\ f[y] \in Int
          /\ \A x \in T : T \ {x} \in SUBSET S /\ Cardinality(T \ {x}) = n
      BY <2>1, <3>1, PickOne
    <3>3. \A x \in T : Split(f, T \ {x})
      BY <1>5, <3>2
    <3>4. g[T] = f[y] + g[T \ {y}]
      BY <1>3, <3>1
    <3> HIDE DEF y
    <3>5. g[T] \in Int /\ \A x \in T : g[T \ {x}] \in Int
      BY <1>8, <3>2
    <3>6. ASSUME NEW x \in T PROVE g[T] = f[x] + g[T \ {x}]
      <4>1. CASE x = y
        BY <3>4, <4>1
      <4>2. CASE x # y
        <5> DEFINE R == T \ {x, y}
        <5>1. R \in SUBSET S /\ (T \ {y}) \ {x} = R /\ (T \ {x}) \ {y} = R
          OBVIOUS
        <5>2. x \in T \ {y} /\ y \in T \ {x}
          BY <3>2, <4>2
        <5>3. SumFunction(On(f, T \ {y})) = f[x] + SumFunction(On(f, R))
          BY <3>2, <3>3, <5>1, <5>2 DEF Split
        <5>4. SumFunction(On(f, T \ {x})) = f[y] + SumFunction(On(f, R))
          BY <3>2, <3>3, <5>1, <5>2 DEF Split
        <5> HIDE DEF R
        <5>5. g[T \ {y}] = f[x] + g[R] /\ g[T \ {x}] = f[y] + g[R]
          BY <1>2, <3>2, <5>1, <5>3, <5>4
        <5>6. g[R] \in Int /\ f[x] \in Int
          BY <1>8, <5>1
        <5>7. QED BY <3>2, <3>4, <5>5, <5>6
      <4>3. QED BY <4>1, <4>2
    <3>7. SumFunction(On(f, T)) = g[T] /\ \A x \in T : SumFunction(On(f, T \ {x})) = g[T \ {x}]
      BY <1>2, <3>2
    <3>8. QED BY <3>1, <3>5, <3>6, <3>7 DEF Split
  <2>2. QED BY <2>1
<1>6. \A n \in Nat : n \in N
  <2> HIDE DEF N
  <2>1. QED BY <1>4, <1>5, SetInduction
<1>7. QED BY <1>1, <1>6

(* More of what is not negative makes no smaller sum. *)
LEMMA SumGrows ==
  ASSUME NEW S, IsFiniteSet(S), NEW f, \A x \in S : f[x] \in Nat
  PROVE  \A T \in SUBSET S : SumFunction(On(f, T)) <= SumFunction(On(f, S))
<1> DEFINE sum(T) == SumFunction(On(f, T))
           N == {n \in Nat : \A T \in SUBSET S : Cardinality(S \ T) = n => sum(T) <= sum(S)}
<1>1. \A T \in SUBSET S : IsFiniteSet(S \ T) /\ Cardinality(S \ T) \in Nat
  BY FS_Subset, FS_CardinalityType
<1>2. \A T \in SUBSET S : sum(T) \in Int /\ \A x \in T : sum(T) = f[x] + sum(T \ {x})
  BY SumSplits DEF Split
<1> HIDE DEF sum
<1>3. 0 \in N
  <2>1. ASSUME NEW T \in SUBSET S, Cardinality(S \ T) = 0 PROVE sum(T) <= sum(S)
    <3>1. T = S
      BY <1>1, <2>1, FS_EmptySet
    <3>2. QED BY <1>2, <3>1
  <2>2. QED BY <2>1
<1>4. ASSUME NEW n \in Nat, n \in N PROVE n + 1 \in N
  <2>1. ASSUME NEW T \in SUBSET S, Cardinality(S \ T) = n + 1 PROVE sum(T) <= sum(S)
    <3>1. S \ T # {}
      BY <2>1, FS_EmptySet
    <3>2. PICK x \in S : x \notin T
      BY <3>1
    <3> DEFINE R == T \cup {x}
    <3>3. R \in SUBSET S /\ x \in R /\ R \ {x} = T /\ S \ R = (S \ T) \ {x}
      BY <3>2
    <3> HIDE DEF R
    <3>4. Cardinality(S \ R) = n
      <4>1. IsFiniteSet(S \ T) /\ x \in S \ T
        BY <1>1, <3>2
      <4>2. Cardinality((S \ T) \ {x}) = Cardinality(S \ T) - 1
        BY <4>1, FS_RemoveElement
      <4>3. QED BY <2>1, <3>3, <4>2
    <3>5. sum(R) <= sum(S)
      BY <1>4, <3>3, <3>4
    <3>6. sum(R) = f[x] + sum(T)
      BY <1>2, <3>3
    <3>7. QED BY <1>2, <3>2, <3>3, <3>5, <3>6
  <2>2. QED BY <2>1
<1>5. \A n \in Nat : n \in N
  <2> HIDE DEF N
  <2>1. QED BY <1>3, <1>4, SetInduction
<1>6. QED BY <1>1, <1>5 DEF sum

-----------------------------------------------------------------------------
(* Lists one after the other. *)

Joined(seqs, n, g) ==
  g = [i \in 1..n |-> IF i = 1 THEN seqs[i] ELSE g[i - 1] \o seqs[i]]

LEMMA JoinedExists ==
  ASSUME NEW seqs
  PROVE  \A n \in Nat : \E g : Joined(seqs, n, g)
<1> DEFINE N == {n \in Nat : \E g : Joined(seqs, n, g)}
<1>1. 0 \in N
  <2> DEFINE g == [i \in 1..0 |-> seqs[i]]
  <2>1. Joined(seqs, 0, g)
    BY DEF Joined
  <2>2. QED BY <2>1
<1>2. ASSUME NEW n \in Nat, n \in N PROVE n + 1 \in N
  <2>1. PICK g : Joined(seqs, n, g)
    BY <1>2
  <2> DEFINE h == [i \in 1..n + 1 |-> IF i = 1 THEN seqs[i] ELSE g[i - 1] \o seqs[i]]
  <2>2. \A i \in 1..n : g[i] = IF i = 1 THEN seqs[i] ELSE g[i - 1] \o seqs[i]
    BY <2>1, Zenon DEF Joined
  <2>6. \A i \in 1..n : i \in 1..n + 1
    OBVIOUS
  <2>7. \A i \in 1..n : g[i] = h[i]
    BY <2>2, <2>6, Zenon
  <2>8. \A i \in 1..n + 1 : i # 1 => i - 1 \in 1..n
    OBVIOUS
  <2>3. \A i \in 1..n + 1 : h[i] = IF i = 1 THEN seqs[i] ELSE h[i - 1] \o seqs[i]
    BY <2>7, <2>8, Zenon
  <2>4. Joined(seqs, n + 1, h)
    <3> HIDE DEF h
    <3>1. h = [i \in 1..n + 1 |-> h[i]]
      BY DEF h
    <3>2. QED BY <2>3, <3>1, Zenon DEF Joined
  <2>5. QED BY <2>4
<1>3. \A n \in Nat : n \in N
  <2> HIDE DEF N
  <2>1. QED BY <1>1, <1>2, SetInduction
<1>4. QED BY <1>3

\* what comes earlier in q is related to what comes later
Ranked(q, Q) == \A i, j \in DOMAIN q : i < j => <<q[i], q[j]>> \in Q

LEMMA RankedConcat ==
  ASSUME NEW U, NEW q \in Seq(U), NEW r \in Seq(U), NEW Q, Ranked(q, Q), Ranked(r, Q),
         \A x \in Range(q), y \in Range(r) : <<x, y>> \in Q
  PROVE  q \o r \in Seq(U) /\ Ranked(q \o r, Q) /\ Range(q \o r) = Range(q) \cup Range(r)
<1> DEFINE m == Len(q)
           n == Len(r)
           c == q \o r
<1>1. /\ m \in Nat /\ n \in Nat /\ DOMAIN q = 1..m /\ DOMAIN r = 1..n
      /\ c \in Seq(U) /\ Len(c) = m + n /\ DOMAIN c = 1..m + n
      /\ \A i \in 1..m + n : c[i] = IF i <= m THEN q[i] ELSE r[i - m]
  BY ConcatProperties, LenProperties
<1> HIDE DEF m, n, c
<1>2. Ranked(c, Q)
  <2>1. ASSUME NEW i \in 1..m + n, NEW j \in 1..m + n, i < j PROVE <<c[i], c[j]>> \in Q
    <3>1. CASE j <= m
      <4>1. c[i] = q[i] /\ c[j] = q[j] /\ i \in DOMAIN q /\ j \in DOMAIN q
        BY <1>1, <2>1, <3>1
      <4>2. QED BY <2>1, <4>1 DEF Ranked
    <3>2. CASE i <= m /\ ~(j <= m)
      <4>1. c[i] = q[i] /\ i \in DOMAIN q /\ c[j] = r[j - m] /\ j - m \in DOMAIN r
        BY <1>1, <3>2
      <4>2. QED BY <4>1 DEF Range
    <3>3. CASE ~(i <= m)
      <4>1. c[i] = r[i - m] /\ i - m \in DOMAIN r /\ c[j] = r[j - m] /\ j - m \in DOMAIN r
            /\ i - m < j - m
        BY <1>1, <2>1, <3>3
      <4>2. QED BY <4>1 DEF Ranked
    <3>4. QED BY <3>1, <3>2, <3>3
  <2>2. QED BY <1>1, <2>1 DEF Ranked
<1>3. Range(c) = Range(q) \cup Range(r)
  <2>1. ASSUME NEW i \in 1..m + n PROVE c[i] \in Range(q) \cup Range(r)
    <3>1. CASE i <= m
      <4>1. c[i] = q[i] /\ i \in DOMAIN q
        BY <1>1, <3>1
      <4>2. QED BY <4>1 DEF Range
    <3>2. CASE ~(i <= m)
      <4>1. c[i] = r[i - m] /\ i - m \in DOMAIN r
        BY <1>1, <3>2
      <4>2. QED BY <4>1 DEF Range
    <3>3. QED BY <3>1, <3>2
  <2>2. ASSUME NEW i \in 1..m PROVE q[i] \in Range(c)
    <3>1. i \in 1..m + n /\ c[i] = q[i]
      BY <1>1
    <3>2. QED BY <1>1, <3>1 DEF Range
  <2>3. ASSUME NEW i \in 1..n PROVE r[i] \in Range(c)
    <3>1. m + i \in 1..m + n /\ ~(m + i <= m) /\ m + i - m = i
      BY <1>1
    <3>2. c[m + i] = r[i]
      BY <1>1, <3>1
    <3>3. QED BY <1>1, <3>1, <3>2 DEF Range
  <2>4. QED BY <1>1, <2>1, <2>2, <2>3 DEF Range
<1>4. QED BY <1>1, <1>2, <1>3 DEF c

\* the elements of the first n lists
Elements(seqs, n) == UNION {Range(seqs[k]) : k \in 1..n}

(* What is ranked list by list and from list to list is ranked when the    *)
(* lists are put together.                                                 *)
LEMMA RankedFlatten ==
  ASSUME NEW U, NEW N \in Nat, N # 0, NEW seqs, seqs \in [1..N -> Seq(U)], NEW Q,
         \A k \in 1..N : Ranked(seqs[k], Q),
         \A k, l \in 1..N : k < l =>
           \A x \in Range(seqs[k]), y \in Range(seqs[l]) : <<x, y>> \in Q
  PROVE  /\ FlattenSeq(seqs) \in Seq(U)
         /\ Ranked(FlattenSeq(seqs), Q)
         /\ Range(FlattenSeq(seqs)) = Elements(seqs, N)
<1> DEFINE g == CHOOSE h : Joined(seqs, N, h)
<1>1. seqs \in Seq(Seq(U)) /\ Len(seqs) = N
  <2>1. seqs \in Seq(Seq(U))
    BY SeqDef
  <2>2. QED BY <2>1, LenProperties
<1>2. Joined(seqs, N, g)
  BY JoinedExists
<1>3. FlattenSeq(seqs) = g[N]
  BY <1>1 DEF FlattenSeq, Joined
<1> HIDE DEF g
<1>4. /\ g[1] = seqs[1]
      /\ \A i \in 1..N : i # 1 => g[i] = g[i - 1] \o seqs[i]
  <2>1. 1 \in 1..N
    OBVIOUS
  <2>2. QED BY <1>2, <2>1, Zenon DEF Joined
<1> DEFINE Right(n) == g[n] \in Seq(U) /\ Ranked(g[n], Q) /\ Range(g[n]) = Elements(seqs, n)
           M == {n \in Nat : n + 1 \in 1..N => Right(n + 1)}
<1>5. 0 \in M
  <2>1. Elements(seqs, 1) = Range(seqs[1])
    BY DEF Elements
  <2>2. seqs[1] \in Seq(U) /\ Ranked(seqs[1], Q)
    OBVIOUS
  <2>3. QED BY <1>4, <2>1, <2>2
<1>6. ASSUME NEW n \in Nat, n \in M PROVE n + 1 \in M
  <2> SUFFICES ASSUME n + 1 + 1 \in 1..N PROVE Right(n + 1 + 1)
    OBVIOUS
  <2>1. n + 1 \in 1..N /\ n + 1 + 1 # 1 /\ n + 1 + 1 - 1 = n + 1 /\ n + 1 < n + 1 + 1
    OBVIOUS
  <2>2. Right(n + 1)
    BY <1>6, <2>1
  <2>3. g[n + 1 + 1] = g[n + 1] \o seqs[n + 1 + 1]
    <3> DEFINE k == n + 1 + 1
    <3>1. k \in 1..N /\ k # 1 /\ k - 1 = n + 1
      BY <2>1
    <3> HIDE DEF k
    <3>2. g[k] = g[k - 1] \o seqs[k]
      BY <1>4, <3>1, Zenon
    <3>3. g[k] = g[n + 1] \o seqs[k]
      BY <3>1, <3>2, Zenon
    <3>4. QED BY <3>3 DEF k
  <2>4. \A x \in Range(g[n + 1]), y \in Range(seqs[n + 1 + 1]) : <<x, y>> \in Q
    <3>1. ASSUME NEW x \in Range(g[n + 1]), NEW y \in Range(seqs[n + 1 + 1]) PROVE <<x, y>> \in Q
      <4>1. PICK k \in 1..n + 1 : x \in Range(seqs[k])
        BY <2>2 DEF Elements
      <4>2. k \in 1..N /\ k < n + 1 + 1
        BY <2>1
      <4>3. QED BY <4>1, <4>2
    <3>2. QED BY <3>1
  <2>5. Elements(seqs, n + 1 + 1) = Elements(seqs, n + 1) \cup Range(seqs[n + 1 + 1])
    <3>1. 1..n + 1 + 1 = (1..n + 1) \cup {n + 1 + 1}
      OBVIOUS
    <3>2. QED BY <3>1 DEF Elements
  <2>6. seqs[n + 1 + 1] \in Seq(U) /\ Ranked(seqs[n + 1 + 1], Q)
    OBVIOUS
  <2> DEFINE q == g[n + 1]
             r == seqs[n + 1 + 1]
  <2> HIDE DEF q, r
  <2>7. q \o r \in Seq(U) /\ Ranked(q \o r, Q) /\ Range(q \o r) = Range(q) \cup Range(r)
    BY <2>2, <2>4, <2>6, RankedConcat DEF q, r
  <2>8. QED BY <2>2, <2>3, <2>5, <2>7 DEF q, r
<1>7. \A n \in Nat : n \in M
  <2> HIDE DEF M
  <2>1. QED BY <1>5, <1>6, SetInduction
<1>8. N - 1 \in Nat /\ N - 1 + 1 = N /\ N - 1 + 1 \in 1..N
  OBVIOUS
<1>9. Right(N)
  BY <1>7, <1>8
<1>10. QED BY <1>3, <1>9

-----------------------------------------------------------------------------
(* The findings of a rule. *)

\* findings of one rule about entities of n ids, no two about the same
Named(F, rule, n) ==
  /\ IsFiniteSet(F)
  /\ \A f \in F : f.rule = rule /\ f.about \in [1..n -> Nat]
  /\ \A f, g \in F : f.about = g.about => f = g

LEMMA NamedImage ==
  ASSUME NEW T, IsFiniteSet(T), NEW h, NEW rule, NEW n \in 1..2,
         \A x \in T : h[x].rule = rule /\ h[x].about \in [1..n -> Nat],
         \A x, y \in T : h[x].about = h[y].about => x = y
  PROVE  Named({h[x] : x \in T}, rule, n)
<1> DEFINE F == {h[x] : x \in T}
           e == [x \in T |-> h[x]]
<1>1. e \in Surjection(T, F)
  BY DEF Surjection
<1>2. IsFiniteSet(F)
  <2> HIDE DEF e, F
  <2>1. QED BY <1>1, FS_Surjection
<1>3. QED BY <1>2 DEF Named

(* Precedes compares ids from left to right. *)
LEMMA PrecedesById ==
  ASSUME NEW F, NEW rule, NEW n \in 1..2, Named(F, rule, n), NEW f \in F, NEW g \in F
  PROVE  Precedes(f, g) <=> \/ f.about[1] < g.about[1]
                            \/ n = 2 /\ f.about[1] = g.about[1] /\ f.about[2] < g.about[2]
<1>1. DOMAIN f.about = 1..n
  BY DEF Named
<1>2. Precedes(f, g) <=> \E m \in 1..n : /\ f.about[m] < g.about[m]
                                         /\ \A k \in 1..m - 1 : f.about[k] = g.about[k]
  BY <1>1 DEF Precedes
<1>3. CASE n = 1
  <2>1. 1..n = {1} /\ \A k \in 1..1 - 1 : FALSE
    BY <1>3
  <2>2. QED BY <1>2, <1>3, <2>1
<1>4. CASE n = 2
  <2>1. 1..n = {1, 2} /\ (\A k \in 1..1 - 1 : FALSE) /\ 1..2 - 1 = {1}
    BY <1>4
  <2>2. QED BY <1>2, <1>4, <2>1
<1>5. QED BY <1>3, <1>4

(* It orders the findings of a rule. *)
LEMMA NamesAreOrdered ==
  ASSUME NEW F, NEW rule, NEW n \in 1..2, Named(F, rule, n)
  PROVE  Ordering(SourceOrder(F), F)
<1>1. \A f, g \in F : <<f, g>> \in SourceOrder(F)
                        <=> \/ f.about[1] < g.about[1]
                            \/ n = 2 /\ f.about[1] = g.about[1] /\ f.about[2] < g.about[2]
  BY PrecedesById DEF SourceOrder
<1>2. \A f \in F : f.about[1] \in Nat /\ (n = 2 => f.about[2] \in Nat)
  BY DEF Named
<1>3. ASSUME NEW f \in F, NEW g \in F, f # g
      PROVE  f.about[1] # g.about[1] \/ (n = 2 /\ f.about[2] # g.about[2])
  <2> SUFFICES ASSUME f.about[1] = g.about[1], n = 2 => f.about[2] = g.about[2] PROVE FALSE
    OBVIOUS
  <2>1. \A i \in 1..n : f.about[i] = g.about[i]
    OBVIOUS
  <2>2. f.about = g.about
    BY <2>1 DEF Named
  <2>3. QED BY <1>3, <2>2 DEF Named
<1>4. \A f \in F : <<f, f>> \notin SourceOrder(F)
  BY <1>1, <1>2
<1>5. \A f, g \in F : f # g => <<f, g>> \in SourceOrder(F) \/ <<g, f>> \in SourceOrder(F)
  BY <1>1, <1>2, <1>3
<1>6. \A f, g, h \in F :
        <<f, g>> \in SourceOrder(F) /\ <<g, h>> \in SourceOrder(F) => <<f, h>> \in SourceOrder(F)
  BY <1>1, <1>2
<1>7. QED BY <1>4, <1>5, <1>6 DEF Ordering

Rules == {"SLA_BREACH_RISK", "INVENTORY_SHORTAGE", "STOCKOUT_RISK", "INVENTORY_MISMATCH",
          "SUPPLIER_DELAY", "SHIPMENT_DELAY"}

LEMMA RulesInOrder ==
  /\ DOMAIN RULES = 1..6 /\ Len(RULES) = 6
  /\ \A n \in 1..6 : RULES[n] \in Rules
  /\ \A rule \in Rules : \E n \in 1..6 : RULES[n] = rule
  /\ \A m, n \in 1..6 : RULES[m] = RULES[n] => m = n
BY DEF RULES, Rules

(* The tables of a version. *)
LEMMA VersionTables ==
  ASSUME NEW db, IsVersion(db)
  PROVE  /\ \A o \in db.orders : o \in Row.orders
         /\ \A i \in db.items : i \in Row.items
         /\ \A s \in db.stock : s \in Row.stock
         /\ \A m \in db.moves : m \in Row.moves
         /\ \A p \in db.purchases : p \in Row.purchases
         /\ \A l \in db.lines : l \in Row.lines
         /\ \A x \in db.shipments : x \in Row.shipments
         /\ IsFiniteSet(db.orders) /\ IsFiniteSet(db.items) /\ IsFiniteSet(db.stock)
         /\ IsFiniteSet(db.moves) /\ IsFiniteSet(db.purchases) /\ IsFiniteSet(db.lines)
         /\ IsFiniteSet(db.shipments)
<1>1. {"orders", "items", "stock", "moves", "purchases", "lines", "shipments"} = DOMAIN Row
  BY DEF Row
<1>2. \A t \in DOMAIN Row : db[t] \subseteq Row[t] /\ IsFiniteSet(db[t])
  BY DEF IsVersion
<1>3. QED BY <1>1, <1>2

LEMMA IdTuples ==
  /\ \A a \in Nat : <<a>> \in [1..1 -> Nat]
  /\ \A a, b \in Nat : <<a, b>> \in [1..2 -> Nat]
OBVIOUS

(* No rule reports an entity twice. *)
LEMMA FoundIsNamed ==
  ASSUME NEW db, IsVersion(db), NEW t
  PROVE  \A rule \in Rules : \E n \in 1..2 : Named(Found(rule, db, t), rule, n)
<1>1. Named(SlaBreachRisk(db, t), "SLA_BREACH_RISK", 1)
  <2> DEFINE T == AtRisk(db, t)
             h == [o \in T |-> SlaFinding(o, ItemsOf(Wanted(db, t), o), t)]
  <2>1. T \in SUBSET db.orders /\ IsFiniteSet(T)
    BY VersionTables, FS_Subset DEF AtRisk
  <2>2. \A o \in T : h[o].rule = "SLA_BREACH_RISK" /\ h[o].about = <<o.id>>
    BY DEF SlaFinding, Finding
  <2>3. \A o \in T : o.id \in Nat
    BY <2>1, VersionTables DEF Row
  <2>4. \A o, p \in T : o.id = p.id => o = p
    BY <2>1 DEF IsVersion
  <2>5. SlaBreachRisk(db, t) = {h[o] : o \in T}
    BY DEF SlaBreachRisk
  <2> HIDE DEF T, h
  <2>6. \A o \in T : h[o].rule = "SLA_BREACH_RISK" /\ h[o].about \in [1..1 -> Nat]
    BY <2>2, <2>3, IdTuples, Zenon
  <2>7. \A o, p \in T : h[o].about = h[p].about => o = p
    BY <2>2, <2>4
  <2>8. Named({h[o] : o \in T}, "SLA_BREACH_RISK", 1)
    BY <2>1, <2>6, <2>7, NamedImage
  <2>9. QED BY <2>5, <2>8
<1>2. ASSUME NEW rule, NEW limit PROVE Named(Short(rule, db, t, limit), rule, 2)
  <2> DEFINE T == {x \in Observed(db, t) : Demand(db, t, x) # {} /\ Buffer(db, t, x) < limit}
             h == [s \in T |-> DemandFinding(rule, db, t, s, limit)]
  <2>1. T \in SUBSET db.stock /\ IsFiniteSet(T)
    BY VersionTables, FS_Subset DEF Observed
  <2>2. \A s \in T : h[s].rule = rule /\ h[s].about = <<s.product, s.warehouse>>
    BY DEF DemandFinding, Finding
  <2>3. \A s \in T : s.product \in Nat /\ s.warehouse \in Nat
    BY <2>1, VersionTables DEF Row
  <2>4. \A s, r \in T : s.product = r.product /\ s.warehouse = r.warehouse => s = r
    BY <2>1 DEF IsVersion
  <2>5. Short(rule, db, t, limit) = {h[s] : s \in T}
    BY DEF Short
  <2> DEFINE n == 2
  <2>10. n \in 1..2 /\ \A a, b \in Nat : <<a, b>> \in [1..n -> Nat]
    BY IdTuples
  <2> HIDE DEF T, h, n
  <2>6. \A s \in T : h[s].rule = rule /\ h[s].about \in [1..n -> Nat]
    BY <2>2, <2>3, <2>10, Zenon
  <2>7. \A s, r \in T : h[s].about = h[r].about => s = r
    BY <2>2, <2>4
  <2>8. Named({h[s] : s \in T}, rule, n)
    BY <2>1, <2>6, <2>7, <2>10, NamedImage
  <2>9. QED BY <2>5, <2>8 DEF n
<1>3. Named(Mismatch(db, t), "INVENTORY_MISMATCH", 2)
  <2> DEFINE T == {x \in Observed(db, t) :
                     Difference(db, x) > Tolerance \/ -Difference(db, x) > Tolerance}
             h == [s \in T |->
                     Finding("INVENTORY_MISMATCH", <<s.product, s.warehouse>>,
                             <<s.product, s.warehouse, s.observed_at, s.on_hand, Reconstructed(db, s)>>, 0, 0, 0)]
  <2>1. T \in SUBSET db.stock /\ IsFiniteSet(T)
    BY VersionTables, FS_Subset DEF Observed
  <2>2. \A s \in T : h[s].rule = "INVENTORY_MISMATCH" /\ h[s].about = <<s.product, s.warehouse>>
    BY DEF Finding
  <2>3. \A s \in T : s.product \in Nat /\ s.warehouse \in Nat
    BY <2>1, VersionTables DEF Row
  <2>4. \A s, r \in T : s.product = r.product /\ s.warehouse = r.warehouse => s = r
    BY <2>1 DEF IsVersion
  <2>5. Mismatch(db, t) = {h[s] : s \in T}
    BY DEF Mismatch
  <2> DEFINE n == 2
  <2>10. n \in 1..2 /\ \A a, b \in Nat : <<a, b>> \in [1..n -> Nat]
    BY IdTuples
  <2> HIDE DEF T, h, n
  <2>6. \A s \in T : h[s].rule = "INVENTORY_MISMATCH" /\ h[s].about \in [1..n -> Nat]
    BY <2>2, <2>3, <2>10, Zenon
  <2>7. \A s, r \in T : h[s].about = h[r].about => s = r
    BY <2>2, <2>4
  <2>8. Named({h[s] : s \in T}, "INVENTORY_MISMATCH", n)
    BY <2>1, <2>6, <2>7, <2>10, NamedImage
  <2>9. QED BY <2>5, <2>8 DEF n
<1>4. Named(SupplierDelay(db, t), "SUPPLIER_DELAY", 1)
  <2> DEFINE T == {p \in db.purchases : /\ p.status \in {"OPEN", "PARTIALLY_RECEIVED"}
                                        /\ p.ordered_at <= t /\ p.expected_at < t
                                        /\ Outstanding(db, p) # {}}
             h == [po \in T |->
                     Finding("SUPPLIER_DELAY", <<po.id>>,
                             <<po.id, po.status, po.expected_at,
                               SumFunction([l \in Outstanding(db, po) |-> l.ordered - l.received])>>,
                             0, 0, Overdue(t, po.expected_at))]
  <2>1. T \in SUBSET db.purchases /\ IsFiniteSet(T)
    BY VersionTables, FS_Subset
  <2>2. \A p \in T : h[p].rule = "SUPPLIER_DELAY" /\ h[p].about = <<p.id>>
    BY DEF Finding
  <2>3. \A p \in T : p.id \in Nat
    BY <2>1, VersionTables DEF Row
  <2>4. \A p, q \in T : p.id = q.id => p = q
    BY <2>1 DEF IsVersion
  <2>5. SupplierDelay(db, t) = {h[p] : p \in T}
    BY DEF SupplierDelay
  <2> HIDE DEF T, h
  <2>6. \A p \in T : h[p].rule = "SUPPLIER_DELAY" /\ h[p].about \in [1..1 -> Nat]
    BY <2>2, <2>3, IdTuples, Zenon
  <2>7. \A p, q \in T : h[p].about = h[q].about => p = q
    BY <2>2, <2>4
  <2>8. Named({h[p] : p \in T}, "SUPPLIER_DELAY", 1)
    BY <2>1, <2>6, <2>7, NamedImage
  <2>9. QED BY <2>5, <2>8
<1>5. Named(ShipmentDelay(db, t), "SHIPMENT_DELAY", 1)
  <2> DEFINE T == {x \in db.shipments : x.status # "DELIVERED" /\ x.eta < t}
             risk(sh) == Revenue({i \in db.items : i.order = sh.order})
             h == [sh \in T |->
                     Finding("SHIPMENT_DELAY", <<sh.id>>, ShipmentFacts(sh, t, risk(sh)),
                             risk(sh), 1, 0)]
  <2>1. T \in SUBSET db.shipments /\ IsFiniteSet(T)
    BY VersionTables, FS_Subset
  <2>2. \A s \in T : h[s].rule = "SHIPMENT_DELAY" /\ h[s].about = <<s.id>>
    BY DEF Finding
  <2>3. \A s \in T : s.id \in Nat
    BY <2>1, VersionTables DEF Row
  <2>4. \A s, r \in T : s.id = r.id => s = r
    BY <2>1 DEF IsVersion
  <2>5. ShipmentDelay(db, t) = {h[s] : s \in T}
    BY DEF ShipmentDelay
  <2> HIDE DEF T, h
  <2>6. \A s \in T : h[s].rule = "SHIPMENT_DELAY" /\ h[s].about \in [1..1 -> Nat]
    BY <2>2, <2>3, IdTuples, Zenon
  <2>7. \A s, r \in T : h[s].about = h[r].about => s = r
    BY <2>2, <2>4
  <2>8. Named({h[s] : s \in T}, "SHIPMENT_DELAY", 1)
    BY <2>1, <2>6, <2>7, NamedImage
  <2>9. QED BY <2>5, <2>8
<1>6. QED BY <1>1, <1>2, <1>3, <1>4, <1>5 DEF Rules, Found

\* what a run finds of a rule at all
AllFound(db, t) == UNION {Found(rule, db, t) : rule \in Rules}

\* f comes before g in a run: an earlier rule, or the same and smaller ids
Earlier(f, g) ==
  \/ \E p, q \in DOMAIN RULES : p < q /\ RULES[p] = f.rule /\ RULES[q] = g.rule
  \/ f.rule = g.rule /\ Precedes(f, g)

(* A run reports what its rules find, in the order of rules and source ids. *)
LEMMA RunInOrder ==
  ASSUME NEW db, IsVersion(db), NEW t
  PROVE  /\ DetectAll(db, t) \in Seq(AllFound(db, t))
         /\ Range(DetectAll(db, t)) = AllFound(db, t)
         /\ \A m, n \in DOMAIN DetectAll(db, t) :
              m < n => Earlier(DetectAll(db, t)[m], DetectAll(db, t)[n])
<1> DEFINE U == AllFound(db, t)
           Q == {x \in U \X U : Earlier(x[1], x[2])}
           seqs == [n \in DOMAIN RULES |-> Detect(RULES[n], db, t)]
<1>1. ASSUME NEW n \in 1..6
      PROVE  /\ seqs[n] \in Seq(U) /\ Ranked(seqs[n], Q)
             /\ Range(seqs[n]) = Found(RULES[n], db, t)
             /\ \A f \in Range(seqs[n]) : f.rule = RULES[n] /\ f \in U
  <2> DEFINE F == Found(RULES[n], db, t)
             q == SortedBy(F, SourceOrder(F))
  <2>1. RULES[n] \in Rules /\ F \subseteq U
    BY RulesInOrder DEF AllFound
  <2>2. PICK k \in 1..2 : Named(F, RULES[n], k)
    BY <2>1, FoundIsNamed
  <2> HIDE DEF F, U
  <2>3. IsFiniteSet(F) /\ Ordering(SourceOrder(F), F) /\ \A f \in F : f.rule = RULES[n]
    BY <2>2, NamesAreOrdered DEF Named
  <2>4. q \in Seq(F) /\ DOMAIN q = 1..Cardinality(F)
    BY <2>3, SortedBySeq, LenProperties
  <2>5. /\ \A f \in F : \E i \in 1..Cardinality(F) : q[i] = f
        /\ \A i, j \in 1..Cardinality(F) : i < j => <<q[i], q[j]>> \in SourceOrder(F)
    BY <2>3, SortedByOrder
  <2>6. seqs[n] = q
    BY RulesInOrder DEF Detect, F
  <2> HIDE DEF q, seqs
  <2>7. \A i \in DOMAIN q : q[i] \in F
    BY <2>4, LenProperties
  <2>8. Ranked(q, Q)
    <3>1. ASSUME NEW i \in DOMAIN q, NEW j \in DOMAIN q, i < j PROVE <<q[i], q[j]>> \in Q
      <4>1. <<q[i], q[j]>> \in SourceOrder(F)
        BY <2>4, <2>5, <3>1
      <4>2. q[i] \in F /\ q[j] \in F /\ Precedes(q[i], q[j])
        BY <4>1 DEF SourceOrder
      <4>3. Earlier(q[i], q[j])
        BY <2>3, <4>2 DEF Earlier
      <4>4. QED BY <2>1, <4>2, <4>3
    <3>2. QED BY <3>1 DEF Ranked
  <2>9. Range(q) = F
    BY <2>4, <2>5, <2>7 DEF Range
  <2>10. q \in Seq(U)
    <3>1. Len(q) \in Nat /\ q \in [1..Len(q) -> U]
      BY <2>1, <2>4, <2>7, LenProperties
    <3>2. q \in UNION {[1..l -> U] : l \in Nat}
      BY <3>1
    <3>3. QED BY <3>2, SeqDef, Zenon
  <2>11. QED BY <2>1, <2>3, <2>6, <2>8, <2>9, <2>10 DEF F
<1>2. ASSUME NEW k \in 1..6, NEW l \in 1..6, k < l,
             NEW x \in Range(seqs[k]), NEW y \in Range(seqs[l])
      PROVE  <<x, y>> \in Q
  <2>1. x.rule = RULES[k] /\ y.rule = RULES[l] /\ x \in U /\ y \in U
    BY <1>1
  <2>2. Earlier(x, y)
    BY <1>2, <2>1, RulesInOrder DEF Earlier
  <2>3. QED BY <2>1, <2>2
<1>3. seqs \in [1..6 -> Seq(U)]
  BY <1>1, RulesInOrder
<1>4. DetectAll(db, t) = FlattenSeq(seqs)
  BY DEF DetectAll
<1>5. Elements(seqs, 6) = U
  <2>1. \A n \in 1..6 : Range(seqs[n]) = Found(RULES[n], db, t)
    BY <1>1
  <2> HIDE DEF seqs
  <2>2. Elements(seqs, 6) = UNION {Found(RULES[n], db, t) : n \in 1..6}
    BY <2>1 DEF Elements
  <2>3. {RULES[n] : n \in 1..6} = Rules
    BY RulesInOrder
  <2>4. QED BY <2>2, <2>3, Zenon DEF AllFound
<1> DEFINE N == 6
<1>6. N \in Nat /\ N # 0
  OBVIOUS
<1> HIDE DEF U, Q, seqs, N
<1>7. /\ FlattenSeq(seqs) \in Seq(U) /\ Ranked(FlattenSeq(seqs), Q)
      /\ Range(FlattenSeq(seqs)) = Elements(seqs, N)
  <2>1. /\ seqs \in [1..N -> Seq(U)]
        /\ \A k \in 1..N : Ranked(seqs[k], Q)
        /\ \A k, l \in 1..N : k < l =>
             \A x \in Range(seqs[k]), y \in Range(seqs[l]) : <<x, y>> \in Q
    BY <1>1, <1>2, <1>3 DEF N
  <2>2. QED BY <1>6, <2>1, RankedFlatten
<1>8. QED
  BY <1>4, <1>5, <1>7 DEF Ranked, Q, U, N

-----------------------------------------------------------------------------
(* The next version. *)

(* A movement is told apart from all that are there by its number. *)
LEMMA MovementIsNew ==
  ASSUME IsVersion(rows), as_of \in Nat, NEW s \in rows.stock, NEW kind \in InventoryMovementType
  PROVE  LET m == Movement(kind, s)
         IN  /\ m \in Row.moves /\ m \notin rows.moves
             /\ m.product = s.product /\ m.warehouse = s.warehouse /\ m.kind = kind
             /\ m.quantity = 1 /\ m.occurred_at = as_of
             /\ m.number = Cardinality(Alike(rows.moves, m))
<1> DEFINE n == [product |-> s.product, warehouse |-> s.warehouse, kind |-> kind, quantity |-> 1,
                 occurred_at |-> as_of, number |-> 0]
           c == Cardinality(Alike(rows.moves, n))
           m == [product |-> s.product, warehouse |-> s.warehouse, kind |-> kind, quantity |-> 1,
                 occurred_at |-> as_of, number |-> c]
<1>1. IsFiniteSet(rows.moves) /\ s \in Row.stock
  BY VersionTables
<1>2. c \in Nat
  <2>1. IsFiniteSet(Alike(rows.moves, n))
    BY <1>1, FS_Subset DEF Alike
  <2>2. QED BY <2>1, FS_CardinalityType
<1>3. Movement(kind, s) = [n EXCEPT !.number = c]
  BY DEF Movement
<1>4. Alike(rows.moves, m) = Alike(rows.moves, n)
  BY DEF Alike
<1>5. [n EXCEPT !.number = c] = m
  OBVIOUS
<1>6. m \in Row.moves
  <2> HIDE DEF c
  <2>1. QED BY <1>1, <1>2 DEF Row
<1>7. m \notin rows.moves
  <2> SUFFICES ASSUME m \in rows.moves PROVE FALSE
    OBVIOUS
  <2>1. m.number < Cardinality(Alike(rows.moves, m)) /\ m.number = c
    BY DEF IsVersion
  <2> HIDE DEF c, m, n
  <2>2. QED BY <1>2, <1>4, <2>1 DEF c
<1>8. m.number = Cardinality(Alike(rows.moves, m))
  BY <1>4
<1>9. Movement(kind, s) = m
  BY <1>3, <1>5
<1>10. /\ m.product = s.product /\ m.warehouse = s.warehouse /\ m.kind = kind
       /\ m.quantity = 1 /\ m.occurred_at = as_of
  OBVIOUS
<1> HIDE DEF m
<1>11. QED BY <1>6, <1>7, <1>8, <1>9, <1>10

(* What a count after a movement replaces a snapshot by. *)
LEMMA CountAfter ==
  ASSUME IsVersion(rows), as_of \in Nat, NEW s \in rows.stock, NEW change \in Int,
         s.on_hand + change \in Nat
  PROVE  LET r == [s EXCEPT !.on_hand = @ + change, !.observed_at = as_of]
         IN  /\ r \in Row.stock /\ r.product = s.product /\ r.warehouse = s.warehouse
             /\ r.on_hand = s.on_hand + change /\ r.reserved = s.reserved
             /\ r.observed_at = as_of
<1>1. s \in Row.stock
  BY VersionTables
<1>2. QED BY <1>1 DEF Row

(* A movement and its count leave a version. *)
LEMMA MovedIsVersion ==
  ASSUME IsVersion(rows), as_of \in Nat, NEW s \in rows.stock, NEW kind \in InventoryMovementType,
         NEW change \in Int, s.on_hand + change \in Nat
  PROVE  LET db == Moved(kind, s, change)
         IN  /\ IsVersion(db)
             /\ db.moves = rows.moves \cup {Movement(kind, s)}
             /\ db.stock = (rows.stock \ {s})
                             \cup {[s EXCEPT !.on_hand = @ + change, !.observed_at = as_of]}
             /\ \A t \in DOMAIN Row \ {"moves", "stock"} : db[t] = rows[t]
<1> DEFINE db == Moved(kind, s, change)
           m == Movement(kind, s)
           r == [s EXCEPT !.on_hand = @ + change, !.observed_at = as_of]
<1>1. DOMAIN rows = DOMAIN Row /\ {"moves", "stock"} \subseteq DOMAIN Row
  BY DEF IsVersion, Row
<1>2. /\ m \in Row.moves /\ m \notin rows.moves
      /\ m.number = Cardinality(Alike(rows.moves, m))
  BY MovementIsNew
<1>3. r \in Row.stock /\ r.product = s.product /\ r.warehouse = s.warehouse
  BY CountAfter
<1> HIDE DEF m, r
<1>4. /\ db = [t \in DOMAIN Row |-> db[t]]
      /\ db.moves = rows.moves \cup {m}
      /\ db.stock = (rows.stock \ {s}) \cup {r}
      /\ \A t \in DOMAIN Row \ {"moves", "stock"} : db[t] = rows[t]
  BY <1>1 DEF Moved, m, r
<1> HIDE DEF db
<1>5. \A t \in DOMAIN Row : db[t] \subseteq Row[t] /\ IsFiniteSet(db[t])
  <2>1. \A t \in DOMAIN Row : rows[t] \subseteq Row[t] /\ IsFiniteSet(rows[t])
    BY DEF IsVersion
  <2>2. db.moves \subseteq Row.moves /\ IsFiniteSet(db.moves)
    BY <1>1, <1>2, <1>4, <2>1, FS_AddElement
  <2>3. db.stock \subseteq Row.stock /\ IsFiniteSet(db.stock)
    <3>1. IsFiniteSet(rows.stock) /\ rows.stock \subseteq Row.stock
      BY <1>1, <2>1
    <3>2. IsFiniteSet(rows.stock \ {s})
      BY <3>1, FS_RemoveElement
    <3>3. IsFiniteSet((rows.stock \ {s}) \cup {r})
      BY <3>2, FS_AddElement
    <3>4. QED BY <1>3, <1>4, <3>1, <3>3
  <2>4. QED BY <1>4, <2>1, <2>2, <2>3
<1>6. \A t \in {"orders", "items", "purchases", "lines", "shipments"} :
        \A x, y \in db[t] : x.id = y.id => x = y
  <2>1. \A t \in {"orders", "items", "purchases", "lines", "shipments"} : db[t] = rows[t]
    BY <1>4 DEF Row
  <2>2. QED BY <2>1 DEF IsVersion
<1>7. \A x, y \in db.stock : x.product = y.product /\ x.warehouse = y.warehouse => x = y
  <2>1. \A x, y \in rows.stock : x.product = y.product /\ x.warehouse = y.warehouse => x = y
    BY DEF IsVersion
  <2>2. QED BY <1>3, <1>4, <2>1
<1>8. \A x \in db.moves : x.number < Cardinality(Alike(db.moves, x))
  <2>1. ASSUME NEW x \in rows.moves PROVE x.number < Cardinality(Alike(db.moves, x))
    <3>1. x.number < Cardinality(Alike(rows.moves, x)) /\ x.number \in Nat
      BY <2>1, VersionTables DEF IsVersion, Row
    <3>2. IsFiniteSet(Alike(db.moves, x)) /\ Alike(rows.moves, x) \in SUBSET Alike(db.moves, x)
      <4>1. IsFiniteSet(db.moves)
        BY <1>1, <1>5
      <4>2. QED BY <1>4, <4>1, FS_Subset DEF Alike
    <3>3. Cardinality(Alike(rows.moves, x)) <= Cardinality(Alike(db.moves, x))
      BY <3>2, FS_Subset
    <3>4. Cardinality(Alike(rows.moves, x)) \in Nat /\ Cardinality(Alike(db.moves, x)) \in Nat
      BY <3>2, FS_Subset, FS_CardinalityType
    <3>5. QED BY <3>1, <3>3, <3>4
  <2>2. m.number < Cardinality(Alike(db.moves, m))
    <3>1. Alike(db.moves, m) = Alike(rows.moves, m) \cup {m} /\ m \notin Alike(rows.moves, m)
      BY <1>2, <1>4 DEF Alike
    <3>2. IsFiniteSet(Alike(rows.moves, m))
      BY VersionTables, FS_Subset DEF Alike
    <3>3. Cardinality(Alike(db.moves, m)) = m.number + 1 /\ m.number \in Nat
      BY <1>2, <3>1, <3>2, FS_AddElement, FS_CardinalityType
    <3>4. QED BY <3>3
  <2>3. QED BY <1>4, <2>1, <2>2
<1>9. \A i \in db.items : i.fulfilled <= i.ordered
  <2>1. db.items = rows.items
    BY <1>4 DEF Row
  <2>2. QED BY <2>1 DEF IsVersion
<1>10. IsVersion(db)
  BY <1>4, <1>5, <1>6, <1>7, <1>8, <1>9 DEF IsVersion
<1>11. QED BY <1>4, <1>10 DEF db, m, r

\* row y takes the place of x in table t
Replaced(db, t, x, y) == [db EXCEPT ![t] = (@ \ {x}) \cup {y}]

(* So does a row that takes the place of another with its id. *)
LEMMA ReplacedIsVersion ==
  ASSUME NEW db, IsVersion(db), NEW t \in {"items", "lines"}, NEW x \in db[t], NEW y \in Row[t],
         y.id = x.id, t = "items" => y.fulfilled <= y.ordered
  PROVE  /\ IsVersion(Replaced(db, t, x, y))
         /\ Replaced(db, t, x, y)[t] = (db[t] \ {x}) \cup {y}
         /\ \A u \in DOMAIN Row \ {t} : Replaced(db, t, x, y)[u] = db[u]
<1> DEFINE next == Replaced(db, t, x, y)
<1>1. DOMAIN db = DOMAIN Row /\ t \in DOMAIN Row
  BY DEF IsVersion, Row
<1>2. /\ next = [u \in DOMAIN Row |-> next[u]]
      /\ next[t] = (db[t] \ {x}) \cup {y}
      /\ \A u \in DOMAIN Row \ {t} : next[u] = db[u]
  BY <1>1 DEF Replaced
<1> HIDE DEF next
<1>3. \A u \in DOMAIN Row : db[u] \subseteq Row[u] /\ IsFiniteSet(db[u])
  BY DEF IsVersion
<1>4. next[t] \subseteq Row[t] /\ IsFiniteSet(next[t])
  <2>1. IsFiniteSet(db[t]) /\ db[t] \subseteq Row[t]
    BY <1>1, <1>3
  <2>2. IsFiniteSet(db[t] \ {x})
    BY <2>1, FS_RemoveElement
  <2>3. IsFiniteSet((db[t] \ {x}) \cup {y})
    BY <2>2, FS_AddElement
  <2>4. QED BY <1>2, <2>1, <2>3
<1>5. \A u \in DOMAIN Row : next[u] \subseteq Row[u] /\ IsFiniteSet(next[u])
  BY <1>2, <1>3, <1>4
<1>6. \A u \in {"orders", "items", "purchases", "lines", "shipments"} :
        \A a, b \in next[u] : a.id = b.id => a = b
  <2>1. \A u \in {"orders", "items", "purchases", "lines", "shipments"} :
          \A a, b \in db[u] : a.id = b.id => a = b
    BY DEF IsVersion
  <2>2. {"orders", "items", "purchases", "lines", "shipments"} \subseteq DOMAIN Row
    BY DEF Row
  <2>3. \A a, b \in next[t] : a.id = b.id => a = b
    BY <1>2, <2>1
  <2>4. QED BY <1>2, <2>1, <2>2, <2>3
<1>7. /\ next.stock = db.stock /\ next.moves = db.moves
      /\ t = "lines" => next.items = db.items
  <2>1. {"stock", "moves", "items"} \subseteq DOMAIN Row
    BY DEF Row
  <2>2. QED BY <1>2, <2>1
<1>8. \A i \in next.items : i.fulfilled <= i.ordered
  <2>1. \A i \in db.items : i.fulfilled <= i.ordered
    BY DEF IsVersion
  <2>2. QED BY <1>2, <1>7, <2>1
<1>9. IsVersion(next)
  BY <1>2, <1>5, <1>6, <1>7, <1>8 DEF IsVersion
<1>10. QED BY <1>2, <1>9 DEF next

-----------------------------------------------------------------------------
(* What is so in every state: the rows are a version, and what was found is *)
(* what the rules detect in it at the instant of the last run.             *)

DetInv ==
  /\ IsVersion(rows)
  /\ as_of \in Nat
  /\ found = DetectAll(rows, as_of)

\* what Ship moves the rows to
Shipped(i, s) ==
  LET next == Moved("SHIPMENT", s, -1)
      item == [i EXCEPT !.fulfilled = @ + 1]
  IN  [next EXCEPT !.items = (@ \ {i}) \cup {item}]

\* what Receive moves the rows to
Received(l, s) ==
  LET next == Moved("RECEIPT", s, 1)
      line == [l EXCEPT !.received = @ + 1]
  IN  [next EXCEPT !.lines = (@ \ {l}) \cup {line}]

\* db is the active version after a unit of what s counts moved: change more
\* are on hand, by movement m
Flowed(db, m, s, change) ==
  /\ IsVersion(db)
  /\ db.moves = rows.moves \cup {m}
  /\ db.stock = (rows.stock \ {s})
                  \cup {[s EXCEPT !.on_hand = @ + change, !.observed_at = as_of]}
  /\ db.orders = rows.orders

LEMMA ShippedIsVersion ==
  ASSUME IsVersion(rows), as_of \in Nat, NEW i \in Wanted(rows, as_of),
         NEW s \in Observed(rows, as_of), s.reserved < s.on_hand
  PROVE  /\ Flowed(Shipped(i, s), Movement("SHIPMENT", s), s, -1)
         /\ Shipped(i, s).items = (rows.items \ {i}) \cup {[i EXCEPT !.fulfilled = @ + 1]}
<1> DEFINE db == Moved("SHIPMENT", s, -1)
           y == [i EXCEPT !.fulfilled = @ + 1]
<1>1. s \in rows.stock /\ i \in rows.items /\ Remaining(i) > 0
  BY DEF Wanted, Observed
<1>2. s \in Row.stock /\ i \in Row.items
  BY <1>1, VersionTables
<1>3. s.on_hand + (-1) \in Nat
  BY <1>2 DEF Row
<1>4. /\ IsVersion(db)
      /\ db.moves = rows.moves \cup {Movement("SHIPMENT", s)}
      /\ db.stock = (rows.stock \ {s})
                      \cup {[s EXCEPT !.on_hand = @ + (-1), !.observed_at = as_of]}
      /\ \A t \in DOMAIN Row \ {"moves", "stock"} : db[t] = rows[t]
  <2> DEFINE k == "SHIPMENT"
             c == -1
  <2>1. k \in InventoryMovementType /\ c \in Int /\ s.on_hand + c \in Nat
    BY <1>3 DEF InventoryMovementType
  <2> HIDE DEF k, c
  <2>2. LET new == Moved(k, s, c)
        IN  /\ IsVersion(new)
            /\ new.moves = rows.moves \cup {Movement(k, s)}
            /\ new.stock = (rows.stock \ {s})
                             \cup {[s EXCEPT !.on_hand = @ + c, !.observed_at = as_of]}
            /\ \A t \in DOMAIN Row \ {"moves", "stock"} : new[t] = rows[t]
    BY <1>1, <2>1, MovedIsVersion
  <2>3. QED BY <2>2 DEF k, c
<1>5. y \in Row.items /\ y.id = i.id /\ y.fulfilled <= y.ordered
  BY <1>1, <1>2 DEF Row, Remaining
<1>6. db.items = rows.items /\ db.orders = rows.orders
  BY <1>4 DEF Row
<1>7. Shipped(i, s) = [db EXCEPT !.items = (@ \ {i}) \cup {y}]
  BY DEF Shipped
<1> HIDE DEF db, y
<1>8. /\ IsVersion(Shipped(i, s))
      /\ Shipped(i, s).items = (db.items \ {i}) \cup {y}
      /\ \A u \in DOMAIN Row \ {"items"} : Shipped(i, s)[u] = db[u]
  <2> DEFINE t == "items"
  <2>1. /\ t \in {"items", "lines"} /\ i \in db[t] /\ y \in Row[t]
        /\ t = "items" => y.fulfilled <= y.ordered
        /\ Shipped(i, s) = Replaced(db, t, i, y)
    BY <1>1, <1>5, <1>6, <1>7 DEF Replaced
  <2> HIDE DEF t
  <2>2. /\ IsVersion(Shipped(i, s))
        /\ Shipped(i, s)[t] = (db[t] \ {i}) \cup {y}
        /\ \A u \in DOMAIN Row \ {t} : Shipped(i, s)[u] = db[u]
    BY <1>4, <1>5, <2>1, ReplacedIsVersion
  <2>3. QED BY <2>2 DEF t
<1>9. {"moves", "stock", "orders"} \subseteq DOMAIN Row \ {"items"}
  BY DEF Row
<1>10. QED BY <1>4, <1>6, <1>8, <1>9 DEF Flowed, y

LEMMA ReceivedIsVersion ==
  ASSUME IsVersion(rows), as_of \in Nat, NEW l \in rows.lines,
         NEW s \in Observed(rows, as_of)
  PROVE  /\ Flowed(Received(l, s), Movement("RECEIPT", s), s, 1)
         /\ Received(l, s).items = rows.items
<1> DEFINE db == Moved("RECEIPT", s, 1)
           y == [l EXCEPT !.received = @ + 1]
<1>1. s \in rows.stock
  BY DEF Observed
<1>2. s \in Row.stock /\ l \in Row.lines
  BY <1>1, VersionTables
<1>3. s.on_hand + 1 \in Nat
  BY <1>2 DEF Row
<1>4. /\ IsVersion(db)
      /\ db.moves = rows.moves \cup {Movement("RECEIPT", s)}
      /\ db.stock = (rows.stock \ {s})
                      \cup {[s EXCEPT !.on_hand = @ + 1, !.observed_at = as_of]}
      /\ \A t \in DOMAIN Row \ {"moves", "stock"} : db[t] = rows[t]
  <2> DEFINE k == "RECEIPT"
             c == 1
  <2>1. k \in InventoryMovementType /\ c \in Int /\ s.on_hand + c \in Nat
    BY <1>3 DEF InventoryMovementType
  <2> HIDE DEF k, c
  <2>2. LET new == Moved(k, s, c)
        IN  /\ IsVersion(new)
            /\ new.moves = rows.moves \cup {Movement(k, s)}
            /\ new.stock = (rows.stock \ {s})
                             \cup {[s EXCEPT !.on_hand = @ + c, !.observed_at = as_of]}
            /\ \A t \in DOMAIN Row \ {"moves", "stock"} : new[t] = rows[t]
    BY <1>1, <2>1, MovedIsVersion
  <2>3. QED BY <2>2 DEF k, c
<1>5. y \in Row.lines /\ y.id = l.id
  BY <1>2 DEF Row
<1>6. db.lines = rows.lines /\ db.items = rows.items /\ db.orders = rows.orders
  BY <1>4 DEF Row
<1>7. Received(l, s) = [db EXCEPT !.lines = (@ \ {l}) \cup {y}]
  BY DEF Received
<1> HIDE DEF db, y
<1>8. /\ IsVersion(Received(l, s))
      /\ \A u \in DOMAIN Row \ {"lines"} : Received(l, s)[u] = db[u]
  <2> DEFINE t == "lines"
  <2>1. /\ t \in {"items", "lines"} /\ l \in db[t] /\ y \in Row[t] /\ t # "items"
        /\ Received(l, s) = Replaced(db, t, l, y)
    BY <1>5, <1>6, <1>7 DEF Replaced
  <2> HIDE DEF t
  <2>2. /\ IsVersion(Received(l, s))
        /\ \A u \in DOMAIN Row \ {t} : Received(l, s)[u] = db[u]
    BY <1>4, <1>5, <2>1, ReplacedIsVersion
  <2>3. QED BY <2>2 DEF t
<1>9. {"moves", "stock", "orders", "items"} \subseteq DOMAIN Row \ {"lines"}
  BY DEF Row
<1>10. QED BY <1>4, <1>6, <1>8, <1>9 DEF Flowed

LEMMA InitDetInv ==
  Init => DetInv
BY DetectionAssumption DEF Init, DetInv

LEMMA NextDetInv ==
  ASSUME DetInv, [Next]_vars PROVE DetInv'
<1>1. CASE Later
  BY <1>1, DetectionAssumption DEF Later, RunOver, DetInv
<1>2. CASE Ship
  <2>1. PICK i \in Wanted(rows, as_of), s \in Observed(rows, as_of) :
          s.reserved < s.on_hand /\ RunOver(Shipped(i, s), as_of)
    BY <1>2 DEF Ship, Shipped
  <2>2. IsVersion(Shipped(i, s))
    BY <2>1, ShippedIsVersion DEF Flowed, DetInv
  <2>3. QED BY <2>1, <2>2 DEF RunOver, DetInv
<1>3. CASE Receive
  <2>1. PICK l \in rows.lines, s \in Observed(rows, as_of) : RunOver(Received(l, s), as_of)
    BY <1>3 DEF Receive, Received
  <2>2. IsVersion(Received(l, s))
    BY ReceivedIsVersion DEF Flowed, DetInv
  <2>3. QED BY <2>1, <2>2 DEF RunOver, DetInv
<1>4. CASE UNCHANGED vars
  BY <1>4 DEF vars, DetInv
<1>5. QED BY <1>1, <1>2, <1>3, <1>4 DEF Next

\* The rows stay a version whatever ships and arrives, and what was found is
\* what the six rules detect in them (rules.py:488-504).
THEOREM FoundInVersion ==
  Spec => []DetInv
<1>1. Init => DetInv
  BY InitDetInv
<1>2. DetInv /\ [Next]_vars => DetInv'
  BY NextDetInv
<1>3. QED BY <1>1, <1>2, PTL DEF Spec

\* A run reports an entity once per rule, in the order of the rules and of the
\* source ids, for every version and instant (rules.py:92, 184, 289-292, 386,
\* 444 and 496-503), whatever the text of the ids is.
THEOREM RunsAreOrdered ==
  Spec => []ReportedInOrder
<1>1. DetInv => ReportedInOrder
  <2> SUFFICES ASSUME DetInv PROVE ReportedInOrder
    OBVIOUS
  <2>1. \A m, n \in DOMAIN found : m < n => Earlier(found[m], found[n])
    BY RunInOrder DEF DetInv
  <2>2. QED BY <2>1 DEF Earlier, ReportedInOrder
<1>2. QED BY <1>1, FoundInVersion, PTL

-----------------------------------------------------------------------------
(* The sums of the rules. *)

LEMMA UnitsSplit ==
  ASSUME NEW S, IsFiniteSet(S), \A i \in S : Remaining(i) \in Nat
  PROVE  \A T \in SUBSET S :
           /\ Units(T) \in Int /\ Units(T) <= Units(S)
           /\ \A i \in T : Units(T) = Remaining(i) + Units(T \ {i})
<1> DEFINE f == [i \in S |-> Remaining(i)]
<1>1. \A i \in S : f[i] = Remaining(i) /\ f[i] \in Nat
  OBVIOUS
<1>2. \A T \in SUBSET S : Units(T) = SumFunction(On(f, T))
  <2> TAKE T \in SUBSET S
  <2>1. [i \in T |-> Remaining(i)] = On(f, T)
    BY DEF On
  <2>2. QED BY <2>1 DEF Units
<1> HIDE DEF f
<1>3. \A T \in SUBSET S : Split(f, T)
  BY <1>1, SumSplits
<1>4. \A T \in SUBSET S : SumFunction(On(f, T)) <= SumFunction(On(f, S))
  BY <1>1, SumGrows
<1>5. \A T \in SUBSET S : \A i \in T : T \ {i} \in SUBSET S
  OBVIOUS
<1>6. QED BY <1>1, <1>2, <1>3, <1>4, <1>5 DEF Split

LEMMA ProductIsNat ==
  ASSUME NEW a \in Nat, NEW b \in Nat PROVE a * b \in Nat
OBVIOUS

LEMMA RevenueGrows ==
  ASSUME NEW S, IsFiniteSet(S), \A i \in S : Remaining(i) \in Nat /\ i.price \in Nat
  PROVE  \A T \in SUBSET S : Revenue(T) \in Int /\ Revenue(T) <= Revenue(S)
<1> DEFINE f == [i \in S |-> Remaining(i) * i.price]
<1>1. \A i \in S : f[i] \in Nat
  <2> TAKE i \in S
  <2> DEFINE a == Remaining(i)
             b == i.price
  <2>1. a \in Nat /\ b \in Nat /\ f[i] = a * b
    OBVIOUS
  <2> HIDE DEF a, b, f
  <2>2. QED BY <2>1, ProductIsNat
<1>2. \A T \in SUBSET S : Revenue(T) = SumFunction(On(f, T))
  <2> TAKE T \in SUBSET S
  <2>1. [i \in T |-> Remaining(i) * i.price] = On(f, T)
    BY DEF On
  <2>2. QED BY <2>1 DEF Revenue
<1> HIDE DEF f
<1>3. \A T \in SUBSET S : Split(f, T)
  BY <1>1, SumSplits
<1>4. \A T \in SUBSET S : SumFunction(On(f, T)) <= SumFunction(On(f, S))
  BY <1>1, SumGrows
<1>5. QED BY <1>2, <1>3, <1>4 DEF Split

LEMMA NetChangeSplits ==
  ASSUME NEW S, IsFiniteSet(S), \A m \in S : Signed(m) \in Int
  PROVE  \A T \in SUBSET S :
           /\ NetChange(T) \in Int
           /\ \A m \in T : NetChange(T) = Signed(m) + NetChange(T \ {m})
<1> DEFINE f == [m \in S |-> Signed(m)]
<1>1. \A m \in S : f[m] = Signed(m) /\ f[m] \in Int
  OBVIOUS
<1>2. \A T \in SUBSET S : NetChange(T) = SumFunction(On(f, T))
  <2> TAKE T \in SUBSET S
  <2>1. [m \in T |-> Signed(m)] = On(f, T)
    BY DEF On
  <2>2. QED BY <2>1 DEF NetChange
<1> HIDE DEF f
<1>3. \A T \in SUBSET S : Split(f, T)
  BY <1>1, SumSplits
<1>4. \A T \in SUBSET S : \A m \in T : T \ {m} \in SUBSET S
  OBVIOUS
<1>5. QED BY <1>1, <1>2, <1>3, <1>4 DEF Split

(* The items of a version leave nothing below zero open. *)
LEMMA ItemNumbers ==
  ASSUME NEW db, IsVersion(db)
  PROVE  /\ IsFiniteSet(db.items)
         /\ \A i \in db.items : Remaining(i) \in Nat /\ i.price \in Nat
<1>1. \A i \in db.items : i \in Row.items /\ i.fulfilled <= i.ordered
  BY VersionTables DEF IsVersion
<1>2. QED BY <1>1, VersionTables DEF Row, Remaining

OrdersOf(items) == {i.order : i \in items}

(* More items, more units, more revenue and more orders. *)
LEMMA MoreItems ==
  ASSUME NEW db, IsVersion(db), NEW S \in SUBSET db.items, NEW T \in SUBSET S
  PROVE  /\ Units(T) \in Int /\ Units(S) \in Int /\ Units(T) <= Units(S)
         /\ Revenue(T) \in Int /\ Revenue(S) \in Int /\ Revenue(T) <= Revenue(S)
         /\ Cardinality(OrdersOf(T)) \in Int /\ Cardinality(OrdersOf(S)) \in Int
         /\ Cardinality(OrdersOf(T)) <= Cardinality(OrdersOf(S))
<1>1. IsFiniteSet(S) /\ \A i \in S : Remaining(i) \in Nat /\ i.price \in Nat
  BY ItemNumbers, FS_Subset
<1>2. S \in SUBSET S
  OBVIOUS
<1>3. Units(T) \in Int /\ Units(S) \in Int /\ Units(T) <= Units(S)
  BY <1>1, <1>2, UnitsSplit
<1>4. Revenue(T) \in Int /\ Revenue(S) \in Int /\ Revenue(T) <= Revenue(S)
  BY <1>1, <1>2, RevenueGrows
<1>5. /\ Cardinality(OrdersOf(T)) \in Int /\ Cardinality(OrdersOf(S)) \in Int
      /\ Cardinality(OrdersOf(T)) <= Cardinality(OrdersOf(S))
  <2> DEFINE F == OrdersOf(S)
             G == OrdersOf(T)
             e == [i \in S |-> i.order]
  <2>1. e \in Surjection(S, F) /\ G \in SUBSET F
    BY DEF Surjection, OrdersOf
  <2> HIDE DEF e, F, G
  <2>2. IsFiniteSet(F)
    BY <1>1, <2>1, FS_Surjection
  <2>3. IsFiniteSet(G) /\ Cardinality(G) <= Cardinality(F)
    BY <2>1, <2>2, FS_Subset
  <2>4. Cardinality(F) \in Nat /\ Cardinality(G) \in Nat
    BY <2>2, <2>3, FS_CardinalityType
  <2>5. QED BY <2>3, <2>4 DEF F, G
<1>6. QED BY <1>3, <1>4, <1>5

-----------------------------------------------------------------------------
(* Severity. *)

LEMMA SeverityIs ==
  ASSUME NEW f
  PROVE  /\ Severity(f) \in 1..4
         /\ Severity(f) < 4 => Reaches(f, Severity(f))
         /\ \A q \in 1..Severity(f) - 1 : ~Reaches(f, q)
<1>1. \E r \in 1..4 : (r < 4 => Reaches(f, r)) /\ \A q \in 1..r - 1 : ~Reaches(f, q)
  <2>1. CASE Reaches(f, 1)
    BY <2>1
  <2>2. CASE ~Reaches(f, 1) /\ Reaches(f, 2)
    <3>1. 1..2 - 1 = {1}
      OBVIOUS
    <3>2. QED BY <2>2, <3>1
  <2>3. CASE ~Reaches(f, 1) /\ ~Reaches(f, 2) /\ Reaches(f, 3)
    <3>1. 1..3 - 1 = {1, 2}
      OBVIOUS
    <3>2. QED BY <2>3, <3>1
  <2>4. CASE ~Reaches(f, 1) /\ ~Reaches(f, 2) /\ ~Reaches(f, 3)
    <3>1. 1..4 - 1 = {1, 2, 3}
      OBVIOUS
    <3>2. QED BY <2>4, <3>1
  <2>5. QED BY <2>1, <2>2, <2>3, <2>4
<1>2. QED BY <1>1 DEF Severity

\* no metric of f is above that of g
Within(f, g) ==
  /\ f.revenue \in Int /\ g.revenue \in Int /\ f.revenue <= g.revenue
  /\ f.orders \in Int /\ g.orders \in Int /\ f.orders <= g.orders
  /\ f.overdue \in Int /\ g.overdue \in Int /\ f.overdue <= g.overdue

(* What is worse ranks no lower. *)
LEMMA WorseIsNoLower ==
  ASSUME NEW f, NEW g, Within(f, g)
  PROVE  Severity(g) <= Severity(f)
<1>1. ASSUME NEW r \in 1..3, Reaches(f, r) PROVE Reaches(g, r)
  <2>1. DOMAIN Thresholds = {"revenue", "orders", "overdue"}
        /\ \A m \in DOMAIN Thresholds : Thresholds[m][r] \in Nat
    BY SettingsAssumption
  <2>2. PICK m \in DOMAIN Thresholds : Metrics(f)[m] >= Thresholds[m][r]
    BY <1>1 DEF Reaches
  <2>3. Metrics(f)[m] <= Metrics(g)[m] /\ Metrics(f)[m] \in Int /\ Metrics(g)[m] \in Int
    BY <2>1, <2>2 DEF Metrics, Within
  <2>4. Metrics(g)[m] >= Thresholds[m][r]
    BY <2>1, <2>2, <2>3
  <2>5. QED BY <2>4 DEF Reaches
<1>2. CASE Severity(f) = 4
  BY <1>2, SeverityIs
<1>3. CASE Severity(f) # 4
  <2>1. Severity(f) \in 1..3 /\ Reaches(f, Severity(f))
    BY <1>3, SeverityIs
  <2>2. Reaches(g, Severity(f))
    BY <1>1, <2>1
  <2>3. QED BY <2>1, <2>2, SeverityIs
<1>4. QED BY <1>2, <1>3

LEMMA OverdueGrows ==
  ASSUME NEW t \in Nat, NEW u \in Nat, t <= u, NEW due \in Nat
  PROVE  Overdue(t, due) \in Int /\ Overdue(u, due) \in Int /\ Overdue(t, due) <= Overdue(u, due)
<1>1. ASSUME NEW v \in Nat
      PROVE  /\ v - due > 0 => Overdue(v, due) = v - due
             /\ v - due <= 0 => Overdue(v, due) = 0
  <2> DEFINE S == {0, v - due}
  <2>1. \E x \in S : \A y \in S : x >= y
    BY DEF S
  <2>2. Overdue(v, due) \in S /\ \A y \in S : Overdue(v, due) >= y
    BY <2>1 DEF Overdue, Max
  <2>3. QED BY <2>2
<1>2. QED BY <1>1

-----------------------------------------------------------------------------
(* Time alone. *)

\* g is what becomes of f
Lasts(f, g) ==
  /\ g.rule = f.rule /\ g.about = f.about /\ g.key = f.key
  /\ Severity(g) <= Severity(f)
  /\ f.rule \notin Aggregates => g.facts = f.facts

(* What was wanted stays wanted, of an order at risk nothing is added. *)
LEMMA WantedLasts ==
  ASSUME NEW db, IsVersion(db), NEW t \in Nat, NEW u \in Nat, t <= u
  PROVE  /\ Wanted(db, t) \subseteq Wanted(db, u)
         /\ Wanted(db, u) \in SUBSET db.items
         /\ \A o \in AtRisk(db, t) : /\ o \in AtRisk(db, u)
                                     /\ ItemsOf(Wanted(db, t), o) = ItemsOf(Wanted(db, u), o)
<1>1. \A o \in db.orders : o.ordered_at \in Nat /\ o.promised_at \in Nat
  BY VersionTables DEF Row
<1>2. Wanted(db, t) \subseteq Wanted(db, u)
  BY <1>1 DEF Wanted
<1>3. ASSUME NEW o \in AtRisk(db, t)
      PROVE  o \in AtRisk(db, u) /\ ItemsOf(Wanted(db, t), o) = ItemsOf(Wanted(db, u), o)
  <2>1. /\ o \in db.orders /\ o.promised_at <= t + Window
        /\ ItemsOf(Wanted(db, t), o) # {}
    BY DEF AtRisk
  <2>2. PICK i \in Wanted(db, t) : i.order = o.id
    BY <2>1 DEF ItemsOf
  <2>3. o.status = "OPEN" /\ o.ordered_at <= t
    <3>1. PICK p \in db.orders : p.id = i.order /\ p.status = "OPEN" /\ p.ordered_at <= t
      BY DEF Wanted
    <3>2. p = o
      BY <2>1, <2>2, <3>1 DEF IsVersion
    <3>3. QED BY <3>1, <3>2
  <2>4. ItemsOf(Wanted(db, u), o) \subseteq ItemsOf(Wanted(db, t), o)
    BY <2>1, <2>3 DEF ItemsOf, Wanted
  <2>5. ItemsOf(Wanted(db, t), o) \subseteq ItemsOf(Wanted(db, u), o)
    BY <1>2 DEF ItemsOf
  <2>6. o.promised_at <= u + Window
    BY <1>1, <2>1, SettingsAssumption
  <2>7. QED BY <2>1, <2>4, <2>5, <2>6 DEF AtRisk
<1>4. QED BY <1>2, <1>3 DEF Wanted

LEMMA SlaLasts ==
  ASSUME NEW db, IsVersion(db), NEW t \in Nat, NEW u \in Nat, t <= u,
         NEW f \in SlaBreachRisk(db, t)
  PROVE  \E g \in SlaBreachRisk(db, u) : Lasts(f, g)
<1>1. PICK o \in AtRisk(db, t) : f = SlaFinding(o, ItemsOf(Wanted(db, t), o), t)
  BY DEF SlaBreachRisk
<1> DEFINE items == ItemsOf(Wanted(db, u), o)
           g == SlaFinding(o, items, u)
<1>2. /\ o \in AtRisk(db, u) /\ items = ItemsOf(Wanted(db, t), o)
      /\ items \in SUBSET db.items
  BY WantedLasts DEF ItemsOf
<1>3. g \in SlaBreachRisk(db, u)
  BY <1>2 DEF SlaBreachRisk
<1>4. f = SlaFinding(o, items, t)
  BY <1>1, <1>2
<1> HIDE DEF items
<1>5. /\ g.rule = f.rule /\ g.about = f.about /\ g.key = f.key /\ g.facts = f.facts
      /\ g.revenue = Revenue(items) /\ f.revenue = Revenue(items) /\ g.orders = 1 /\ f.orders = 1
      /\ g.overdue = Overdue(u, o.promised_at) /\ f.overdue = Overdue(t, o.promised_at)
  BY <1>4 DEF SlaFinding, Finding
<1>6. Revenue(items) \in Int
  BY <1>2, MoreItems
<1>7. o.promised_at \in Nat
  BY <1>2, VersionTables DEF AtRisk, Row
<1> HIDE DEF g
<1>8. Within(f, g)
  BY <1>5, <1>6, <1>7, OverdueGrows DEF Within
<1>9. QED BY <1>3, <1>5, <1>8, WorseIsNoLower DEF Lasts

(* More demand comes into view, never less. *)
LEMMA DemandLasts ==
  ASSUME NEW db, IsVersion(db), NEW t \in Nat, NEW u \in Nat, t <= u, NEW s
  PROVE  /\ Demand(db, t, s) \in SUBSET Demand(db, u, s)
         /\ Demand(db, u, s) \in SUBSET db.items
BY WantedLasts DEF Demand

LEMMA ShortLasts ==
  ASSUME NEW db, IsVersion(db), NEW t \in Nat, NEW u \in Nat, t <= u, NEW rule \in Aggregates,
         NEW limit \in Nat, NEW f \in Short(rule, db, t, limit)
  PROVE  \E g \in Short(rule, db, u, limit) : Lasts(f, g)
<1>1. PICK s \in Observed(db, t) :
        /\ Demand(db, t, s) # {} /\ Buffer(db, t, s) < limit
        /\ f = DemandFinding(rule, db, t, s, limit)
  BY DEF Short
<1> DEFINE g == DemandFinding(rule, db, u, s, limit)
           now == Demand(db, t, s)
           then == Demand(db, u, s)
<1>2. s \in db.stock /\ s \in Row.stock /\ s.observed_at <= t
  BY VersionTables DEF Observed
<1>3. s \in Observed(db, u)
  BY <1>2 DEF Observed, Row
<1>4. now \in SUBSET then /\ then \in SUBSET db.items
  BY DemandLasts
<1>5. /\ f.rule = rule /\ g.rule = rule /\ g.about = f.about /\ g.key = f.key
      /\ f.revenue = Revenue(now) /\ g.revenue = Revenue(then)
      /\ f.orders = Cardinality(OrdersOf(now))
      /\ g.orders = Cardinality(OrdersOf(then))
      /\ f.overdue = 0 /\ g.overdue = 0
  BY <1>1 DEF DemandFinding, Finding, OrdersOf
<1>6. Buffer(db, t, s) = Available(s) - Units(now) /\ Buffer(db, u, s) = Available(s) - Units(then)
  BY DEF Buffer
<1>7. Available(s) \in Int
  BY <1>2 DEF Available, Row
<1> HIDE DEF now, then, g
<1>9. /\ Units(now) \in Int /\ Units(then) \in Int /\ Units(now) <= Units(then)
      /\ Within(f, g)
  BY <1>4, <1>5, MoreItems DEF Within
<1>10. then # {} /\ Buffer(db, u, s) < limit
  BY <1>1, <1>4, <1>6, <1>7, <1>9 DEF now
<1>11. g \in Short(rule, db, u, limit)
  BY <1>3, <1>10 DEF Short, g, then
<1>12. QED BY <1>5, <1>9, <1>11, WorseIsNoLower DEF Lasts

\* every finding of a rule that looks at nothing but what has passed
LEMMA MismatchLasts ==
  ASSUME NEW db, IsVersion(db), NEW t \in Nat, NEW u \in Nat, t <= u, NEW f \in Mismatch(db, t)
  PROVE  f \in Mismatch(db, u)
<1>1. \A s \in db.stock : s.observed_at \in Nat
  BY VersionTables DEF Row
<1>2. Observed(db, t) \subseteq Observed(db, u)
  BY <1>1 DEF Observed
<1>3. QED BY <1>2 DEF Mismatch

LEMMA SupplierLasts ==
  ASSUME NEW db, IsVersion(db), NEW t \in Nat, NEW u \in Nat, t <= u,
         NEW f \in SupplierDelay(db, t)
  PROVE  \E g \in SupplierDelay(db, u) : Lasts(f, g)
<1> DEFINE facts(p) == <<p.id, p.status, p.expected_at,
                         SumFunction([l \in Outstanding(db, p) |-> l.ordered - l.received])>>
           late(p, v) == Finding("SUPPLIER_DELAY", <<p.id>>, facts(p), 0, 0,
                                 Overdue(v, p.expected_at))
           open(v) == {p \in db.purchases : /\ p.status \in {"OPEN", "PARTIALLY_RECEIVED"}
                                            /\ p.ordered_at <= v /\ p.expected_at < v
                                            /\ Outstanding(db, p) # {}}
<1>1. \A v : SupplierDelay(db, v) = {late(p, v) : p \in open(v)}
  BY DEF SupplierDelay
<1>2. PICK p \in open(t) : f = late(p, t)
  BY <1>1
<1>3. p.ordered_at \in Nat /\ p.expected_at \in Nat
  BY VersionTables DEF Row
<1>4. p \in open(u)
  BY <1>3
<1>5. late(p, u) \in SupplierDelay(db, u)
  BY <1>1, <1>4
<1> HIDE DEF facts
<1>6. /\ late(p, u).rule = f.rule /\ late(p, u).about = f.about
      /\ late(p, u).key = f.key /\ late(p, u).facts = f.facts
      /\ f.revenue = 0 /\ late(p, u).revenue = 0 /\ f.orders = 0 /\ late(p, u).orders = 0
      /\ f.overdue = Overdue(t, p.expected_at) /\ late(p, u).overdue = Overdue(u, p.expected_at)
  BY <1>2 DEF Finding
<1> HIDE DEF late
<1>7. Within(f, late(p, u))
  BY <1>3, <1>6, OverdueGrows DEF Within
<1>8. QED BY <1>5, <1>6, <1>7, WorseIsNoLower DEF Lasts

LEMMA ShipmentLasts ==
  ASSUME NEW db, IsVersion(db), NEW t \in Nat, NEW u \in Nat, t <= u,
         NEW f \in ShipmentDelay(db, t)
  PROVE  f \in ShipmentDelay(db, u)
<1> DEFINE risk(sh) == Revenue({i \in db.items : i.order = sh.order})
           late(sh) == Finding("SHIPMENT_DELAY", <<sh.id>>, <<sh.id, sh.status, sh.eta, sh.order, risk(sh)>>,
                               risk(sh), 1, 0)
           open(v) == {x \in db.shipments : x.status # "DELIVERED" /\ x.eta < v}
<1>1. \A v : ShipmentDelay(db, v) = {late(sh) : sh \in open(v)}
  BY DEF ShipmentDelay, ShipmentFacts
<1>2. \A x \in db.shipments : x.eta \in Nat
  BY VersionTables DEF Row
<1>3. open(t) \subseteq open(u)
  BY <1>2
<1> HIDE DEF late, open
<1>4. QED BY <1>1, <1>3

\* nothing about a finding that stays as it was changes
LEMMA SameLasts ==
  ASSUME NEW f PROVE Lasts(f, f)
BY SeverityIs DEF Lasts

(* Every finding of a run is found again in a later run. *)
LEMMA FindingLasts ==
  ASSUME NEW db, IsVersion(db), NEW t \in Nat, NEW u \in Nat, t <= u, NEW f \in AllFound(db, t)
  PROVE  \E g \in AllFound(db, u) : Lasts(f, g)
<1>1. PICK rule \in Rules : f \in Found(rule, db, t)
  BY DEF AllFound
<1>2. \A g : g \in Found(rule, db, u) => g \in AllFound(db, u)
  BY DEF AllFound
<1>3. CASE rule = "SLA_BREACH_RISK"
  <2>1. \A v : Found(rule, db, v) = SlaBreachRisk(db, v)
    BY <1>3 DEF Found
  <2>2. QED BY <1>1, <1>2, <2>1, SlaLasts
<1>4. CASE rule = "INVENTORY_SHORTAGE"
  <2>1. \A v : Found(rule, db, v) = Short(rule, db, v, 0)
    BY <1>4 DEF Found
  <2>2. rule \in Aggregates
    BY <1>4 DEF Aggregates
  <2>3. QED BY <1>1, <1>2, <2>1, <2>2, ShortLasts
<1>5. CASE rule = "STOCKOUT_RISK"
  <2>1. \A v : Found(rule, db, v) = Short(rule, db, v, SafetyStock)
    BY <1>5 DEF Found
  <2>2. rule \in Aggregates
    BY <1>5 DEF Aggregates
  <2>3. QED BY <1>1, <1>2, <2>1, <2>2, ShortLasts, SettingsAssumption
<1>6. CASE rule = "INVENTORY_MISMATCH"
  <2>1. \A v : Found(rule, db, v) = Mismatch(db, v)
    BY <1>6 DEF Found
  <2>2. QED BY <1>1, <1>2, <2>1, MismatchLasts, SameLasts
<1>7. CASE rule = "SUPPLIER_DELAY"
  <2>1. \A v : Found(rule, db, v) = SupplierDelay(db, v)
    BY <1>7 DEF Found
  <2>2. QED BY <1>1, <1>2, <2>1, SupplierLasts
<1>8. CASE rule = "SHIPMENT_DELAY"
  <2>1. \A v : Found(rule, db, v) = ShipmentDelay(db, v)
    BY <1>8 DEF Found
  <2>2. QED BY <1>1, <1>2, <2>1, ShipmentLasts, SameLasts
<1>9. QED BY <1>3, <1>4, <1>5, <1>6, <1>7, <1>8 DEF Rules

LEMMA ReportedIsAll ==
  ASSUME DetInv PROVE Reported = AllFound(rows, as_of)
BY RunInOrder DEF DetInv, Reported

\* A step that leaves the rows alone does not go back in time: it repeats the
\* run at its instant or at a later one (rules.py:488-504).
LEMMA TimeMovesOn ==
  ASSUME DetInv, Next PROVE as_of <= as_of' /\ as_of \in Nat /\ as_of' \in Nat
<1>1. as_of \in Nat
  BY DEF DetInv
<1>2. CASE Later
  BY <1>1, <1>2, DetectionAssumption DEF Later, RunOver
<1>3. CASE Ship
  <2>1. as_of' = as_of
    BY <1>3, Zenon DEF Ship, RunOver
  <2>2. QED BY <1>1, <2>1
<1>4. CASE Receive
  <2>1. as_of' = as_of
    BY <1>4, Zenon DEF Receive, RunOver
  <2>2. QED BY <1>1, <2>1
<1>5. QED BY <1>2, <1>3, <1>4 DEF Next

\* Time alone takes no finding away, lowers no severity and changes the facts
\* of no condition that is not an aggregate, for every version and any two
\* instants (service.py:104-112; rules.py:76-93, 371-387 and 438-445;
\* severity.py:60-67).
THEOREM FindingsLast ==
  Spec => TimeOnlyAdds
<1> DEFINE A == rows' = rows =>
                  \A f \in Reported : \E g \in Reported' :
                    /\ g.rule = f.rule /\ g.about = f.about /\ g.key = f.key
                    /\ Severity(g) <= Severity(f)
                    /\ f.rule \notin Aggregates => g.facts = f.facts
<1>1. ASSUME DetInv, DetInv', Next PROVE A
  <2> SUFFICES ASSUME rows' = rows, NEW f \in Reported
               PROVE  \E g \in Reported' : Lasts(f, g)
    BY DEF Lasts
  <2>1. as_of <= as_of' /\ as_of \in Nat /\ as_of' \in Nat /\ IsVersion(rows)
    BY <1>1, TimeMovesOn DEF DetInv
  <2>2. f \in AllFound(rows, as_of)
    BY <1>1, ReportedIsAll
  <2>3. PICK u : u = as_of'
    OBVIOUS
  <2>4. found' = DetectAll(rows, u)
    BY <1>1, <2>3 DEF DetInv
  <2>5. Reported' = AllFound(rows, u)
    BY <2>1, <2>4, RunInOrder DEF Reported
  <2>6. QED BY <2>1, <2>2, <2>3, <2>5, FindingLasts
<1>2. DetInv /\ DetInv' /\ [Next]_vars => [A]_vars
  BY <1>1
<1> HIDE DEF A
<1>3. Spec => [][A]_vars
  BY <1>2, FoundInVersion, PTL DEF Spec
<1>4. QED BY <1>3 DEF TimeOnlyAdds, A

-----------------------------------------------------------------------------
(* The flow of goods. *)

\* the snapshot that replaces s
CountOf(s, change) == [s EXCEPT !.on_hand = @ + change, !.observed_at = as_of]

\* the movements that a snapshot counts
CountedBy(db, s) ==
  {m \in db.moves : /\ m.product = s.product /\ m.warehouse = s.warehouse
                    /\ m.occurred_at <= s.observed_at}

LEMMA SignedMoves ==
  ASSUME NEW db, IsVersion(db)
  PROVE  IsFiniteSet(db.moves) /\ \A m \in db.moves : Signed(m) \in Int
<1>1. \A m \in db.moves : m.quantity \in Nat
  BY VersionTables DEF Row
<1>2. \A m \in db.moves : Signed(m) \in Int
  BY <1>1 DEF Signed
<1>3. QED BY <1>2, VersionTables

(* The count that a movement came with differs from what was moved by as   *)
(* much as the count before did, and no other count changes.               *)
LEMMA SameDifference ==
  ASSUME IsVersion(rows), as_of \in Nat, NEW s \in Observed(rows, as_of), Counted(s),
         NEW m, m = Movement(m.kind, s), m.kind \in InventoryMovementType,
         NEW change \in Int, Signed(m) = change, s.on_hand + change \in Nat,
         NEW db, Flowed(db, m, s, change)
  PROVE  /\ Difference(db, CountOf(s, change)) = Difference(rows, s)
         /\ \A x \in rows.stock \ {s} : Difference(db, x) = Difference(rows, x)
<1> DEFINE r == CountOf(s, change)
<1>1. s \in rows.stock /\ s \in Row.stock /\ s.observed_at <= as_of
  BY VersionTables DEF Observed
<1>2. /\ m \in Row.moves /\ m \notin rows.moves
      /\ m.product = s.product /\ m.warehouse = s.warehouse /\ m.occurred_at = as_of
  BY <1>1, MovementIsNew
<1>3. /\ r \in Row.stock /\ r.product = s.product /\ r.warehouse = s.warehouse
      /\ r.on_hand = s.on_hand + change /\ r.observed_at = as_of
  BY <1>1, CountAfter DEF CountOf
<1>4. db.moves = rows.moves \cup {m} /\ IsVersion(db)
  BY DEF Flowed
<1> HIDE DEF r
<1>5. \A d, x : Reconstructed(d, x) = NetChange(CountedBy(d, x))
  BY DEF Reconstructed, CountedBy
<1>6. CountedBy(db, r) = CountedBy(rows, s) \cup {m}
  <2>1. \A x \in rows.moves : x.occurred_at \in Nat
    BY VersionTables DEF Row
  <2>2. \A x \in rows.moves : x.product = s.product /\ x.warehouse = s.warehouse
                              => x.occurred_at <= s.observed_at /\ x.occurred_at <= as_of
    BY <1>1, <2>1 DEF Counted, Row
  <2>3. QED BY <1>2, <1>3, <1>4, <2>2 DEF CountedBy
<1>7. NetChange(CountedBy(db, r)) = change + NetChange(CountedBy(rows, s))
  <2> DEFINE T == CountedBy(rows, s) \cup {m}
  <2>1. m \notin CountedBy(rows, s) /\ T \ {m} = CountedBy(rows, s)
    BY <1>2 DEF CountedBy
  <2>2. T \in SUBSET db.moves /\ m \in T
    BY <1>4 DEF CountedBy
  <2> HIDE DEF T
  <2>3. NetChange(T) = Signed(m) + NetChange(T \ {m})
    BY <1>4, <2>2, SignedMoves, NetChangeSplits
  <2>4. QED BY <1>6, <2>1, <2>3 DEF T
<1>8. NetChange(CountedBy(rows, s)) \in Int
  <2>1. CountedBy(rows, s) \in SUBSET rows.moves
    BY DEF CountedBy
  <2>2. QED BY <2>1, SignedMoves, NetChangeSplits
<1>9. Difference(db, r) = Difference(rows, s)
  <2>1. /\ Difference(db, r) = r.on_hand - NetChange(CountedBy(db, r))
        /\ Difference(rows, s) = s.on_hand - NetChange(CountedBy(rows, s))
    BY <1>5 DEF Difference
  <2>2. s.on_hand \in Int
    BY <1>1 DEF Row
  <2>3. QED BY <1>3, <1>7, <1>8, <2>1, <2>2
<1>10. ASSUME NEW x \in rows.stock \ {s} PROVE Difference(db, x) = Difference(rows, x)
  <2>1. ~(x.product = s.product /\ x.warehouse = s.warehouse)
    BY <1>1 DEF IsVersion
  <2>2. CountedBy(db, x) = CountedBy(rows, x)
    BY <1>2, <1>4, <2>1 DEF CountedBy
  <2>3. QED BY <1>5, <2>2 DEF Difference
<1>11. QED BY <1>9, <1>10 DEF r

\* one more item is delivered
Delivered(db, i) ==
  /\ IsVersion(db)
  /\ db.orders = rows.orders
  /\ db.items = (rows.items \ {i}) \cup {[i EXCEPT !.fulfilled = @ + 1]}

(* It is no longer wanted, and nothing else is. *)
LEMMA WantedAfter ==
  ASSUME IsVersion(rows), NEW t, NEW i \in Wanted(rows, t), NEW db, Delivered(db, i)
  PROVE  LET y == [i EXCEPT !.fulfilled = @ + 1]
         IN  /\ y.order = i.order /\ y.product = i.product
             /\ Remaining(i) \in Nat /\ Remaining(y) = Remaining(i) - 1 /\ y \notin rows.items
             /\ Wanted(db, t) = (Wanted(rows, t) \ {i}) \cup {x \in {y} : Remaining(x) > 0}
<1> DEFINE y == [i EXCEPT !.fulfilled = @ + 1]
           asked(x) == \E o \in rows.orders : /\ o.id = x.order /\ o.status = "OPEN"
                                              /\ o.ordered_at <= t
<1>1. i \in rows.items /\ i \in Row.items /\ asked(i) /\ Remaining(i) > 0
  BY VersionTables DEF Wanted
<1>2. /\ y.id = i.id /\ y.order = i.order /\ y.product = i.product
      /\ y.ordered = i.ordered /\ y.fulfilled = i.fulfilled + 1
      /\ i.ordered \in Nat /\ i.fulfilled \in Nat
  BY <1>1 DEF Row
<1>3. Remaining(i) \in Nat
  BY <1>1, ItemNumbers
<1>4. db.items = (rows.items \ {i}) \cup {y} /\ db.orders = rows.orders
  BY DEF Delivered
<1> HIDE DEF y
<1>5. Remaining(y) = Remaining(i) - 1
  BY <1>2 DEF Remaining
<1>6. y \notin rows.items
  <2> SUFFICES ASSUME y \in rows.items PROVE FALSE
    OBVIOUS
  <2>1. y = i
    BY <1>1, <1>2 DEF IsVersion
  <2>2. i.fulfilled = i.fulfilled + 1
    BY <1>2, <2>1
  <2>3. QED BY <1>2, <2>2
<1>7. asked(y)
  BY <1>1, <1>2
<1>8. /\ Wanted(db, t) = {x \in db.items : Remaining(x) > 0 /\ asked(x)}
      /\ Wanted(rows, t) = {x \in rows.items : Remaining(x) > 0 /\ asked(x)}
  BY <1>4 DEF Wanted
<1> HIDE DEF asked
<1>9. Wanted(db, t) = (Wanted(rows, t) \ {i}) \cup {x \in {y} : Remaining(x) > 0}
  BY <1>4, <1>7, <1>8
<1>10. QED BY <1>2, <1>3, <1>5, <1>6, <1>9 DEF y

(* A unit that leaves takes its demand with it. *)
LEMMA DemandAfterShip ==
  ASSUME IsVersion(rows), NEW t, NEW s \in rows.stock, NEW i \in Demand(rows, t, s),
         NEW db, Delivered(db, i),
         NEW r, r.product = s.product, r.warehouse = s.warehouse
  PROVE  /\ Units(Demand(db, t, r)) = Units(Demand(rows, t, s)) - 1
         /\ Units(Demand(rows, t, s)) \in Int
         /\ \A x \in rows.stock \ {s} : Demand(db, t, x) = Demand(rows, t, x)
<1> DEFINE y == [i EXCEPT !.fulfilled = @ + 1]
           D == Demand(rows, t, s)
           E == Demand(db, t, r)
           at(x, z) == /\ x.product = z.product
                       /\ \E o \in rows.orders : o.id = x.order /\ o.warehouse = z.warehouse
<1>1. i \in Wanted(rows, t) /\ at(i, s) /\ i \in rows.items
  BY DEF Demand, Wanted
<1>2. /\ y.order = i.order /\ y.product = i.product
      /\ Remaining(i) \in Nat /\ Remaining(y) = Remaining(i) - 1 /\ y \notin rows.items
      /\ Wanted(db, t) = (Wanted(rows, t) \ {i}) \cup {x \in {y} : Remaining(x) > 0}
  BY <1>1, WantedAfter
<1> HIDE DEF y
<1>3. \A x \in rows.stock : at(i, x) <=> x = s
  <2>1. \A x \in rows.stock : at(i, x) => x.product = s.product /\ x.warehouse = s.warehouse
    BY <1>1 DEF IsVersion
  <2>2. QED BY <1>1, <2>1 DEF IsVersion
<1>4. /\ \A x : at(y, x) <=> at(i, x)
      /\ \A x : at(x, r) <=> at(x, s)
  BY <1>2
<1>5. \A z : /\ Demand(rows, t, z) = {x \in Wanted(rows, t) : at(x, z)}
             /\ Demand(db, t, z) = {x \in Wanted(db, t) : at(x, z)}
  BY DEF Demand, Delivered
<1> HIDE DEF at
<1>6. E = (D \ {i}) \cup {x \in {y} : Remaining(x) > 0}
  BY <1>1, <1>2, <1>4, <1>5
<1>7. ASSUME NEW x \in rows.stock \ {s} PROVE Demand(db, t, x) = Demand(rows, t, x)
  <2>1. ~at(i, x) /\ ~at(y, x)
    BY <1>3, <1>4
  <2>2. \A z : z \in Wanted(db, t) /\ at(z, x) <=> z \in Wanted(rows, t) /\ at(z, x)
    BY <1>2, <2>1
  <2>3. QED BY <1>5, <2>2
<1>8. D \in SUBSET rows.items /\ i \in D /\ E \in SUBSET db.items /\ IsVersion(db)
  BY DEF Demand, Wanted, Delivered
<1> HIDE DEF D, E
<1>9. /\ IsFiniteSet(D) /\ \A x \in D : Remaining(x) \in Nat
      /\ IsFiniteSet(E) /\ \A x \in E : Remaining(x) \in Nat
  BY <1>8, ItemNumbers, FS_Subset
<1>10. /\ Units(D) = Remaining(i) + Units(D \ {i})
       /\ Units(D) \in Int /\ Units(D \ {i}) \in Int
  <2>1. D \in SUBSET D /\ D \ {i} \in SUBSET D
    OBVIOUS
  <2>2. QED BY <1>8, <1>9, <2>1, UnitsSplit
<1>11. Units(E) = Units(D) - 1
  <2>1. CASE Remaining(y) > 0
    <3>1. y \in E /\ E \ {y} = D \ {i} /\ E \in SUBSET E
      BY <1>2, <1>6, <1>8, <2>1
    <3>2. Units(E) = Remaining(y) + Units(E \ {y})
      BY <1>9, <3>1, UnitsSplit
    <3>3. Units(E) = (Remaining(i) - 1) + Units(D \ {i})
      BY <1>2, <3>1, <3>2, Zenon
    <3> DEFINE a == Units(D)
               b == Remaining(i)
               c == Units(D \ {i})
    <3>4. a = b + c /\ b \in Int /\ c \in Int /\ Units(E) = (b - 1) + c
      BY <1>2, <1>10, <3>3
    <3> HIDE DEF a, b, c
    <3>5. Units(E) = a - 1
      BY <3>4
    <3>6. QED BY <3>5 DEF a
  <2>2. CASE ~(Remaining(y) > 0)
    <3>1. E = D \ {i} /\ Remaining(i) <= 1
      BY <1>2, <1>6, <2>2
    <3>2. Remaining(i) > 0
      BY <1>1 DEF Wanted
    <3>3. Remaining(i) = 1
      BY <1>2, <3>1, <3>2
    <3>4. QED BY <1>10, <3>1, <3>3
  <2>3. QED BY <2>1, <2>2
<1>12. QED BY <1>7, <1>10, <1>11 DEF D, E

\* the findings of a rule, and the snapshots that they are about
Off(db, s) == Difference(db, s) > Tolerance \/ -Difference(db, s) > Tolerance

Lacking(db, t, s, limit) == Demand(db, t, s) # {} /\ Buffer(db, t, s) < limit

LEMMA StockFindings ==
  ASSUME NEW db, IsVersion(db), NEW t
  PROVE  /\ \A f \in AllFound(db, t) : f \in Found(f.rule, db, t)
         /\ \A about : (\E f \in AllFound(db, t) : f.rule = "INVENTORY_MISMATCH" /\ f.about = about)
                       <=> \E s \in Observed(db, t) : Off(db, s) /\ about = <<s.product, s.warehouse>>
         /\ \A rule \in Aggregates : \A about :
              (\E f \in AllFound(db, t) : f.rule = rule /\ f.about = about)
                <=> \E s \in Observed(db, t) :
                      /\ Lacking(db, t, s, IF rule = "STOCKOUT_RISK" THEN SafetyStock ELSE 0)
                      /\ about = <<s.product, s.warehouse>>
<1>1. \A f \in AllFound(db, t) : f \in Found(f.rule, db, t)
  BY FoundIsNamed DEF Named, AllFound
<1>2. \A rule \in Rules : \A f \in Found(rule, db, t) : f \in AllFound(db, t) /\ f.rule = rule
  BY FoundIsNamed DEF Named, AllFound
<1>3. "INVENTORY_MISMATCH" \in Rules /\ Aggregates \subseteq Rules
  BY DEF Rules, Aggregates
<1>4. ASSUME NEW about
      PROVE  (\E f \in AllFound(db, t) : f.rule = "INVENTORY_MISMATCH" /\ f.about = about)
               <=> \E s \in Observed(db, t) : Off(db, s) /\ about = <<s.product, s.warehouse>>
  <2>1. Found("INVENTORY_MISMATCH", db, t) = Mismatch(db, t)
    BY DEF Found
  <2>2. (\E f \in AllFound(db, t) : f.rule = "INVENTORY_MISMATCH" /\ f.about = about)
          <=> \E f \in Mismatch(db, t) : f.about = about
    BY <1>1, <1>2, <1>3, <2>1
  <2>3. (\E f \in Mismatch(db, t) : f.about = about)
          <=> \E s \in Observed(db, t) : Off(db, s) /\ about = <<s.product, s.warehouse>>
    <3> DEFINE h(s) == Finding("INVENTORY_MISMATCH", <<s.product, s.warehouse>>,
                               <<s.product, s.warehouse, s.observed_at, s.on_hand, Reconstructed(db, s)>>, 0, 0, 0)
    <3>1. Mismatch(db, t) = {h(s) : s \in {x \in Observed(db, t) : Off(db, x)}}
      BY DEF Mismatch, Off
    <3>2. \A s : h(s).about = <<s.product, s.warehouse>>
      BY DEF Finding
    <3> HIDE DEF h
    <3>3. QED BY <3>1, <3>2
  <2>4. QED BY <2>2, <2>3
<1>5. ASSUME NEW rule \in Aggregates, NEW about
      PROVE  (\E f \in AllFound(db, t) : f.rule = rule /\ f.about = about)
               <=> \E s \in Observed(db, t) :
                     /\ Lacking(db, t, s, IF rule = "STOCKOUT_RISK" THEN SafetyStock ELSE 0)
                     /\ about = <<s.product, s.warehouse>>
  <2> DEFINE limit == IF rule = "STOCKOUT_RISK" THEN SafetyStock ELSE 0
  <2>1. Found(rule, db, t) = Short(rule, db, t, limit)
    BY DEF Found, Aggregates
  <2> HIDE DEF limit
  <2>2. (\E f \in AllFound(db, t) : f.rule = rule /\ f.about = about)
          <=> \E f \in Short(rule, db, t, limit) : f.about = about
    BY <1>1, <1>2, <1>3, <2>1
  <2>3. \A s : DemandFinding(rule, db, t, s, limit).about = <<s.product, s.warehouse>>
    BY DEF DemandFinding, Finding
  <2>4. (\E f \in Short(rule, db, t, limit) : f.about = about)
          <=> \E s \in Observed(db, t) :
                Lacking(db, t, s, limit) /\ about = <<s.product, s.warehouse>>
    BY <2>3 DEF Short, Lacking
  <2>5. QED BY <2>2, <2>4 DEF limit
<1>6. QED BY <1>1, <1>4, <1>5

(* What a run says of the stock has the joined ids for its key.            *)
LEMMA StockKeys ==
  ASSUME NEW db, IsVersion(db), NEW t, NEW f \in AllFound(db, t),
         f.rule \in Aggregates \cup {"INVENTORY_MISMATCH"}
  PROVE  f.key = IssueKey(f.about)
<1>1. f \in Found(f.rule, db, t)
  BY StockFindings
<1>2. CASE f.rule = "INVENTORY_MISMATCH"
  <2>1. f \in Mismatch(db, t)
    BY <1>1, <1>2 DEF Found
  <2>2. \A rule, about, facts, n : LET g == Finding(rule, about, facts, n, n, n)
                                   IN  g.key = IssueKey(g.about)
    BY DEF Finding
  <2>3. \E about, facts : f = Finding("INVENTORY_MISMATCH", about, facts, 0, 0, 0)
    BY <2>1 DEF Mismatch
  <2>4. QED BY <2>2, <2>3
<1>3. CASE f.rule \in Aggregates
  <2>1. \E limit : f \in Short(f.rule, db, t, limit)
    BY <1>1, <1>3 DEF Found, Aggregates
  <2>2. \A rule, s, limit : LET g == DemandFinding(rule, db, t, s, limit)
                            IN  g.key = IssueKey(g.about)
    BY DEF DemandFinding, Finding
  <2>3. \E rule, s, limit : f = DemandFinding(rule, db, t, s, limit)
    BY <2>1 DEF Short
  <2>4. QED BY <2>2, <2>3
<1>4. QED BY <1>2, <1>3

\* two snapshots whose product and warehouse ids join to one issue key, like
\* product A in warehouse B:C and product A:B in warehouse C
JoinedAlike(s, r) ==
  s # r /\ IssueKey(<<s.product, s.warehouse>>) = IssueKey(<<r.product, r.warehouse>>)

\* one run says the same of what should be two issues
ReportsTwice(rule) ==
  \E m, n \in DOMAIN found :
    /\ m # n /\ found[m].rule = rule /\ found[n].rule = rule
    /\ found[m].key = found[n].key

\* The issue key does not tell such snapshots apart (rules.py:196 and 333): a
\* run that finds both short of stock, or both off their movements, reports one
\* issue key twice, and what service.py:166-175 persists is one case for both.
THEOREM JoinedIssuesCollide ==
  Spec => [](\A s, r \in Observed(rows, as_of) : JoinedAlike(s, r) =>
               /\ Off(rows, s) /\ Off(rows, r) => ReportsTwice("INVENTORY_MISMATCH")
               /\ \A rule \in Aggregates :
                    LET limit == IF rule = "STOCKOUT_RISK" THEN SafetyStock ELSE 0
                    IN  Lacking(rows, as_of, s, limit) /\ Lacking(rows, as_of, r, limit)
                          => ReportsTwice(rule))
<1> DEFINE limit(rule) == IF rule = "STOCKOUT_RISK" THEN SafetyStock ELSE 0
           told(rule, s) == /\ rule \in Aggregates \cup {"INVENTORY_MISMATCH"}
                            /\ \E f \in AllFound(rows, as_of) :
                                 f.rule = rule /\ f.about = <<s.product, s.warehouse>>
           C == \A s, r \in Observed(rows, as_of) : JoinedAlike(s, r) =>
                  /\ Off(rows, s) /\ Off(rows, r) => ReportsTwice("INVENTORY_MISMATCH")
                  /\ \A rule \in Aggregates :
                       Lacking(rows, as_of, s, limit(rule)) /\ Lacking(rows, as_of, r, limit(rule))
                         => ReportsTwice(rule)
<1>1. ASSUME DetInv PROVE C
  <2>1. IsVersion(rows) /\ found = DetectAll(rows, as_of)
    BY <1>1 DEF DetInv
  <2>2. Range(found) = AllFound(rows, as_of)
    BY <2>1, RunInOrder
  <2>3. ASSUME NEW s \in Observed(rows, as_of), NEW r \in Observed(rows, as_of),
               JoinedAlike(s, r), NEW rule, told(rule, s), told(rule, r)
        PROVE  ReportsTwice(rule)
    <3>1. PICK f \in AllFound(rows, as_of) : f.rule = rule /\ f.about = <<s.product, s.warehouse>>
      BY <2>3
    <3>2. PICK g \in AllFound(rows, as_of) : g.rule = rule /\ g.about = <<r.product, r.warehouse>>
      BY <2>3
    <3>3. PICK m \in DOMAIN found : found[m] = f
      BY <2>2 DEF Range
    <3>4. PICK n \in DOMAIN found : found[n] = g
      BY <2>2 DEF Range
    <3>5. f.about # g.about
      <4>1. s \in rows.stock /\ r \in rows.stock
        BY DEF Observed
      <4>2. ~(s.product = r.product /\ s.warehouse = r.warehouse)
        BY <2>1, <2>3, <4>1 DEF IsVersion, JoinedAlike
      <4>3. QED BY <3>1, <3>2, <4>2
    <3>6. f.key = IssueKey(f.about) /\ g.key = IssueKey(g.about)
      BY <2>1, StockKeys, <2>3, <3>1, <3>2
    <3>7. f.key = g.key
      BY <2>3, <3>1, <3>2, <3>6 DEF JoinedAlike
    <3>8. QED BY <3>1, <3>2, <3>3, <3>4, <3>5, <3>7 DEF ReportsTwice
  <2>4. ASSUME NEW s \in Observed(rows, as_of)
        PROVE  /\ Off(rows, s) => told("INVENTORY_MISMATCH", s)
               /\ \A rule \in Aggregates :
                    Lacking(rows, as_of, s, limit(rule)) => told(rule, s)
    <3> DEFINE about == <<s.product, s.warehouse>>
               tells(rule) == \E f \in AllFound(rows, as_of) : f.rule = rule /\ f.about = about
    <3>4. tells("INVENTORY_MISMATCH")
            <=> \E x \in Observed(rows, as_of) : Off(rows, x) /\ about = <<x.product, x.warehouse>>
      <4> HIDE DEF about
      <4>1. QED BY <2>1, StockFindings
    <3>5. \A rule \in Aggregates :
            tells(rule) <=> \E x \in Observed(rows, as_of) :
                              Lacking(rows, as_of, x, limit(rule)) /\ about = <<x.product, x.warehouse>>
      <4> HIDE DEF about
      <4>1. QED BY <2>1, StockFindings
    <3>1. Off(rows, s) => told("INVENTORY_MISMATCH", s)
      <4> HIDE DEF tells
      <4>1. Off(rows, s) => tells("INVENTORY_MISMATCH")
        BY <3>4
      <4>2. QED BY <4>1 DEF tells
    <3>2. ASSUME NEW rule \in Aggregates, Lacking(rows, as_of, s, limit(rule)) PROVE told(rule, s)
      <4> HIDE DEF tells, limit
      <4>1. tells(rule)
        BY <3>2, <3>5
      <4>2. QED BY <4>1 DEF tells
    <3>3. QED BY <3>1, <3>2
  <2> HIDE DEF told, limit
  <2>5. QED BY <2>3, <2>4
<1> HIDE DEF C
<1>2. DetInv => C
  BY <1>1
<1>3. Spec => []C
  BY <1>2, FoundInVersion, PTL
<1>4. QED BY <1>3 DEF C

(* What is said of the stock after a movement was said before.             *)
LEMMA StockAfter ==
  ASSUME IsVersion(rows), as_of \in Nat, NEW s \in Observed(rows, as_of),
         NEW change \in Int, s.on_hand + change \in Nat,
         NEW m, NEW db, Flowed(db, m, s, change),
         Difference(db, CountOf(s, change)) = Difference(rows, s),
         \A x \in rows.stock \ {s} : Difference(db, x) = Difference(rows, x),
         \A limit \in Nat : Lacking(db, as_of, CountOf(s, change), limit)
                              => Lacking(rows, as_of, s, limit),
         \A x \in rows.stock \ {s} : Demand(db, as_of, x) = Demand(rows, as_of, x)
  PROVE  /\ \A about :
              (\E x \in Observed(db, as_of) : Off(db, x) /\ about = <<x.product, x.warehouse>>)
                <=> \E x \in Observed(rows, as_of) :
                      Off(rows, x) /\ about = <<x.product, x.warehouse>>
         /\ \A limit \in Nat : \A about :
              (\E x \in Observed(db, as_of) :
                 Lacking(db, as_of, x, limit) /\ about = <<x.product, x.warehouse>>)
                => \E x \in Observed(rows, as_of) :
                     Lacking(rows, as_of, x, limit) /\ about = <<x.product, x.warehouse>>
<1> DEFINE r == CountOf(s, change)
           kept == Observed(rows, as_of) \ {s}
<1>1. s \in rows.stock
  BY DEF Observed
<1>2. r.product = s.product /\ r.warehouse = s.warehouse /\ r.observed_at = as_of
  BY <1>1, CountAfter DEF CountOf
<1>3. db.stock = (rows.stock \ {s}) \cup {r}
  BY DEF Flowed, CountOf
<1> HIDE DEF r
<1>4. Observed(db, as_of) = kept \cup {r} /\ Observed(rows, as_of) = kept \cup {s}
  BY <1>2, <1>3 DEF Observed
<1>5. kept \subseteq rows.stock \ {s}
  BY DEF Observed
<1>6. /\ Off(db, r) <=> Off(rows, s)
      /\ \A x \in kept : Off(db, x) <=> Off(rows, x)
  BY <1>5 DEF Off, r
<1>7. /\ \A limit \in Nat : Lacking(db, as_of, r, limit) => Lacking(rows, as_of, s, limit)
      /\ \A x \in kept : \A limit \in Nat :
           Lacking(db, as_of, x, limit) => Lacking(rows, as_of, x, limit)
  BY <1>5 DEF Lacking, Buffer, r
<1> HIDE DEF kept
<1>8. <<r.product, r.warehouse>> = <<s.product, s.warehouse>>
  BY <1>2
<1>9. ASSUME NEW about
      PROVE  (\E x \in Observed(db, as_of) : Off(db, x) /\ about = <<x.product, x.warehouse>>)
               <=> \E x \in Observed(rows, as_of) :
                     Off(rows, x) /\ about = <<x.product, x.warehouse>>
  BY <1>4, <1>6, <1>8
<1>10. ASSUME NEW limit \in Nat, NEW about,
              NEW x \in Observed(db, as_of), Lacking(db, as_of, x, limit),
              about = <<x.product, x.warehouse>>
       PROVE  \E z \in Observed(rows, as_of) :
                Lacking(rows, as_of, z, limit) /\ about = <<z.product, z.warehouse>>
  <2>1. CASE x = r
    BY <1>4, <1>7, <1>8, <1>10, <2>1
  <2>2. CASE x \in kept
    BY <1>4, <1>7, <1>10, <2>2
  <2>3. QED BY <1>4, <2>1, <2>2
<1>11. QED BY <1>9, <1>10

\* what was found is what the rules find
AlarmsIn(db, t, rules) ==
  {<<f.rule, f.about>> : f \in {g \in AllFound(db, t) : g.rule \in rules}}

\* nothing is said of the stock in db that was not said in the rows
NoNewAlarm(db) ==
  /\ AlarmsIn(db, as_of, {"INVENTORY_MISMATCH"}) = AlarmsIn(rows, as_of, {"INVENTORY_MISMATCH"})
  /\ AlarmsIn(db, as_of, Aggregates) \subseteq AlarmsIn(rows, as_of, Aggregates)

LEMMA AlarmsAfter ==
  ASSUME IsVersion(rows), NEW db, IsVersion(db),
         \A about :
           (\E x \in Observed(db, as_of) : Off(db, x) /\ about = <<x.product, x.warehouse>>)
             <=> \E x \in Observed(rows, as_of) :
                   Off(rows, x) /\ about = <<x.product, x.warehouse>>,
         \A limit \in Nat : \A about :
           (\E x \in Observed(db, as_of) :
              Lacking(db, as_of, x, limit) /\ about = <<x.product, x.warehouse>>)
             => \E x \in Observed(rows, as_of) :
                  Lacking(rows, as_of, x, limit) /\ about = <<x.product, x.warehouse>>
  PROVE  NoNewAlarm(db)
<1> DEFINE reported(d, rule, about) == \E f \in AllFound(d, as_of) : f.rule = rule /\ f.about = about
           limit(rule) == IF rule = "STOCKOUT_RISK" THEN SafetyStock ELSE 0
<1>1. \A d, rules, a : a \in AlarmsIn(d, as_of, rules)
                         <=> \E rule \in rules : \E about : a = <<rule, about>> /\ reported(d, rule, about)
  BY Zenon DEF AlarmsIn
<1>2. \A rule : limit(rule) \in Nat
  BY SettingsAssumption
<1>3. \A about : reported(db, "INVENTORY_MISMATCH", about) <=> reported(rows, "INVENTORY_MISMATCH", about)
  <2> TAKE about
  <2>1. reported(db, "INVENTORY_MISMATCH", about)
          <=> \E x \in Observed(db, as_of) : Off(db, x) /\ about = <<x.product, x.warehouse>>
    BY StockFindings
  <2>2. reported(rows, "INVENTORY_MISMATCH", about)
          <=> \E x \in Observed(rows, as_of) : Off(rows, x) /\ about = <<x.product, x.warehouse>>
    BY StockFindings
  <2> HIDE DEF reported
  <2>3. QED BY <2>1, <2>2
<1>4. ASSUME NEW rule \in Aggregates, NEW about, reported(db, rule, about) PROVE reported(rows, rule, about)
  <2>1. \E x \in Observed(db, as_of) :
          Lacking(db, as_of, x, limit(rule)) /\ about = <<x.product, x.warehouse>>
    BY <1>4, StockFindings
  <2>2. \E x \in Observed(rows, as_of) :
          Lacking(rows, as_of, x, limit(rule)) /\ about = <<x.product, x.warehouse>>
    BY <1>2, <2>1
  <2>3. QED BY <2>2, StockFindings
<1> HIDE DEF reported
<1>5. \A a : a \in AlarmsIn(db, as_of, {"INVENTORY_MISMATCH"})
               <=> a \in AlarmsIn(rows, as_of, {"INVENTORY_MISMATCH"})
  BY <1>1, <1>3
<1>6. \A a : a \in AlarmsIn(db, as_of, Aggregates) => a \in AlarmsIn(rows, as_of, Aggregates)
  BY <1>1, <1>4
<1>7. AlarmsIn(db, as_of, {"INVENTORY_MISMATCH"}) = AlarmsIn(rows, as_of, {"INVENTORY_MISMATCH"})
  BY <1>5, Zenon DEF AlarmsIn
<1>8. QED BY <1>6, <1>7 DEF NoNewAlarm

(* A shipment takes as much from the stock as from the demand for it.      *)
LEMMA ShipRaisesNothing ==
  ASSUME IsVersion(rows), as_of \in Nat, NEW i \in Wanted(rows, as_of),
         NEW s \in Observed(rows, as_of), i \in Demand(rows, as_of, s), Counted(s),
         s.reserved < s.on_hand
  PROVE  NoNewAlarm(Shipped(i, s))
<1> DEFINE db == Shipped(i, s)
           m == Movement("SHIPMENT", s)
           c == -1
           r == CountOf(s, c)
<1>1. s \in rows.stock /\ s \in Row.stock
  BY VersionTables DEF Observed
<1>2. c \in Int /\ s.on_hand + c \in Nat
  BY <1>1 DEF Row
<1>3. Flowed(db, m, s, c) /\ db.items = (rows.items \ {i}) \cup {[i EXCEPT !.fulfilled = @ + 1]}
  BY ShippedIsVersion
<1>4. IsVersion(db) /\ Delivered(db, i)
  BY <1>3 DEF Flowed, Delivered
<1>5. /\ m.kind \in InventoryMovementType /\ m = Movement(m.kind, s) /\ Signed(m) = c
  <2> DEFINE k == "SHIPMENT"
  <2>1. k \in InventoryMovementType
    BY DEF InventoryMovementType
  <2> HIDE DEF k
  <2>2. Movement(k, s).kind = k /\ Movement(k, s).quantity = 1
    BY <1>1, <2>1, MovementIsNew
  <2>3. m.kind = "SHIPMENT" /\ m.quantity = 1
    BY <2>2 DEF k
  <2>4. QED BY <2>1, <2>3 DEF k, Signed
<1> HIDE DEF db, m, c
<1>6. /\ Difference(db, r) = Difference(rows, s)
      /\ \A x \in rows.stock \ {s} : Difference(db, x) = Difference(rows, x)
  BY <1>2, <1>3, <1>5, SameDifference
<1>7. r.product = s.product /\ r.warehouse = s.warehouse /\ r.on_hand = s.on_hand - 1
      /\ r.reserved = s.reserved
  BY <1>1, <1>2, CountAfter DEF CountOf, c
<1>8. /\ Units(Demand(db, as_of, r)) = Units(Demand(rows, as_of, s)) - 1
      /\ Units(Demand(rows, as_of, s)) \in Int
      /\ \A x \in rows.stock \ {s} : Demand(db, as_of, x) = Demand(rows, as_of, x)
  BY <1>1, <1>4, <1>7, DemandAfterShip
<1>9. ASSUME NEW limit \in Nat, Lacking(db, as_of, r, limit) PROVE Lacking(rows, as_of, s, limit)
  <2>1. Buffer(db, as_of, r) = Buffer(rows, as_of, s)
    BY <1>1, <1>7, <1>8 DEF Buffer, Available, Row
  <2>2. QED BY <1>9, <2>1 DEF Lacking
<1> HIDE DEF r
<1>10. NoNewAlarm(db)
  BY <1>2, <1>3, <1>4, <1>6, <1>8, <1>9, StockAfter, AlarmsAfter DEF r
<1>11. QED BY <1>10 DEF db

(* What arrives is one more on hand for the same demand.                   *)
LEMMA ReceiveRaisesNothing ==
  ASSUME IsVersion(rows), as_of \in Nat, NEW l \in rows.lines,
         NEW s \in Observed(rows, as_of), Counted(s)
  PROVE  NoNewAlarm(Received(l, s))
<1> DEFINE db == Received(l, s)
           m == Movement("RECEIPT", s)
           c == 1
           r == CountOf(s, c)
<1>1. s \in rows.stock /\ s \in Row.stock
  BY VersionTables DEF Observed
<1>2. c \in Int /\ s.on_hand + c \in Nat
  BY <1>1 DEF Row
<1>3. Flowed(db, m, s, c) /\ db.items = rows.items
  BY ReceivedIsVersion
<1>4. IsVersion(db) /\ db.orders = rows.orders
  BY <1>3 DEF Flowed
<1>5. /\ m.kind \in InventoryMovementType /\ m = Movement(m.kind, s) /\ Signed(m) = c
  <2> DEFINE k == "RECEIPT"
  <2>1. k \in InventoryMovementType
    BY DEF InventoryMovementType
  <2> HIDE DEF k
  <2>2. Movement(k, s).kind = k /\ Movement(k, s).quantity = 1
    BY <1>1, <2>1, MovementIsNew
  <2>3. m.kind = "RECEIPT" /\ m.quantity = 1
    BY <2>2 DEF k
  <2>4. QED BY <2>1, <2>3 DEF k, Signed
<1> HIDE DEF db, m, c
<1>6. /\ Difference(db, r) = Difference(rows, s)
      /\ \A x \in rows.stock \ {s} : Difference(db, x) = Difference(rows, x)
  BY <1>2, <1>3, <1>5, SameDifference
<1>7. r.product = s.product /\ r.warehouse = s.warehouse /\ r.on_hand = s.on_hand + 1
      /\ r.reserved = s.reserved
  BY <1>1, <1>2, CountAfter DEF CountOf, c
<1>8. /\ Demand(db, as_of, r) = Demand(rows, as_of, s)
      /\ \A x : Demand(db, as_of, x) = Demand(rows, as_of, x)
  <2>1. Wanted(db, as_of) = Wanted(rows, as_of)
    BY <1>3, <1>4 DEF Wanted
  <2>2. QED BY <1>4, <1>7, <2>1 DEF Demand
<1>9. Units(Demand(rows, as_of, s)) \in Int
  <2>1. Demand(rows, as_of, s) \in SUBSET rows.items
    BY DEF Demand, Wanted
  <2>2. QED BY <2>1, ItemNumbers, UnitsSplit
<1>10. ASSUME NEW limit \in Nat, Lacking(db, as_of, r, limit) PROVE Lacking(rows, as_of, s, limit)
  <2>1. Buffer(db, as_of, r) = Buffer(rows, as_of, s) + 1 /\ Buffer(rows, as_of, s) \in Int
    BY <1>1, <1>7, <1>8, <1>9 DEF Buffer, Available, Row
  <2>2. Demand(rows, as_of, s) # {} /\ Buffer(db, as_of, r) < limit
    BY <1>8, <1>10 DEF Lacking
  <2>3. QED BY <2>1, <2>2 DEF Lacking
<1> HIDE DEF r
<1>11. NoNewAlarm(db)
  BY <1>2, <1>3, <1>4, <1>6, <1>8, <1>10, StockAfter, AlarmsAfter DEF r
<1>12. QED BY <1>11 DEF db

\* Shipping what was ordered or receiving what was purchased raises no alarm
\* about the stock, for every version, settings and instant (rules.py:131-151,
\* 187-195 and 300-330).
THEOREM FlowIsQuiet ==
  Spec => FlowRaisesNoAlarm
<1> DEFINE A == rows' # rows =>
                  /\ Alarms({"INVENTORY_MISMATCH"})' = Alarms({"INVENTORY_MISMATCH"})
                  /\ Alarms(Aggregates)' \subseteq Alarms(Aggregates)
<1>1. ASSUME DetInv, DetInv', Next PROVE A
  <2> SUFFICES ASSUME rows' # rows PROVE A
    OBVIOUS
  <2>1. IsVersion(rows) /\ as_of \in Nat
    BY <1>1 DEF DetInv
  <2>2. as_of' = as_of /\ NoNewAlarm(rows')
    <3>1. CASE Later
      BY <3>1 DEF Later, RunOver
    <3>2. CASE Ship
      <4>1. PICK i \in Wanted(rows, as_of), s \in Observed(rows, as_of) :
              /\ i \in Demand(rows, as_of, s) /\ Counted(s) /\ s.reserved < s.on_hand
              /\ RunOver(Shipped(i, s), as_of)
        BY <3>2 DEF Ship, Shipped
      <4>2. NoNewAlarm(Shipped(i, s))
        BY <2>1, <4>1, ShipRaisesNothing
      <4>3. rows' = Shipped(i, s) /\ as_of' = as_of
        BY <4>1 DEF RunOver
      <4>4. QED BY <4>2, <4>3
    <3>3. CASE Receive
      <4>1. PICK l \in rows.lines, s \in Observed(rows, as_of) :
              Counted(s) /\ RunOver(Received(l, s), as_of)
        BY <3>3 DEF Receive, Received
      <4>2. NoNewAlarm(Received(l, s))
        BY <2>1, <4>1, ReceiveRaisesNothing
      <4>3. rows' = Received(l, s) /\ as_of' = as_of
        BY <4>1 DEF RunOver
      <4>4. QED BY <4>2, <4>3
    <3>4. QED BY <1>1, <3>1, <3>2, <3>3 DEF Next
  <2>3. Reported = AllFound(rows, as_of)
    BY <1>1, ReportedIsAll
  <2>4. PICK db : db = rows'
    OBVIOUS
  <2>5. IsVersion(db) /\ found' = DetectAll(db, as_of)
    BY <1>1, <2>2, <2>4 DEF DetInv
  <2>6. Reported' = AllFound(db, as_of)
    BY <2>5, RunInOrder DEF Reported
  <2>7. \A rules : /\ Alarms(rules) = AlarmsIn(rows, as_of, rules)
                   /\ {<<f.rule, f.about>> : f \in {g \in Reported' : g.rule \in rules}}
                        = AlarmsIn(db, as_of, rules)
    BY <2>3, <2>6, Zenon DEF Alarms, AlarmsIn
  <2>8. /\ Alarms({"INVENTORY_MISMATCH"})' = AlarmsIn(db, as_of, {"INVENTORY_MISMATCH"})
        /\ Alarms(Aggregates)' = AlarmsIn(db, as_of, Aggregates)
    BY <2>6, Zenon DEF Alarms, AlarmsIn, Aggregates
  <2>9. QED BY <2>2, <2>4, <2>7, <2>8 DEF NoNewAlarm
<1>2. DetInv /\ DetInv' /\ [Next]_vars => [A]_vars
  BY <1>1
<1> HIDE DEF A
<1>3. Spec => [][A]_vars
  BY <1>2, FoundInVersion, PTL DEF Spec
<1>4. QED BY <1>3 DEF FlowRaisesNoAlarm, A
=============================================================================
