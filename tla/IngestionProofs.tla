--------------------------- MODULE IngestionProofs ---------------------------
(***************************************************************************)
(* What ingest guarantees for bundles of any size: the loops of validation *)
(* accept exactly the bundles a definition without loops accepts, and a    *)
(* version holds its bundle as a whole.                                    *)
(***************************************************************************)
EXTENDS Ingestion, FiniteSetTheorems, SequenceTheorems, WellFoundedInduction, TLAPS

-----------------------------------------------------------------------------
(* Induction over the naturals, for sets. *)

Less == {x \in Nat \X Nat : x[1] < x[2]}

(* A set of naturals with 0 and every successor has them all: the least    *)
(* number it lacks would have a predecessor in it.                         *)
LEMMA SetInduction ==
  ASSUME NEW S, 0 \in S, \A n \in Nat : n \in S => n + 1 \in S
  PROVE  \A n \in Nat : n \in S
<1> SUFFICES ASSUME Nat \ S # {} PROVE FALSE
  OBVIOUS
<1> DEFINE T == Nat \ S
<1>1. IsWellFoundedOn(Less, Nat)
  BY NatLessThanWellFounded, Zenon DEF OpToRel, Less
<1>2. PICK x \in T : \A y \in T : ~(<<y, x>> \in Less)
  <2>1. T \subseteq Nat /\ T # {}
    OBVIOUS
  <2> HIDE DEF T
  <2>2. QED BY <1>1, <2>1, WFMin, Zenon
<1>3. x \in Nat /\ x # 0 /\ x - 1 \in T /\ <<x - 1, x>> \in Less
  BY <1>2 DEF Less
<1>4. QED BY <1>2, <1>3

-----------------------------------------------------------------------------
(* validate_rows *)

Turn(a, rows, known, g, n) ==
  IF n = 0 THEN Nothing ELSE Accept(a, n + 1, rows[n], known, g[n - 1])

\* g is the loop's result after each of the first m rows
Turns(a, rows, known, g, m) == g = [n \in 0..m |-> Turn(a, rows, known, g, n)]

(* The loop has a result after any number of rows. *)
LEMMA LoopEnds ==
  ASSUME NEW a, NEW rows, NEW known
  PROVE  \A m \in Nat : \E g : Turns(a, rows, known, g, m)
<1> DEFINE S == {m \in Nat : \E g : Turns(a, rows, known, g, m)}
<1>1. 0 \in S
  <2> DEFINE g == [n \in 0..0 |-> Nothing]
  <2>1. Turns(a, rows, known, g, 0)
    BY DEF Turns, Turn
  <2>2. QED BY <2>1
<1>2. ASSUME NEW m \in Nat, m \in S PROVE m + 1 \in S
  <2>1. PICK g : Turns(a, rows, known, g, m)
    BY <1>2
  <2> DEFINE h == [n \in 0..m + 1 |-> IF n = m + 1 THEN Accept(a, n + 1, rows[n], known, g[n - 1]) ELSE g[n]]
  <2>2. \A n \in 0..m : g[n] = Turn(a, rows, known, g, n)
    BY <2>1 DEF Turns
  <2>3. \A n \in 0..m + 1 : h[n] = Turn(a, rows, known, h, n)
    BY <2>2 DEF Turn
  <2>4. Turns(a, rows, known, h, m + 1)
    BY <2>3 DEF Turns
  <2>5. QED BY <2>4
<1>3. \A m \in Nat : m \in S
  <2> HIDE DEF S
  <2>1. QED BY <1>1, <1>2, SetInduction
<1>4. QED BY <1>3

(* validate_rows is the last result of the loop. *)
LEMMA LoopOfRows ==
  ASSUME NEW a, NEW rows, NEW known, Len(rows) \in Nat
  PROVE  \E g : Turns(a, rows, known, g, Len(rows)) /\ ValidateRows(a, rows, known) = g[Len(rows)]
<1> DEFINE f == CHOOSE g : Turns(a, rows, known, g, Len(rows))
<1>1. Turns(a, rows, known, f, Len(rows))
  BY LoopEnds
<1>2. ValidateRows(a, rows, known) = f[Len(rows)]
  BY DEF ValidateRows, Turns, Turn
<1>3. QED BY <1>1, <1>2

\* the first n rows, as they are kept
Kept(rows, n) == {Canonical(rows[k]) : k \in 1..n}

\* the first n rows raise nothing
Clear(a, rows, known, n) ==
  /\ \A k \in 1..n : Errors(a, k + 1, rows[k], known) = {}
  /\ \A k, m \in 1..n : k # m /\ SameKey(a, rows[k], rows[m]) =>
       a # "inventory" /\ Canonical(rows[k]) = Canonical(rows[m])

IsResult(r) == r = [rows |-> r.rows, rejections |-> r.rejections, same |-> r.same]

LoopInv(a, rows, known, r, n) ==
  /\ IsResult(r)
  /\ r.rows \in Seq(Kept(rows, n))
  /\ r.rejections = {} <=> Clear(a, rows, known, n)
  /\ r.rejections = {} => Range(r.rows) = Kept(rows, n)

(* Canonical text changes neither the source id nor the references. *)
LEMMA CanonicalKey ==
  ASSUME NEW a, NEW row, IsRow(a, row), NEW b, NEW other, IsRow(b, other), NEW c
  PROVE  /\ Canonical(row).id = row.id /\ Canonical(row).refs = row.refs
         /\ Canonical(row).name = row.name /\ Canonical(row).at = row.at
         /\ SameKey(c, Canonical(row), Canonical(other)) <=> SameKey(c, row, other)
<1> DEFINE kept(r) == Restrict(r.odd, {f \in DOMAIN r.odd : r.odd[f] # "padded"})
<1>1. \A r : Canonical(r) = [r EXCEPT !.odd = kept(r)]
  BY DEF Canonical
<1> HIDE DEF kept
<1>2. /\ Canonical(row).id = row.id /\ Canonical(row).refs = row.refs
      /\ Canonical(row).name = row.name /\ Canonical(row).at = row.at
  BY <1>1 DEF IsRow
<1>3. Canonical(other).id = other.id /\ Canonical(other).refs = other.refs
  BY <1>1 DEF IsRow
<1>4. QED BY <1>2, <1>3 DEF SameKey

(* A sequence over a set is one over a larger set. *)
LEMMA SeqGrows ==
  ASSUME NEW S, NEW T, S \subseteq T, NEW q \in Seq(S)
  PROVE  q \in Seq(T)
<1>1. PICK n \in Nat : q \in [1..n -> S]
  BY SeqDef
<1>2. q \in [1..n -> T]
  BY <1>1
<1>3. QED BY <1>2, SeqDef, Zenon

\* what one turn of the loop does to result r
TurnTaken(a, line, row, known, r, U) ==
  LET s == Accept(a, line, row, known, r)
      new == Canonical(row)
      twins == {old \in Range(r.rows) : SameKey(a, old, new)}
  IN  /\ IsResult(s)
      /\ s.rows \in Seq(U \cup {new})
      /\ s.rejections = {} <=> /\ r.rejections = {} /\ Errors(a, line, row, known) = {}
                               /\ twins = {} \/ (a # "inventory" /\ new \in twins)
      /\ s.rejections = {} => Range(s.rows) = Range(r.rows) \cup {new}

(* One turn of the loop. *)
LEMMA OneTurn ==
  ASSUME NEW a, NEW line, NEW row, NEW known, NEW r, NEW U, IsResult(r), r.rows \in Seq(U)
  PROVE  TurnTaken(a, line, row, known, r, U)
<1> DEFINE s == Accept(a, line, row, known, r)
           new == Canonical(row)
           twins == {old \in Range(r.rows) : SameKey(a, old, new)}
           errors == Errors(a, line, row, known)
           code == IF a = "inventory" THEN "INVENTORY_MULTIPLE_SNAPSHOTS" ELSE "DUPLICATE_CONFLICT"
           last == {<<line, code, "">>}
<1>1. /\ errors # {} => s = [r EXCEPT !.rejections = @ \cup errors]
      /\ errors = {} /\ twins = {} => s = [r EXCEPT !.rows = Append(@, new)]
      /\ errors = {} /\ twins # {} /\ a # "inventory" /\ new \in twins => s = [r EXCEPT !.same = @ + 1]
      /\ errors = {} /\ twins # {} /\ ~(a # "inventory" /\ new \in twins) =>
           s = [r EXCEPT !.rejections = @ \cup last]
  <2> HIDE DEF new, errors
  <2>1. QED BY Zenon DEF Accept, new, errors
<1>2. last # {}
  OBVIOUS
<1> HIDE DEF s, errors, last, new
<1>3. /\ r.rows \in Seq(U \cup {new}) /\ Append(r.rows, new) \in Seq(U \cup {new})
      /\ Range(Append(r.rows, new)) = Range(r.rows) \cup {new}
  <2>1. U \subseteq U \cup {new} /\ new \in U \cup {new}
    OBVIOUS
  <2>2. r.rows \in Seq(U \cup {new})
    BY <2>1, SeqGrows
  <2>3. Len(r.rows) \in Nat /\ DOMAIN r.rows = 1..Len(r.rows)
    BY LenProperties
  <2>4. /\ Append(r.rows, new) \in Seq(U \cup {new}) /\ Len(Append(r.rows, new)) = Len(r.rows) + 1
        /\ \A i \in 1..Len(r.rows) : Append(r.rows, new)[i] = r.rows[i]
        /\ Append(r.rows, new)[Len(r.rows) + 1] = new
        /\ DOMAIN Append(r.rows, new) = 1..Len(r.rows) + 1
    BY <2>1, <2>2, AppendProperties, LenProperties
  <2>5. Range(Append(r.rows, new)) = Range(r.rows) \cup {new}
    <3> DEFINE q == Append(r.rows, new)
    <3> HIDE DEF q
    <3>1. QED BY <2>3, <2>4 DEF Range, q
  <2>6. QED BY <2>2, <2>4, <2>5
<1>4. CASE errors # {}
  <2>1. /\ s.rows = r.rows /\ s.rejections = r.rejections \cup errors /\ IsResult(s)
    BY <1>1, <1>4 DEF IsResult
  <2>2. QED BY <1>3, <1>4, <2>1 DEF TurnTaken, s, errors, new
<1>5. CASE errors = {} /\ twins = {}
  <2>1. /\ s.rows = Append(r.rows, new) /\ s.rejections = r.rejections /\ IsResult(s)
    BY <1>1, <1>5 DEF IsResult
  <2>2. QED BY <1>3, <1>5, <2>1 DEF TurnTaken, s, errors, new
<1>6. CASE errors = {} /\ twins # {} /\ a # "inventory" /\ new \in twins
  <2>1. /\ s.rows = r.rows /\ s.rejections = r.rejections /\ IsResult(s)
    BY <1>1, <1>6 DEF IsResult
  <2>2. QED BY <1>3, <1>6, <2>1 DEF TurnTaken, s, errors, new
<1>7. CASE errors = {} /\ twins # {} /\ ~(a # "inventory" /\ new \in twins)
  <2>1. /\ s.rows = r.rows /\ s.rejections = r.rejections \cup last /\ IsResult(s)
    BY <1>1, <1>7 DEF IsResult
  <2>2. QED BY <1>2, <1>3, <1>7, <2>1 DEF TurnTaken, s, errors, new
<1>8. QED BY <1>4, <1>5, <1>6, <1>7

(* The loop accepts every row if none raises anything, and keeps them all: *)
(* validate_rows (validation.py:109-327) for files of any length.          *)
LEMMA LoopIsRight ==
  ASSUME NEW a, NEW rows, IsFile(a, rows), NEW known
  PROVE  LoopInv(a, rows, known, ValidateRows(a, rows, known), Len(rows))
<1> DEFINE N == Len(rows)
<1>1. PICK g : Turns(a, rows, known, g, N) /\ ValidateRows(a, rows, known) = g[N]
  BY LoopOfRows DEF IsFile
<1> DEFINE S == {n \in Nat : n \in 0..N => LoopInv(a, rows, known, g[n], n)}
<1>2. /\ N \in Nat
      /\ g[0] = Nothing
      /\ \A n \in 0..N : n # 0 => g[n] = Accept(a, n + 1, rows[n], known, g[n - 1])
  BY <1>1 DEF Turns, Turn, IsFile
<1>3. 0 \in S
  <2>1. /\ IsResult(Nothing) /\ Nothing.rows = <<>> /\ Nothing.rejections = {}
    BY DEF Nothing, IsResult
  <2>2. Kept(rows, 0) = {} /\ Clear(a, rows, known, 0) /\ <<>> \in Seq(Kept(rows, 0)) /\ Range(<<>>) = {}
    BY DEF Kept, Clear, Range
  <2>3. QED BY <1>2, <2>1, <2>2 DEF LoopInv
<1>4. ASSUME NEW n \in Nat, n \in S PROVE n + 1 \in S
  <2> SUFFICES ASSUME n + 1 \in 0..N PROVE LoopInv(a, rows, known, g[n + 1], n + 1)
    OBVIOUS
  <2> DEFINE r == g[n]
             row == rows[n + 1]
             s == Accept(a, n + 1 + 1, row, known, r)
             new == Canonical(row)
             twins == {old \in Range(r.rows) : SameKey(a, old, new)}
             U == Kept(rows, n)
             fine == Errors(a, n + 1 + 1, row, known) = {}
  <2>1. /\ g[n + 1] = s
        /\ LoopInv(a, rows, known, r, n)
    <3>1. n + 1 # 0 /\ n \in 0..N /\ n + 1 - 1 = n
      BY <1>2
    <3>2. g[n + 1] = s
      BY <1>2, <3>1
    <3>3. QED BY <1>4, <3>1, <3>2
  <2>2. /\ IsResult(s)
        /\ s.rows \in Seq(U \cup {new})
        /\ s.rejections = {} <=> r.rejections = {} /\ fine /\ (twins = {} \/ (a # "inventory" /\ new \in twins))
        /\ s.rejections = {} => Range(s.rows) = Range(r.rows) \cup {new}
    <3>1. IsResult(r) /\ r.rows \in Seq(U)
      BY <2>1 DEF LoopInv
    <3> HIDE DEF r, row, U
    <3>2. TurnTaken(a, n + 1 + 1, row, known, r, U)
      BY <3>1, OneTurn
    <3>3. QED BY <3>2 DEF TurnTaken
  <2>3. Kept(rows, n + 1) = U \cup {new}
    BY <2>1 DEF Kept
  <2>4. \A k, m \in 1..n + 1 : SameKey(a, Canonical(rows[k]), Canonical(rows[m])) <=> SameKey(a, rows[k], rows[m])
    BY CanonicalKey, <1>2 DEF IsFile
  <2>5. ASSUME r.rejections = {}
        PROVE  /\ fine /\ (twins = {} \/ (a # "inventory" /\ new \in twins)) <=> Clear(a, rows, known, n + 1)
    <3>1. Clear(a, rows, known, n) /\ Range(r.rows) = U
      BY <2>1, <2>5 DEF LoopInv
    <3>2. ASSUME fine, twins = {} \/ (a # "inventory" /\ new \in twins)
          PROVE  Clear(a, rows, known, n + 1)
      <4>1. ASSUME NEW k \in 1..n, SameKey(a, rows[k], row)
            PROVE  a # "inventory" /\ Canonical(rows[k]) = new
        <5>1. Canonical(rows[k]) \in twins
          BY <2>4, <3>1, <4>1 DEF Kept
        <5>2. a # "inventory" /\ new \in U
          BY <3>1, <3>2, <5>1
        <5>3. PICK j \in 1..n : Canonical(rows[j]) = new
          BY <5>2 DEF Kept
        <5>4. SameKey(a, rows[k], rows[j])
          <6>1. SameKey(a, Canonical(rows[k]), Canonical(rows[j]))
            BY <2>4, <4>1, <5>3
          <6>2. QED BY <2>4, <6>1
        <5>5. QED BY <3>1, <5>2, <5>3, <5>4 DEF Clear
      <4>2. ASSUME NEW k \in 1..n, SameKey(a, row, rows[k])
            PROVE  a # "inventory" /\ Canonical(rows[k]) = new
        BY <4>1, <4>2 DEF SameKey
      <4>3. \A k \in 1..n + 1 : Errors(a, k + 1, rows[k], known) = {}
        <5>1. \A k \in 1..n + 1 : k \in 1..n \/ k = n + 1
          OBVIOUS
        <5>2. QED BY <3>1, <3>2, <5>1 DEF Clear
      <4>4. ASSUME NEW k \in 1..n + 1, NEW m \in 1..n + 1, k # m, SameKey(a, rows[k], rows[m])
            PROVE  a # "inventory" /\ Canonical(rows[k]) = Canonical(rows[m])
        <5>1. CASE k = n + 1
          BY <4>2, <4>4, <5>1
        <5>2. CASE m = n + 1
          BY <4>1, <4>4, <5>2
        <5>3. CASE k # n + 1 /\ m # n + 1
          BY <3>1, <4>4, <5>3 DEF Clear
        <5>4. QED BY <5>1, <5>2, <5>3
      <4>5. QED BY <4>3, <4>4 DEF Clear
    <3>3. ASSUME Clear(a, rows, known, n + 1)
          PROVE  fine /\ (twins = {} \/ (a # "inventory" /\ new \in twins))
      <4>1. fine
        BY <3>3 DEF Clear
      <4>2. ASSUME twins # {} PROVE a # "inventory" /\ new \in twins
        <5>1. PICK k \in 1..n : Canonical(rows[k]) \in twins
          BY <3>1, <4>2 DEF Kept
        <5>2. SameKey(a, rows[k], row)
          BY <2>4, <5>1
        <5>3. a # "inventory" /\ Canonical(rows[k]) = new
          <6>1. k # n + 1 /\ k \in 1..n + 1 /\ n + 1 \in 1..n + 1
            OBVIOUS
          <6>2. QED BY <3>3, <5>2, <6>1 DEF Clear
        <5>4. QED BY <5>1, <5>3
      <4>3. QED BY <4>1, <4>2
    <3>4. QED BY <3>2, <3>3
  <2>6. Clear(a, rows, known, n + 1) => Clear(a, rows, known, n)
    <3>1. \A k \in 1..n : k \in 1..n + 1
      OBVIOUS
    <3>2. QED BY <3>1, Zenon DEF Clear
  <2>7. s.rejections = {} <=> Clear(a, rows, known, n + 1)
    <3>1. r.rejections = {} <=> Clear(a, rows, known, n)
      BY <2>1 DEF LoopInv
    <3> HIDE DEF r, s, fine, twins, new
    <3>2. QED BY <2>2, <2>5, <2>6, <3>1
  <2>8. s.rejections = {} => Range(s.rows) = Kept(rows, n + 1)
    <3>1. s.rejections = {} => r.rejections = {}
      BY <2>2
    <3>2. r.rejections = {} => Range(r.rows) = U
      BY <2>1 DEF LoopInv
    <3>3. QED BY <2>2, <2>3, <3>1, <3>2
  <2>9. QED BY <2>1, <2>2, <2>3, <2>7, <2>8 DEF LoopInv
<1>5. \A n \in Nat : n \in S
  <2> HIDE DEF S
  <2>1. QED BY <1>3, <1>4, SetInduction
<1>6. QED BY <1>1, <1>2, <1>5

-----------------------------------------------------------------------------
(* validate_bundle_rows *)

\* the ids known when artifact a is validated
Known(files, g, a) ==
  [rel \in Relations |-> IF rel \in DOMAIN files /\ Before(rel, a) THEN Sources(g[rel]) ELSE {}]

ResultOf(files, g, a) ==
  IF a \notin DOMAIN files THEN Missing ELSE Validated(a, files[a], Known(files, g, a))

\* g is right about the first k artifacts
Right(files, g, k) ==
  /\ g = [a \in Artifacts |-> g[a]]
  /\ \A j \in 1..k : g[Order[j]] = ResultOf(files, g, Order[j])

(* Every artifact is validated once. *)
LEMMA OrderIsComplete ==
  /\ DOMAIN Order = 1..10
  /\ \A j \in 1..10 : Order[j] \in Artifacts
  /\ \A a \in Artifacts : \E j \in 1..10 : Order[j] = a
  /\ \A j, k \in 1..10 : Order[j] = Order[k] => j = k
<1>1. DOMAIN Order = 1..10
  BY DEF Order
<1>2. \A j \in 1..10 : j = 1 \/ j = 2 \/ j = 3 \/ j = 4 \/ j = 5 \/ j = 6 \/ j = 7 \/ j = 8 \/ j = 9 \/ j = 10
  OBVIOUS
<1>3. \A j \in 1..10 : Order[j] \in Artifacts
  BY <1>2 DEF Order, Artifacts
<1>4. \A a \in Artifacts : \E j \in 1..10 : Order[j] = a
  BY DEF Order, Artifacts
<1>5. \A j, k \in 1..10 : Order[j] = Order[k] => j = k
  BY <1>2 DEF Order
<1>6. QED BY <1>1, <1>3, <1>4, <1>5

(* What is known to an artifact depends on earlier artifacts alone. *)
LEMMA KnownFromEarlier ==
  ASSUME NEW files, NEW g, NEW h, NEW k \in 1..10,
         \A j \in 1..10 : j < k => g[Order[j]] = h[Order[j]]
  PROVE  ResultOf(files, g, Order[k]) = ResultOf(files, h, Order[k])
<1>1. ASSUME NEW rel, Before(rel, Order[k])
      PROVE  g[rel] = h[rel]
  <2>1. PICK m, n \in 1..10 : m < n /\ Order[m] = rel /\ Order[n] = Order[k]
    BY <1>1, OrderIsComplete DEF Before
  <2>2. n = k
    BY <2>1, OrderIsComplete
  <2>3. QED BY <2>1, <2>2
<1>2. Known(files, g, Order[k]) = Known(files, h, Order[k])
  BY <1>1 DEF Known, Sources
<1>3. QED BY <1>2 DEF ResultOf

(* The results of all artifacts exist. *)
LEMMA ResultsExist ==
  ASSUME NEW files
  PROVE  \E g : Right(files, g, 10)
<1> DEFINE S == {k \in Nat : k \in 0..10 => \E g : Right(files, g, k)}
<1>1. 0 \in S
  <2> DEFINE g == [a \in Artifacts |-> Missing]
  <2>1. Right(files, g, 0)
    BY DEF Right
  <2>2. QED BY <2>1
<1>2. ASSUME NEW k \in Nat, k \in S PROVE k + 1 \in S
  <2> SUFFICES ASSUME k + 1 \in 0..10 PROVE \E g : Right(files, g, k + 1)
    OBVIOUS
  <2>1. PICK g : Right(files, g, k)
    BY <1>2
  <2> DEFINE h == [a \in Artifacts |-> IF a = Order[k + 1] THEN ResultOf(files, g, a) ELSE g[a]]
  <2>2. /\ Order[k + 1] \in Artifacts
        /\ \A j \in 1..k : j \in 1..10 /\ Order[j] \in Artifacts /\ Order[j] # Order[k + 1]
    BY OrderIsComplete
  <2>3. \A j \in 1..10 : j < k + 1 => g[Order[j]] = h[Order[j]]
    BY <2>2
  <2>4. ASSUME NEW j \in 1..k + 1
        PROVE  h[Order[j]] = ResultOf(files, h, Order[j])
    <3>1. j \in 1..10 /\ \A i \in 1..10 : i < j => g[Order[i]] = h[Order[i]]
      <4> HIDE DEF h
      <4>1. QED BY <2>3
    <3>2. ResultOf(files, g, Order[j]) = ResultOf(files, h, Order[j])
      <4> HIDE DEF h
      <4>1. QED BY <3>1, KnownFromEarlier
    <3>3. CASE j = k + 1
      BY <2>2, <3>2, <3>3
    <3>4. CASE j # k + 1
      <4>1. j \in 1..k
        BY <3>4
      <4>2. g[Order[j]] = ResultOf(files, g, Order[j])
        BY <2>1, <4>1 DEF Right
      <4>3. h[Order[j]] = g[Order[j]]
        BY <2>2, <4>1
      <4>4. QED BY <3>2, <4>2, <4>3
    <3>5. QED BY <3>3, <3>4
  <2>5. Right(files, h, k + 1)
    BY <2>4 DEF Right
  <2>6. QED BY <2>5
<1>3. 10 \in S
  <2> HIDE DEF S
  <2>1. QED BY <1>1, <1>2, SetInduction
<1>4. QED BY <1>3

(* validate_bundle_rows gives every declared artifact its result. *)
LEMMA BundleResults ==
  ASSUME NEW declared, NEW files
  PROVE  \E g : /\ \A a \in Artifacts : g[a] = ResultOf(files, g, a)
                /\ ValidateBundle(declared, files) =
                     [x \in declared |-> IF x = Unsupported THEN Unknown ELSE g[x]]
<1> DEFINE f == CHOOSE g : g = [a \in Artifacts |-> ResultOf(files, g, a)]
<1>1. \E g : g = [a \in Artifacts |-> ResultOf(files, g, a)]
  <2>1. PICK g : Right(files, g, 10)
    BY ResultsExist
  <2>2. \A a \in Artifacts : g[a] = ResultOf(files, g, a)
    BY <2>1, OrderIsComplete DEF Right
  <2>3. QED BY <2>1, <2>2 DEF Right
<1>2. f = [a \in Artifacts |-> ResultOf(files, f, a)]
  BY <1>1
<1>3. ValidateBundle(declared, files) = [x \in declared |-> IF x = Unsupported THEN Unknown ELSE f[x]]
  BY DEF ValidateBundle, ResultOf, Known
<1>4. QED BY <1>2, <1>3

-----------------------------------------------------------------------------
(* What the rejections come from. *)

(* A row refers to artifacts that are validated before its own. *)
LEMMA ParentsBefore ==
  ASSUME NEW a \in Artifacts, NEW rel \in RelationsOf(a)
  PROVE  rel \in Relations /\ rel \in Artifacts /\ Before(rel, a)
<1>1. /\ Order[1] = "products" /\ Order[2] = "warehouses" /\ Order[3] = "suppliers"
      /\ Order[4] = "orders" /\ Order[5] = "order_items" /\ Order[6] = "purchase_orders"
      /\ Order[7] = "purchase_order_items" /\ Order[8] = "inventory"
      /\ Order[9] = "inventory_movements" /\ Order[10] = "shipments"
  BY DEF Order
<1>2. \A j, k \in 1..10 : j < k => Before(Order[j], Order[k])
  BY OrderIsComplete DEF Before
<1>3. rel \in Relations /\ rel \in Artifacts /\ rel \in {Schema(a)[f] : f \in Columns(a)}
  BY DEF RelationsOf, Relations, Artifacts
<1>4. CASE a \in {"products", "warehouses", "suppliers"}
  <2>1. \A f \in Columns(a) : Schema(a)[f] \notin Relations
    BY <1>4 DEF Columns, Schema, Relations
  <2>2. QED BY <1>3, <2>1
<1>5. CASE a = "orders"
  <2>1. rel = "warehouses"
    BY <1>3, <1>5 DEF Columns, Schema, Relations
  <2>2. QED BY <1>1, <1>2, <1>3, <1>5, <2>1
<1>6. CASE a = "order_items"
  <2>1. rel \in {"orders", "products"}
    BY <1>3, <1>6 DEF Columns, Schema, Relations
  <2>2. QED BY <1>1, <1>2, <1>3, <1>6, <2>1
<1>7. CASE a = "purchase_orders"
  <2>1. rel \in {"suppliers", "warehouses"}
    BY <1>3, <1>7 DEF Columns, Schema, Relations
  <2>2. QED BY <1>1, <1>2, <1>3, <1>7, <2>1
<1>8. CASE a = "purchase_order_items"
  <2>1. rel \in {"purchase_orders", "products"}
    BY <1>3, <1>8 DEF Columns, Schema, Relations
  <2>2. QED BY <1>1, <1>2, <1>3, <1>8, <2>1
<1>9. CASE a \in {"inventory", "inventory_movements"}
  <2>1. rel \in {"products", "warehouses"}
    <3>1. CASE a = "inventory"
      BY <1>3, <3>1 DEF Columns, Schema, Relations
    <3>2. CASE a = "inventory_movements"
      BY <1>3, <3>2 DEF Columns, Schema, Relations
    <3>3. QED BY <1>9, <3>1, <3>2
  <2>2. QED BY <1>1, <1>2, <1>3, <1>9, <2>1
<1>10. CASE a = "shipments"
  <2>1. rel = "orders"
    BY <1>3, <1>10 DEF Columns, Schema, Relations
  <2>2. QED BY <1>1, <1>2, <1>3, <1>10, <2>1
<1>11. QED BY <1>4, <1>5, <1>6, <1>7, <1>8, <1>9, <1>10 DEF Artifacts

(* A row raises nothing if it is flawless and what it refers to is known. *)
LEMMA RowErrors ==
  ASSUME NEW a, NEW row, IsRow(a, row), NEW line, NEW known
  PROVE  Errors(a, line, row, known) = {} <=>
           Flawless(a, row) /\ \A rel \in RelationsOf(a) : row.refs[rel] \in known[rel]
<1> DEFINE wrong == {g \in DOMAIN row.odd : row.odd[g] = "wrong"}
           unique(f) == IF f \in {"fulfilled_at", "received_at", "delivered_at"}
                        THEN "TIMESTAMP_ORDER" ELSE "QUANTITY_BOUNDS"
           required == {<<line, "REQUIRED", f>> : f \in Blank(a, row)}
           codes == {<<line, CodeOf(Schema(a)[f]), f>> : f \in wrong}
           parents == {<<line, "PARENT_SOURCE_ID", f>> : f \in Orphans(a, row, known)}
           bounds == {<<line, unique(f), f>> : f \in Exceeding(row)}
           type == {<<line, "TYPE", "">>}
<1>1. Errors(a, line, row, known) =
        required \cup IF Unparsed(row) # {} THEN type ELSE codes \cup parents \cup bounds
  BY Zenon DEF Errors
<1>2. /\ required = {} <=> Blank(a, row) = {}
      /\ codes = {} <=> wrong = {}
      /\ parents = {} <=> Orphans(a, row, known) = {}
      /\ bounds = {} <=> Exceeding(row) = {}
      /\ type # {}
  <2> HIDE DEF wrong, unique
  <2>1. QED OBVIOUS
<1> HIDE DEF required, codes, parents, bounds, type
<1>3. Errors(a, line, row, known) = {} <=>
        /\ Blank(a, row) = {} /\ Unparsed(row) = {} /\ wrong = {}
        /\ Orphans(a, row, known) = {} /\ Exceeding(row) = {}
  BY <1>1, <1>2
<1>4. DOMAIN row.odd \subseteq Columns(a)
  BY DEF IsRow
<1>5. \A f \in Columns(a) : Schema(a)[f] \in Relations => f \in Required(a)
  BY DEF Required, Relations
<1>6. Blank(a, row) = {} => (Orphans(a, row, known) = {} <=> \A rel \in RelationsOf(a) : row.refs[rel] \in known[rel])
  <2> SUFFICES ASSUME Blank(a, row) = {}
               PROVE  Orphans(a, row, known) = {} <=> \A rel \in RelationsOf(a) : row.refs[rel] \in known[rel]
    OBVIOUS
  <2>1. \A f \in Columns(a) : Schema(a)[f] \in Relations => Class(row, f) # "blank"
    BY <1>5 DEF Blank
  <2>2. Orphans(a, row, known) = {} <=>
          \A f \in Columns(a) : Schema(a)[f] \in Relations => row.refs[Schema(a)[f]] \in known[Schema(a)[f]]
    BY <2>1 DEF Orphans
  <2>3. QED BY <2>2 DEF RelationsOf
<1>7. Blank(a, row) = {} <=> \A f \in DOMAIN row.odd : row.odd[f] = "blank" => f \notin Required(a)
  <2>1. Required(a) \subseteq Columns(a)
    BY DEF Required
  <2>2. QED BY <1>4, <2>1 DEF Blank, Class
<1>8. Flawless(a, row) <=>
        /\ Blank(a, row) = {} /\ Unparsed(row) = {} /\ wrong = {} /\ Exceeding(row) = {}
  BY <1>7 DEF Flawless, Unparsed, Exceeding
<1>9. QED BY <1>3, <1>6, <1>8

(* The header of an exact file raises nothing, and no other does. *)
LEMMA HeaderErrors ==
  ASSUME NEW a, NEW header
  PROVE  HeaderRejections(a, header) = {} <=> Exact(a, header)
<1> DEFINE unknown == header.columns \ Columns(a)
           missing == Columns(a) \ header.columns
           both == {<<1, "UNKNOWN_COLUMN", f>> : f \in unknown} \cup {<<1, "MISSING_COLUMN", f>> : f \in missing}
<1>1. both = {} <=> unknown = {} /\ missing = {}
  OBVIOUS
<1>2. unknown = {} /\ missing = {} <=> header.columns = Columns(a)
  OBVIOUS
<1>3. /\ header.broken => HeaderRejections(a, header) = {<<1, "MALFORMED_HEADER", "">>}
      /\ ~header.broken /\ unknown \cup missing # {} => HeaderRejections(a, header) = both
      /\ ~header.broken /\ unknown \cup missing = {} =>
           HeaderRejections(a, header) = IF header.ordered THEN {} ELSE {<<1, "MALFORMED_HEADER", "">>}
  BY Zenon DEF HeaderRejections
<1> HIDE DEF unknown, missing, both
<1>4. QED BY <1>1, <1>2, <1>3 DEF Exact

\* files as a bundle directory may hold them
AreFiles(declared, files) ==
  /\ DOMAIN declared \subseteq Artifacts \cup {Unsupported}
  /\ DOMAIN files \subseteq DOMAIN declared \cap Artifacts
  /\ \A a \in DOMAIN files : IsFile(a, files[a].rows)

\* file a raises nothing, given the results g of all artifacts
Accepts(files, g, a) ==
  /\ Exact(a, files[a].header)
  /\ Clear(a, files[a].rows, Known(files, g, a), Len(files[a].rows))

(* The result of a file that is there. *)
LEMMA ResultIsRight ==
  ASSUME NEW declared, NEW files, AreFiles(declared, files), NEW a \in DOMAIN files, NEW g,
         g[a] = ResultOf(files, g, a)
  PROVE  /\ g[a].rejections = {} <=> Accepts(files, g, a)
         /\ g[a].rejections = {} => Range(g[a].rows) = Kept(files[a].rows, Len(files[a].rows))
<1> DEFINE rows == files[a].rows
           r == ValidateRows(a, rows, Known(files, g, a))
           more == HeaderRejections(a, files[a].header)
<1>1. IsFile(a, rows)
  BY DEF AreFiles
<1>2. LoopInv(a, rows, Known(files, g, a), r, Len(rows))
  <2> DEFINE known == Known(files, g, a)
  <2> HIDE DEF known, rows
  <2>1. LoopInv(a, rows, known, ValidateRows(a, rows, known), Len(rows))
    BY <1>1, LoopIsRight
  <2>2. QED BY <2>1 DEF known
<1>3. g[a] = [r EXCEPT !.rejections = @ \cup more]
  BY DEF ResultOf, Validated
<1> HIDE DEF r, more
<1>4. g[a].rows = r.rows /\ g[a].rejections = r.rejections \cup more
  BY <1>2, <1>3 DEF LoopInv, IsResult
<1>5. more = {} <=> Exact(a, files[a].header)
  BY HeaderErrors DEF more
<1>6. QED BY <1>2, <1>4, <1>5 DEF LoopInv, Accepts

\* rows agree wherever they stand for the same thing
Agree(a, rows) ==
  \A n \in DOMAIN rows : \A m \in DOMAIN rows \ {n} :
    SameKey(a, rows[m], rows[n]) => a # "inventory" /\ Canonical(rows[m]) = Canonical(rows[n])

(* A file is accepted if its header is exact, its rows are flawless and    *)
(* agree, and what they refer to is known.                                 *)
LEMMA WhatIsAccepted ==
  ASSUME NEW files, NEW g, NEW a \in DOMAIN files, IsFile(a, files[a].rows)
  PROVE  Accepts(files, g, a) <=>
           /\ Exact(a, files[a].header)
           /\ \A n \in DOMAIN files[a].rows :
                /\ Flawless(a, files[a].rows[n])
                /\ \A rel \in RelationsOf(a) : files[a].rows[n].refs[rel] \in Known(files, g, a)[rel]
           /\ Agree(a, files[a].rows)
<1> DEFINE rows == files[a].rows
           known == Known(files, g, a)
<1>1. /\ DOMAIN rows = 1..Len(rows)
      /\ \A n \in 1..Len(rows) : IsRow(a, rows[n])
  BY DEF IsFile
<1> HIDE DEF rows, known
<1>2. ASSUME NEW n \in 1..Len(rows)
      PROVE  Errors(a, n + 1, rows[n], known) = {} <=>
               Flawless(a, rows[n]) /\ \A rel \in RelationsOf(a) : rows[n].refs[rel] \in known[rel]
  <2> DEFINE line == n + 1
  <2> HIDE DEF line
  <2>1. IsRow(a, rows[n])
    BY <1>1
  <2>2. Errors(a, line, rows[n], known) = {} <=>
          Flawless(a, rows[n]) /\ \A rel \in RelationsOf(a) : rows[n].refs[rel] \in known[rel]
    BY <2>1, RowErrors
  <2>3. QED BY <2>2 DEF line
<1>3. Clear(a, rows, known, Len(rows)) <=>
        /\ \A n \in DOMAIN rows :
             /\ Flawless(a, rows[n])
             /\ \A rel \in RelationsOf(a) : rows[n].refs[rel] \in known[rel]
        /\ Agree(a, rows)
  <2>1. (\A n \in 1..Len(rows) : Errors(a, n + 1, rows[n], known) = {}) <=>
          \A n \in DOMAIN rows :
             /\ Flawless(a, rows[n])
             /\ \A rel \in RelationsOf(a) : rows[n].refs[rel] \in known[rel]
    BY <1>1, <1>2
  <2>2. Agree(a, rows) <=>
          \A k, m \in 1..Len(rows) : k # m /\ SameKey(a, rows[k], rows[m]) =>
            a # "inventory" /\ Canonical(rows[k]) = Canonical(rows[m])
    BY <1>1 DEF Agree
  <2>3. QED BY <2>1, <2>2 DEF Clear
<1>4. QED BY <1>3 DEF Accepts, rows, known

\* the source ids of a file
Ids(rows) == {rows[n].id : n \in DOMAIN rows}

(* What an accepted file makes known are its source ids. *)
LEMMA KnownIds ==
  ASSUME NEW declared, NEW files, AreFiles(declared, files), NEW g,
         NEW a \in DOMAIN files, NEW rel \in RelationsOf(a),
         rel \in DOMAIN files => g[rel] = ResultOf(files, g, rel) /\ g[rel].rejections = {}
  PROVE  /\ rel \notin DOMAIN files => Known(files, g, a)[rel] = {}
         /\ rel \in DOMAIN files => Known(files, g, a)[rel] = Ids(files[rel].rows)
<1>1. rel \in Relations /\ Before(rel, a)
  BY ParentsBefore DEF AreFiles
<1>2. CASE rel \notin DOMAIN files
  BY <1>1, <1>2 DEF Known
<1>3. CASE rel \in DOMAIN files
  <2> DEFINE rows == files[rel].rows
  <2>1. Known(files, g, a)[rel] = Sources(g[rel])
    BY <1>1, <1>3 DEF Known
  <2>2. Range(g[rel].rows) = Kept(rows, Len(rows))
    BY <1>3, ResultIsRight
  <2>3. DOMAIN rows = 1..Len(rows) /\ \A n \in DOMAIN rows : Canonical(rows[n]).id = rows[n].id
    <3>1. DOMAIN rows = 1..Len(rows) /\ \A n \in DOMAIN rows : IsRow(rel, rows[n])
      BY <1>3 DEF AreFiles, IsFile
    <3>2. QED BY <3>1, CanonicalKey
  <2>4. {row.id : row \in Kept(rows, Len(rows))} = Ids(rows)
    BY <2>3 DEF Kept, Ids
  <2>5. QED BY <1>3, <2>1, <2>2, <2>4 DEF Sources
<1>4. QED BY <1>2, <1>3

\* a file of a consistent bundle
Sound(files, a) ==
  /\ Exact(a, files[a].header)
  /\ \A n \in DOMAIN files[a].rows :
       /\ Flawless(a, files[a].rows[n])
       /\ \A rel \in RelationsOf(a) :
            rel \in DOMAIN files /\ files[a].rows[n].refs[rel] \in Ids(files[rel].rows)
  /\ Agree(a, files[a].rows)

(* If earlier files are accepted, a file is accepted if it is sound. *)
LEMMA AcceptsSound ==
  ASSUME NEW declared, NEW files, AreFiles(declared, files), NEW g, NEW a \in DOMAIN files,
         \A rel \in DOMAIN files : rel \in RelationsOf(a) => g[rel] = ResultOf(files, g, rel) /\ g[rel].rejections = {}
  PROVE  Accepts(files, g, a) <=> Sound(files, a)
<1>1. \A rel \in RelationsOf(a) :
        /\ rel \notin DOMAIN files => Known(files, g, a)[rel] = {}
        /\ rel \in DOMAIN files => Known(files, g, a)[rel] = Ids(files[rel].rows)
  BY KnownIds
<1>2. IsFile(a, files[a].rows)
  BY DEF AreFiles
<1>3. Accepts(files, g, a) <=>
        /\ Exact(a, files[a].header)
        /\ \A n \in DOMAIN files[a].rows :
             /\ Flawless(a, files[a].rows[n])
             /\ \A rel \in RelationsOf(a) : files[a].rows[n].refs[rel] \in Known(files, g, a)[rel]
        /\ Agree(a, files[a].rows)
  BY <1>2, WhatIsAccepted
<1>4. \A n \in DOMAIN files[a].rows : \A rel \in RelationsOf(a) :
        files[a].rows[n].refs[rel] \in Known(files, g, a)[rel] <=>
          rel \in DOMAIN files /\ files[a].rows[n].refs[rel] \in Ids(files[rel].rows)
  BY <1>1
<1>5. QED BY <1>3, <1>4 DEF Sound

(* All files are accepted if and only if all are sound: by induction over  *)
(* the order of validation.                                                *)
LEMMA AllAccepted ==
  ASSUME NEW declared, NEW files, AreFiles(declared, files), NEW g,
         \A a \in Artifacts : g[a] = ResultOf(files, g, a)
  PROVE  (\A a \in DOMAIN files : g[a].rejections = {}) <=> \A a \in DOMAIN files : Sound(files, a)
<1>1. DOMAIN files \subseteq Artifacts
  BY DEF AreFiles
<1>2. \A a \in DOMAIN files : g[a].rejections = {} <=> Accepts(files, g, a)
  BY <1>1, ResultIsRight
<1>3. ASSUME \A a \in DOMAIN files : g[a].rejections = {}
      PROVE  \A a \in DOMAIN files : Sound(files, a)
  BY <1>1, <1>2, <1>3, AcceptsSound
<1>4. ASSUME \A a \in DOMAIN files : Sound(files, a)
      PROVE  \A a \in DOMAIN files : g[a].rejections = {}
  <2> DEFINE S == {k \in Nat : \A j \in 1..10 : j <= k /\ Order[j] \in DOMAIN files => g[Order[j]].rejections = {}}
  <2>1. 0 \in S
    OBVIOUS
  <2>2. ASSUME NEW k \in Nat, k \in S PROVE k + 1 \in S
    <3> SUFFICES ASSUME k + 1 \in 1..10, Order[k + 1] \in DOMAIN files
                 PROVE  g[Order[k + 1]].rejections = {}
      <4>1. \A j \in 1..10 : j <= k + 1 => j <= k \/ j = k + 1
        OBVIOUS
      <4>2. QED BY <2>2, <4>1
    <3>1. \A rel \in DOMAIN files : rel \in RelationsOf(Order[k + 1]) => g[rel].rejections = {}
      <4> SUFFICES ASSUME NEW rel \in DOMAIN files, rel \in RelationsOf(Order[k + 1])
                   PROVE  g[rel].rejections = {}
        OBVIOUS
      <4>1. Before(rel, Order[k + 1])
        BY <1>1, ParentsBefore
      <4>2. PICK m, n \in 1..10 : m < n /\ Order[m] = rel /\ Order[n] = Order[k + 1]
        BY <4>1, OrderIsComplete DEF Before
      <4>3. n = k + 1
        BY <4>2, OrderIsComplete
      <4>4. m <= k
        BY <4>2, <4>3
      <4>5. QED BY <2>2, <4>2, <4>4
    <3>2. Accepts(files, g, Order[k + 1])
      <4> DEFINE a == Order[k + 1]
      <4>1. a \in DOMAIN files /\ Sound(files, a)
        BY <1>4
      <4>2. \A rel \in DOMAIN files : rel \in RelationsOf(a) => g[rel] = ResultOf(files, g, rel) /\ g[rel].rejections = {}
        BY <1>1, <3>1
      <4> HIDE DEF a
      <4>3. Accepts(files, g, a)
        BY <4>1, <4>2, AcceptsSound
      <4>4. QED BY <4>3 DEF a
    <3>3. QED BY <1>2, <3>2
  <2>3. 10 \in S
    <3> HIDE DEF S
    <3>1. QED BY <2>1, <2>2, SetInduction
  <2>4. QED BY <1>1, <2>3, OrderIsComplete
<1>5. QED BY <1>3, <1>4

(* ingest refuses a bundle if and only if it is not consistent, and else   *)
(* works on the canonical form of each of its rows.                        *)
LEMMA ExactlyConsistent ==
  ASSUME NEW declared, NEW files, AreFiles(declared, files)
  PROVE  LET reports == ValidateBundle(DOMAIN declared, files)
             refused == Rejections(reports) # {} \/ Miscounted(declared, files) # {}
         IN  /\ refused <=> ~Consistent(declared, files)
             /\ ~refused => /\ DOMAIN declared = DOMAIN files
                            /\ \A a \in DOMAIN files :
                                 AcceptedRows(reports, a) = {Canonical(files[a].rows[n]) : n \in DOMAIN files[a].rows}
                            /\ \A a \in Artifacts : a \notin DOMAIN files => AcceptedRows(reports, a) = {}
<1> DEFINE reports == ValidateBundle(DOMAIN declared, files)
           refused == Rejections(reports) # {} \/ Miscounted(declared, files) # {}
<1>1. PICK g : /\ \A a \in Artifacts : g[a] = ResultOf(files, g, a)
               /\ reports = [x \in DOMAIN declared |-> IF x = Unsupported THEN Unknown ELSE g[x]]
  BY BundleResults
<1>2. /\ DOMAIN declared \subseteq Artifacts \cup {Unsupported} /\ Unsupported \notin Artifacts
      /\ DOMAIN files \subseteq DOMAIN declared /\ DOMAIN files \subseteq Artifacts
      /\ \A a \in DOMAIN files : DOMAIN files[a].rows = 1..Len(files[a].rows)
  BY DEF AreFiles, Artifacts, Unsupported, IsFile
<1>3. /\ Unknown.rejections # {} /\ Missing.rejections # {}
      /\ \A a \in Artifacts : a \notin DOMAIN files => g[a] = Missing
  BY <1>1 DEF Unknown, Missing, Nothing, ResultOf
<1> HIDE DEF reports
<1>4. Rejections(reports) = {} <=>
        /\ Unsupported \notin DOMAIN declared
        /\ DOMAIN declared \subseteq DOMAIN files
        /\ \A a \in DOMAIN files : g[a].rejections = {}
  <2>1. Rejections(reports) = {} <=>
          \A x \in DOMAIN declared : (IF x = Unsupported THEN Unknown ELSE g[x]).rejections = {}
    BY <1>1 DEF Rejections
  <2>2. QED BY <1>2, <1>3, <2>1
<1>5. (\A a \in DOMAIN files : g[a].rejections = {}) <=> \A a \in DOMAIN files : Sound(files, a)
  BY <1>1, AllAccepted
<1>6. DOMAIN declared \subseteq DOMAIN files =>
        (Miscounted(declared, files) = {} <=> \A a \in DOMAIN declared : Len(files[a].rows) = declared[a])
  BY DEF Miscounted
<1>7. Consistent(declared, files) <=>
        /\ Unsupported \notin DOMAIN declared
        /\ \A a \in DOMAIN declared : a \in DOMAIN files /\ Len(files[a].rows) = declared[a]
        /\ \A a \in DOMAIN files : Sound(files, a)
  <2>1. ASSUME NEW a \in DOMAIN files
        PROVE  Sound(files, a) <=>
                 /\ Exact(a, files[a].header)
                 /\ \A n \in DOMAIN files[a].rows :
                      /\ Flawless(a, files[a].rows[n])
                      /\ \A rel \in RelationsOf(a) :
                           /\ rel \in DOMAIN files
                           /\ \E p \in DOMAIN files[rel].rows : files[rel].rows[p].id = files[a].rows[n].refs[rel]
                      /\ \A m \in DOMAIN files[a].rows \ {n} :
                           SameKey(a, files[a].rows[m], files[a].rows[n])
                             => a # "inventory" /\ Canonical(files[a].rows[m]) = Canonical(files[a].rows[n])
    BY Zenon DEF Sound, Agree, Ids
  <2>2. QED BY <2>1 DEF Consistent
<1>8. refused <=> ~Consistent(declared, files)
  BY <1>4, <1>5, <1>6, <1>7
<1>9. ASSUME ~refused
      PROVE  /\ DOMAIN declared = DOMAIN files
             /\ \A a \in DOMAIN files :
                  AcceptedRows(reports, a) = {Canonical(files[a].rows[n]) : n \in DOMAIN files[a].rows}
             /\ \A a \in Artifacts : a \notin DOMAIN files => AcceptedRows(reports, a) = {}
  <2>1. DOMAIN declared = DOMAIN files
    BY <1>2, <1>4, <1>9
  <2>2. ASSUME NEW a \in DOMAIN files
        PROVE  AcceptedRows(reports, a) = {Canonical(files[a].rows[n]) : n \in DOMAIN files[a].rows}
    <3>1. Range(g[a].rows) = Kept(files[a].rows, Len(files[a].rows))
      BY <1>1, <1>2, <1>4, <1>9, ResultIsRight
    <3>2. a \in DOMAIN reports /\ reports[a] = g[a]
      BY <1>1, <1>2, <2>1
    <3>3. QED BY <1>2, <3>1, <3>2 DEF AcceptedRows, Kept
  <2>3. \A a \in Artifacts : a \notin DOMAIN files => AcceptedRows(reports, a) = {}
    BY <1>1, <2>1 DEF AcceptedRows
  <2>4. QED BY <2>1, <2>2, <2>3
<1>10. QED BY <1>8, <1>9 DEF reports

-----------------------------------------------------------------------------
(* The rows of an accepted bundle, and what the tables keep of them. *)

RowsOf(files, a) ==
  IF a \in DOMAIN files THEN {Canonical(files[a].rows[n]) : n \in DOMAIN files[a].rows} ELSE {}

Image(files, a) == {TableRow(Stored(row), TRUE) : row \in RowsOf(files, a)}

\* files that validation accepts
Fit(files) == \A a \in DOMAIN files : IsFile(a, files[a].rows) /\ Sound(files, a)

(* A table keeps source id, references and time of a row, and changes no   *)
(* more of it than numbers with too many decimals.                         *)
LEMMA StoredRow ==
  ASSUME NEW files, Fit(files), NEW a, NEW row \in RowsOf(files, a)
  PROVE  /\ Stored(row).id = row.id /\ Stored(row).refs = row.refs /\ Stored(row).at = row.at
         /\ \A other : SameKey(a, Stored(row), other) <=> SameKey(a, row, other)
         /\ Stored(row) # row => "rounded" \in Range(Stored(row).odd)
<1>1. a \in DOMAIN files
  BY DEF RowsOf
<1>2. PICK n \in DOMAIN files[a].rows : row = Canonical(files[a].rows[n])
  BY <1>1 DEF RowsOf
<1> DEFINE raw == files[a].rows[n]
           odd == Restrict(raw.odd, {f \in DOMAIN raw.odd : raw.odd[f] # "padded"})
           kept == [f \in DOMAIN row.odd |-> IF row.odd[f] \in {"fine", "tiny"} THEN "rounded" ELSE row.odd[f]]
<1>3. DOMAIN raw = {"id", "refs", "name", "at", "odd"}
  BY <1>1 DEF Fit, IsFile, IsRow
<1>4. row = [raw EXCEPT !.odd = odd]
  BY <1>2, Zenon DEF Canonical
<1>5. odd = [f \in DOMAIN odd |-> odd[f]]
  BY DEF Restrict
<1>6. Stored(row) = [row EXCEPT !.odd = kept]
  BY Zenon DEF Stored
<1> HIDE DEF raw, odd
<1>7. /\ DOMAIN row = {"id", "refs", "name", "at", "odd"} /\ row.odd = odd
      /\ row = [f \in DOMAIN row |-> row[f]]
  BY <1>3, <1>4
<1>8. Stored(row) # row => \E f \in DOMAIN row.odd : row.odd[f] \in {"fine", "tiny"}
  <2> SUFFICES ASSUME \A f \in DOMAIN row.odd : row.odd[f] \notin {"fine", "tiny"}
               PROVE  Stored(row) = row
    OBVIOUS
  <2>1. kept = row.odd
    BY <1>5, <1>7
  <2> HIDE DEF kept
  <2>2. [row EXCEPT !.odd = row.odd] = row
    BY <1>7
  <2>3. QED BY <1>6, <2>1, <2>2
<1>9. ASSUME Stored(row) # row PROVE "rounded" \in Range(kept)
  BY <1>8, <1>9 DEF Range
<1> HIDE DEF kept
<1>10. /\ Stored(row).id = row.id /\ Stored(row).refs = row.refs /\ Stored(row).at = row.at
       /\ Stored(row).odd = kept
  BY <1>6, <1>7
<1>11. QED BY <1>9, <1>10 DEF SameKey

(* Two accepted rows of an artifact stand for different things. *)
LEMMA RowsDiffer ==
  ASSUME NEW files, Fit(files), NEW a, NEW row \in RowsOf(files, a), NEW other \in RowsOf(files, a),
         SameKey(a, row, other)
  PROVE  row = other
<1>1. a \in DOMAIN files
  BY DEF RowsOf
<1> DEFINE rows == files[a].rows
<1>2. PICK m, n \in DOMAIN rows : row = Canonical(rows[m]) /\ other = Canonical(rows[n])
  BY <1>1 DEF RowsOf
<1>3. IsRow(a, rows[m]) /\ IsRow(a, rows[n])
  BY <1>1, <1>2 DEF Fit, IsFile
<1>4. SameKey(a, rows[m], rows[n])
  BY <1>2, <1>3, CanonicalKey
<1>5. QED BY <1>1, <1>2, <1>4 DEF Fit, Sound, Agree

(* A version of a bundle has as many rows as the bundle's distinct ones. *)
LEMMA ImageSize ==
  ASSUME NEW files, Fit(files), NEW a
  PROVE  /\ IsFiniteSet(RowsOf(files, a)) /\ Cardinality(RowsOf(files, a)) \in Nat
         /\ Cardinality(Image(files, a)) = Cardinality(RowsOf(files, a))
<1> DEFINE R == RowsOf(files, a)
           T == Image(files, a)
           N == Len(files[a].rows)
<1>1. IsFiniteSet(R)
  <2>1. CASE a \in DOMAIN files
    <3> DEFINE f == [n \in 1..N |-> Canonical(files[a].rows[n])]
    <3>1. N \in Nat /\ DOMAIN files[a].rows = 1..N
      BY <2>1 DEF Fit, IsFile
    <3>2. f \in Surjection(1..N, R)
      BY <2>1, <3>1 DEF Surjection, RowsOf
    <3>3. QED BY <3>1, <3>2, FS_NatSurjection DEF ExistsSurjection
  <2>2. CASE a \notin DOMAIN files
    BY <2>2, FS_EmptySet DEF RowsOf
  <2>3. QED BY <2>1, <2>2
<1>2. ExistsBijection(R, T)
  <2> DEFINE f == [row \in R |-> TableRow(Stored(row), TRUE)]
  <2>1. f \in [R -> T] /\ \A t \in T : \E row \in R : f[row] = t
    BY DEF Image
  <2>2. ASSUME NEW x \in R, NEW y \in R, f[x] = f[y]
        PROVE  x = y
    <3>1. Stored(x) = Stored(y)
      BY <2>2 DEF TableRow
    <3>2. SameKey(a, x, y)
      BY <3>1, StoredRow DEF SameKey
    <3>3. QED BY <3>2, RowsDiffer
  <2> HIDE DEF f, R, T
  <2>3. f \in Bijection(R, T)
    BY <2>1, <2>2 DEF Bijection, Injection, Surjection, IsInjective
  <2>4. QED BY <2>3 DEF ExistsBijection
<1> HIDE DEF R, T
<1>3. QED BY <1>1, <1>2, FS_Bijection, FS_CardinalityType DEF R, T

(* A row of a bundle refers to rows of the bundle. *)
LEMMA ParentsThere ==
  ASSUME NEW files, Fit(files), DOMAIN files \subseteq Artifacts, NEW a, NEW row \in RowsOf(files, a),
         NEW rel \in RelationsOf(a)
  PROVE  \E parent \in RowsOf(files, rel) : parent.id = row.refs[rel]
<1>1. a \in DOMAIN files
  BY DEF RowsOf
<1>2. PICK n \in DOMAIN files[a].rows : row = Canonical(files[a].rows[n])
  BY <1>1 DEF RowsOf
<1>3. rel \in DOMAIN files /\ files[a].rows[n].refs[rel] \in Ids(files[rel].rows)
  BY <1>1, <1>2 DEF Fit, Sound
<1>4. PICK m \in DOMAIN files[rel].rows : files[rel].rows[m].id = files[a].rows[n].refs[rel]
  BY <1>3 DEF Ids
<1>5. IsRow(a, files[a].rows[n]) /\ IsRow(rel, files[rel].rows[m])
  BY <1>1, <1>2, <1>3, <1>4 DEF Fit, IsFile
<1>6. row.refs = files[a].rows[n].refs /\ Canonical(files[rel].rows[m]).id = files[rel].rows[m].id
  BY <1>2, <1>5, CanonicalKey
<1>7. QED BY <1>3, <1>4, <1>6 DEF RowsOf

(* Rows are applied after those they refer to. *)
LEMMA AppliedInOrder ==
  /\ Len(ApplyOrder) = 10
  /\ \A k \in 1..10 : ApplyOrder[k] \in Artifacts
  /\ \A a \in Artifacts : \E k \in 1..10 : ApplyOrder[k] = a
  /\ \A j, k \in 1..10 : ApplyOrder[j] = ApplyOrder[k] => j = k
  /\ \A k \in 1..10 : \A rel \in RelationsOf(ApplyOrder[k]) : \E n \in 1..k - 1 : ApplyOrder[n] = rel
<1>1. /\ ApplyOrder[1] = "products" /\ ApplyOrder[2] = "warehouses" /\ ApplyOrder[3] = "suppliers"
      /\ ApplyOrder[4] = "orders" /\ ApplyOrder[5] = "purchase_orders" /\ ApplyOrder[6] = "order_items"
      /\ ApplyOrder[7] = "purchase_order_items" /\ ApplyOrder[8] = "inventory_movements"
      /\ ApplyOrder[9] = "shipments" /\ ApplyOrder[10] = "inventory" /\ Len(ApplyOrder) = 10
  BY DEF ApplyOrder
<1>2. \A j \in 1..10 : j = 1 \/ j = 2 \/ j = 3 \/ j = 4 \/ j = 5 \/ j = 6 \/ j = 7 \/ j = 8 \/ j = 9 \/ j = 10
  OBVIOUS
<1>3. \A k \in 1..10 : ApplyOrder[k] \in Artifacts
  BY <1>1, <1>2 DEF Artifacts
<1>4. \A a \in Artifacts : \E k \in 1..10 : ApplyOrder[k] = a
  BY <1>1 DEF Artifacts
<1>5. \A j, k \in 1..10 : ApplyOrder[j] = ApplyOrder[k] => j = k
  BY <1>1, <1>2
<1>6. ASSUME NEW k \in 1..10, NEW rel \in RelationsOf(ApplyOrder[k])
      PROVE  \E n \in 1..k - 1 : ApplyOrder[n] = rel
  <2>1. rel \in Relations /\ rel \in {Schema(ApplyOrder[k])[f] : f \in Columns(ApplyOrder[k])}
    BY DEF RelationsOf
  <2>2. CASE k \in {1, 2, 3}
    <3>1. \A f \in Columns(ApplyOrder[k]) : Schema(ApplyOrder[k])[f] \notin Relations
      BY <1>1, <2>2 DEF Columns, Schema, Relations
    <3>2. QED BY <2>1, <3>1
  <2>3. CASE k = 4
    <3>1. rel = "warehouses"
      BY <1>1, <2>1, <2>3 DEF Columns, Schema, Relations
    <3>2. QED BY <1>1, <2>3, <3>1
  <2>4. CASE k = 5
    <3>1. rel \in {"suppliers", "warehouses"}
      BY <1>1, <2>1, <2>4 DEF Columns, Schema, Relations
    <3>2. QED BY <1>1, <2>4, <3>1
  <2>5. CASE k = 6
    <3>1. rel \in {"orders", "products"}
      BY <1>1, <2>1, <2>5 DEF Columns, Schema, Relations
    <3>2. QED BY <1>1, <2>5, <3>1
  <2>6. CASE k = 7
    <3>1. rel \in {"purchase_orders", "products"}
      BY <1>1, <2>1, <2>6 DEF Columns, Schema, Relations
    <3>2. QED BY <1>1, <2>6, <3>1
  <2>7. CASE k = 8
    <3>1. rel \in {"products", "warehouses"}
      BY <1>1, <2>1, <2>7 DEF Columns, Schema, Relations
    <3>2. QED BY <1>1, <2>7, <3>1
  <2>8. CASE k = 9
    <3>1. rel = "orders"
      BY <1>1, <2>1, <2>8 DEF Columns, Schema, Relations
    <3>2. QED BY <1>1, <2>8, <3>1
  <2>9. CASE k = 10
    <3>1. rel \in {"products", "warehouses"}
      BY <1>1, <2>1, <2>9 DEF Columns, Schema, Relations
    <3>2. QED BY <1>1, <2>9, <3>1
  <2>10. QED BY <1>2, <2>2, <2>3, <2>4, <2>5, <2>6, <2>7, <2>8, <2>9
<1>7. QED BY <1>1, <1>3, <1>4, <1>5, <1>6

-----------------------------------------------------------------------------
(* The invariant. *)

Working(p) == pc[p] \in {"preflight", "apply", "commit"}

Shape ==
  /\ content \in [Manifests -> Contents \cup {NoManifest}]
  /\ tables = [m \in Manifests |-> [a \in Artifacts |-> tables[m][a]]]
  /\ mine = [p \in Loaders |-> [a \in Artifacts |-> mine[p][a]]]
  /\ lock \in Loaders \cup {NoLoader}
  /\ pc \in [Loaders -> Steps]
  /\ bundle \in [Loaders -> Bundles \cup {Idle}]
  /\ DOMAIN results = Loaders /\ DOMAIN at = Loaders /\ DOMAIN counts = Loaders

Control(p) ==
  /\ lock = p <=> Working(p)
  /\ pc[p] # "idle" => bundle[p] \in Bundles
  /\ pc[p] \in {"validate", "ensure"} \/ Working(p) =>
       results[p] = ValidateBundle(DOMAIN bundle[p].declared, bundle[p].files)
  /\ pc[p] = "ensure" \/ Working(p) => ~Refused(p)
  /\ Working(p) => content[Version(p)] \in {NoManifest, bundle[p].files}
  /\ ~Working(p) => mine[p] = Columnless /\ at[p] = 0
  /\ pc[p] = "preflight" => at[p] = 0
  /\ pc[p] = "apply" => at[p] \in 1..10
  /\ pc[p] = "commit" => at[p] = 11

\* a version holds its bundle, and promoted orders
Holding(m) ==
  /\ content[m] = NoManifest => tables[m] = Columnless
  /\ content[m] # NoManifest => \A a \in Artifacts : {x \in tables[m][a] : x.own} = Image(content[m], a)
  /\ \A a \in Artifacts : \A x \in tables[m][a] : x.own \/ (x.own = FALSE /\ a = "orders")

\* what a process has inserted so far, and counted before
Progress(p) ==
  Working(p) =>
    /\ content[Version(p)] # NoManifest => mine[p] = Columnless
    /\ content[Version(p)] = NoManifest => \A k \in 1..10 :
         mine[p][ApplyOrder[k]] = IF k < at[p] THEN Image(bundle[p].files, ApplyOrder[k]) ELSE {}
    /\ pc[p] # "preflight" => \A a \in Artifacts :
         LET size == Cardinality(RowsOf(bundle[p].files, a)) IN
         /\ counts[p].inserted[a] = IF content[Version(p)] = NoManifest THEN size ELSE 0
         /\ counts[p].skipped[a] = IF content[Version(p)] = NoManifest THEN 0 ELSE size

LoadInv ==
  /\ Shape
  /\ \A p \in Loaders : Control(p) /\ Progress(p)
  /\ \A m \in Manifests : Holding(m)

(* The assumption about bundles. *)
LEMMA BundleFiles ==
  ASSUME NEW b \in Bundles
  PROVE  /\ b.manifest \in Manifests /\ b.files \in Contents /\ b.files # NoManifest
         /\ AreFiles(b.declared, b.files) /\ DOMAIN b.files \subseteq Artifacts
BY IngestionAssumption DEF AreFiles, Contents

(* What a process that passed validation works on. *)
LEMMA Accepting ==
  ASSUME LoadInv, NEW p \in Loaders, pc[p] = "ensure" \/ Working(p)
  PROVE  /\ Version(p) \in Manifests /\ Fit(bundle[p].files) /\ DOMAIN bundle[p].files \subseteq Artifacts
         /\ bundle[p].files \in Contents /\ bundle[p].files # NoManifest
         /\ \A a \in Artifacts : Accepted(p, a) = RowsOf(bundle[p].files, a)
<1> DEFINE declared == bundle[p].declared
           files == bundle[p].files
<1>1. /\ bundle[p] \in Bundles /\ ~Refused(p)
      /\ results[p] = ValidateBundle(DOMAIN declared, files)
  BY DEF LoadInv, Control, Working
<1>2. /\ Version(p) \in Manifests /\ DOMAIN files \subseteq Artifacts /\ AreFiles(declared, files)
      /\ files \in Contents /\ files # NoManifest
  BY <1>1, BundleFiles DEF Version
<1> HIDE DEF declared, files
<1>3. /\ Consistent(declared, files)
      /\ \A a \in DOMAIN files :
           AcceptedRows(results[p], a) = {Canonical(files[a].rows[n]) : n \in DOMAIN files[a].rows}
      /\ \A a \in Artifacts : a \notin DOMAIN files => AcceptedRows(results[p], a) = {}
  BY <1>1, <1>2, ExactlyConsistent DEF Refused, declared, files
<1>4. Fit(files)
  BY <1>2, <1>3 DEF Fit, Consistent, Sound, Agree, Ids, AreFiles
<1>5. \A a \in Artifacts : Accepted(p, a) = RowsOf(files, a)
  BY <1>3 DEF Accepted, RowsOf
<1>6. QED BY <1>2, <1>4, <1>5 DEF files

(* Nothing is new to a version that holds the bundle, and everything is    *)
(* new to one that does not exist.                                         *)
LEMMA NewRows ==
  ASSUME LoadInv, NEW p \in Loaders, Working(p), NEW a \in Artifacts
  PROVE  /\ content[Version(p)] # NoManifest => New(p, a) = {}
         /\ content[Version(p)] = NoManifest /\ mine[p][a] = {} =>
              Seen(p, a) = {} /\ New(p, a) = Accepted(p, a)
<1> DEFINE V == Version(p)
           files == bundle[p].files
<1>1. /\ V \in Manifests /\ Fit(files) /\ Accepted(p, a) = RowsOf(files, a)
      /\ Holding(V) /\ content[V] \in {NoManifest, files}
  BY Accepting DEF LoadInv, Control
<1>2. ASSUME content[V] # NoManifest PROVE New(p, a) = {}
  <2> SUFFICES ASSUME NEW row \in RowsOf(files, a) PROVE Existing(p, a, row) # {}
    BY <1>1 DEF New
  <2>1. TableRow(Stored(row), TRUE) \in tables[V][a]
    BY <1>1, <1>2 DEF Holding, Image
  <2>2. SameKey(a, Stored(row), row)
    <3>1. SameKey(a, row, row)
      BY DEF SameKey
    <3>2. QED BY <1>1, <3>1, StoredRow
  <2>3. TableRow(Stored(row), TRUE) \in Existing(p, a, row)
    BY <2>1, <2>2 DEF Existing, Seen, TableRow
  <2>4. QED BY <2>3
<1>3. ASSUME content[V] = NoManifest, mine[p][a] = {}
      PROVE  Seen(p, a) = {} /\ New(p, a) = Accepted(p, a)
  <2>1. tables[V][a] = {}
    BY <1>1, <1>3 DEF Holding, Columnless
  <2>2. Seen(p, a) = {}
    BY <1>3, <2>1 DEF Seen
  <2>3. QED BY <2>2 DEF New, Existing
<1>4. QED BY <1>2, <1>3

(* A step of p leaves what the others are at as it was. *)
LEMMA OthersKept ==
  ASSUME LoadInv, NEW p \in Loaders,
         \A q \in Loaders \ {p} :
           /\ pc'[q] = pc[q] /\ bundle'[q] = bundle[q] /\ results'[q] = results[q]
           /\ mine'[q] = mine[q] /\ at'[q] = at[q] /\ counts'[q] = counts[q],
         lock' = lock \/ {lock, lock'} \subseteq {p, NoLoader},
         content' = content \/ Working(p)
  PROVE  \A q \in Loaders \ {p} : Control(q)' /\ Progress(q)'
<1> SUFFICES ASSUME NEW q \in Loaders \ {p} PROVE Control(q)' /\ Progress(q)'
  OBVIOUS
<1>1. Control(q) /\ Progress(q) /\ Control(p)
  BY DEF LoadInv
<1>2. q # NoLoader
  BY IngestionAssumption
<1>3. (lock' = q) <=> (lock = q)
  BY <1>2
<1>4. Working(q)' <=> Working(q)
  BY DEF Working
<1>5. Working(q) => content' = content
  BY <1>1 DEF Control
<1>6. Control(q)'
  BY <1>1, <1>3, <1>4, <1>5 DEF Control, Version, Refused
<1>7. Progress(q)'
  BY <1>1, <1>4, <1>5 DEF Progress, Version
<1>8. QED BY <1>6, <1>7

(* Nothing is loaded at first. *)
LEMMA LoadInit ==
  ASSUME Init
  PROVE  LoadInv
<1>1. NoLoader \notin Loaders /\ "idle" \in Steps
  BY IngestionAssumption DEF Steps
<1>2. Shape
  BY <1>1 DEF Init, Shape, Columnless
<1>3. \A p \in Loaders : Control(p) /\ Progress(p)
  BY <1>1 DEF Init, Control, Progress, Working
<1>4. \A m \in Manifests : Holding(m)
  BY DEF Init, Holding, Columnless
<1>5. QED BY <1>2, <1>3, <1>4 DEF LoadInv

(* An ingest that ends without its transaction leaves nothing. *)
LEMMA EndsEmpty ==
  ASSUME LoadInv, NEW p \in Loaders, NEW how, End(p, FALSE, how)
  PROVE  LoadInv'
<1>1. /\ tables' = tables /\ content' = content
      /\ lock' = IF lock = p THEN NoLoader ELSE lock
      /\ pc' = [pc EXCEPT ![p] = "idle"] /\ bundle' = [bundle EXCEPT ![p] = Idle]
      /\ results' = [results EXCEPT ![p] = <<>>] /\ mine' = [mine EXCEPT ![p] = Columnless]
      /\ at' = [at EXCEPT ![p] = 0] /\ counts' = [counts EXCEPT ![p] = NoCounts]
  BY DEF End
<1>2. Shape /\ Control(p)
  BY DEF LoadInv
<1>3. Shape'
  BY <1>1, <1>2 DEF Shape, Steps, Columnless
<1>4. \A q \in Loaders \ {p} : Control(q)' /\ Progress(q)'
  BY <1>1, <1>2, OthersKept DEF Shape
<1>5. Control(p)' /\ Progress(p)'
  <2>1. pc'[p] = "idle" /\ mine'[p] = Columnless /\ at'[p] = 0 /\ lock' # p
    BY <1>1, <1>2, IngestionAssumption DEF Shape
  <2>2. QED BY <2>1 DEF Control, Progress, Working
<1>6. \A m \in Manifests : Holding(m)'
  BY <1>1 DEF LoadInv, Holding
<1>7. QED BY <1>3, <1>4, <1>5, <1>6 DEF LoadInv

(* One that keeps its transaction leaves the whole bundle, or what was     *)
(* there before.                                                           *)
LEMMA EndsWhole ==
  ASSUME LoadInv, NEW p \in Loaders, NEW how, End(p, TRUE, how),
         \/ pc[p] = "commit"
         \/ pc[p] = "preflight" /\ content[Version(p)] # NoManifest
  PROVE  LoadInv'
<1> DEFINE V == Version(p)
           files == bundle[p].files
<1>1. /\ tables' = [tables EXCEPT ![V] = [a \in Artifacts |-> Seen(p, a)]]
      /\ content' = [content EXCEPT ![V] = files]
      /\ lock' = IF lock = p THEN NoLoader ELSE lock
      /\ pc' = [pc EXCEPT ![p] = "idle"] /\ bundle' = [bundle EXCEPT ![p] = Idle]
      /\ results' = [results EXCEPT ![p] = <<>>] /\ mine' = [mine EXCEPT ![p] = Columnless]
      /\ at' = [at EXCEPT ![p] = 0] /\ counts' = [counts EXCEPT ![p] = NoCounts]
  BY DEF End
<1>2. /\ Shape /\ Control(p) /\ Progress(p) /\ Working(p)
      /\ V \in Manifests /\ Fit(files) /\ files \in Contents /\ files # NoManifest
  BY Accepting DEF LoadInv, Working
<1> HIDE DEF V, files
<1>3. Shape'
  BY <1>1, <1>2 DEF Shape, Steps, Columnless
<1>4. \A q \in Loaders \ {p} : Control(q)' /\ Progress(q)'
  BY <1>1, <1>2, OthersKept DEF Shape
<1>5. Control(p)' /\ Progress(p)'
  <2>1. pc'[p] = "idle" /\ mine'[p] = Columnless /\ at'[p] = 0 /\ lock' # p
    BY <1>1, <1>2, IngestionAssumption DEF Shape
  <2>2. QED BY <2>1 DEF Control, Progress, Working
<1>6. content'[V] = files /\ \A a \in Artifacts : tables'[V][a] = Seen(p, a)
  BY <1>1, <1>2 DEF Shape
<1>7. Holding(V)
  BY <1>2 DEF LoadInv
<1>8. ASSUME NEW a \in Artifacts
      PROVE  /\ {x \in Seen(p, a) : x.own} = Image(files, a)
             /\ \A x \in Seen(p, a) : x.own \/ (x.own = FALSE /\ a = "orders")
  <2>1. CASE content[V] # NoManifest
    <3>1. Seen(p, a) = tables[V][a] /\ content[V] = files
      BY <1>2, <2>1 DEF Progress, Control, Columnless, Seen, V, files
    <3>2. QED BY <1>7, <2>1, <3>1 DEF Holding
  <2>2. CASE content[V] = NoManifest
    <3>1. PICK k \in 1..10 : ApplyOrder[k] = a
      BY AppliedInOrder
    <3>2. mine[p][a] = Image(files, a)
      BY <1>2, <2>2, <3>1 DEF Progress, Control, V, files
    <3>3. tables[V][a] = {}
      BY <1>7, <2>2 DEF Holding, Columnless
    <3>4. Seen(p, a) = Image(files, a)
      BY <3>2, <3>3 DEF Seen, V
    <3>5. \A x \in Image(files, a) : x.own
      BY DEF Image, TableRow
    <3>6. QED BY <3>4, <3>5
  <2>3. QED BY <2>1, <2>2
<1>9. ASSUME NEW m \in Manifests PROVE Holding(m)'
  <2>1. CASE m = V
    BY <1>2, <1>6, <1>8, <2>1 DEF Holding
  <2>2. CASE m # V
    <3>1. content'[m] = content[m] /\ tables'[m] = tables[m] /\ Holding(m)
      BY <1>1, <1>2, <2>2 DEF Shape, LoadInv
    <3>2. QED BY <3>1 DEF Holding
  <2>3. QED BY <2>1, <2>2
<1>10. QED BY <1>3, <1>4, <1>5, <1>9 DEF LoadInv

(* A conflict is with rows of a version that is there. *)
LEMMA ConflictsAreWithRows ==
  ASSUME LoadInv, NEW p \in Loaders, pc[p] = "preflight", SomeConflicting(p)
  PROVE  content[Version(p)] # NoManifest
<1>1. PICK a \in Artifacts : \E row \in Accepted(p, a) : \E x \in Existing(p, a, row) : TRUE
  BY DEF SomeConflicting
<1>2. Seen(p, a) # {}
  BY <1>1 DEF Existing
<1>3. Working(p) /\ Progress(p) /\ at[p] = 0
  BY DEF LoadInv, Control, Working
<1>4. PICK k \in 1..10 : ApplyOrder[k] = a
  BY AppliedInOrder
<1>5. content[Version(p)] = NoManifest => mine[p][a] = {}
  BY <1>3, <1>4 DEF Progress
<1>6. QED BY <1>2, <1>3, <1>5, NewRows

(* The counts that preflight takes are those of the whole bundle. *)
LEMMA PreflightKeeps ==
  ASSUME LoadInv, NEW p \in Loaders, Preflight(p)
  PROVE  LoadInv'
<1> DEFINE V == Version(p)
           files == bundle[p].files
           ins == [a \in Artifacts |-> Cardinality(New(p, a))]
           skip == [a \in Artifacts |-> Cardinality(Accepted(p, a) \ New(p, a))]
<1>1. /\ pc[p] = "preflight" /\ content' = content /\ tables' = tables /\ lock' = lock
      /\ bundle' = bundle /\ results' = results /\ mine' = mine
      /\ pc' = [pc EXCEPT ![p] = "apply"] /\ at' = [at EXCEPT ![p] = 1]
      /\ counts' = [counts EXCEPT ![p] = [inserted |-> ins, skipped |-> skip]]
  BY DEF Preflight
<1>2. /\ Shape /\ Control(p) /\ Progress(p) /\ Working(p) /\ at[p] = 0
      /\ V \in Manifests /\ Fit(files)
      /\ \A a \in Artifacts : Accepted(p, a) = RowsOf(files, a)
  BY <1>1, Accepting DEF LoadInv, Working, Control
<1> HIDE DEF V, files, ins, skip
<1>3. Shape'
  BY <1>1, <1>2 DEF Shape, Steps
<1>4. \A q \in Loaders \ {p} : Control(q)' /\ Progress(q)'
  BY <1>1, <1>2, OthersKept DEF Shape
<1>5. pc'[p] = "apply" /\ at'[p] = 1 /\ counts'[p].inserted = ins /\ counts'[p].skipped = skip
  BY <1>1, <1>2 DEF Shape
<1>6. Control(p)'
  BY <1>1, <1>2, <1>5 DEF Control, Working, Version, Refused
<1>7. \A a \in Artifacts :
        /\ content[V] # NoManifest => New(p, a) = {}
        /\ content[V] = NoManifest => mine[p][a] = {} /\ New(p, a) = RowsOf(files, a)
  <2> SUFFICES ASSUME NEW a \in Artifacts
               PROVE  /\ content[V] # NoManifest => New(p, a) = {}
                      /\ content[V] = NoManifest => mine[p][a] = {} /\ New(p, a) = RowsOf(files, a)
    OBVIOUS
  <2>1. PICK k \in 1..10 : ApplyOrder[k] = a
    BY AppliedInOrder
  <2>2. content[V] = NoManifest => mine[p][a] = {}
    BY <1>2, <2>1 DEF Progress, V
  <2>3. QED BY <1>2, <2>2, NewRows DEF V
<1>8. \A a \in Artifacts :
        /\ ins[a] = IF content[V] = NoManifest THEN Cardinality(RowsOf(files, a)) ELSE 0
        /\ skip[a] = IF content[V] = NoManifest THEN 0 ELSE Cardinality(RowsOf(files, a))
  <2> SUFFICES ASSUME NEW a \in Artifacts
               PROVE  /\ ins[a] = IF content[V] = NoManifest THEN Cardinality(RowsOf(files, a)) ELSE 0
                      /\ skip[a] = IF content[V] = NoManifest THEN 0 ELSE Cardinality(RowsOf(files, a))
    OBVIOUS
  <2>1. /\ ins[a] = Cardinality(New(p, a))
        /\ skip[a] = Cardinality(RowsOf(files, a) \ New(p, a))
        /\ Cardinality({}) = 0
    BY <1>2, FS_EmptySet DEF ins, skip
  <2>2. QED BY <1>7, <2>1
<1>9. Progress(p)'
  <2>1. content'[Version(p)'] = content[V] /\ bundle'[p].files = files
    BY <1>1 DEF Version, V, files
  <2>2. \A k \in 1..10 : content[V] = NoManifest =>
          mine'[p][ApplyOrder[k]] = IF k < at'[p] THEN Image(files, ApplyOrder[k]) ELSE {}
    <3> SUFFICES ASSUME NEW k \in 1..10, content[V] = NoManifest
                 PROVE  mine'[p][ApplyOrder[k]] = {} /\ ~(k < at'[p])
      OBVIOUS
    <3>1. ApplyOrder[k] \in Artifacts
      BY AppliedInOrder
    <3>2. QED BY <1>1, <1>5, <1>7, <3>1
  <2>3. content[V] # NoManifest => mine'[p] = Columnless
    BY <1>1, <1>2 DEF Progress, V
  <2>4. QED BY <1>5, <1>8, <2>1, <2>2, <2>3 DEF Progress
<1>10. \A m \in Manifests : Holding(m)'
  BY <1>1 DEF LoadInv, Holding
<1>11. QED BY <1>3, <1>4, <1>6, <1>9, <1>10 DEF LoadInv

(* Applying an artifact writes all of it, or nothing if it is there. *)
LEMMA ApplyKeeps ==
  ASSUME LoadInv, NEW p \in Loaders, Apply(p)
  PROVE  LoadInv'
<1> DEFINE V == Version(p)
           files == bundle[p].files
           a == Applying(p)
           more == {TableRow(Stored(row), TRUE) : row \in New(p, a)}
<1>1. /\ pc[p] = "apply" /\ content' = content /\ tables' = tables /\ lock' = lock
      /\ bundle' = bundle /\ results' = results /\ counts' = counts
      /\ mine' = [mine EXCEPT ![p][a] = @ \cup more]
      /\ at' = [at EXCEPT ![p] = @ + 1]
      /\ pc' = IF at[p] = 10 THEN [pc EXCEPT ![p] = "commit"] ELSE pc
  BY AppliedInOrder DEF Apply
<1>2. /\ Shape /\ Control(p) /\ Progress(p) /\ Working(p) /\ at[p] \in 1..10
      /\ V \in Manifests /\ Fit(files)
      /\ \A b \in Artifacts : Accepted(p, b) = RowsOf(files, b)
  BY <1>1, Accepting DEF LoadInv, Working, Control
<1>3. a \in Artifacts /\ a = ApplyOrder[at[p]]
  BY <1>2, AppliedInOrder DEF Applying
<1> HIDE DEF V, files, a
<1>4. /\ content[V] # NoManifest => more = {}
      /\ content[V] = NoManifest => mine[p][a] = {} /\ more = Image(files, a)
  <2>1. content[V] = NoManifest => mine[p][a] = {}
    BY <1>2, <1>3 DEF Progress, V
  <2>2. QED BY <1>2, <1>3, <2>1, NewRows DEF V, Image
<1> HIDE DEF more
<1>5. /\ at'[p] = at[p] + 1
      /\ mine'[p] = [mine[p] EXCEPT ![a] = @ \cup more]
      /\ pc'[p] = IF at[p] = 10 THEN "commit" ELSE "apply"
      /\ \A q \in Loaders \ {p} : mine'[q] = mine[q] /\ at'[q] = at[q] /\ pc'[q] = pc[q]
  BY <1>1, <1>2 DEF Shape
<1>6. Shape'
  <2>1. mine' = [q \in Loaders |-> [b \in Artifacts |-> mine'[q][b]]]
    <3>1. mine = [q \in Loaders |-> [b \in Artifacts |-> mine[q][b]]]
      BY <1>2 DEF Shape
    <3>2. QED BY <1>1, <3>1
  <2>2. QED BY <1>1, <1>2, <2>1 DEF Shape, Steps
<1>7. \A q \in Loaders \ {p} : Control(q)' /\ Progress(q)'
  BY <1>1, <1>2, <1>5, OthersKept
<1>8. Control(p)'
  BY <1>1, <1>2, <1>5 DEF Control, Working, Version, Refused
<1>9. Progress(p)'
  <2>1. content'[Version(p)'] = content[V] /\ bundle'[p].files = files
    BY <1>1 DEF Version, V, files
  <2>2. \A b \in Artifacts : mine'[p][b] = IF b = a THEN mine[p][b] \cup more ELSE mine[p][b]
    <3>1. DOMAIN mine[p] = Artifacts
      BY <1>2 DEF Shape
    <3>2. QED BY <1>3, <1>5, <3>1
  <2>3. ASSUME NEW k \in 1..10, content[V] = NoManifest
        PROVE  mine'[p][ApplyOrder[k]] = IF k < at'[p] THEN Image(files, ApplyOrder[k]) ELSE {}
    <3>1. /\ ApplyOrder[k] \in Artifacts
          /\ ApplyOrder[k] = a <=> k = at[p]
      BY <1>2, <1>3, AppliedInOrder
    <3>2. mine[p][ApplyOrder[k]] = IF k < at[p] THEN Image(files, ApplyOrder[k]) ELSE {}
      BY <1>2, <2>3 DEF Progress, V, files
    <3>3. QED BY <1>2, <1>4, <1>5, <2>2, <2>3, <3>1, <3>2
  <2>4. content[V] # NoManifest => mine'[p] = Columnless
    <3>1. content[V] # NoManifest => mine[p] = Columnless /\ more = {}
      BY <1>2, <1>4 DEF Progress, V
    <3>2. QED BY <1>5, <3>1 DEF Columnless
  <2>5. \A b \in Artifacts :
          LET size == Cardinality(RowsOf(files, b)) IN
          /\ counts'[p].inserted[b] = IF content[V] = NoManifest THEN size ELSE 0
          /\ counts'[p].skipped[b] = IF content[V] = NoManifest THEN 0 ELSE size
    BY <1>1, <1>2 DEF Progress, V, files
  <2>6. QED BY <2>1, <2>3, <2>4, <2>5 DEF Progress
<1>10. \A m \in Manifests : Holding(m)'
  BY <1>1 DEF LoadInv, Holding
<1>11. QED BY <1>6, <1>7, <1>8, <1>9, <1>10 DEF LoadInv

(* No step breaks the invariant. *)
LEMMA LoadNext ==
  ASSUME LoadInv, [Next]_vars
  PROVE  LoadInv'
<1> USE IngestionAssumption
<1>1. Shape
  BY DEF LoadInv
<1>2. ASSUME NEW p \in Loaders, NEW b \in Bundles, Start(p, b)
      PROVE  LoadInv'
  <2>1. Control(p) /\ ~Working(p)
    BY <1>2 DEF LoadInv, Start, Working
  <2>2. \A q \in Loaders \ {p} : Control(q)' /\ Progress(q)'
    BY <1>1, <1>2, OthersKept DEF Start, Shape
  <2>3. Shape'
    BY <1>1, <1>2 DEF Shape, Start, Steps
  <2>4. pc'[p] = "read" /\ bundle'[p] = b
    BY <1>1, <1>2 DEF Shape, Start
  <2>5. Control(p)' /\ Progress(p)'
    BY <1>2, <2>1, <2>4 DEF Start, Control, Progress, Working
  <2>6. \A m \in Manifests : Holding(m)'
    BY <1>2 DEF LoadInv, Holding, Start
  <2>7. QED BY <2>2, <2>3, <2>5, <2>6 DEF LoadInv
<1>3. ASSUME NEW p \in Loaders, Read(p) PROVE LoadInv'
  <2>1. Control(p) /\ ~Working(p)
    BY <1>3 DEF LoadInv, Read, Working
  <2>2. \A q \in Loaders \ {p} : Control(q)' /\ Progress(q)'
    BY <1>1, <1>3, OthersKept DEF Read, Shape
  <2>3. Shape'
    BY <1>1, <1>3 DEF Shape, Read, Steps
  <2>4. /\ pc'[p] = "validate" /\ bundle' = bundle /\ mine' = mine /\ at' = at /\ lock' = lock
        /\ results'[p] = ValidateBundle(DOMAIN bundle[p].declared, bundle[p].files)
    BY <1>1, <1>3 DEF Shape, Read
  <2>5. Control(p)' /\ Progress(p)'
    <3>1. pc[p] = "read"
      BY <1>3 DEF Read
    <3>2. QED BY <2>1, <2>4, <3>1 DEF Control, Progress, Working
  <2>6. \A m \in Manifests : Holding(m)'
    BY <1>3 DEF LoadInv, Holding, Read
  <2>7. QED BY <2>2, <2>3, <2>5, <2>6 DEF LoadInv
<1>4. ASSUME NEW p \in Loaders, Open(p) PROVE LoadInv'
  <2>1. Control(p) /\ ~Working(p) /\ pc[p] = "validate" /\ ~Refused(p)
    BY <1>4 DEF LoadInv, Open, Working
  <2>2. \A q \in Loaders \ {p} : Control(q)' /\ Progress(q)'
    BY <1>1, <1>4, OthersKept DEF Open, Shape, localVars
  <2>3. Shape'
    BY <1>1, <1>4 DEF Shape, Open, Steps, localVars
  <2>4. pc'[p] = "ensure" /\ bundle' = bundle /\ mine' = mine /\ at' = at /\ lock' = lock /\ results' = results
    BY <1>1, <1>4 DEF Shape, Open, localVars
  <2>5. Control(p)' /\ Progress(p)'
    BY <2>1, <2>4 DEF Control, Progress, Working, Refused
  <2>6. \A m \in Manifests : Holding(m)'
    BY <1>4 DEF LoadInv, Holding, Open
  <2>7. QED BY <2>2, <2>3, <2>5, <2>6 DEF LoadInv
<1>5. ASSUME NEW p \in Loaders, Ensure(p) PROVE LoadInv'
  <2>1. /\ Control(p) /\ ~Working(p) /\ pc[p] = "ensure" /\ lock = NoLoader
        /\ content[Version(p)] \in {NoManifest, bundle[p].files}
    BY <1>5 DEF LoadInv, Ensure, Working
  <2>2. \A q \in Loaders \ {p} : Control(q)' /\ Progress(q)'
    BY <1>1, <1>5, OthersKept DEF Ensure, Shape, localVars
  <2>3. Shape'
    BY <1>1, <1>5 DEF Shape, Ensure, Steps, localVars
  <2>4. /\ pc'[p] = "preflight" /\ bundle' = bundle /\ mine' = mine /\ at' = at /\ lock' = p
        /\ results' = results /\ content' = content
    BY <1>1, <1>5 DEF Shape, Ensure, localVars
  <2>5. Control(p)'
    BY <2>1, <2>4 DEF Control, Working, Refused, Version
  <2>6. Progress(p)'
    <3>1. \A k \in 1..10 : ApplyOrder[k] \in Artifacts
      BY AppliedInOrder
    <3>2. mine'[p] = Columnless /\ at'[p] = 0
      BY <2>1, <2>4 DEF Control
    <3>3. QED BY <2>4, <3>1, <3>2 DEF Progress, Columnless
  <2>7. \A m \in Manifests : Holding(m)'
    BY <1>5 DEF LoadInv, Holding, Ensure
  <2>8. QED BY <2>2, <2>3, <2>5, <2>6, <2>7 DEF LoadInv
<1>6. ASSUME NEW p \in Loaders, Unreadable(p) \/ Reject(p) \/ OtherContent(p) \/ ApplyFails(p) \/ Crash(p)
      PROVE  LoadInv'
  BY <1>6, EndsEmpty DEF Unreadable, Reject, OtherContent, ApplyFails, Crash
<1>7. ASSUME NEW p \in Loaders, Conflict(p) PROVE LoadInv'
  BY <1>7, EndsWhole, ConflictsAreWithRows DEF Conflict
<1>8. ASSUME NEW p \in Loaders, Commit(p) PROVE LoadInv'
  BY <1>8, EndsWhole DEF Commit
<1>9. ASSUME NEW m \in Manifests, NEW row \in Projections, Project(m, row) PROVE LoadInv'
  <2> HIDE IngestionAssumption
  <2> DEFINE new == TableRow(row, FALSE)
  <2>1. /\ content[m] # NoManifest /\ content' = content /\ lock' = lock /\ pc' = pc
        /\ bundle' = bundle /\ results' = results /\ mine' = mine /\ at' = at /\ counts' = counts
        /\ tables' = [tables EXCEPT ![m]["orders"] = @ \cup {new}]
    BY <1>9 DEF Project, localVars
  <2> HIDE DEF new
  <2>2. Shape'
    <3>1. tables = [n \in Manifests |-> [a \in Artifacts |-> tables[n][a]]]
      BY <1>1 DEF Shape
    <3>2. tables' = [n \in Manifests |-> [a \in Artifacts |-> tables'[n][a]]]
      BY <2>1, <3>1
    <3>3. QED BY <1>1, <2>1, <3>2 DEF Shape
  <2>3. \A p \in Loaders : Control(p)' /\ Progress(p)'
    BY <2>1 DEF LoadInv, Control, Progress, Working, Version, Refused
  <2>4. ASSUME NEW n \in Manifests PROVE Holding(n)'
    <3>1. Holding(n)
      BY DEF LoadInv
    <3>2. CASE n # m
      <4>1. tables'[n] = tables[n]
        BY <1>1, <2>1, <3>2 DEF Shape
      <4>2. QED BY <2>1, <3>1, <4>1 DEF Holding
    <3>3. CASE n = m
      <4>1. \A a \in Artifacts : tables'[m][a] = IF a = "orders" THEN tables[m][a] \cup {new} ELSE tables[m][a]
        BY <1>1, <2>1 DEF Shape
      <4>2. new.own = FALSE
        BY DEF TableRow, new
      <4>3. \A a \in Artifacts :
              /\ {x \in tables'[m][a] : x.own} = {x \in tables[m][a] : x.own}
              /\ \A x \in tables'[m][a] : x.own \/ (x.own = FALSE /\ a = "orders")
        <5>1. \A a \in Artifacts : \A x \in tables[m][a] : x.own \/ (x.own = FALSE /\ a = "orders")
          BY <3>1, <3>3 DEF Holding
        <5>2. \A a \in Artifacts : \A x : x \in tables'[m][a] <=> x \in tables[m][a] \/ (a = "orders" /\ x = new)
          <6> SUFFICES ASSUME NEW a \in Artifacts, NEW x
                       PROVE  x \in tables'[m][a] <=> x \in tables[m][a] \/ (a = "orders" /\ x = new)
            OBVIOUS
          <6>1. CASE a = "orders"
            <7>1. tables'[m][a] = tables[m][a] \cup {new}
              BY <4>1, <6>1, Zenon
            <7>2. QED BY <6>1, <7>1, Zenon
          <6>2. CASE a # "orders"
            BY <4>1, <6>2
          <6>3. QED BY <6>1, <6>2
        <5>3. QED BY <4>2, <5>1, <5>2
      <4>4. QED BY <2>1, <3>1, <3>3, <4>3 DEF Holding
    <3>4. QED BY <3>2, <3>3
  <2>5. QED BY <2>2, <2>3, <2>4 DEF LoadInv
<1>10. ASSUME UNCHANGED vars PROVE LoadInv'
  <2>1. /\ content' = content /\ tables' = tables /\ lock' = lock /\ pc' = pc /\ bundle' = bundle
        /\ results' = results /\ mine' = mine /\ at' = at /\ counts' = counts
    BY <1>10 DEF vars, localVars
  <2>2. Shape'
    BY <1>1, <2>1 DEF Shape
  <2>3. \A p \in Loaders : Control(p)' /\ Progress(p)'
    BY <2>1 DEF LoadInv, Control, Progress, Working, Version, Refused
  <2>4. \A m \in Manifests : Holding(m)'
    BY <2>1 DEF LoadInv, Holding
  <2>5. QED BY <2>2, <2>3, <2>4 DEF LoadInv
<1>11. QED
  BY <1>2, <1>3, <1>4, <1>5, <1>6, <1>7, <1>8, <1>9, <1>10, PreflightKeeps, ApplyKeeps DEF Next, AllLoaded

LEMMA LoadInvariant == Spec => []LoadInv
<1>1. Init => LoadInv
  BY LoadInit
<1>2. LoadInv /\ [Next]_vars => LoadInv'
  BY LoadNext
<1>3. QED BY <1>1, <1>2, PTL DEF Spec

-----------------------------------------------------------------------------
(* Theorems *)

(* The loops of validation accept exactly what the definition without      *)
(* loops accepts (validation.py:109-327), for files of any length.         *)
THEOREM ExactValidation == Spec => []ValidationIsExact
<1>1. LoadInv => ValidationIsExact
  <2> SUFFICES ASSUME LoadInv, NEW p \in Loaders, pc[p] = "validate"
               PROVE  LET declared == bundle[p].declared
                          files == bundle[p].files
                      IN  /\ Refused(p) <=> ~Consistent(declared, files)
                          /\ ~Refused(p) => \A a \in DOMAIN files :
                               Accepted(p, a) = {Canonical(files[a].rows[n]) : n \in DOMAIN files[a].rows}
    BY DEF ValidationIsExact
  <2> DEFINE declared == bundle[p].declared
             files == bundle[p].files
  <2>1. bundle[p] \in Bundles /\ results[p] = ValidateBundle(DOMAIN declared, files)
    BY DEF LoadInv, Control
  <2>2. AreFiles(declared, files)
    BY <2>1, BundleFiles
  <2> HIDE DEF declared, files
  <2>3. LET results_of == ValidateBundle(DOMAIN declared, files)
            refused == Rejections(results_of) # {} \/ Miscounted(declared, files) # {}
        IN  /\ refused <=> ~Consistent(declared, files)
            /\ ~refused => \A a \in DOMAIN files :
                 AcceptedRows(results_of, a) = {Canonical(files[a].rows[n]) : n \in DOMAIN files[a].rows}
    BY <2>2, ExactlyConsistent
  <2>4. QED BY <2>1, <2>3 DEF Refused, Accepted, declared, files
<1>2. QED BY <1>1, LoadInvariant, PTL

(* An error or a crash between two artifacts leaves no part of a bundle    *)
(* (loader.py:418-442).                                                    *)
THEOREM WholeVersions == Spec => []VersionsAreWhole
<1>1. LoadInv => VersionsAreWhole
  <2> SUFFICES ASSUME LoadInv, NEW m \in Manifests, content[m] # NoManifest,
                      NEW a \in DOMAIN content[m], NEW n \in DOMAIN content[m][a].rows
               PROVE  TableRow(Stored(Canonical(content[m][a].rows[n])), TRUE) \in tables[m][a]
    BY DEF VersionsAreWhole
  <2>1. PICK b \in Bundles : content[m] = b.files
    BY DEF LoadInv, Shape, Contents
  <2>2. a \in Artifacts
    BY <2>1, BundleFiles
  <2>3. TableRow(Stored(Canonical(content[m][a].rows[n])), TRUE) \in Image(content[m], a)
    BY DEF Image, RowsOf
  <2>4. {x \in tables[m][a] : x.own} = Image(content[m], a)
    BY <2>2 DEF LoadInv, Holding
  <2>5. QED BY <2>3, <2>4
<1>2. QED BY <1>1, LoadInvariant, PTL

(* A row is never applied before the rows it refers to (loader.py:298-372). *)
THEOREM ParentsFirst == Spec => []ParentsComeFirst
<1>1. LoadInv => ParentsComeFirst
  <2> SUFFICES ASSUME LoadInv, NEW p \in Loaders, pc[p] = "apply",
                      NEW row \in New(p, Applying(p)), NEW rel \in RelationsOf(Applying(p))
               PROVE  row.refs[rel] \in Collected(p, rel)
    BY DEF ParentsComeFirst, Unresolved
  <2> DEFINE V == Version(p)
             files == bundle[p].files
             a == Applying(p)
  <2>1. /\ Working(p) /\ Progress(p) /\ at[p] \in 1..10 /\ Holding(V)
        /\ Fit(files) /\ DOMAIN files \subseteq Artifacts
        /\ content[V] \in {NoManifest, files}
        /\ \A b \in Artifacts : Accepted(p, b) = RowsOf(files, b)
    BY Accepting DEF LoadInv, Working, Control
  <2>2. a \in Artifacts /\ a = ApplyOrder[at[p]]
    BY <2>1, AppliedInOrder DEF Applying
  <2>3. PICK n \in 1..at[p] - 1 : ApplyOrder[n] = rel
    BY <2>1, <2>2, AppliedInOrder
  <2>4. rel \in Artifacts
    BY <2>1, <2>3, AppliedInOrder
  <2>5. row \in RowsOf(files, a)
    BY <2>1, <2>2 DEF New
  <2>6. PICK parent \in RowsOf(files, rel) : parent.id = row.refs[rel]
    BY <2>1, <2>5, ParentsThere
  <2> DEFINE kept == TableRow(Stored(parent), TRUE)
  <2>7. kept \in Image(files, rel) /\ kept.row = Stored(parent)
    BY DEF Image, TableRow
  <2> HIDE DEF kept
  <2>8. kept \in Seen(p, rel)
    <3>1. CASE content[V] = NoManifest
      <4>1. mine[p][rel] = Image(files, rel)
        BY <2>1, <2>3, <3>1 DEF Progress
      <4>2. QED BY <2>7, <4>1 DEF Seen
    <3>2. CASE content[V] # NoManifest
      <4>1. {x \in tables[V][rel] : x.own} = Image(files, rel)
        BY <2>1, <2>4, <3>2 DEF Holding
      <4>2. QED BY <2>7, <4>1 DEF Seen
    <3>3. QED BY <3>1, <3>2
  <2>9. kept.row.id = row.refs[rel]
    BY <2>1, <2>6, <2>7, StoredRow
  <2>10. QED BY <2>3, <2>8, <2>9 DEF Collected
<1>2. QED BY <1>1, LoadInvariant, PTL

(* What a load finds under the key of a row that it has already stored.    *)
LEMMA FoundAgain ==
  ASSUME LoadInv, NEW p \in Loaders, pc[p] = "preflight", NEW a \in Artifacts,
         NEW row \in Accepted(p, a), NEW x \in Existing(p, a, row)
  PROVE  /\ x \in tables[Version(p)][a]
         /\ a = "inventory" => x.own
         /\ x.own => x.row = Stored(row)
         /\ Stored(row).at = row.at
<1> DEFINE V == Version(p)
           files == bundle[p].files
<1>1. /\ Working(p) /\ Progress(p) /\ at[p] = 0 /\ Holding(V)
      /\ Fit(files) /\ content[V] \in {NoManifest, files} /\ row \in RowsOf(files, a)
  BY Accepting DEF LoadInv, Working, Control
<1>2. x \in Seen(p, a) /\ SameKey(a, x.row, row)
  BY DEF Existing
<1>3. content[V] # NoManifest
  <2>1. PICK k \in 1..10 : ApplyOrder[k] = a
    BY AppliedInOrder
  <2>2. content[V] = NoManifest => mine[p][a] = {}
    BY <1>1, <2>1 DEF Progress
  <2>3. QED BY <1>1, <1>2, <2>2, NewRows
<1>4. x \in tables[V][a]
  BY <1>1, <1>2, <1>3 DEF Progress, Seen, Columnless
<1>5. a = "inventory" => x.own
  BY <1>1, <1>4 DEF Holding
<1>6. ASSUME x.own PROVE x.row = Stored(row)
  <2>1. x \in Image(files, a)
    BY <1>1, <1>3, <1>4, <1>6 DEF Holding
  <2>2. PICK other \in RowsOf(files, a) : x.row = Stored(other)
    BY <2>1 DEF Image, TableRow
  <2>3. SameKey(a, other, row)
    BY <1>1, <1>2, <2>2, StoredRow
  <2>4. QED BY <1>1, <2>2, <2>3, RowsDiffer
<1>7. Stored(row).at = row.at
  BY <1>1, StoredRow
<1>8. QED BY <1>4, <1>5, <1>6, <1>7

(* "A newer inventory snapshot updates its natural key" (README.md:137),   *)
(* but the branches for it (loader.py:256-267, 366-369) are never taken:   *)
(* newer files are refused by ensure under their manifest, and go into     *)
(* another version under another one.                                      *)
THEOREM SnapshotsAreNeverNewer ==
  Spec => [](\A p \in Loaders : pc[p] = "preflight" =>
               \A row \in Accepted(p, "inventory") :
                 \A x \in Existing(p, "inventory", row) : x.row.at = row.at)
<1> DEFINE OneTime ==
             \A p \in Loaders : pc[p] = "preflight" =>
               \A row \in Accepted(p, "inventory") :
                 \A x \in Existing(p, "inventory", row) : x.row.at = row.at
<1>1. LoadInv => OneTime
  <2>1. "inventory" \in Artifacts
    BY DEF Artifacts
  <2>2. QED BY <2>1, FoundAgain
<1> HIDE DEF OneTime
<1>2. Spec => []OneTime
  BY <1>1, LoadInvariant, PTL
<1>3. QED BY <1>2 DEF OneTime

(* A version keeps its rows, whoever loads the bundle again                *)
(* (loader.py:204-280).                                                    *)
THEOREM QuietReload == Spec => ReloadChangesNothing
<1>1. LoadInv /\ LoadInv' /\ [Next]_vars =>
        [\A m \in Manifests : content[m] # NoManifest =>
           \A a \in Artifacts :
             {x \in tables'[m][a] : x.own} = {x \in tables[m][a] : x.own}]_vars
  <2> SUFFICES ASSUME LoadInv, LoadInv', [Next]_vars, NEW m \in Manifests, content[m] # NoManifest,
                      NEW a \in Artifacts
               PROVE  {x \in tables'[m][a] : x.own} = {x \in tables[m][a] : x.own}
    OBVIOUS
  <2>1. content'[m] = content[m]
    <3>1. CASE content' = content
      BY <3>1
    <3>2. CASE \E p \in Loaders : \E how : End(p, TRUE, how) /\ Working(p)
      <4>1. PICK p \in Loaders : content' = [content EXCEPT ![Version(p)] = bundle[p].files] /\ Working(p)
        BY <3>2 DEF End
      <4>2. content[Version(p)] \in {NoManifest, bundle[p].files}
        BY <4>1 DEF LoadInv, Control
      <4>3. QED BY <4>1, <4>2 DEF LoadInv, Shape
    <3>3. content' = content \/ \E p \in Loaders : \E how : End(p, TRUE, how) /\ Working(p)
      <4>1. ASSUME NEW p \in Loaders, Conflict(p) \/ Commit(p)
            PROVE  \E how : End(p, TRUE, how) /\ Working(p)
        BY <4>1 DEF Conflict, Commit, Working
      <4>2. ASSUME NEW p \in Loaders,
                   \/ \E b \in Bundles : Start(p, b)
                   \/ Read(p) \/ Unreadable(p) \/ Reject(p) \/ Open(p) \/ Ensure(p) \/ OtherContent(p)
                   \/ Preflight(p) \/ Apply(p) \/ ApplyFails(p) \/ Crash(p)
            PROVE  content' = content
        BY <4>2 DEF Start, Read, Unreadable, Reject, Open, Ensure, OtherContent, Preflight, Apply,
                    ApplyFails, Crash, End
      <4>3. QED BY <4>1, <4>2 DEF Next, Project, AllLoaded, vars
    <3>4. QED BY <3>1, <3>2, <3>3
  <2>2. {x \in tables[m][a] : x.own} = Image(content[m], a)
    BY DEF LoadInv, Holding
  <2>3. {x \in tables'[m][a] : x.own} = Image(content'[m], a)
    BY <2>1 DEF LoadInv, Holding
  <2>4. QED BY <2>1, <2>2, <2>3
<1>2. QED BY <1>1, LoadInvariant, PTL DEF Spec, ReloadChangesNothing

(* The summaries of a load say what its transaction wrote                  *)
(* (loader.py:219-234, 305-372).                                           *)
THEOREM TrueSummaries == Spec => SummariesAreTrue
<1>1. LoadInv /\ [Next]_vars =>
        [\A p \in Loaders : Commit(p) =>
           \A a \in Artifacts :
             /\ counts[p].inserted[a] = Cardinality(tables'[Version(p)][a] \ tables[Version(p)][a])
             /\ counts[p].inserted[a] + counts[p].skipped[a] = Cardinality(Accepted(p, a))]_vars
  <2> SUFFICES ASSUME LoadInv, NEW p \in Loaders, Commit(p), NEW a \in Artifacts
               PROVE  /\ counts[p].inserted[a] = Cardinality(tables'[Version(p)][a] \ tables[Version(p)][a])
                      /\ counts[p].inserted[a] + counts[p].skipped[a] = Cardinality(Accepted(p, a))
    OBVIOUS
  <2> DEFINE V == Version(p)
             files == bundle[p].files
             size == Cardinality(RowsOf(files, a))
  <2>1. /\ pc[p] = "commit" /\ Working(p) /\ Progress(p) /\ at[p] = 11 /\ Shape
        /\ V \in Manifests /\ Fit(files) /\ Accepted(p, a) = RowsOf(files, a) /\ Holding(V)
        /\ tables' = [tables EXCEPT ![V] = [b \in Artifacts |-> Seen(p, b)]]
    BY Accepting DEF LoadInv, Working, Control, Commit, End
  <2>2. tables'[V][a] = Seen(p, a)
    BY <2>1 DEF Shape
  <2>3. size \in Nat /\ Cardinality(Image(files, a)) = size /\ Cardinality({}) = 0
    BY <2>1, ImageSize, FS_EmptySet
  <2>4. /\ counts[p].inserted[a] = IF content[V] = NoManifest THEN size ELSE 0
        /\ counts[p].skipped[a] = IF content[V] = NoManifest THEN 0 ELSE size
    BY <2>1 DEF Progress
  <2>5. Cardinality(tables'[V][a] \ tables[V][a]) = IF content[V] = NoManifest THEN size ELSE 0
    <3>1. CASE content[V] = NoManifest
      <4>1. PICK k \in 1..10 : ApplyOrder[k] = a
        BY AppliedInOrder
      <4>2. mine[p][a] = Image(files, a)
        BY <2>1, <3>1, <4>1 DEF Progress
      <4>3. tables[V][a] = {}
        BY <2>1, <3>1 DEF Holding, Columnless
      <4>4. tables'[V][a] \ tables[V][a] = Image(files, a)
        BY <2>2, <4>2, <4>3 DEF Seen
      <4>5. QED BY <2>3, <3>1, <4>4
    <3>2. CASE content[V] # NoManifest
      <4>1. mine[p][a] = {}
        BY <2>1, <3>2 DEF Progress, Columnless
      <4>2. tables'[V][a] \ tables[V][a] = {}
        BY <2>2, <4>1 DEF Seen
      <4>3. QED BY <2>3, <3>2, <4>2
    <3>3. QED BY <3>1, <3>2
  <2> HIDE DEF size
  <2>6. QED BY <2>1, <2>3, <2>4, <2>5 DEF size
<1>2. QED BY <1>1, LoadInvariant, PTL DEF Spec, SummariesAreTrue

-----------------------------------------------------------------------------
(* Types.  What validation let through, less what the columns refuse, is   *)
(* all that a table has of a text that was not a plain value.              *)
Oddities == {"blank", "beyond", "rounded"}

IsKept(x) == x.own \in BOOLEAN /\ \A f \in DOMAIN x.row.odd : x.row.odd[f] \in Oddities

TypeInv ==
  /\ TypeOK
  /\ \A p \in Loaders, a \in Artifacts : \A x \in mine[p][a] : IsKept(x)

\* a row that was accepted and that its columns hold
LEMMA StoredKept ==
  ASSUME NEW files, Fit(files), NEW a, NEW row \in RowsOf(files, a), Holds(a, row)
  PROVE  IsKept(TableRow(Stored(row), TRUE))
<1>1. a \in DOMAIN files
  BY DEF RowsOf
<1>2. PICK n \in DOMAIN files[a].rows : row = Canonical(files[a].rows[n])
  BY <1>1 DEF RowsOf
<1> DEFINE raw == files[a].rows[n]
           odd == Restrict(raw.odd, {f \in DOMAIN raw.odd : raw.odd[f] # "padded"})
           kept == [f \in DOMAIN row.odd |-> IF row.odd[f] \in {"fine", "tiny"} THEN "rounded" ELSE row.odd[f]]
<1>3. IsRow(a, raw) /\ Flawless(a, raw)
  BY <1>1 DEF Fit, IsFile, Sound
<1>4. \A f \in DOMAIN raw.odd :
        raw.odd[f] \in {"blank", "padded", "beyond", "fine", "tiny", "long"}
  BY <1>3 DEF IsRow, Flawless, Classes
<1>5. row = [raw EXCEPT !.odd = odd]
  BY <1>2, Zenon DEF Canonical
<1>6. \A f \in DOMAIN odd : odd[f] \in {"blank", "beyond", "fine", "tiny", "long"}
  BY <1>4 DEF Restrict
<1>7. Stored(row) = [row EXCEPT !.odd = kept]
  BY Zenon DEF Stored
<1> HIDE DEF raw, odd
<1>8. /\ DOMAIN row = {"id", "refs", "name", "at", "odd"} /\ row.odd = odd
  BY <1>3, <1>5 DEF IsRow
<1>9. \A f \in DOMAIN row.odd : row.odd[f] # "long"
  BY DEF Holds
<1>10. \A f \in DOMAIN kept : kept[f] \in Oddities
  BY <1>6, <1>8, <1>9 DEF Oddities
<1> HIDE DEF kept
<1>11. Stored(row).odd = kept
  BY <1>7, <1>8
<1>12. QED BY <1>10, <1>11 DEF IsKept, TableRow

LEMMA TypeInit == Init => TypeInv
<1> SUFFICES ASSUME Init PROVE TypeInv
  OBVIOUS
<1>1. Len(Order) + 1 = 11
  BY DEF Order
<1>2. \A m \in Manifests, a \in Artifacts : tables[m][a] = {}
  BY DEF Init, Columnless
<1>3. \A p \in Loaders, a \in Artifacts : mine[p][a] = {}
  BY DEF Init, Columnless
<1>4. 0 \in 0..11 /\ 0 \in 0..MaxLoads
  BY IngestionAssumption
<1>5. QED BY <1>1, <1>2, <1>3, <1>4 DEF Init, TypeInv, TypeOK, Steps, Answers

\* a step that leaves the rows and the versions alone
LEMMA TypeQuiet ==
  ASSUME TypeInv, LoadInv', tables' = tables, mine' = mine,
         at' \in [Loaders -> 0..11], answer' \in [Loaders -> Answers], loads' \in 0..MaxLoads
  PROVE  TypeInv'
<1>1. Len(Order) + 1 = 11
  BY DEF Order
<1>2. /\ \A m \in Manifests : content'[m] = NoManifest \/ content'[m] \in Contents
      /\ lock' \in Loaders \cup {NoLoader} /\ pc' \in [Loaders -> Steps]
      /\ \A p \in Loaders : bundle'[p] = Idle \/ bundle'[p] \in Bundles
  BY DEF LoadInv, Shape
<1>3. QED BY <1>1, <1>2 DEF TypeInv, TypeOK

\* the end of an ingest publishes its rows or drops them
LEMMA TypeEnd ==
  ASSUME TypeInv, LoadInv, LoadInv', NEW p \in Loaders, pc[p] # "idle", NEW keep \in BOOLEAN,
         NEW how \in Answers, End(p, keep, how)
  PROVE  TypeInv'
<1>1. /\ tables' = IF keep THEN [tables EXCEPT ![Version(p)] = [a \in Artifacts |-> Seen(p, a)]]
                   ELSE tables
      /\ mine' = [mine EXCEPT ![p] = Columnless] /\ at' = [at EXCEPT ![p] = 0]
      /\ answer' = [answer EXCEPT ![p] = how] /\ loads' = loads
  BY DEF End
<1>2. Len(Order) + 1 = 11
  BY DEF Order
<1>3. /\ \A m \in Manifests : content'[m] = NoManifest \/ content'[m] \in Contents
      /\ lock' \in Loaders \cup {NoLoader} /\ pc' \in [Loaders -> Steps]
      /\ \A q \in Loaders : bundle'[q] = Idle \/ bundle'[q] \in Bundles
  BY DEF LoadInv, Shape
<1>4. Version(p) \in Manifests
  <2>1. bundle[p] \in Bundles
    BY DEF LoadInv, Control
  <2>2. QED BY <2>1, BundleFiles DEF Version
<1>5. \A m \in Manifests, a \in Artifacts : \A x \in tables[m][a] : IsKept(x)
  BY DEF TypeInv, TypeOK, IsKept, Oddities
<1>6. ASSUME NEW m \in Manifests, NEW a \in Artifacts, NEW x \in tables'[m][a] PROVE IsKept(x)
  <2>1. x \in tables[m][a] \/ (m = Version(p) /\ x \in Seen(p, a))
    BY <1>1, <1>6 DEF LoadInv, Shape
  <2>2. QED BY <1>4, <1>5, <2>1 DEF TypeInv, Seen
<1>7. ASSUME NEW q \in Loaders, NEW a \in Artifacts, NEW x \in mine'[q][a] PROVE IsKept(x)
  <2>1. mine'[q] = IF q = p THEN Columnless ELSE mine[q]
    BY <1>1 DEF LoadInv, Shape
  <2>2. QED BY <1>7, <2>1 DEF TypeInv, Columnless
<1>8. /\ at' \in [Loaders -> 0..11] /\ answer' \in [Loaders -> Answers] /\ loads' \in 0..MaxLoads
  BY <1>1, <1>2 DEF TypeInv, TypeOK
<1>9. QED BY <1>2, <1>3, <1>6, <1>7, <1>8 DEF TypeInv, TypeOK, IsKept, Oddities

\* an artifact that is applied
LEMMA TypeApply ==
  ASSUME TypeInv, LoadInv, LoadInv', NEW p \in Loaders, Apply(p)
  PROVE  TypeInv'
<1> DEFINE a == Applying(p)
           more == {TableRow(Stored(row), TRUE) : row \in New(p, a)}
<1>1. /\ pc[p] = "apply" /\ at[p] <= 10 /\ tables' = tables /\ answer' = answer /\ loads' = loads
      /\ mine' = [mine EXCEPT ![p][a] = @ \cup more]
      /\ at' = [at EXCEPT ![p] = @ + 1]
      /\ ~Violates(p, a)
  BY AppliedInOrder DEF Apply
<1>2. Len(Order) + 1 = 11
  BY DEF Order
<1>3. /\ \A m \in Manifests : content'[m] = NoManifest \/ content'[m] \in Contents
      /\ lock' \in Loaders \cup {NoLoader} /\ pc' \in [Loaders -> Steps]
      /\ \A q \in Loaders : bundle'[q] = Idle \/ bundle'[q] \in Bundles
  BY DEF LoadInv, Shape
<1>4. a \in Artifacts
  BY <1>1, AppliedInOrder DEF LoadInv, Control, Applying
<1>5. Fit(bundle[p].files) /\ Accepted(p, a) = RowsOf(bundle[p].files, a)
  BY <1>1, <1>4, Accepting DEF Working
<1>6. \A row \in New(p, a) : row \in RowsOf(bundle[p].files, a) /\ Holds(a, row)
  BY <1>1, <1>5 DEF New, Violates
<1>7. \A x \in more : IsKept(x)
  BY <1>5, <1>6, StoredKept
<1> HIDE DEF a, more
<1>8. ASSUME NEW q \in Loaders, NEW b \in Artifacts, NEW x \in mine'[q][b] PROVE IsKept(x)
  <2>1. x \in mine[q][b] \/ x \in more
    <3>1. /\ DOMAIN mine = Loaders /\ DOMAIN mine[p] = Artifacts
      BY DEF LoadInv, Shape
    <3>2. mine'[q][b] = IF q = p /\ b = a THEN mine[q][b] \cup more ELSE mine[q][b]
      BY <1>1, <1>4, <3>1
    <3>3. QED BY <1>8, <3>2
  <2>2. QED BY <1>7, <2>1 DEF TypeInv
<1>9. at' \in [Loaders -> 0..11]
  BY <1>1, <1>2 DEF TypeInv, TypeOK
<1>10. QED BY <1>1, <1>2, <1>3, <1>8, <1>9 DEF TypeInv, TypeOK

LEMMA TypeNext == TypeInv /\ LoadInv /\ LoadInv' /\ [Next]_vars => TypeInv'
<1> SUFFICES ASSUME TypeInv, LoadInv, LoadInv', [Next]_vars PROVE TypeInv'
  OBVIOUS
<1>1. Len(Order) + 1 = 11
  BY DEF Order
<1>2. /\ at \in [Loaders -> 0..11] /\ answer \in [Loaders -> Answers] /\ loads \in 0..MaxLoads
  BY <1>1 DEF TypeInv, TypeOK
<1>3. ASSUME NEW p \in Loaders, NEW b \in Bundles, Start(p, b) PROVE TypeInv'
  <2>1. /\ tables' = tables /\ mine' = mine /\ at' = at /\ answer' = [answer EXCEPT ![p] = "none"]
        /\ loads' = loads + 1 /\ loads < MaxLoads
    BY <1>3 DEF Start
  <2>2. answer' \in [Loaders -> Answers] /\ loads' \in 0..MaxLoads
    BY <1>2, <2>1, IngestionAssumption DEF Answers
  <2>3. QED BY <1>2, <2>1, <2>2, TypeQuiet
<1>4. ASSUME NEW p \in Loaders, Read(p) \/ Open(p) \/ Ensure(p) PROVE TypeInv'
  BY <1>2, <1>4, TypeQuiet DEF Read, Open, Ensure, localVars
<1>5. ASSUME NEW p \in Loaders, Preflight(p) PROVE TypeInv'
  <2>1. /\ tables' = tables /\ mine' = mine /\ at' = [at EXCEPT ![p] = 1] /\ answer' = answer
        /\ loads' = loads
    BY <1>5 DEF Preflight
  <2>2. at' \in [Loaders -> 0..11]
    BY <1>2, <2>1
  <2>3. QED BY <1>2, <2>1, <2>2, TypeQuiet
<1>6. ASSUME NEW p \in Loaders,
             \/ Unreadable(p) \/ Reject(p) \/ OtherContent(p) \/ ApplyFails(p) \/ Crash(p)
             \/ Conflict(p) \/ Commit(p)
      PROVE  TypeInv'
  <2>1. pc[p] # "idle" /\ \E keep \in BOOLEAN, how \in Answers : End(p, keep, how)
    BY <1>6
    DEF Unreadable, Reject, OtherContent, ApplyFails, Crash, Conflict, Commit, Answers
  <2>2. QED BY <2>1, TypeEnd
<1>7. ASSUME NEW m \in Manifests, NEW row \in Projections, Project(m, row) PROVE TypeInv'
  <2> DEFINE new == TableRow(row, FALSE)
  <2>1. /\ tables' = [tables EXCEPT ![m]["orders"] = @ \cup {new}]
        /\ mine' = mine /\ at' = at /\ answer' = answer /\ loads' = loads
    BY <1>7 DEF Project, localVars
  <2>2. IsKept(new)
    BY IngestionAssumption DEF IsKept, TableRow, Oddities
  <2>3. \A n \in Manifests, a \in Artifacts : \A x \in tables[n][a] : IsKept(x)
    BY DEF TypeInv, TypeOK, IsKept, Oddities
  <2> HIDE DEF new
  <2>4. ASSUME NEW n \in Manifests, NEW a \in Artifacts, NEW x \in tables'[n][a] PROVE IsKept(x)
    <3>1. x \in tables[n][a] \/ x = new
      <4>1. DOMAIN tables = Manifests /\ DOMAIN tables[m] = Artifacts
        BY DEF LoadInv, Shape
      <4>2. tables'[n][a] = tables[n][a] \/ tables'[n][a] = tables[n][a] \cup {new}
        BY <2>1, <4>1
      <4>3. QED BY <2>4, <4>2
    <3>2. QED BY <2>2, <2>3, <3>1
  <2>5. /\ \A n \in Manifests : content'[n] = NoManifest \/ content'[n] \in Contents
        /\ lock' \in Loaders \cup {NoLoader} /\ pc' \in [Loaders -> Steps]
        /\ \A q \in Loaders : bundle'[q] = Idle \/ bundle'[q] \in Bundles
    BY DEF LoadInv, Shape
  <2>6. QED BY <1>1, <1>2, <2>1, <2>4, <2>5 DEF TypeInv, TypeOK, IsKept, Oddities
<1>8. CASE UNCHANGED vars
  BY <1>2, <1>8, TypeQuiet DEF vars, localVars
<1>9. QED
  BY <1>3, <1>4, <1>5, <1>6, <1>7, <1>8, TypeApply DEF Next, AllLoaded

(* Every variable keeps its type; of the texts that were not plain values  *)
(* the tables have blank and ill-ordered ones and rounded numbers, and     *)
(* nothing that does not parse, is out of range or too long                *)
(* (validation.py:174-217, models.py:51).                                  *)
THEOREM RowsAreTyped == Spec => []TypeOK
<1>1. TypeInv => TypeOK
  BY DEF TypeInv
<1>2. QED BY <1>1, TypeInit, TypeNext, LoadInvariant, PTL DEF Spec

\* a number with more decimals than its column has
Rounds(row) == \E f \in DOMAIN row.odd : row.odd[f] \in {"fine", "tiny"}

(* "Identical source IDs are skipped" (docs/architecture.md:97), but not   *)
(* those of a row with a number that its column rounds: once a version has *)
(* such a row, every further load of its bundle is in conflict with it     *)
(* (loader.py:106-117, 219-230).                                           *)
THEOREM RoundedRowsConflict ==
  Spec => [](\A p \in Loaders :
               /\ pc[p] = "preflight" /\ content[Version(p)] # NoManifest
               /\ \E a \in Artifacts : \E row \in Accepted(p, a) : Rounds(row)
               => AllConflicting(p))
<1> DEFINE Stuck ==
             \A p \in Loaders :
               /\ pc[p] = "preflight" /\ content[Version(p)] # NoManifest
               /\ \E a \in Artifacts : \E row \in Accepted(p, a) : Rounds(row)
               => AllConflicting(p)
<1>1. LoadInv /\ TypeOK => Stuck
  <2> SUFFICES ASSUME LoadInv, TypeOK, NEW p \in Loaders,
                      pc[p] = "preflight", content[Version(p)] # NoManifest,
                      NEW a \in Artifacts, NEW row \in Accepted(p, a), Rounds(row)
               PROVE  AllConflicting(p)
    OBVIOUS
  <2> DEFINE V == Version(p)
             files == bundle[p].files
             kept == TableRow(Stored(row), TRUE)
  <2>1. /\ Working(p) /\ Progress(p) /\ at[p] = 0 /\ Holding(V) /\ V \in Manifests
        /\ Fit(files) /\ content[V] \in {NoManifest, files} /\ row \in RowsOf(files, a)
    BY Accepting DEF LoadInv, Working, Control
  <2>2. kept \in Existing(p, a, row)
    <3>1. kept \in Image(files, a) /\ kept.row = Stored(row)
      BY <2>1 DEF Image, TableRow
    <3>2. SameKey(a, Stored(row), row)
      BY <2>1, StoredRow DEF SameKey
    <3> HIDE DEF kept
    <3>3. kept \in tables[V][a]
      BY <2>1, <3>1 DEF Holding
    <3>4. QED BY <3>1, <3>2, <3>3 DEF Existing, Seen
  <2>3. ASSUME NEW x \in Existing(p, a, row) PROVE Differs(x, row)
    <3>1. x \in tables[V][a]
      BY <2>3, FoundAgain
    <3>2. \A f \in DOMAIN x.row.odd : x.row.odd[f] \notin {"fine", "tiny"}
      BY <2>1, <3>1 DEF TypeOK
    <3>3. QED BY <3>2 DEF Differs, Rounds
  <2>4. QED BY <2>2, <2>3 DEF AllConflicting
<1> HIDE DEF Stuck
<1>2. Spec => []Stuck
  BY <1>1, LoadInvariant, RowsAreTyped, PTL
<1>3. QED BY <1>2 DEF Stuck
=============================================================================
