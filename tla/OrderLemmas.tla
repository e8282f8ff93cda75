----------------------------- MODULE OrderLemmas -----------------------------
(***************************************************************************)
(* What InOrder and Select are: the one sequence that is strictly ordered  *)
(* and has exactly the elements of the set.  Ranks are counted, so every   *)
(* argument is about cardinalities and none is an induction.  And what the *)
(* sorts of GroupSort return and where they succeed, for any number of     *)
(* systems and groups.                                                     *)
(***************************************************************************)
EXTENDS GroupSort, FiniteSetTheorems, FunctionTheorems, SequenceTheorems,
        NaturalsInduction, TLAPS

\* Some number with a property is the least.
LEMMA LeastNumber ==
  ASSUME NEW S \in SUBSET Nat, S # {}
  PROVE  \E k \in S : \A j \in S : k <= j
<1>1. PICK R : R = OpToRel(<, Nat)
  OBVIOUS
<1>2. IsWellFoundedOn(R, Nat)
  BY <1>1, NatLessThanWellFounded
<1>3. PICK k \in S : \A j \in S : <<j, k>> \notin R
  BY <1>2, WFMin
<1>4. \A j, l \in Nat : j < l => <<j, l>> \in R
  BY <1>1 DEF OpToRel
<1>5. ASSUME NEW j \in S PROVE k <= j
  <2>1. j \in Nat /\ k \in Nat
    OBVIOUS
  <2>2. ~(j < k)
    BY <1>3, <1>4, <2>1
  <2> QED
    BY <2>1, <2>2
<1> QED
  BY <1>5

\* R orders the elements of S strictly and totally.
StrictOrder(S, R) ==
  /\ \A x \in S : <<x, x>> \notin R
  /\ \A x, y \in S : x # y => <<x, y>> \in R \/ <<y, x>> \in R
  /\ \A x, y, z \in S : <<x, y>> \in R /\ <<y, z>> \in R => <<x, z>> \in R

\* s lists the elements of S in the order R.
Lists(s, S, R) ==
  /\ s \in Seq(S)
  /\ \A x \in S : \E i \in 1 .. Len(s) : s[i] = x
  /\ \A i, j \in 1 .. Len(s) : i < j => <<s[i], s[j]>> \in R

Ahead(S, R, x) == {y \in S : <<y, x>> \in R}

\* Counting what is ahead of an element tells the elements apart.
LEMMA RankGrows ==
  ASSUME NEW S, IsFiniteSet(S), NEW R, StrictOrder(S, R)
  PROVE  /\ \A x \in S : Cardinality(Ahead(S, R, x)) \in 0 .. (Cardinality(S) - 1)
         /\ \A x, y \in S : <<x, y>> \in R =>
              Cardinality(Ahead(S, R, x)) < Cardinality(Ahead(S, R, y))
<1>1. ASSUME NEW T \in SUBSET S
      PROVE  IsFiniteSet(T) /\ Cardinality(T) \in Nat
  <2>1. IsFiniteSet(T)
    BY FS_Subset
  <2> QED
    BY <2>1, FS_CardinalityType
<1>2. ASSUME NEW T \in SUBSET S, NEW U \in SUBSET T, U # T
      PROVE  Cardinality(U) < Cardinality(T)
  <2>1. IsFiniteSet(T) /\ Cardinality(T) \in Nat /\ Cardinality(U) \in Nat
    BY <1>1
  <2>2. Cardinality(U) <= Cardinality(T) /\ (Cardinality(T) = Cardinality(U) => T = U)
    BY <2>1, FS_Subset
  <2> QED
    BY <1>2, <2>1, <2>2
<1>3. ASSUME NEW x \in S
      PROVE  Cardinality(Ahead(S, R, x)) \in 0 .. (Cardinality(S) - 1)
  <2>1. Ahead(S, R, x) \in SUBSET S /\ Ahead(S, R, x) # S
    BY DEF Ahead, StrictOrder
  <2>2. Cardinality(Ahead(S, R, x)) < Cardinality(S)
    BY <1>2, <2>1
  <2>3. Cardinality(Ahead(S, R, x)) \in Nat /\ Cardinality(S) \in Nat
    BY <1>1, <2>1
  <2> QED
    BY <2>2, <2>3
<1>4. ASSUME NEW x \in S, NEW y \in S, <<x, y>> \in R
      PROVE  Cardinality(Ahead(S, R, x)) < Cardinality(Ahead(S, R, y))
  <2>1. /\ Ahead(S, R, y) \in SUBSET S
        /\ Ahead(S, R, x) \in SUBSET Ahead(S, R, y)
        /\ x \in Ahead(S, R, y) /\ x \notin Ahead(S, R, x)
    BY <1>4 DEF Ahead, StrictOrder
  <2> QED
    BY <1>2, <2>1
<1> QED
  BY <1>3, <1>4

\* Every rank is some element's.
LEMMA RankTaken ==
  ASSUME NEW S, IsFiniteSet(S), NEW R, StrictOrder(S, R),
         NEW i \in 1 .. Cardinality(S)
  PROVE  \E x \in S : Cardinality(Ahead(S, R, x)) = i - 1
<1>1. PICK n : n = Cardinality(S)
  OBVIOUS
<1>2. n \in Nat
  BY <1>1, FS_CardinalityType
<1>3. PICK rank : rank = [x \in S |-> Cardinality(Ahead(S, R, x))]
  OBVIOUS
<1>4. IsFiniteSet(0 .. (n - 1)) /\ Cardinality(0 .. (n - 1)) = n
  <2>1. 0 \in Int /\ n - 1 \in Int
    BY <1>2
  <2> QED
    BY <1>2, <2>1, FS_Interval
<1>5. rank \in Injection(S, 0 .. (n - 1))
  <2>1. rank \in [S -> 0 .. (n - 1)]
    BY <1>1, <1>3, RankGrows
  <2>2. ASSUME NEW x \in S, NEW y \in S, rank[x] = rank[y]
        PROVE  x = y
    <3>1. /\ <<x, y>> \in R => rank[x] < rank[y]
          /\ <<y, x>> \in R => rank[y] < rank[x]
      BY <1>3, RankGrows
    <3>2. rank[x] \in Int /\ rank[y] \in Int
      BY <2>1
    <3> QED
      BY <2>2, <3>1, <3>2 DEF StrictOrder
  <2> QED
    BY <2>1, <2>2 DEF Injection, IsInjective
<1>6. rank \in Surjection(S, 0 .. (n - 1))
  BY <1>1, <1>4, <1>5, FS_Injection
<1>7. i - 1 \in 0 .. (n - 1)
  BY <1>1, <1>2
<1>8. PICK x \in S : rank[x] = i - 1
  BY <1>6, <1>7 DEF Surjection
<1> QED
  BY <1>3, <1>8

\* An enumeration lists its set.
LEMMA EnumerationLists ==
  ASSUME NEW S, IsFiniteSet(S), NEW R, StrictOrder(S, R)
  PROVE  Lists(Enumeration(S, R), S, R) /\ Len(Enumeration(S, R)) = Cardinality(S)
<1>1. PICK s : s = Enumeration(S, R)
  OBVIOUS
<1>2. PICK n : n = Cardinality(S)
  OBVIOUS
<1>3. n \in Nat
  BY <1>2, FS_CardinalityType
<1>4. s = [i \in 1 .. n |-> CHOOSE x \in S : Cardinality(Ahead(S, R, x)) = i - 1]
  BY <1>1, <1>2 DEF Enumeration, Ahead
<1>5. \A i \in 1 .. n : s[i] \in S /\ Cardinality(Ahead(S, R, s[i])) = i - 1
  <2> SUFFICES ASSUME NEW i \in 1 .. n
               PROVE  s[i] \in S /\ Cardinality(Ahead(S, R, s[i])) = i - 1
    OBVIOUS
  <2>1. \E x \in S : Cardinality(Ahead(S, R, x)) = i - 1
    BY <1>2, RankTaken
  <2> QED
    BY <1>4, <2>1
<1>6. s \in Seq(S) /\ Len(s) = n
  <2>1. s \in [1 .. n -> S]
    BY <1>4, <1>5
  <2> QED
    BY <1>3, <2>1
<1>7. ASSUME NEW i \in 1 .. n, NEW j \in 1 .. n, i < j
      PROVE  <<s[i], s[j]>> \in R
  <2>1. /\ s[i] \in S /\ s[j] \in S
        /\ Cardinality(Ahead(S, R, s[i])) < Cardinality(Ahead(S, R, s[j]))
    BY <1>3, <1>5, <1>7
  <2>2. /\ Cardinality(Ahead(S, R, s[i])) \in Int
        /\ Cardinality(Ahead(S, R, s[j])) \in Int
    BY <1>3, <1>5
  <2>3. <<s[j], s[i]>> \in R =>
          Cardinality(Ahead(S, R, s[j])) < Cardinality(Ahead(S, R, s[i]))
    BY <2>1, RankGrows
  <2>4. s[i] # s[j] /\ <<s[j], s[i]>> \notin R
    BY <2>1, <2>2, <2>3
  <2> QED
    BY <2>1, <2>4 DEF StrictOrder
<1>8. ASSUME NEW x \in S
      PROVE  \E i \in 1 .. n : s[i] = x
  <2>1. PICK r : r = Cardinality(Ahead(S, R, x))
    OBVIOUS
  <2>2. r \in 0 .. (n - 1)
    BY <1>2, <2>1, RankGrows
  <2>3. r + 1 \in 1 .. n /\ (r + 1) - 1 = r
    BY <1>3, <2>2
  <2>4. s[r + 1] \in S /\ Cardinality(Ahead(S, R, s[r + 1])) = r
    BY <1>5, <2>3
  <2>5. s[r + 1] = x
    <3>1. /\ <<s[r + 1], x>> \in R =>
               Cardinality(Ahead(S, R, s[r + 1])) < Cardinality(Ahead(S, R, x))
          /\ <<x, s[r + 1]>> \in R =>
               Cardinality(Ahead(S, R, x)) < Cardinality(Ahead(S, R, s[r + 1]))
      BY <2>4, RankGrows
    <3>2. r \in Int
      BY <2>2
    <3> QED
      BY <2>1, <2>4, <3>1, <3>2 DEF StrictOrder
  <2> QED
    BY <2>3, <2>5
<1> QED
  BY <1>1, <1>2, <1>6, <1>7, <1>8 DEF Lists

\* A list is as long as its set is large, and so is what is ahead of its i-th
\* element.
LEMMA ListsRank ==
  ASSUME NEW S, NEW R, StrictOrder(S, R), NEW s, Lists(s, S, R)
  PROVE  /\ IsFiniteSet(S) /\ Cardinality(S) = Len(s)
         /\ \A i \in 1 .. Len(s) : Cardinality(Ahead(S, R, s[i])) = i - 1
<1>1. PICK n : n = Len(s)
  OBVIOUS
<1>2. n \in Nat /\ s \in [1 .. n -> S]
  BY <1>1, LenProperties DEF Lists
<1>3. \A i, j \in 1 .. n : i < j => <<s[i], s[j]>> \in R
  BY <1>1 DEF Lists
<1>4. ASSUME NEW i \in 1 .. n, NEW j \in 1 .. n
      PROVE  <<s[i], s[j]>> \in R <=> i < j
  <2>1. CASE i < j
    BY <1>3, <2>1
  <2>2. CASE i = j
    BY <1>2, <2>2 DEF StrictOrder
  <2>3. CASE j < i
    <3>1. <<s[j], s[i]>> \in R
      BY <1>3, <2>3
    <3>2. ~(i < j)
      BY <2>3
    <3> QED
      BY <1>2, <3>1, <3>2 DEF StrictOrder
  <2> QED
    BY <2>1, <2>2, <2>3
<1>5. ASSUME NEW i \in 1 .. n, NEW j \in 1 .. n, s[i] = s[j]
      PROVE  i = j
  <2>1. /\ <<s[i], s[j]>> \in R <=> i < j
        /\ <<s[j], s[i]>> \in R <=> j < i
        /\ s[i] \in S /\ <<s[i], s[i]>> \notin R
    BY <1>2, <1>4 DEF StrictOrder
  <2>2. ~(i < j) /\ ~(j < i)
    BY <1>5, <2>1
  <2> QED
    BY <1>2, <2>2
<1>6. \A x \in S : \E i \in 1 .. n : s[i] = x
  BY <1>1 DEF Lists
<1>7. IsFiniteSet(1 .. n) /\ Cardinality(1 .. n) = n
  BY <1>2, FS_Interval
<1>8. IsFiniteSet(S) /\ Cardinality(S) = n
  <2>1. s \in Bijection(1 .. n, S)
    BY <1>2, <1>5, <1>6 DEF Bijection, Injection, Surjection, IsInjective
  <2>2. ExistsBijection(1 .. n, S)
    BY <2>1 DEF ExistsBijection
  <2> QED
    BY <1>7, <2>2, FS_Bijection
<1>9. ASSUME NEW i \in 1 .. n
      PROVE  Cardinality(Ahead(S, R, s[i])) = i - 1
  <2>1. PICK t : t = [j \in 1 .. (i - 1) |-> s[j]]
    OBVIOUS
  <2>2. \A j \in 1 .. (i - 1) : j \in 1 .. n /\ j < i
    BY <1>2
  <2>3. \A j \in 1 .. n : j < i => j \in 1 .. (i - 1)
    BY <1>2
  <2>4. t \in Bijection(1 .. (i - 1), Ahead(S, R, s[i]))
    <3>1. \A j \in 1 .. (i - 1) : t[j] = s[j] /\ t[j] \in Ahead(S, R, s[i])
      BY <1>2, <1>4, <2>1, <2>2 DEF Ahead
    <3>2. t \in [1 .. (i - 1) -> Ahead(S, R, s[i])]
      BY <2>1, <3>1
    <3>3. \A j, k \in 1 .. (i - 1) : t[j] = t[k] => j = k
      BY <1>5, <2>2, <3>1
    <3>4. ASSUME NEW x \in Ahead(S, R, s[i])
          PROVE  \E j \in 1 .. (i - 1) : t[j] = x
      <4>1. x \in S /\ <<x, s[i]>> \in R
        BY DEF Ahead
      <4>2. PICK j \in 1 .. n : s[j] = x
        BY <1>6, <4>1
      <4>3. j \in 1 .. (i - 1)
        BY <1>4, <2>3, <4>1, <4>2
      <4> QED
        BY <3>1, <4>2, <4>3
    <3> QED
      BY <3>2, <3>3, <3>4 DEF Bijection, Injection, Surjection, IsInjective
  <2>5. IsFiniteSet(1 .. (i - 1)) /\ Cardinality(1 .. (i - 1)) = i - 1
    <3>1. 1 \in Int /\ i - 1 \in Int /\ i >= 1
      BY <1>2
    <3>2. IsFiniteSet(1 .. (i - 1))
          /\ Cardinality(1 .. (i - 1)) = IF 1 > i - 1 THEN 0 ELSE (i - 1) - 1 + 1
      BY <3>1, FS_Interval
    <3> QED
      BY <3>1, <3>2
  <2>6. ExistsBijection(1 .. (i - 1), Ahead(S, R, s[i]))
    BY <2>4 DEF ExistsBijection
  <2> QED
    BY <2>5, <2>6, FS_Bijection
<1> QED
  BY <1>1, <1>8, <1>9

\* There is one list of a set: its enumeration.
LEMMA ListsUnique ==
  ASSUME NEW S, NEW R, StrictOrder(S, R), NEW s, Lists(s, S, R)
  PROVE  s = Enumeration(S, R)
<1>1. PICK t : t = Enumeration(S, R)
  OBVIOUS
<1>2. /\ IsFiniteSet(S) /\ Cardinality(S) = Len(s)
      /\ \A i \in 1 .. Len(s) : Cardinality(Ahead(S, R, s[i])) = i - 1
  BY ListsRank
<1>3. Lists(t, S, R) /\ Len(t) = Len(s)
  BY <1>1, <1>2, EnumerationLists
<1>4. \A i \in 1 .. Len(s) : Cardinality(Ahead(S, R, t[i])) = i - 1
  BY <1>3, ListsRank
<1>5. Len(s) \in Nat /\ s \in [1 .. Len(s) -> S] /\ t \in [1 .. Len(s) -> S]
  BY <1>3, LenProperties DEF Lists
<1>6. ASSUME NEW i \in 1 .. Len(s)
      PROVE  s[i] = t[i]
  <2>1. /\ s[i] \in S /\ t[i] \in S
        /\ Cardinality(Ahead(S, R, s[i])) = i - 1
        /\ Cardinality(Ahead(S, R, t[i])) = i - 1
    BY <1>2, <1>4, <1>5
  <2>2. /\ <<s[i], t[i]>> \in R => i - 1 < i - 1
        /\ <<t[i], s[i]>> \in R => i - 1 < i - 1
    <3>1. \A x, y \in S : <<x, y>> \in R =>
            Cardinality(Ahead(S, R, x)) < Cardinality(Ahead(S, R, y))
      BY <1>2, RankGrows
    <3> QED
      BY <2>1, <3>1
  <2>3. ~(i - 1 < i - 1)
    BY <1>5
  <2> QED
    BY <2>1, <2>2, <2>3 DEF StrictOrder
<1> QED
  BY <1>1, <1>5, <1>6

-----------------------------------------------------------------------------
(* Sets of numbers, and Select.                                            *)

\* s lists the numbers of I in increasing order.
Increasing(s, I) ==
  /\ s \in Seq(I)
  /\ \A n \in I : \E k \in 1 .. Len(s) : s[k] = n
  /\ \A j, k \in 1 .. Len(s) : j < k => s[j] < s[k]

\* The order of the numbers of a set.
LEMMA NumbersOrdered ==
  ASSUME NEW I \in SUBSET Nat
  PROVE  LET R == {p \in I \X I : p[1] < p[2]}
         IN /\ StrictOrder(I, R)
            /\ \A s : Increasing(s, I) <=> Lists(s, I, R)
<1> DEFINE R == {p \in I \X I : p[1] < p[2]}
<1>1. \A m, n \in I : <<m, n>> \in R <=> m < n
  OBVIOUS
<1> HIDE DEF R
<1>2. StrictOrder(I, R)
  BY <1>1 DEF StrictOrder
<1>3. ASSUME NEW s, s \in Seq(I)
      PROVE  Increasing(s, I) <=> Lists(s, I, R)
  <2>1. \A k \in 1 .. Len(s) : s[k] \in I
    BY <1>3
  <2> QED
    BY <1>1, <1>3, <2>1 DEF Increasing, Lists
<1>4. \A s : s \notin Seq(I) => ~Increasing(s, I) /\ ~Lists(s, I, R)
  BY DEF Increasing, Lists
<1>5. StrictOrder(I, R) /\ \A s : Increasing(s, I) <=> Lists(s, I, R)
  BY <1>2, <1>3, <1>4
<1> QED
  BY <1>5 DEF R

\* InOrder(I, <) is the increasing sequence of the numbers of I.
LEMMA InOrderIncreases ==
  ASSUME NEW I \in SUBSET Nat, IsFiniteSet(I)
  PROVE  Increasing(InOrder(I, <), I) /\ Len(InOrder(I, <)) = Cardinality(I)
<1>1. PICK R : R = {p \in I \X I : p[1] < p[2]}
  OBVIOUS
<1>2. StrictOrder(I, R) /\ \A s : Increasing(s, I) <=> Lists(s, I, R)
  BY <1>1, NumbersOrdered
<1>3. InOrder(I, <) = Enumeration(I, R)
  BY <1>1 DEF InOrder
<1> QED
  BY <1>2, <1>3, EnumerationLists

\* No other sequence is.
LEMMA IncreasingIsInOrder ==
  ASSUME NEW I \in SUBSET Nat, NEW s, Increasing(s, I)
  PROVE  s = InOrder(I, <) /\ IsFiniteSet(I) /\ Cardinality(I) = Len(s)
<1>1. PICK R : R = {p \in I \X I : p[1] < p[2]}
  OBVIOUS
<1>2. StrictOrder(I, R) /\ Lists(s, I, R)
  BY <1>1, NumbersOrdered
<1>3. InOrder(I, <) = Enumeration(I, R)
  BY <1>1 DEF InOrder
<1> QED
  BY <1>2, <1>3, ListsUnique, ListsRank

\* A number greater than all the others comes last.
LEMMA InOrderAppends ==
  ASSUME NEW I \in SUBSET Nat, IsFiniteSet(I), NEW m \in Nat, \A n \in I : n < m
  PROVE  InOrder(I \union {m}, <) = Append(InOrder(I, <), m)
<1>1. PICK s : s = InOrder(I, <)
  OBVIOUS
<1>2. Increasing(s, I)
  BY <1>1, InOrderIncreases
<1>3. PICK n : n = Len(s)
  OBVIOUS
<1>4. n \in Nat /\ s \in [1 .. n -> I]
  BY <1>2, <1>3, LenProperties DEF Increasing
<1>5. PICK t : t = Append(s, m)
  OBVIOUS
<1>6. /\ t \in Seq(I \union {m}) /\ Len(t) = n + 1 /\ t[n + 1] = m
      /\ \A k \in 1 .. n : t[k] = s[k]
  <2>1. s \in Seq(I \union {m})
    BY <1>4
  <2> QED
    BY <1>3, <1>5, <2>1
<1>7. \A k \in I \union {m} : \E j \in 1 .. (n + 1) : t[j] = k
  <2>1. \A k \in I : \E j \in 1 .. n : s[j] = k
    BY <1>2, <1>3 DEF Increasing
  <2>2. n + 1 \in 1 .. (n + 1) /\ \A j \in 1 .. n : j \in 1 .. (n + 1)
    BY <1>4
  <2> QED
    BY <1>6, <2>1, <2>2
<1>8. ASSUME NEW j \in 1 .. (n + 1), NEW k \in 1 .. (n + 1), j < k
      PROVE  t[j] < t[k]
  <2>1. CASE k = n + 1
    <3>1. j \in 1 .. n
      BY <1>4, <1>8, <2>1
    <3> QED
      BY <1>4, <1>6, <2>1, <3>1
  <2>2. CASE k # n + 1
    <3>1. j \in 1 .. n /\ k \in 1 .. n
      BY <1>4, <1>8, <2>2
    <3>2. s[j] < s[k]
      BY <1>2, <1>3, <1>8, <3>1 DEF Increasing
    <3> QED
      BY <1>6, <3>1, <3>2
  <2> QED
    BY <2>1, <2>2
<1>9. Increasing(t, I \union {m})
  BY <1>6, <1>7, <1>8 DEF Increasing
<1> QED
  BY <1>1, <1>5, <1>9, IncreasingIsInOrder

-----------------------------------------------------------------------------
(* The stable topological sorts.                                           *)

\* A finite set has an element before all others.
LEMMA LeastExists ==
  ASSUME NEW S, IsFiniteSet(S), S # {}, NEW R, StrictOrder(S, R)
  PROVE  \E x \in S : \A y \in S \ {x} : <<x, y>> \in R
<1>1. Cardinality(S) \in Nat /\ Cardinality(S) # 0
  BY FS_CardinalityType, FS_EmptySet
<1>2. PICK x \in S : Cardinality(Ahead(S, R, x)) = 1 - 1
  <2>1. 1 \in 1 .. Cardinality(S)
    BY <1>1
  <2> QED
    BY <2>1, RankTaken
<1>3. Ahead(S, R, x) = {}
  <2>1. Ahead(S, R, x) \in SUBSET S
    BY DEF Ahead
  <2>2. IsFiniteSet(Ahead(S, R, x))
    BY <2>1, FS_Subset
  <2> QED
    BY <1>2, <2>2, FS_EmptySet
<1> QED
  BY <1>3 DEF Ahead, StrictOrder

\* Where two sequences first differ, the lesser one has ended or is smaller.
LEMMA LexTotal ==
  ASSUME NEW s \in Seq(Nat), NEW t \in Seq(Nat), s # t
  PROVE  LexLess(s, t) \/ LexLess(t, s)
<1>1. PICK m, n : m = Len(s) /\ n = Len(t)
  OBVIOUS
<1>2. m \in Nat /\ n \in Nat /\ DOMAIN s = 1 .. m /\ DOMAIN t = 1 .. n
  BY <1>1
<1>3. (\A i \in 1 .. m : s[i] \in Nat) /\ (\A i \in 1 .. n : t[i] \in Nat)
  BY <1>1
<1>4. PICK D : D = {k \in Nat \ {0} : k > m \/ k > n \/ s[k] # t[k]}
  OBVIOUS
<1>5. m + n + 1 \in D
  BY <1>2, <1>4
<1>6. PICK k \in D : \A j \in D : k <= j
  <2>1. D \in SUBSET Nat /\ D # {}
    BY <1>4, <1>5
  <2> QED
    BY <2>1, LeastNumber
<1>7. k \in Nat /\ k >= 1 /\ (k > m \/ k > n \/ s[k] # t[k])
  BY <1>4, <1>6
<1>8. \A i \in 1 .. (k - 1) : i <= m /\ i <= n /\ s[i] = t[i]
  BY <1>2, <1>4, <1>6, <1>7
<1>9. k <= m \/ k <= n
  <2> SUFFICES ASSUME k > m, k > n PROVE FALSE
    BY <1>2, <1>7
  <2>1. m = k - 1 /\ n = k - 1
    <3>1. k = 1 \/ k - 1 \in 1 .. (k - 1)
      BY <1>7
    <3>2. k - 1 <= m /\ k - 1 <= n
      BY <1>2, <1>7, <1>8, <3>1
    <3> QED
      BY <1>2, <1>7, <3>2
  <2>2. s = t
    BY <1>1, <1>2, <1>8, <2>1
  <2> QED
    BY <2>2
<1>10. CASE k <= n /\ (k > m \/ s[k] < t[k])
  <2>1. k \in 1 .. Len(t)
    BY <1>1, <1>2, <1>7, <1>10
  <2> QED
    BY <1>1, <1>8, <1>10, <2>1 DEF LexLess
<1>11. CASE k <= m /\ (k > n \/ t[k] < s[k])
  <2>1. k \in 1 .. Len(s)
    BY <1>1, <1>2, <1>7, <1>11
  <2> QED
    BY <1>1, <1>8, <1>11, <2>1 DEF LexLess
<1> QED
  BY <1>2, <1>3, <1>7, <1>9, <1>10, <1>11

\* No key is less than itself.
LEMMA LexIrreflexive ==
  ASSUME NEW s \in Seq(Nat)
  PROVE  ~LexLess(s, s)
<1>1. \A i \in 1 .. Len(s) : s[i] \in Nat /\ i <= Len(s)
  OBVIOUS
<1> QED
  BY <1>1 DEF LexLess

\* Keys compare transitively.
LEMMA LexTransitive ==
  ASSUME NEW s \in Seq(Nat), NEW t \in Seq(Nat), NEW u \in Seq(Nat),
         LexLess(s, t), LexLess(t, u)
  PROVE  LexLess(s, u)
<1>1. PICK l, m, n : l = Len(s) /\ m = Len(t) /\ n = Len(u)
  OBVIOUS
<1>2. l \in Nat /\ m \in Nat /\ n \in Nat
  BY <1>1
<1>3. /\ \A i \in 1 .. l : s[i] \in Nat
      /\ \A i \in 1 .. m : t[i] \in Nat
      /\ \A i \in 1 .. n : u[i] \in Nat
  BY <1>1
<1>4. PICK j \in 1 .. m : /\ \A i \in 1 .. (j - 1) : i <= l /\ s[i] = t[i]
                          /\ j > l \/ s[j] < t[j]
  BY <1>1 DEF LexLess
<1>5. PICK k \in 1 .. n : /\ \A i \in 1 .. (k - 1) : i <= m /\ t[i] = u[i]
                          /\ k > m \/ t[k] < u[k]
  BY <1>1 DEF LexLess
<1>6. j \in Nat /\ k \in Nat
  BY <1>2
<1>7. CASE j < k
  <2>1. j \in 1 .. n /\ j \in 1 .. (k - 1)
    BY <1>2, <1>6, <1>7
  <2>2. t[j] = u[j]
    BY <1>5, <2>1
  <2>3. \A i \in 1 .. (j - 1) : i <= l /\ s[i] = u[i]
    <3> SUFFICES ASSUME NEW i \in 1 .. (j - 1) PROVE i <= l /\ s[i] = u[i]
      OBVIOUS
    <3>1. i \in 1 .. (k - 1)
      BY <1>6, <1>7
    <3> QED
      BY <1>4, <1>5, <3>1
  <2>4. j > l \/ s[j] < u[j]
    BY <1>4, <2>2
  <2> QED
    BY <1>1, <2>1, <2>3, <2>4 DEF LexLess
<1>8. CASE j = k
  <2>1. t[k] < u[k] /\ (k > l \/ s[k] < t[k])
    BY <1>2, <1>4, <1>5, <1>6, <1>8
  <2>2. k > l \/ s[k] < u[k]
    <3>1. t[k] \in Nat /\ u[k] \in Nat /\ (k \in 1 .. l => s[k] \in Nat)
      BY <1>3, <1>4, <1>5, <1>8
    <3>2. k > l \/ k \in 1 .. l
      BY <1>2, <1>6
    <3> QED
      BY <2>1, <3>1, <3>2
  <2>3. \A i \in 1 .. (k - 1) : i <= l /\ s[i] = u[i]
    BY <1>4, <1>5, <1>8
  <2> QED
    BY <1>1, <1>5, <2>2, <2>3 DEF LexLess
<1>9. CASE k < j
  <2>1. k \in 1 .. (j - 1) /\ k <= m
    BY <1>2, <1>6, <1>9
  <2>2. s[k] = t[k] /\ t[k] < u[k]
    BY <1>2, <1>4, <1>5, <1>6, <2>1
  <2>3. \A i \in 1 .. (k - 1) : i <= l /\ s[i] = u[i]
    <3> SUFFICES ASSUME NEW i \in 1 .. (k - 1) PROVE i <= l /\ s[i] = u[i]
      OBVIOUS
    <3>1. i \in 1 .. (j - 1)
      BY <1>6, <1>9
    <3> QED
      BY <1>4, <1>5, <3>1
  <2> QED
    BY <1>1, <1>5, <2>2, <2>3 DEF LexLess
<1> QED
  BY <1>6, <1>7, <1>8, <1>9

\* v places numbers up to n once each, none before what links to it.
PlacedOnce(v, n, links) ==
  /\ v \in Seq(1 .. n)
  /\ \A i, j \in 1 .. Len(v) : v[i] = v[j] => i = j
  /\ \A i \in 1 .. Len(v) : \A y \in 1 .. n :
       <<y, v[i]>> \in links => \E j \in 1 .. (i - 1) : v[j] = y

ReadyAfter(v, n, links) ==
  {x \in (1 .. n) \ Range(v) : \A y \in 1 .. n : <<y, x>> \in links => y \in Range(v)}

PlaceNext(v, n, links, less) ==
  IF ReadyAfter(v, n, links) = {} THEN v
  ELSE Append(v, CHOOSE x \in ReadyAfter(v, n, links) :
                   ({x} \X (ReadyAfter(v, n, links) \ {x})) \subseteq less)

\* One step of the sort keeps what is placed in order and without repetition.
LEMMA PlaceNextKeeps ==
  ASSUME NEW n \in Nat, NEW links, NEW less, StrictOrder(1 .. n, less),
         NEW v, PlacedOnce(v, n, links)
  PROVE  PlacedOnce(PlaceNext(v, n, links, less), n, links)
<1>1. PICK R : R = ReadyAfter(v, n, links)
  OBVIOUS
<1>2. CASE R = {}
  BY <1>1, <1>2 DEF PlaceNext
<1>3. CASE R # {}
  <2>1. R \in SUBSET (1 .. n)
    BY <1>1 DEF ReadyAfter
  <2>2. IsFiniteSet(R)
    <3>1. IsFiniteSet(1 .. n)
      BY FS_Interval
    <3> QED
      BY <2>1, <3>1, FS_Subset
  <2>3. StrictOrder(R, less)
    BY <2>1 DEF StrictOrder
  <2>4. \E x \in R : \A y \in R \ {x} : <<x, y>> \in less
    BY <1>3, <2>2, <2>3, LeastExists
  <2>5. \E x \in R : ({x} \X (R \ {x})) \subseteq less
    BY <2>4
  <2>6. PICK x : x = CHOOSE z \in R : ({z} \X (R \ {z})) \subseteq less
    OBVIOUS
  <2>7. x \in R
    BY <2>5, <2>6
  <2>8. PlaceNext(v, n, links, less) = Append(v, x)
    BY <1>1, <1>3, <2>6 DEF PlaceNext
  <2>9. PICK m : m = Len(v)
    OBVIOUS
  <2>10. v \in Seq(1 .. n) /\ m \in Nat /\ DOMAIN v = 1 .. m
    BY <2>9 DEF PlacedOnce
  <2>11. PICK w : w = Append(v, x)
    OBVIOUS
  <2>12. /\ w \in Seq(1 .. n) /\ Len(w) = m + 1 /\ w[m + 1] = x
         /\ \A i \in 1 .. m : w[i] = v[i]
    BY <2>1, <2>7, <2>9, <2>10, <2>11
  <2>13. Range(v) = {v[i] : i \in 1 .. m}
    BY <2>10 DEF Range
  <2>14. /\ x \notin Range(v)
         /\ \A y \in 1 .. n : <<y, x>> \in links => y \in Range(v)
    BY <1>1, <2>7 DEF ReadyAfter
  <2>15. \A i, j \in 1 .. m + 1 : w[i] = w[j] => i = j
    <3>1. \A i, j \in 1 .. m : v[i] = v[j] => i = j
      BY <2>9 DEF PlacedOnce
    <3>2. \A i \in 1 .. m : v[i] # x
      BY <2>13, <2>14
    <3> QED
      BY <2>10, <2>12, <3>1, <3>2
  <2>16. \A i \in 1 .. m + 1 : \A y \in 1 .. n :
           <<y, w[i]>> \in links => \E j \in 1 .. (i - 1) : w[j] = y
    <3> SUFFICES ASSUME NEW i \in 1 .. m + 1, NEW y \in 1 .. n, <<y, w[i]>> \in links
                 PROVE  \E j \in 1 .. (i - 1) : w[j] = y
      OBVIOUS
    <3>1. CASE i \in 1 .. m
      <4>1. PICK j \in 1 .. (i - 1) : v[j] = y
        BY <2>9, <2>12, <3>1 DEF PlacedOnce
      <4>2. j \in 1 .. m
        BY <2>10, <3>1
      <4> QED
        BY <2>12, <4>1, <4>2
    <3>2. CASE i = m + 1
      <4>1. PICK j \in 1 .. m : v[j] = y
        BY <2>12, <2>13, <2>14, <3>2
      <4>2. j \in 1 .. (i - 1)
        BY <2>10, <3>2
      <4> QED
        BY <2>12, <4>1, <4>2
    <3> QED
      BY <2>10, <3>1, <3>2
  <2> QED
    BY <2>8, <2>11, <2>12, <2>15, <2>16 DEF PlacedOnce
<1> QED
  BY <1>2, <1>3

\* f has what is placed after each step.
PlacedBy(f, n, links, less) ==
  /\ f[0] = <<>> /\ f[n] = TopologicalOrder(n, links, less)
  /\ \A k \in 1 .. n : f[k] = PlaceNext(f[k - 1], n, links, less)

\* Kahn's algorithm, one node at a time.
LEMMA TopologicalStages ==
  ASSUME NEW n \in Nat, NEW links, NEW less
  PROVE  \E f : PlacedBy(f, n, links, less)
<1> DEFINE Step(v, k) == PlaceNext(v, n, links, less)
<1>1. PICK f : f = CHOOSE g : g = [k \in 0 .. n |-> IF k = 0 THEN <<>> ELSE Step(g[k - 1], k)]
  OBVIOUS
<1>2. TopologicalOrder(n, links, less) = f[n]
  BY <1>1 DEF TopologicalOrder, PlaceNext, ReadyAfter
<1>3. FiniteNatInductiveDefHypothesis(f, <<>>, LAMBDA v, k : Step(v, k), 0, n)
  BY <1>1 DEF FiniteNatInductiveDefHypothesis
<1>4. FiniteNatInductiveDefConclusion(f, <<>>, LAMBDA v, k : Step(v, k), 0, n)
  BY <1>3, FiniteNatInductiveDef
<1>5. \A k \in 0 .. n : f[k] = IF k = 0 THEN <<>> ELSE PlaceNext(f[k - 1], n, links, less)
  BY <1>4 DEF FiniteNatInductiveDefConclusion
<1> QED
  BY <1>2, <1>5 DEF PlacedBy

\* What is placed is in order (_topological_group_order, _topological_system_order).
LEMMA TopologicalPlaces ==
  ASSUME NEW n \in Nat, NEW links, NEW less, StrictOrder(1 .. n, less)
  PROVE  PlacedOnce(TopologicalOrder(n, links, less), n, links)
<1> DEFINE S == {v \in Seq(1 .. n) : PlacedOnce(v, n, links)}
<1>1. PICK f : PlacedBy(f, n, links, less)
  BY TopologicalStages
<1>2. TopologicalOrder(n, links, less) = f[n]
  BY <1>1 DEF PlacedBy
<1>5. \A v \in S : PlaceNext(v, n, links, less) \in S
  BY PlaceNextKeeps DEF PlacedOnce
<1>6. <<>> \in S
  BY DEF PlacedOnce
<1>7. f[0] = <<>> /\ \A k \in 1 .. n : f[k] = PlaceNext(f[k - 1], n, links, less)
  BY <1>1 DEF PlacedBy
<1> HIDE DEF S
<1>8. f[n] \in S
  <2> SUFFICES ASSUME f[n] \notin S PROVE FALSE
    OBVIOUS
  <2>1. PICK k \in {i \in 0 .. n : f[i] \notin S} : \A j \in {i \in 0 .. n : f[i] \notin S} : k <= j
    <3>1. n \in {i \in 0 .. n : f[i] \notin S}
      OBVIOUS
    <3>2. {i \in 0 .. n : f[i] \notin S} \in SUBSET Nat
      OBVIOUS
    <3> QED
      BY <3>1, <3>2, LeastNumber
  <2>2. k \in 1 .. n /\ k - 1 \in 0 .. n /\ f[k - 1] \in S
    <3>1. k # 0
      BY <1>6, <1>7, <2>1
    <3>2. k \in 1 .. n /\ k - 1 \in 0 .. n
      BY <3>1
    <3> QED
      BY <2>1, <3>2
  <2>3. f[k] = PlaceNext(f[k - 1], n, links, less)
    BY <1>7, <2>2
  <2>4. f[k] \in S
    BY <1>5, <2>2, <2>3
  <2> QED
    BY <2>1, <2>4
<1> QED
  BY <1>2, <1>8 DEF S

-----------------------------------------------------------------------------
(* Reachability between groups.                                            *)

Pairs(n) == (1 .. n) \X (1 .. n)

Transitive(R) == \A a, b, c : <<a, b>> \in R /\ <<b, c>> \in R => <<a, c>> \in R

\* One step of _group_reachability: paths through group k are joined.
Through(W, k, n) ==
  W \union {p \in Pairs(n) : <<p[1], k>> \in W /\ <<k, p[2]>> \in W}

\* W has the paths of links through the groups up to k, and only paths of links.
JoinedTo(W, k, n, links) ==
  /\ W \subseteq Pairs(n) /\ links \subseteq W
  /\ \A j \in 1 .. k : \A a, b : <<a, j>> \in W /\ <<j, b>> \in W => <<a, b>> \in W
  /\ \A R : Transitive(R) /\ links \subseteq R => W \subseteq R

\* A step joins what there is to join through its group.
LEMMA ThroughJoins ==
  ASSUME NEW n \in Nat, NEW k \in 1 .. n, NEW links, NEW W, JoinedTo(W, k - 1, n, links)
  PROVE  JoinedTo(Through(W, k, n), k, n, links)
<1>1. PICK V : V = Through(W, k, n)
  OBVIOUS
<1>2. W \subseteq Pairs(n) /\ links \subseteq W
  BY DEF JoinedTo
<1>3. \A a, b : <<a, b>> \in V <=>
        <<a, b>> \in W \/ (<<a, k>> \in W /\ <<k, b>> \in W)
  <2> SUFFICES ASSUME NEW a, NEW b
               PROVE  <<a, b>> \in V <=>
                        <<a, b>> \in W \/ (<<a, k>> \in W /\ <<k, b>> \in W)
    OBVIOUS
  <2>1. <<a, k>> \in W /\ <<k, b>> \in W => <<a, b>> \in Pairs(n)
    BY <1>2 DEF Pairs
  <2> QED
    BY <1>1, <2>1 DEF Through
<1>4. V \subseteq Pairs(n) /\ links \subseteq V
  BY <1>1, <1>2 DEF Through
<1>5. ASSUME NEW j \in 1 .. k, NEW a, NEW b, <<a, j>> \in V, <<j, b>> \in V
      PROVE  <<a, b>> \in V
  <2>1. CASE j = k
    BY <1>3, <1>5, <2>1
  <2>2. CASE j # k
    <3>1. j \in 1 .. (k - 1)
      BY <2>2
    <3>2. \A c, d : <<c, j>> \in W /\ <<j, d>> \in W => <<c, d>> \in W
      BY <3>1 DEF JoinedTo
    <3> QED
      BY <1>3, <1>5, <3>2
  <2> QED
    BY <2>1, <2>2
<1>6. ASSUME NEW R, Transitive(R), links \subseteq R
      PROVE  V \subseteq R
  <2>1. W \subseteq R
    BY <1>6 DEF JoinedTo
  <2>2. \A a, b : <<a, b>> \in V => <<a, b>> \in R
    BY <1>3, <1>6, <2>1 DEF Transitive
  <2>3. \A p \in V : p = <<p[1], p[2]>>
    BY <1>4 DEF Pairs
  <2> QED
    BY <2>2, <2>3
<1> QED
  BY <1>1, <1>4, <1>5, <1>6 DEF JoinedTo

\* A group reaches another exactly along the edges of the graph: reachability is
\* the least transitive relation that has them (_group_reachability).
THEOREM ReachabilityCloses ==
  ASSUME NEW n \in Nat, NEW links \in SUBSET Pairs(n)
  PROVE  /\ Reachability(n, links) \subseteq Pairs(n)
         /\ links \subseteq Reachability(n, links)
         /\ Transitive(Reachability(n, links))
         /\ \A R : Transitive(R) /\ links \subseteq R => Reachability(n, links) \subseteq R
<1> DEFINE Step(v, k) == Through(v, k, n)
<1>1. PICK f : f = CHOOSE g : g = [k \in 0 .. n |-> IF k = 0 THEN links ELSE Step(g[k - 1], k)]
  OBVIOUS
<1>2. Reachability(n, links) = f[n]
  BY <1>1 DEF Reachability, Through, Pairs
<1>3. FiniteNatInductiveDefHypothesis(f, links, LAMBDA v, k : Step(v, k), 0, n)
  BY <1>1 DEF FiniteNatInductiveDefHypothesis
<1>4. FiniteNatInductiveDefConclusion(f, links, LAMBDA v, k : Step(v, k), 0, n)
  BY <1>3, FiniteNatInductiveDef
<1>5. \A k \in 0 .. n : f[k] = IF k = 0 THEN links ELSE Through(f[k - 1], k, n)
  BY <1>4 DEF FiniteNatInductiveDefConclusion
<1>6. \A k \in 0 .. n : JoinedTo(f[k], k, n, links)
  <2>1. JoinedTo(links, 0, n, links)
    BY DEF JoinedTo
  <2>2. PICK B : B = {i \in 0 .. n : ~JoinedTo(f[i], i, n, links)}
    OBVIOUS
  <2> SUFFICES ASSUME B # {} PROVE FALSE
    BY <2>2
  <2>3. PICK k \in B : \A j \in B : k <= j
    BY <2>2, LeastNumber
  <2>4. k \in 1 .. n /\ k - 1 \in 0 .. n /\ k - 1 \notin B
    <3>1. k \in 0 .. n /\ k # 0
      BY <1>5, <2>1, <2>2, <2>3
    <3>2. k \in 1 .. n /\ k - 1 \in 0 .. n
      BY <3>1
    <3> QED
      BY <2>3, <3>2
  <2>5. f[k] = Through(f[k - 1], k, n) /\ JoinedTo(f[k - 1], k - 1, n, links)
    BY <1>5, <2>2, <2>4
  <2>6. JoinedTo(f[k], k, n, links)
    BY <2>4, <2>5, ThroughJoins
  <2> QED
    BY <2>2, <2>3, <2>6
<1>7. JoinedTo(f[n], n, n, links)
  BY <1>6
<1>8. Transitive(f[n])
  <2> SUFFICES ASSUME NEW a, NEW b, NEW c, <<a, b>> \in f[n], <<b, c>> \in f[n]
               PROVE  <<a, c>> \in f[n]
    BY DEF Transitive
  <2>1. b \in 1 .. n
    BY <1>7 DEF JoinedTo, Pairs
  <2> QED
    BY <1>7, <2>1 DEF JoinedTo
<1> QED
  BY <1>2, <1>7, <1>8 DEF JoinedTo

-----------------------------------------------------------------------------
(* The order of the systems.                                               *)

\* The sort of systems by the key of their groups, then by id, is an order.
LEMMA SystemsOrdered ==
  ASSUME NEW S, NEW list \in Seq(S), NEW key \in [1 .. Len(list) -> Seq(Nat)], NEW less,
         less = {p \in (DOMAIN list) \X (DOMAIN list) :
                   \/ LexLess(key[p[1]], key[p[2]])
                   \/ key[p[1]] = key[p[2]] /\ p[1] < p[2]}
  PROVE  StrictOrder(1 .. Len(list), less)
<1>1. PICK n : n = Len(list)
  OBVIOUS
<1>2. n \in Nat /\ DOMAIN list = 1 .. n
  BY <1>1
<1>3. \A i, j \in 1 .. n : <<i, j>> \in less <=>
        LexLess(key[i], key[j]) \/ (key[i] = key[j] /\ i < j)
  BY <1>2
<1>4. \A i \in 1 .. n : key[i] \in Seq(Nat)
  BY <1>1
<1>5. \A i \in 1 .. n : <<i, i>> \notin less
  <2> SUFFICES ASSUME NEW i \in 1 .. n PROVE <<i, i>> \notin less
    OBVIOUS
  <2>1. ~LexLess(key[i], key[i])
    BY <1>4, LexIrreflexive
  <2>2. ~(i < i)
    BY <1>2
  <2> QED
    BY <1>3, <2>1, <2>2
<1>6. \A i, j \in 1 .. n : i # j => <<i, j>> \in less \/ <<j, i>> \in less
  <2> SUFFICES ASSUME NEW i \in 1 .. n, NEW j \in 1 .. n, i # j
               PROVE  <<i, j>> \in less \/ <<j, i>> \in less
    OBVIOUS
  <2>1. i < j \/ j < i
    BY <1>2
  <2>2. key[i] = key[j] \/ LexLess(key[i], key[j]) \/ LexLess(key[j], key[i])
    BY <1>4, LexTotal
  <2> QED
    BY <1>3, <2>1, <2>2
<1>7. \A i, j, k \in 1 .. n :
        <<i, j>> \in less /\ <<j, k>> \in less => <<i, k>> \in less
  <2> SUFFICES ASSUME NEW i \in 1 .. n, NEW j \in 1 .. n, NEW k \in 1 .. n,
                      <<i, j>> \in less, <<j, k>> \in less
               PROVE  <<i, k>> \in less
    OBVIOUS
  <2>1. \/ LexLess(key[i], key[j]) /\ LexLess(key[j], key[k])
        \/ LexLess(key[i], key[j]) /\ key[j] = key[k]
        \/ key[i] = key[j] /\ LexLess(key[j], key[k])
        \/ key[i] = key[k] /\ i < j /\ j < k
    BY <1>3
  <2>2. LexLess(key[i], key[j]) /\ LexLess(key[j], key[k]) => LexLess(key[i], key[k])
    BY <1>4, LexTransitive
  <2>3. i < j /\ j < k => i < k
    BY <1>2
  <2> QED
    BY <1>3, <2>1, <2>2, <2>3
<1> QED
  BY <1>1, <1>5, <1>6, <1>7 DEF StrictOrder

\* The groups are sorted by number (_topological_group_order).
LEMMA GroupOrderIs ==
  ASSUME NEW count \in Nat, NEW graph
  PROVE  \E less : /\ StrictOrder(1 .. count, less)
                   /\ GroupOrder(count, graph) = TopologicalOrder(count, graph, less)
<1>1. PICK less : less = {p \in (1 .. count) \X (1 .. count) : p[1] < p[2]}
  OBVIOUS
<1>2. \A i, j \in 1 .. count : <<i, j>> \in less <=> i < j
  BY <1>1
<1>3. StrictOrder(1 .. count, less)
  BY <1>2 DEF StrictOrder
<1> QED
  BY <1>1, <1>3 DEF GroupOrder

\* The systems are sorted by an order of their keys (_topological_system_order).
LEMMA SystemOrderIs ==
  ASSUME NEW S, NEW list \in Seq(S), NEW count \in Nat, NEW graph
  PROVE  \E less : /\ StrictOrder(1 .. Len(list), less)
                   /\ SystemOrder(list, count, graph) =
                        TopologicalOrder(Len(list),
                                         SystemLinks(list, Reachability(count, graph)), less)
<1>1. PICK order : order = GroupOrder(count, graph)
  OBVIOUS
<1>2. order \in Seq(1 .. count)
  BY <1>1, GroupOrderIs, TopologicalPlaces DEF PlacedOnce
<1>3. PICK n : n = Len(list)
  OBVIOUS
<1>4. n \in Nat /\ DOMAIN list = 1 .. n
  BY <1>3
<1>5. PICK key : key = [i \in DOMAIN list |-> StableKey(list[i], order)]
  OBVIOUS
<1>6. key \in [1 .. n -> Seq(Nat)]
  <2> SUFFICES ASSUME NEW i \in 1 .. n PROVE StableKey(list[i], order) \in Seq(Nat)
    BY <1>4, <1>5
  <2>1. PICK I : I = {k \in DOMAIN order : order[k] \in GroupsOf(list[i])}
    OBVIOUS
  <2>2. PICK m : m = Len(order)
    OBVIOUS
  <2>3. m \in Nat /\ DOMAIN order = 1 .. m
    BY <1>2, <2>2
  <2>4. I \in SUBSET (1 .. m)
    BY <2>1, <2>3
  <2>5. IsFiniteSet(I) /\ I \in SUBSET Nat
    <3>1. IsFiniteSet(1 .. m)
      BY <2>3, FS_Interval
    <3>2. IsFiniteSet(I)
      BY <2>4, <3>1, FS_Subset
    <3> QED
      BY <2>3, <2>4, <3>2
  <2>6. InOrder(I, <) \in Seq(I)
    BY <2>5, InOrderIncreases DEF Increasing
  <2>7. InOrder(I, <) \in Seq(Nat)
    <3>1. PICK t \in Seq(I) : t = InOrder(I, <)
      BY <2>6
    <3>2. t \in [1 .. Len(t) -> I] /\ Len(t) \in Nat
      OBVIOUS
    <3>3. t \in [1 .. Len(t) -> Nat]
      BY <2>5, <3>2
    <3>4. t \in Seq(Nat)
      BY <3>2, <3>3
    <3> QED
      BY <3>1, <3>4
  <2> QED
    BY <2>1, <2>7 DEF StableKey
<1>7. PICK less : less = {p \in (DOMAIN list) \X (DOMAIN list) :
                            \/ LexLess(key[p[1]], key[p[2]])
                            \/ key[p[1]] = key[p[2]] /\ p[1] < p[2]}
  OBVIOUS
<1>8. StrictOrder(1 .. n, less)
  BY <1>3, <1>6, <1>7, SystemsOrdered
<1>9. PICK links : links = SystemLinks(list, Reachability(count, graph))
  OBVIOUS
<1>10. SystemOrder(list, count, graph) = TopologicalOrder(n, links, less)
  BY <1>1, <1>3, <1>5, <1>7, <1>9 DEF SystemOrder
<1> QED
  BY <1>3, <1>8, <1>9, <1>10

\* What is listed, once each, and no system before one that precedes it
\* (sorted_scheduled_systems).
Sorted(s, list, links) ==
  /\ s \in Seq(1 .. Len(list))
  /\ \A i, j \in 1 .. Len(s) : s[i] = s[j] => i = j
  /\ \A i, j \in 1 .. Len(s) : i < j => <<s[j], s[i]>> \notin links

\* What order_systems returns has no system twice and none before one that
\* precedes it (_topological_system_order).
THEOREM SystemOrderSorted ==
  ASSUME NEW S, NEW list \in Seq(S), NEW count \in Nat, NEW graph
  PROVE  Sorted(SystemOrder(list, count, graph), list,
                SystemLinks(list, Reachability(count, graph)))
<1>1. PICK n : n = Len(list)
  OBVIOUS
<1>2. n \in Nat /\ DOMAIN list = 1 .. n
  BY <1>1
<1>3. PICK links : links = SystemLinks(list, Reachability(count, graph))
  OBVIOUS
<1>4. PICK less : /\ StrictOrder(1 .. n, less)
                  /\ SystemOrder(list, count, graph) = TopologicalOrder(n, links, less)
  BY <1>1, <1>3, SystemOrderIs
<1>5. PICK s : s = TopologicalOrder(n, links, less)
  OBVIOUS
<1>6. PlacedOnce(s, n, links)
  BY <1>2, <1>4, <1>5, TopologicalPlaces
<1>7. PICK m : m = Len(s)
  OBVIOUS
<1>8. m \in Nat /\ s \in Seq(1 .. n)
  BY <1>6, <1>7 DEF PlacedOnce
<1>9. \A i, j \in 1 .. m : i < j => <<s[j], s[i]>> \notin links
  <2> SUFFICES ASSUME NEW i \in 1 .. m, NEW j \in 1 .. m, i < j, <<s[j], s[i]>> \in links
               PROVE  FALSE
    OBVIOUS
  <2>1. s[j] \in 1 .. n
    <3>1. s \in Seq(1 .. n) /\ j \in 1 .. Len(s)
      BY <1>7, <1>8
    <3> QED
      BY <3>1, ElementOfSeq
  <2>2. PICK k \in 1 .. (i - 1) : s[k] = s[j]
    BY <1>6, <1>7, <2>1 DEF PlacedOnce
  <2>3. k \in 1 .. m /\ k # j
    BY <1>8, <2>2
  <2> QED
    BY <1>6, <1>7, <2>2, <2>3 DEF PlacedOnce
<1> QED
  BY <1>1, <1>3, <1>4, <1>5, <1>6, <1>7, <1>9 DEF PlacedOnce, Sorted

-----------------------------------------------------------------------------
(* Accumulated, Joined and Select.                                         *)

\* f has what op has made of base after each element of s.
Stages(op(_, _), base, s, n, f) ==
  /\ f[0] = base /\ f[n] = Accumulated(op, base, s)
  /\ \A k \in 1 .. n : f[k] = op(f[k - 1], s[k])

\* Accumulated takes the elements one at a time.
LEMMA AccumulatedStages ==
  ASSUME NEW op(_, _), NEW base, NEW s, NEW n \in Nat, n = Len(s)
  PROVE  \E f : Stages(op, base, s, n, f)
<1>1. PICK f : f = CHOOSE g : g = [k \in 0 .. n |-> IF k = 0 THEN base ELSE op(g[k - 1], s[k])]
  OBVIOUS
<1>2. Accumulated(op, base, s) = f[n]
  BY <1>1 DEF Accumulated
<1>3. FiniteNatInductiveDefHypothesis(f, base, LAMBDA v, k : op(v, s[k]), 0, n)
  BY <1>1 DEF FiniteNatInductiveDefHypothesis
<1>4. FiniteNatInductiveDefConclusion(f, base, LAMBDA v, k : op(v, s[k]), 0, n)
  BY <1>3, FiniteNatInductiveDef
<1>5. \A k \in 0 .. n : f[k] = IF k = 0 THEN base ELSE op(f[k - 1], s[k])
  BY <1>4 DEF FiniteNatInductiveDefConclusion
<1> QED
  BY <1>2, <1>5 DEF Stages

\* P(v, k) holds of base with no element taken and is kept by the next one.
Inductive(op(_, _), P(_, _), base, s, n) ==
  /\ P(base, 0)
  /\ \A v : \A k \in 1 .. n : P(v, k - 1) => P(op(v, s[k]), k)

Attained(op(_, _), P(_, _), base, s, n) == P(Accumulated(op, base, s), n)

\* What is inductive holds of all that is accumulated.
LEMMA AccumulatedKeeps ==
  ASSUME NEW op(_, _), NEW P(_, _), NEW base, NEW s, NEW n \in Nat, n = Len(s),
         Inductive(op, P, base, s, n)
  PROVE  Attained(op, P, base, s, n)
<1>1. PICK f : Stages(op, base, s, n, f)
  BY AccumulatedStages
<1>2. P(f[0], 0) /\ \A k \in 1 .. n : P(f[k - 1], k - 1) => P(f[k], k)
  BY <1>1 DEF Inductive, Stages
<1>3. PICK B : B = {k \in 0 .. n : ~P(f[k], k)}
  OBVIOUS
<1>4. B = {}
  <2> SUFFICES ASSUME B # {} PROVE FALSE
    OBVIOUS
  <2>1. B \in SUBSET Nat
    BY <1>3
  <2>2. PICK k \in B : \A j \in B : k <= j
    BY <2>1, LeastNumber
  <2>3. k \in 0 .. n /\ ~P(f[k], k) /\ k # 0
    BY <1>2, <1>3, <2>2
  <2>4. k \in 1 .. n /\ k - 1 \in 0 .. n /\ k - 1 < k
    BY <2>3
  <2>5. ~P(f[k - 1], k - 1)
    BY <1>2, <2>3, <2>4
  <2>6. k - 1 \in B
    BY <1>3, <2>4, <2>5
  <2>7. k <= k - 1
    BY <2>2, <2>6
  <2> QED
    BY <2>4, <2>7
<1>5. P(f[n], n)
  BY <1>3, <1>4
<1> QED
  BY <1>1, <1>5 DEF Attained, Stages

\* Functions on the numbers from 1 are sequences, and so is what sequences make.
LEMMA ListedIs ==
  /\ \A S : \A s \in Seq(S) : Listed(s)
  /\ \A s, t : Listed(s) /\ Listed(t) => Listed(s \o t)
  /\ \A s, x : Listed(s) => Listed(Append(s, x))
  /\ \A s : Listed(s) => Len(s) \in Nat /\ DOMAIN s = 1 .. Len(s)
  /\ Listed(<<>>)
<1>1. ASSUME NEW S, NEW s \in Seq(S) PROVE Listed(s)
  <2>1. PICK n : n = Len(s)
    OBVIOUS
  <2>2. n \in Nat /\ s \in [1 .. n -> S] /\ DOMAIN s = 1 .. n
    BY <2>1, LenProperties
  <2>3. PICK R : R = {s[k] : k \in DOMAIN s}
    OBVIOUS
  <2>4. \A k \in 1 .. n : s[k] \in R
    BY <2>2, <2>3
  <2>5. s \in [1 .. n -> R]
    BY <2>2, <2>4
  <2>6. s \in Seq(R)
    BY <2>2, <2>5
  <2> QED
    BY <2>3, <2>6 DEF Listed
<1>2. \A s : Listed(s) => Len(s) \in Nat /\ DOMAIN s = 1 .. Len(s)
  BY LenProperties DEF Listed
<1>3. ASSUME NEW s, NEW t, Listed(s), Listed(t) PROVE Listed(s \o t)
  <2>1. PICK Q, R, S : Q = {s[k] : k \in DOMAIN s} /\ R = {t[k] : k \in DOMAIN t} /\ S = Q \union R
    OBVIOUS
  <2>2. s \in Seq(Q) /\ t \in Seq(R)
    BY <1>3, <2>1 DEF Listed
  <2>3. s \in [1 .. Len(s) -> Q] /\ t \in [1 .. Len(t) -> R] /\ Len(s) \in Nat /\ Len(t) \in Nat
    BY <2>2, LenProperties
  <2>4. s \in [1 .. Len(s) -> S] /\ t \in [1 .. Len(t) -> S]
    BY <2>1, <2>3
  <2>5. s \in Seq(S) /\ t \in Seq(S)
    BY <2>3, <2>4
  <2>6. s \o t \in Seq(S)
    BY <2>5
  <2> QED
    BY <1>1, <2>6
<1>4. ASSUME NEW s, NEW x, Listed(s) PROVE Listed(Append(s, x))
  <2>1. PICK Q, S : Q = {s[k] : k \in DOMAIN s} /\ S = Q \union {x}
    OBVIOUS
  <2>2. s \in [1 .. Len(s) -> Q] /\ Len(s) \in Nat
    BY <1>4, <2>1, LenProperties DEF Listed
  <2>3. s \in [1 .. Len(s) -> S]
    BY <2>1, <2>2
  <2>4. s \in Seq(S) /\ x \in S
    BY <2>1, <2>2, <2>3
  <2>5. Append(s, x) \in Seq(S)
    BY <2>4
  <2> QED
    BY <1>1, <2>5
<1>5. Listed(<<>>)
  <2>1. <<>> \in Seq({})
    OBVIOUS
  <2> QED
    BY <1>1, <2>1
<1> QED
  BY <1>1, <1>2, <1>3, <1>4, <1>5

\* The sequences of a sequence make a sequence.
LEMMA JoinedListed ==
  ASSUME NEW s, NEW n \in Nat, n = Len(s), \A k \in 1 .. n : Listed(s[k])
  PROVE  Listed(Joined(s))
<1>1. Inductive(LAMBDA t, u : t \o u, LAMBDA v, k : Listed(v), <<>>, s, n)
  BY ListedIs DEF Inductive
<1>2. Attained(LAMBDA t, u : t \o u, LAMBDA v, k : Listed(v), <<>>, s, n)
  BY <1>1, AccumulatedKeeps
<1> QED
  BY <1>2 DEF Attained, Joined

\* Appending and joining add elements and take none away.
LEMMA RangesGrow ==
  /\ \A s, t : Listed(s) /\ Listed(t) =>
       \A x : x \in Range(s \o t) <=> x \in Range(s) \/ x \in Range(t)
  /\ \A s, y : Listed(s) => \A x : x \in Range(Append(s, y)) <=> x \in Range(s) \/ x = y
<1>1. ASSUME NEW s, NEW t, Listed(s), Listed(t), NEW x
      PROVE  x \in Range(s \o t) <=> x \in Range(s) \/ x \in Range(t)
  <2>1. PICK m, n, u : m = Len(s) /\ n = Len(t) /\ u = s \o t
    OBVIOUS
  <2>2. PICK S : S = {s[k] : k \in DOMAIN s} \union {t[k] : k \in DOMAIN t}
    OBVIOUS
  <2>3. m \in Nat /\ n \in Nat /\ DOMAIN s = 1 .. m /\ DOMAIN t = 1 .. n
    BY <1>1, <2>1, ListedIs
  <2>4. s \in Seq(S) /\ t \in Seq(S)
    <3>1. s = [k \in 1 .. m |-> s[k]] /\ t = [k \in 1 .. n |-> t[k]]
      BY <1>1, <2>1, <2>3, LenProperties DEF Listed
    <3>2. s \in [1 .. m -> S] /\ t \in [1 .. n -> S]
      BY <2>2, <2>3, <3>1
    <3> QED
      BY <2>3, <3>2
  <2>5. /\ DOMAIN u = 1 .. (m + n)
        /\ \A k \in 1 .. (m + n) : u[k] = IF k <= m THEN s[k] ELSE t[k - m]
    BY <2>1, <2>4, ConcatProperties, LenProperties
  <2>6. x \in Range(u) <=> \E k \in 1 .. (m + n) : x = u[k]
    BY <2>5 DEF Range
  <2>7. /\ x \in Range(s) <=> \E k \in 1 .. m : x = s[k]
        /\ x \in Range(t) <=> \E k \in 1 .. n : x = t[k]
    BY <2>3 DEF Range
  <2>8. ASSUME NEW k \in 1 .. n PROVE u[k + m] = t[k] /\ k + m \in 1 .. (m + n)
    <3>1. k + m \in 1 .. (m + n) /\ ~(k + m <= m) /\ (k + m) - m = k
      BY <2>3
    <3> QED
      BY <2>5, <3>1
  <2>9. \A k \in 1 .. m : u[k] = s[k] /\ k \in 1 .. (m + n)
    BY <2>3, <2>5
  <2>10. ASSUME NEW k \in 1 .. (m + n)
         PROVE  (k \in 1 .. m /\ u[k] = s[k]) \/ (k - m \in 1 .. n /\ u[k] = t[k - m])
    <3>1. CASE k <= m
      BY <2>3, <2>5, <3>1
    <3>2. CASE ~(k <= m)
      <4>1. k - m \in 1 .. n
        BY <2>3, <3>2
      <4> QED
        BY <2>5, <3>2, <4>1
    <3> QED
      BY <3>1, <3>2
  <2> QED
    BY <2>1, <2>6, <2>7, <2>8, <2>9, <2>10
<1>2. ASSUME NEW s, NEW y, Listed(s), NEW x
      PROVE  x \in Range(Append(s, y)) <=> x \in Range(s) \/ x = y
  <2>1. PICK m, u, S : m = Len(s) /\ u = Append(s, y) /\ S = {s[k] : k \in DOMAIN s}
    OBVIOUS
  <2>2. m \in Nat /\ DOMAIN s = 1 .. m /\ s \in Seq(S)
    BY <1>2, <2>1, ListedIs DEF Listed
  <2>3. DOMAIN u = 1 .. (m + 1) /\ u[m + 1] = y /\ \A k \in 1 .. m : u[k] = s[k]
    BY <2>1, <2>2, AppendProperties
  <2>4. \A k : k \in 1 .. (m + 1) <=> k \in 1 .. m \/ k = m + 1
    BY <2>2
  <2>5. /\ x \in Range(u) <=> \E k \in 1 .. (m + 1) : x = u[k]
        /\ x \in Range(s) <=> \E k \in 1 .. m : x = s[k]
    BY <2>2, <2>3 DEF Range
  <2> QED
    BY <2>1, <2>3, <2>4, <2>5
<1> QED
  BY <1>1, <1>2

\* Joined has what one of its sequences has.
LEMMA JoinedHas ==
  ASSUME NEW s, NEW n \in Nat, n = Len(s), \A k \in 1 .. n : Listed(s[k])
  PROVE  \A x : x \in Range(Joined(s)) <=> \E k \in 1 .. n : x \in Range(s[k])
<1> DEFINE Has(v, k) == Listed(v) /\ \A x : x \in Range(v) <=> \E j \in 1 .. k : x \in Range(s[j])
<1>1. Has(<<>>, 0)
  <2>1. Range(<<>>) = {}
    BY DEF Range
  <2> QED
    BY <2>1, ListedIs
<1>2. ASSUME NEW v, NEW k \in 1 .. n, Has(v, k - 1) PROVE Has(v \o s[k], k)
  <2>1. Listed(v) /\ Listed(s[k])
    BY <1>2
  <2>2. Listed(v \o s[k]) /\ \A x : x \in Range(v \o s[k]) <=> x \in Range(v) \/ x \in Range(s[k])
    BY <2>1, ListedIs, RangesGrow
  <2>3. \A j : j \in 1 .. k <=> j \in 1 .. (k - 1) \/ j = k
    BY <1>2
  <2> QED
    BY <1>2, <2>2, <2>3
<1>3. Inductive(LAMBDA t, u : t \o u, LAMBDA v, k : Has(v, k), <<>>, s, n)
  BY <1>1, <1>2 DEF Inductive
<1> HIDE DEF Has
<1>4. Attained(LAMBDA t, u : t \o u, LAMBDA v, k : Has(v, k), <<>>, s, n)
  BY <1>3, AccumulatedKeeps
<1>5. Has(Joined(s), n)
  BY <1>4 DEF Attained, Joined
<1> QED
  BY <1>5 DEF Has

\* Select has the elements at the chosen places, one for each.
LEMMA SelectHas ==
  ASSUME NEW S, NEW s \in Seq(S), NEW I \in SUBSET (DOMAIN s), NEW t, t = Select(s, I)
  PROVE  /\ t \in Seq(S)
         /\ Range(t) = {s[k] : k \in I}
         /\ (\A i, j \in 1 .. Len(s) : s[i] = s[j] => i = j) =>
              \A i, j \in 1 .. Len(t) : t[i] = t[j] => i = j
<1>1. PICK n : n = Len(s)
  OBVIOUS
<1>2. n \in Nat /\ DOMAIN s = 1 .. n /\ s \in [1 .. n -> S]
  BY <1>1, LenProperties
<1>3. I \in SUBSET Nat /\ IsFiniteSet(I)
  <2>1. IsFiniteSet(1 .. n)
    BY <1>2, FS_Interval
  <2>2. I \in SUBSET (1 .. n)
    BY <1>2
  <2>3. IsFiniteSet(I)
    BY <2>1, <2>2, FS_Subset
  <2> QED
    BY <1>2, <2>2, <2>3
<1>4. PICK p : p = InOrder(I, <)
  OBVIOUS
<1>5. PICK m : m = Cardinality(I)
  OBVIOUS
<1>6. Increasing(p, I) /\ Len(p) = m
  BY <1>3, <1>4, <1>5, InOrderIncreases
<1>7. m \in Nat /\ p \in [1 .. m -> I]
  BY <1>6, LenProperties DEF Increasing
<1>8. t = [k \in 1 .. m |-> s[p[k]]]
  BY <1>4, <1>5 DEF Select
<1>9. t \in [1 .. m -> S] /\ t \in Seq(S) /\ Len(t) = m
  <2>1. \A k \in 1 .. m : p[k] \in 1 .. n /\ s[p[k]] \in S
    BY <1>2, <1>7
  <2>2. t \in [1 .. m -> S]
    BY <1>8, <2>1
  <2> QED
    BY <1>7, <2>2
<1>10. Range(t) = {s[k] : k \in I}
  <2>1. DOMAIN t = 1 .. m /\ \A k \in 1 .. m : t[k] = s[p[k]] /\ p[k] \in I
    BY <1>7, <1>8
  <2>2. \A k \in I : \E j \in 1 .. m : p[j] = k
    BY <1>6 DEF Increasing
  <2>3. \A x : x \in Range(t) <=> \E j \in 1 .. m : x = s[p[j]]
    BY <2>1 DEF Range
  <2>4. \A x : x \in Range(t) <=> \E k \in I : x = s[k]
    BY <2>1, <2>2, <2>3
  <2> QED
    BY <2>4
<1>11. ASSUME \A i, j \in 1 .. n : s[i] = s[j] => i = j, NEW i \in 1 .. m, NEW j \in 1 .. m,
              t[i] = t[j]
       PROVE  i = j
  <2>1. p[i] \in 1 .. n /\ p[j] \in 1 .. n
    BY <1>2, <1>7
  <2>2. s[p[i]] = s[p[j]]
    BY <1>8, <1>11
  <2>3. p[i] = p[j]
    BY <1>11, <2>1, <2>2
  <2>4. /\ i < j => p[i] < p[j]
        /\ j < i => p[j] < p[i]
    BY <1>6 DEF Increasing
  <2>5. ~(i < j) /\ ~(j < i)
    BY <2>1, <2>3, <2>4
  <2> QED
    BY <2>5
<1> QED
  BY <1>1, <1>9, <1>10, <1>11

\* Of finitely many numbers one is the greatest.
LEMMA GreatestNumber ==
  ASSUME NEW n \in Nat, NEW K \in SUBSET (1 .. n), K # {}
  PROVE  \E k \in K : \A j \in K : j <= k
<1>1. PICK D : D = {d \in Nat : \E k \in K : d = n - k}
  OBVIOUS
<1>2. D \in SUBSET Nat /\ \A k \in K : n - k \in D
  BY <1>1
<1>3. D # {}
  BY <1>2
<1>4. PICK m \in D : \A j \in D : m <= j
  BY <1>2, <1>3, LeastNumber
<1>5. PICK k \in K : m = n - k
  BY <1>1, <1>4
<1>6. \A j \in K : n - k <= n - j
  BY <1>2, <1>4, <1>5
<1>7. \A j \in K : j <= k
  BY <1>6
<1> QED
  BY <1>7

-----------------------------------------------------------------------------
(* Where the sorts succeed.                                                *)

\* R contains the links between the numbers up to n and no cycle.
Loopless(R, n, links) ==
  /\ Transitive(R) /\ \A x : <<x, x>> \notin R
  /\ \A x, y \in 1 .. n : <<x, y>> \in links => <<x, y>> \in R

Acyclic(n, links) == \E R : Loopless(R, n, links)

\* Among finitely many elements one comes after no other.
LEMMA FirstExists ==
  ASSUME NEW S, IsFiniteSet(S), S # {}, NEW R, Transitive(R), \A x : <<x, x>> \notin R
  PROVE  \E x \in S : \A y \in S : <<y, x>> \notin R
<1>1. PICK K : K = {Cardinality(Ahead(S, R, x)) : x \in S}
  OBVIOUS
<1>2. \A x : Ahead(S, R, x) \in SUBSET S
  BY DEF Ahead
<1>3. \A x : IsFiniteSet(Ahead(S, R, x)) /\ Cardinality(Ahead(S, R, x)) \in Nat
  BY <1>2, FS_Subset, FS_CardinalityType
<1>4. K \in SUBSET Nat /\ K # {}
  BY <1>1, <1>3
<1>5. PICK k \in K : \A j \in K : k <= j
  BY <1>4, LeastNumber
<1>6. PICK x \in S : k = Cardinality(Ahead(S, R, x))
  BY <1>1, <1>5
<1>7. ASSUME NEW y \in S, <<y, x>> \in R PROVE FALSE
  <2>1. PICK A, B : A = Ahead(S, R, x) /\ B = Ahead(S, R, y)
    OBVIOUS
  <2>2. B \in SUBSET A /\ y \in A /\ y \notin B
    BY <1>7, <2>1 DEF Ahead, Transitive
  <2>3. IsFiniteSet(A) /\ Cardinality(A) \in Nat /\ Cardinality(B) \in Nat
    BY <1>3, <2>1
  <2>4. Cardinality(B) <= Cardinality(A) /\ (Cardinality(A) = Cardinality(B) => A = B)
    BY <2>2, <2>3, FS_Subset
  <2>5. Cardinality(B) \in K /\ k = Cardinality(A)
    BY <1>1, <1>6, <1>7, <2>1
  <2>6. k <= Cardinality(B)
    BY <1>5, <2>5
  <2> QED
    BY <2>2, <2>3, <2>4, <2>5, <2>6
<1> QED
  BY <1>6, <1>7

\* Without a cycle a node can be placed as long as one is left.
LEMMA PlaceNextGrows ==
  ASSUME NEW n \in Nat, NEW links, NEW less, NEW R, Loopless(R, n, links),
         NEW v, PlacedOnce(v, n, links), Len(v) < n
  PROVE  Len(PlaceNext(v, n, links, less)) = Len(v) + 1
<1>1. PICK m : m = Len(v)
  OBVIOUS
<1>2. m \in Nat /\ v \in [1 .. m -> 1 .. n] /\ Range(v) = {v[i] : i \in 1 .. m}
  BY <1>1, LenProperties DEF PlacedOnce, Range
<1>3. PICK S : S = (1 .. n) \ Range(v)
  OBVIOUS
<1>4. S # {}
  <2> SUFFICES ASSUME S = {} PROVE FALSE
    OBVIOUS
  <2>1. v \in Surjection(1 .. m, 1 .. n)
    BY <1>2, <1>3 DEF Surjection
  <2>2. IsFiniteSet(1 .. m) /\ Cardinality(1 .. m) = m /\ Cardinality(1 .. n) = n
    <3>1. ASSUME NEW k \in Nat PROVE IsFiniteSet(1 .. k) /\ Cardinality(1 .. k) = k
      <4>1. 1 \in Int /\ k \in Int
        OBVIOUS
      <4>2. /\ IsFiniteSet(1 .. k)
            /\ Cardinality(1 .. k) = IF 1 > k THEN 0 ELSE k - 1 + 1
        BY <4>1, FS_Interval
      <4> QED
        BY <4>2
    <3> QED
      BY <1>2, <3>1
  <2>3. Cardinality(1 .. n) <= Cardinality(1 .. m)
    BY <2>1, <2>2, FS_Surjection
  <2> QED
    BY <1>1, <1>2, <2>2, <2>3
<1>5. IsFiniteSet(S)
  <2>1. IsFiniteSet(1 .. n)
    BY FS_Interval
  <2>2. S \in SUBSET (1 .. n)
    BY <1>3
  <2> QED
    BY <2>1, <2>2, FS_Subset
<1>6. Transitive(R) /\ \A x : <<x, x>> \notin R
  BY DEF Loopless
<1>7. PICK x \in S : \A y \in S : <<y, x>> \notin R
  BY <1>4, <1>5, <1>6, FirstExists
<1>8. x \in ReadyAfter(v, n, links)
  <2>1. x \in 1 .. n
    BY <1>3
  <2>2. \A y \in 1 .. n : <<y, x>> \in links => y \in Range(v)
    BY <1>3, <1>7, <2>1 DEF Loopless
  <2> QED
    BY <1>3, <1>7, <2>1, <2>2 DEF ReadyAfter
<1>9. \E z : PlaceNext(v, n, links, less) = Append(v, z)
  BY <1>8 DEF PlaceNext
<1>10. v \in Seq(1 .. n)
  BY DEF PlacedOnce
<1>11. \A z : Len(Append(v, z)) = Len(v) + 1
  <2> SUFFICES ASSUME NEW z PROVE Len(Append(v, z)) = Len(v) + 1
    OBVIOUS
  <2>1. PICK T : T = (1 .. n) \union {z}
    OBVIOUS
  <2>2. v \in [1 .. m -> T]
    BY <1>2, <2>1
  <2>3. v \in Seq(T) /\ z \in T
    BY <1>2, <2>1, <2>2
  <2> QED
    BY <2>3
<1> QED
  BY <1>9, <1>11

\* Kahn's algorithm places every node exactly when the links have no cycle.
THEOREM SortCompletes ==
  ASSUME NEW n \in Nat, NEW links, NEW less, StrictOrder(1 .. n, less)
  PROVE  Len(TopologicalOrder(n, links, less)) = n <=> Acyclic(n, links)
<1>1. ASSUME Acyclic(n, links) PROVE Len(TopologicalOrder(n, links, less)) = n
  <2>1. PICK R : Loopless(R, n, links)
    BY <1>1 DEF Acyclic
  <2>2. PICK f : PlacedBy(f, n, links, less)
    BY TopologicalStages
  <2>3. f[0] = <<>> /\ \A k \in 1 .. n : f[k] = PlaceNext(f[k - 1], n, links, less)
    BY <2>2 DEF PlacedBy
  <2> DEFINE Good(k) == PlacedOnce(f[k], n, links) /\ Len(f[k]) = k
  <2>4. Good(0)
    BY <2>3 DEF PlacedOnce
  <2>5. ASSUME NEW k \in 1 .. n, Good(k - 1) PROVE Good(k)
    <3>1. PICK v : v = f[k - 1]
      OBVIOUS
    <3>2. PlacedOnce(v, n, links) /\ Len(v) < n /\ Len(v) = k - 1
      BY <2>5, <3>1
    <3>3. f[k] = PlaceNext(v, n, links, less)
      BY <2>3, <3>1
    <3>4. PlacedOnce(f[k], n, links)
      BY <3>2, <3>3, PlaceNextKeeps
    <3>5. Len(f[k]) = Len(v) + 1
      BY <2>1, <3>2, <3>3, PlaceNextGrows
    <3> QED
      BY <3>2, <3>4, <3>5
  <2> HIDE DEF Good
  <2>6. PICK B : B = {k \in 0 .. n : ~Good(k)}
    OBVIOUS
  <2>7. B = {}
    <3> SUFFICES ASSUME B # {} PROVE FALSE
      OBVIOUS
    <3>1. B \in SUBSET Nat
      BY <2>6
    <3>2. PICK k \in B : \A j \in B : k <= j
      BY <3>1, LeastNumber
    <3>3. k \in 1 .. n /\ ~Good(k)
      BY <2>4, <2>6, <3>2
    <3>4. k - 1 \in 0 .. n /\ k - 1 < k
      BY <3>3
    <3>5. k - 1 \notin B
      BY <3>2, <3>3, <3>4
    <3> QED
      BY <2>5, <2>6, <3>3, <3>4, <3>5
  <2>8. Good(n)
    BY <2>6, <2>7
  <2> QED
    BY <2>2, <2>8 DEF Good, PlacedBy
<1>2. ASSUME Len(TopologicalOrder(n, links, less)) = n PROVE Acyclic(n, links)
  <2>1. PICK v : v = TopologicalOrder(n, links, less)
    OBVIOUS
  <2>2. PlacedOnce(v, n, links) /\ Len(v) = n
    BY <1>2, <2>1, TopologicalPlaces
  <2>3. v \in [1 .. n -> 1 .. n] /\ \A i, j \in 1 .. n : v[i] = v[j] => i = j
    BY <2>2, LenProperties DEF PlacedOnce
  <2>4. \A x \in 1 .. n : \E i \in 1 .. n : v[i] = x
    <3>1. v \in Injection(1 .. n, 1 .. n)
      BY <2>3 DEF Injection, IsInjective
    <3>2. IsFiniteSet(1 .. n)
      BY FS_Interval
    <3>3. v \in Surjection(1 .. n, 1 .. n)
      BY <3>1, <3>2, FS_Injection
    <3> QED
      BY <3>3 DEF Surjection
  <2>5. PICK R : R = {p \in Pairs(n) : \E i, j \in 1 .. n : i < j /\ v[i] = p[1] /\ v[j] = p[2]}
    OBVIOUS
  <2>6. \A x, y : <<x, y>> \in R <=> \E i, j \in 1 .. n : i < j /\ v[i] = x /\ v[j] = y
    BY <2>3, <2>5 DEF Pairs
  <2>7. \A x : <<x, x>> \notin R
    BY <2>3, <2>6
  <2>8. Transitive(R)
    <3> SUFFICES ASSUME NEW a, NEW b, NEW c, <<a, b>> \in R, <<b, c>> \in R
                 PROVE  <<a, c>> \in R
      BY DEF Transitive
    <3>1. PICK i, j \in 1 .. n : i < j /\ v[i] = a /\ v[j] = b
      BY <2>6
    <3>2. PICK k, l \in 1 .. n : k < l /\ v[k] = b /\ v[l] = c
      BY <2>6
    <3>3. j = k
      BY <2>3, <3>1, <3>2
    <3>4. i < l
      BY <3>1, <3>2, <3>3
    <3> QED
      BY <2>6, <3>1, <3>2, <3>4
  <2>9. ASSUME NEW x \in 1 .. n, NEW y \in 1 .. n, <<x, y>> \in links PROVE <<x, y>> \in R
    <3>1. PICK j \in 1 .. n : v[j] = y
      BY <2>4
    <3>2. PICK i \in 1 .. (j - 1) : v[i] = x
      BY <2>2, <2>9, <3>1 DEF PlacedOnce
    <3>3. i \in 1 .. n /\ i < j
      BY <3>1, <3>2
    <3> QED
      BY <2>6, <3>1, <3>2, <3>3
  <2> QED
    BY <2>7, <2>8, <2>9 DEF Acyclic, Loopless
<1> QED
  BY <1>1, <1>2

\* f takes the images, links between the numbers up to m, to links up to n.
TakesLinks(f, m, images, n, links) ==
  \A x, y \in 1 .. m : <<x, y>> \in images =>
    f[x] \in 1 .. n /\ f[y] \in 1 .. n /\ <<f[x], f[y]>> \in links

\* Links that f takes to links without a cycle have none.
LEMMA AcyclicMaps ==
  ASSUME NEW n, NEW links, Acyclic(n, links), NEW m, NEW images, NEW f,
         TakesLinks(f, m, images, n, links)
  PROVE  Acyclic(m, images)
<1>1. PICK R : Loopless(R, n, links)
  BY DEF Acyclic
<1>2. PICK Q : Q = {p \in Pairs(m) : <<f[p[1]], f[p[2]]>> \in R}
  OBVIOUS
<1>3. \A x, y : <<x, y>> \in Q <=> x \in 1 .. m /\ y \in 1 .. m /\ <<f[x], f[y]>> \in R
  BY <1>2 DEF Pairs
<1>4. Transitive(Q)
  <2> SUFFICES ASSUME NEW a, NEW b, NEW c, <<a, b>> \in Q, <<b, c>> \in Q
               PROVE  <<a, c>> \in Q
    BY DEF Transitive
  <2>1. <<f[a], f[b]>> \in R /\ <<f[b], f[c]>> \in R /\ a \in 1 .. m /\ c \in 1 .. m
    BY <1>3
  <2>2. <<f[a], f[c]>> \in R
    BY <1>1, <2>1 DEF Loopless, Transitive
  <2> QED
    BY <1>3, <2>1, <2>2
<1>5. \A x : <<x, x>> \notin Q
  BY <1>1, <1>3 DEF Loopless
<1>6. \A x, y \in 1 .. m : <<x, y>> \in images => <<x, y>> \in Q
  BY <1>1, <1>3 DEF Loopless, TakesLinks
<1> QED
  BY <1>4, <1>5, <1>6 DEF Acyclic, Loopless

\* A path is taken to a path.
LEMMA ReachabilityMaps ==
  ASSUME NEW n \in Nat, NEW links \in SUBSET Pairs(n),
         NEW m \in Nat, NEW images \in SUBSET Pairs(m), NEW f,
         \A x, y \in 1 .. m : <<x, y>> \in images => <<f[x], f[y]>> \in links
  PROVE  \A x, y : <<x, y>> \in Reachability(m, images) =>
           <<f[x], f[y]>> \in Reachability(n, links)
<1>1. PICK R : R = Reachability(n, links)
  OBVIOUS
<1>2. links \subseteq R /\ Transitive(R)
  BY <1>1, ReachabilityCloses
<1>3. PICK Q : Q = {p \in Pairs(m) : <<f[p[1]], f[p[2]]>> \in R}
  OBVIOUS
<1>4. \A x, y : <<x, y>> \in Q <=> x \in 1 .. m /\ y \in 1 .. m /\ <<f[x], f[y]>> \in R
  BY <1>3 DEF Pairs
<1>5. Transitive(Q)
  <2> SUFFICES ASSUME NEW a, NEW b, NEW c, <<a, b>> \in Q, <<b, c>> \in Q
               PROVE  <<a, c>> \in Q
    BY DEF Transitive
  <2>1. <<f[a], f[b]>> \in R /\ <<f[b], f[c]>> \in R /\ a \in 1 .. m /\ c \in 1 .. m
    BY <1>4
  <2>2. <<f[a], f[c]>> \in R
    BY <1>2, <2>1 DEF Transitive
  <2> QED
    BY <1>4, <2>1, <2>2
<1>6. images \subseteq Q
  BY <1>2, <1>3 DEF Pairs
<1>7. Reachability(m, images) \subseteq Q
  BY <1>5, <1>6, ReachabilityCloses
<1> QED
  BY <1>1, <1>4, <1>7

\* sorted_scheduled_systems raises only where groups or systems go round.
LEMMA SchedulableIs ==
  ASSUME NEW S, NEW list \in Seq(S), NEW n \in Nat, NEW links
  PROVE  Schedulable(list, n, links) <=>
           /\ Acyclic(n, links)
           /\ \A i \in DOMAIN list : ~Precedes(list[i], list[i], Reachability(n, links))
           /\ \A p \in SystemLinks(list, Reachability(n, links)) :
                <<p[2], p[1]>> \notin SystemLinks(list, Reachability(n, links))
           /\ Acyclic(Len(list), SystemLinks(list, Reachability(n, links)))
<1>1. PICK R, l : R = Reachability(n, links) /\ l = Len(list)
  OBVIOUS
<1>2. l \in Nat
  BY <1>1, LenProperties
<1>3. Len(GroupOrder(n, links)) = n <=> Acyclic(n, links)
  BY GroupOrderIs, SortCompletes
<1>4. PICK edges : edges = SystemLinks(list, R)
  OBVIOUS
<1>5. PICK less : /\ StrictOrder(1 .. l, less)
                  /\ SystemOrder(list, n, links) = TopologicalOrder(l, edges, less)
  BY <1>1, <1>4, SystemOrderIs
<1>6. Len(SystemOrder(list, n, links)) = l <=> Acyclic(l, edges)
  BY <1>2, <1>5, SortCompletes
<1> QED
  BY <1>1, <1>3, <1>4, <1>6 DEF Schedulable

\* The systems of kept are among those of list, each in groups that f takes to
\* groups of the one it was.
Among(kept, m, list, f, q) ==
  /\ Len(kept) \in Nat /\ DOMAIN kept = 1 .. Len(kept)
  /\ \A i \in DOMAIN kept : q[i] \in DOMAIN list
  /\ \A i, j \in DOMAIN kept : q[i] = q[j] => i = j
  /\ \A i \in DOMAIN kept : \A x \in GroupsOf(kept[i]) : f[x] \in GroupsOf(list[q[i]])

\* Systems that could be sorted still can with fewer of them, in groups that are
\* numbered otherwise, with less between them: numbers do not matter.
THEOREM SchedulableMaps ==
  ASSUME NEW S, NEW list \in Seq(S), NEW n \in Nat, NEW links \in SUBSET Pairs(n),
         NEW T, NEW kept \in Seq(T), NEW m \in Nat, NEW images \in SUBSET Pairs(m),
         NEW f, TakesLinks(f, m, images, n, links),
         NEW q, Among(kept, m, list, f, q),
         Schedulable(list, n, links)
  PROVE  Schedulable(kept, m, images)
<1>1. PICK R, Q : R = Reachability(n, links) /\ Q = Reachability(m, images)
  OBVIOUS
<1>2. PICK E, F : E = SystemLinks(list, R) /\ F = SystemLinks(kept, Q)
  OBVIOUS
<1>3. /\ Acyclic(n, links)
      /\ \A i \in DOMAIN list : ~Precedes(list[i], list[i], R)
      /\ \A p \in E : <<p[2], p[1]>> \notin E
      /\ Acyclic(Len(list), E)
  BY <1>1, <1>2, SchedulableIs
<1>4. Acyclic(m, images)
  BY <1>3, AcyclicMaps
<1>5. \A x, y : <<x, y>> \in Q => <<f[x], f[y]>> \in R
  BY <1>1, ReachabilityMaps DEF TakesLinks
<1>6. ASSUME NEW i \in DOMAIN kept, NEW j \in DOMAIN kept, Precedes(kept[i], kept[j], Q)
      PROVE  Precedes(list[q[i]], list[q[j]], R)
  <2>1. PICK x \in GroupsOf(kept[i]), y \in GroupsOf(kept[j]) : <<x, y>> \in Q
    BY <1>6 DEF Precedes
  <2>2. f[x] \in GroupsOf(list[q[i]]) /\ f[y] \in GroupsOf(list[q[j]])
    BY <2>1 DEF Among
  <2> QED
    BY <1>5, <2>1, <2>2 DEF Precedes
<1>7. \A i \in DOMAIN kept : q[i] \in DOMAIN list
  BY DEF Among
<1>8. \A i \in DOMAIN kept : ~Precedes(kept[i], kept[i], Q)
  BY <1>3, <1>6, <1>7
<1>9. \A i, j : <<i, j>> \in F => /\ i \in DOMAIN kept /\ j \in DOMAIN kept
                                  /\ <<q[i], q[j]>> \in E
  <2> SUFFICES ASSUME NEW i, NEW j, <<i, j>> \in F
               PROVE  /\ i \in DOMAIN kept /\ j \in DOMAIN kept
                      /\ <<q[i], q[j]>> \in E
    OBVIOUS
  <2>1. /\ i \in DOMAIN kept /\ j \in DOMAIN kept /\ i # j
        /\ Precedes(kept[i], kept[j], Q)
    BY <1>2 DEF SystemLinks
  <2>2. q[i] # q[j]
    BY <2>1 DEF Among
  <2>3. <<q[i], q[j]>> \in E
    BY <1>2, <1>6, <1>7, <2>1, <2>2 DEF SystemLinks
  <2> QED
    BY <2>1, <2>3
<1>10. \A p \in F : <<p[2], p[1]>> \notin F
  <2> SUFFICES ASSUME NEW p \in F, <<p[2], p[1]>> \in F PROVE FALSE
    OBVIOUS
  <2>1. PICK i, j : p = <<i, j>>
    BY <1>2 DEF SystemLinks
  <2>2. <<i, j>> \in F /\ <<j, i>> \in F
    BY <2>1
  <2>3. <<q[i], q[j]>> \in E /\ <<q[j], q[i]>> \in E
    BY <1>9, <2>2
  <2> QED
    BY <1>3, <2>3
<1>11. Acyclic(Len(kept), F)
  <2>1. PICK k, l : k = Len(kept) /\ l = Len(list)
    OBVIOUS
  <2>2. DOMAIN list = 1 .. l /\ DOMAIN kept = 1 .. k
    BY <2>1, LenProperties
  <2>3. TakesLinks(q, k, F, l, E)
    BY <1>7, <1>9, <2>2 DEF TakesLinks
  <2>4. Acyclic(l, E)
    BY <1>3, <2>1
  <2>5. Acyclic(k, F)
    BY <2>3, <2>4, AcyclicMaps
  <2> QED
    BY <2>1, <2>5
<1> QED
  BY <1>1, <1>2, <1>4, <1>8, <1>10, <1>11, SchedulableIs
=============================================================================
