-------------------------- MODULE AggregatorProofs --------------------------
(***************************************************************************)
(* Theorems of AggSpec, for any finite set of spans of one host and any    *)
(* history budgets: the ring and its index stay in step, no child is left  *)
(* waiting for a parent that is in the ring, buckets and self times are    *)
(* what a count from scratch gives, and the limits hold; a span's bucket   *)
(* is the path of its ancestors, and, where there is room for all, the     *)
(* order of arrival does not show.  The lemmas about sorting are shared    *)
(* with the proofs about the views.                                        *)
(***************************************************************************)
EXTENDS Ancestry, Ordering, DataLemmas

-----------------------------------------------------------------------------
(* Sorting                                                                 *)

LEMMA NumbersInOrder ==
    ASSUME NEW S, IsFiniteSet(S), S \subseteq Int
    PROVE  /\ Cardinality(S) \in Nat
           /\ InOrder(S, <) \in Seq(S) /\ Len(InOrder(S, <)) = Cardinality(S)
           /\ ToSet(InOrder(S, <)) = S /\ IsInjective(InOrder(S, <))
           /\ \A i, j \in 1..Cardinality(S) : i < j => InOrder(S, <)[i] < InOrder(S, <)[j]
  <1> DEFINE R == {p \in S \X S : p[1] < p[2]}
  <1>1. \A x, y \in S : <<x, y>> \in R <=> x < y
    OBVIOUS
  <1>2. \A x \in S : BelowIn(R, S, x) = {y \in S : y < x}
    BY <1>1 DEF BelowIn
  <1>3. StrictOrder(R, S)
    <2> HIDE DEF R
    <2> QED  BY <1>1 DEF StrictOrder
  <1> HIDE DEF R
  <1> DEFINE a(i) == CHOOSE x \in S : Cardinality({y \in S : y < x}) = i - 1
             b(i) == CHOOSE x \in S : Cardinality(BelowIn(R, S, x)) = i - 1
  <1>4. \A i : a(i) = b(i)
    BY ONLY <1>2
  <1>5. InOrder(S, <) = Ordered(R, S)
    <2>1. InOrder(S, <) = [i \in 1..Cardinality(S) |-> a(i)]
      BY DEF InOrder
    <2>2. Ordered(R, S) = [i \in 1..Cardinality(S) |-> b(i)]
      BY DEF Ordered
    <2> HIDE DEF a, b
    <2> QED  BY ONLY <1>4, <2>1, <2>2
  <1> DEFINE o == InOrder(S, <)
  <1> HIDE DEF o
  <1>6. /\ Cardinality(S) \in Nat
        /\ o \in Seq(S) /\ Len(o) = Cardinality(S) /\ ToSet(o) = S /\ IsInjective(o)
        /\ \A i, j \in 1..Cardinality(S) : i < j => <<o[i], o[j]>> \in R
    BY <1>3, <1>5, OrderedFacts DEF o
  <1>7. \A i \in 1..Cardinality(S) : o[i] \in S
    BY <1>6
  <1>8. \A i, j \in 1..Cardinality(S) : i < j => o[i] < o[j]
    BY <1>1, <1>6, <1>7
  <1> QED  BY <1>6, <1>8 DEF o

LEMMA RankFacts ==
    ASSUME OrderingAssumption
    PROVE  /\ IsFiniteSet(AllStrings)
           /\ \A s \in AllStrings : Rank(s) \in Nat
           /\ \A s, t \in AllStrings : Rank(s) = Rank(t) => s = t
  <1>1. Alphabetical \in Seq(AllStrings) /\ IsInjective(Alphabetical)
    BY DEF OrderingAssumption
  <1>2. \A s \in AllStrings : Rank(s) \in DOMAIN Alphabetical /\ Alphabetical[Rank(s)] = s
    BY DEF AllStrings, ToSet, Rank
  <1>3. DOMAIN Alphabetical = 1..Len(Alphabetical) /\ Len(Alphabetical) \in Nat
    BY <1>1
  <1>4. IsFiniteSet(AllStrings)
    <2> DEFINE f == [i \in 1..Len(Alphabetical) |-> Alphabetical[i]]
    <2>1. f \in Surjection(1..Len(Alphabetical), AllStrings)
      BY <1>1, <1>3 DEF Surjection, AllStrings, ToSet
    <2>2. IsFiniteSet(1..Len(Alphabetical))
      BY <1>3, FS_Interval
    <2> QED  BY <2>1, <2>2, FS_Surjection
  <1>5. \A s \in AllStrings : Rank(s) \in Nat
    BY <1>2, <1>3
  <1> QED  BY <1>2, <1>4, <1>5

LEMMA AlphabeticallyFacts ==
    ASSUME OrderingAssumption, NEW S, S \subseteq AllStrings
    PROVE  /\ IsFiniteSet(S) /\ Cardinality(S) \in Nat
           /\ Alphabetically(S) \in Seq(S) /\ Len(Alphabetically(S)) = Cardinality(S)
           /\ ToSet(Alphabetically(S)) = S /\ IsInjective(Alphabetically(S))
  <1> DEFINE R == {p \in S \X S : Rank(p[1]) < Rank(p[2])}
  <1>1. \A x, y \in S : <<x, y>> \in R <=> Rank(x) < Rank(y)
    OBVIOUS
  <1>2. \A x \in S : BelowIn(R, S, x) = {y \in S : Rank(y) < Rank(x)}
    BY <1>1 DEF BelowIn
  <1>3. \A x \in S : Rank(x) \in Nat
    BY RankFacts
  <1>4. \A x, y \in S : Rank(x) = Rank(y) => x = y
    BY RankFacts
  <1>5. StrictOrder(R, S)
    <2> HIDE DEF R
    <2>1. \A x \in S : <<x, x>> \notin R
      BY <1>1, <1>3
    <2>2. \A x, y, z \in S : <<x, y>> \in R /\ <<y, z>> \in R => <<x, z>> \in R
      BY <1>1, <1>3
    <2>3. \A x, y \in S : x # y => <<x, y>> \in R \/ <<y, x>> \in R
      BY <1>1, <1>3, <1>4
    <2> QED  BY <2>1, <2>2, <2>3 DEF StrictOrder
  <1>6. IsFiniteSet(S)
    BY RankFacts, FS_Subset
  <1> HIDE DEF R
  <1> DEFINE a(i) == CHOOSE x \in S : Cardinality({y \in S : Rank(y) < Rank(x)}) = i - 1
             b(i) == CHOOSE x \in S : Cardinality(BelowIn(R, S, x)) = i - 1
  <1>7. \A i : a(i) = b(i)
    BY ONLY <1>2
  <1>8. Alphabetically(S) = Ordered(R, S)
    <2>1. Alphabetically(S) = [i \in 1..Cardinality(S) |-> a(i)]
      BY DEF Alphabetically, InOrder
    <2>2. Ordered(R, S) = [i \in 1..Cardinality(S) |-> b(i)]
      BY DEF Ordered
    <2> HIDE DEF a, b
    <2> QED  BY ONLY <1>7, <2>1, <2>2
  <1> QED  BY <1>5, <1>6, <1>8, OrderedFacts

-----------------------------------------------------------------------------
(* The order of vectors                                                    *)

(* l and r agree up to i, where l comes before r.                          *)
FirstBefore(l, r, i) ==
    /\ i \in 1..Len(r)
    /\ \A j \in 1..(i - 1) : j <= Len(l) /\ l[j] = r[j]
    /\ i > Len(l) \/ l[i] < r[i]

LEMMA BeforeIs ==
    ASSUME NEW l, NEW r
    PROVE  Before(l, r) <=> \E i : FirstBefore(l, r, i)
  BY DEF Before, FirstBefore

LEMMA BeforeIrreflexive ==
    ASSUME NEW l \in Seq(Int)
    PROVE  ~Before(l, l)
  <1> SUFFICES ASSUME NEW i, FirstBefore(l, l, i)
               PROVE  FALSE
    BY BeforeIs
  <1>1. i \in 1..Len(l) /\ l[i] \in Int /\ Len(l) \in Nat
    BY DEF FirstBefore
  <1> QED  BY <1>1 DEF FirstBefore

LEMMA BeforeTransitive ==
    ASSUME NEW l \in Seq(Int), NEW m \in Seq(Int), NEW r \in Seq(Int),
           Before(l, m), Before(m, r)
    PROVE  Before(l, r)
  <1>1. PICK i : FirstBefore(l, m, i)
    BY BeforeIs
  <1>2. PICK k : FirstBefore(m, r, k)
    BY BeforeIs
  <1>3. /\ i \in 1..Len(m) /\ k \in 1..Len(r)
        /\ Len(l) \in Nat /\ Len(m) \in Nat /\ Len(r) \in Nat
        /\ \A j \in 1..Len(l) : l[j] \in Int
        /\ \A j \in 1..Len(m) : m[j] \in Int
        /\ \A j \in 1..Len(r) : r[j] \in Int
    BY <1>1, <1>2 DEF FirstBefore
  <1>4. CASE i < k
    <2>1. i \in 1..(k - 1) /\ i \in 1..Len(r) /\ m[i] = r[i]
      BY <1>2, <1>3, <1>4 DEF FirstBefore
    <2>2. \A j \in 1..(i - 1) : j \in 1..(k - 1)
      BY <1>3, <1>4
    <2>3. FirstBefore(l, r, i)
      BY <1>1, <1>2, <1>3, <2>1, <2>2 DEF FirstBefore
    <2> QED  BY <2>3, BeforeIs
  <1>5. CASE i = k
    <2>1. m[i] < r[i]
      BY <1>2, <1>3, <1>5 DEF FirstBefore
    <2>2. i > Len(l) \/ l[i] < m[i]
      BY <1>1 DEF FirstBefore
    <2>3. i > Len(l) \/ l[i] < r[i]
      <3>1. CASE i <= Len(l)
        <4>1. l[i] \in Int /\ m[i] \in Int /\ r[i] \in Int /\ l[i] < m[i]
          BY <1>3, <1>5, <2>2, <3>1
        <4> QED  BY <2>1, <4>1
      <3> QED  BY <1>3, <3>1
    <2>4. FirstBefore(l, r, i)
      BY <1>1, <1>2, <1>3, <1>5, <2>3 DEF FirstBefore
    <2> QED  BY <2>4, BeforeIs
  <1>6. CASE i > k
    <2>1. k \in 1..(i - 1) /\ k \in 1..Len(m)
      BY <1>3, <1>6
    <2>2. k <= Len(l) /\ l[k] = m[k]
      BY <1>1, <2>1 DEF FirstBefore
    <2>3. m[k] < r[k]
      BY <1>2, <1>3, <2>1 DEF FirstBefore
    <2>4. \A j \in 1..(k - 1) : j \in 1..(i - 1)
      BY <1>3, <1>6
    <2>5. FirstBefore(l, r, k)
      BY <1>1, <1>2, <1>3, <2>2, <2>3, <2>4 DEF FirstBefore
    <2> QED  BY <2>5, BeforeIs
  <1> QED  BY <1>3, <1>4, <1>5, <1>6

LEMMA BeforeTotal ==
    ASSUME NEW l \in Seq(Int), NEW r \in Seq(Int), l # r
    PROVE  Before(l, r) \/ Before(r, l)
  <1> DEFINE D == {i \in Nat \ {0} : i > Len(l) \/ i > Len(r) \/ l[i] # r[i]}
  <1>1. Len(l) \in Nat /\ Len(r) \in Nat
    OBVIOUS
  <1>2. Len(l) + 1 \in D
    BY <1>1
  <1>3. PICK i \in D : \A j \in D : i <= j
    BY <1>2, LeastNatural
  <1>4. \A j \in 1..(i - 1) : j <= Len(l) /\ j <= Len(r) /\ l[j] = r[j]
    <2> SUFFICES ASSUME NEW j \in 1..(i - 1)
                 PROVE  j <= Len(l) /\ j <= Len(r) /\ l[j] = r[j]
      OBVIOUS
    <2>1. j \in Nat \ {0} /\ ~(i <= j)
      BY <1>3
    <2>2. j \notin D
      BY <1>3, <2>1
    <2> QED  BY <1>1, <2>1, <2>2
  <1>5. i \in Nat \ {0} /\ (i > Len(l) \/ i > Len(r) \/ l[i] # r[i])
    BY <1>3
  <1> HIDE DEF D
  <1>6. CASE i > Len(l) /\ i > Len(r)
    <2>1. Len(l) = Len(r)
      <3>1. Len(l) + 1 <= i /\ Len(r) + 1 <= i
        BY <1>1, <1>5, <1>6
      <3>2. ASSUME Len(l) < Len(r)
            PROVE  FALSE
        <4>1. Len(r) \in 1..(i - 1)
          BY <1>1, <1>5, <3>1, <3>2
        <4> QED  BY <1>1, <1>4, <3>2, <4>1
      <3>3. ASSUME Len(r) < Len(l)
            PROVE  FALSE
        <4>1. Len(l) \in 1..(i - 1)
          BY <1>1, <1>5, <3>1, <3>3
        <4> QED  BY <1>1, <1>4, <3>3, <4>1
      <3> QED  BY <1>1, <3>2, <3>3
    <2>2. \A j \in 1..Len(l) : l[j] = r[j]
      BY <1>1, <1>4, <1>5, <1>6
    <2>3. l = r
      BY <2>1, <2>2
    <2> QED  BY <2>3
  <1>7. CASE i > Len(l) /\ i <= Len(r)
    <2>1. FirstBefore(l, r, i)
      BY <1>1, <1>4, <1>5, <1>7 DEF FirstBefore
    <2> QED  BY <2>1, BeforeIs
  <1>8. CASE i <= Len(l) /\ i > Len(r)
    <2>1. FirstBefore(r, l, i)
      BY <1>1, <1>4, <1>5, <1>8 DEF FirstBefore
    <2> QED  BY <2>1, BeforeIs
  <1>9. CASE i <= Len(l) /\ i <= Len(r)
    <2>1. l[i] \in Int /\ r[i] \in Int /\ l[i] # r[i]
      BY <1>1, <1>5, <1>9
    <2>2. l[i] < r[i] => FirstBefore(l, r, i)
      BY <1>1, <1>4, <1>5, <1>9 DEF FirstBefore
    <2>3. r[i] < l[i] => FirstBefore(r, l, i)
      BY <1>1, <1>4, <1>5, <1>9 DEF FirstBefore
    <2> QED  BY <2>1, <2>2, <2>3, BeforeIs
  <1> QED  BY <1>1, <1>5, <1>6, <1>7, <1>8, <1>9

(* Stacks and splits as vectors: different ones make different vectors.    *)
IsSplits(m) == DOMAIN m \subseteq AllStrings /\ m \in [DOMAIN m -> AllStrings]

LEMMA RanksFacts ==
    ASSUME OrderingAssumption, NEW s \in Seq(AllStrings), NEW t \in Seq(AllStrings)
    PROVE  /\ Ranks(s) \in Seq(Int) /\ Len(Ranks(s)) = Len(s)
           /\ \A i \in 1..Len(s) : Ranks(s)[i] = Rank(s[i])
           /\ Ranks(s) = Ranks(t) => s = t
  <1>1. \A u \in Seq(AllStrings) : \A i \in 1..Len(u) : u[i] \in AllStrings /\ Rank(u[i]) \in Int
    BY RankFacts
  <1>2. \A u \in Seq(AllStrings) :
            /\ Ranks(u) \in Seq(Int) /\ Len(Ranks(u)) = Len(u)
            /\ \A i \in 1..Len(u) : Ranks(u)[i] = Rank(u[i])
    <2> SUFFICES ASSUME NEW u \in Seq(AllStrings)
                 PROVE  /\ Ranks(u) \in Seq(Int) /\ Len(Ranks(u)) = Len(u)
                        /\ \A i \in 1..Len(u) : Ranks(u)[i] = Rank(u[i])
      OBVIOUS
    <2>1. Len(u) \in Nat /\ Ranks(u) = [i \in 1..Len(u) |-> Rank(u[i])]
      BY DEF Ranks
    <2>2. Ranks(u) \in Seq(Int)
      BY <1>1, <2>1
    <2> QED  BY <2>1, <2>2
  <1>3. ASSUME Ranks(s) = Ranks(t)
        PROVE  s = t
    <2>1. Len(s) = Len(t)
      BY <1>2, <1>3
    <2>2. \A i \in 1..Len(s) : Rank(s[i]) = Rank(t[i])
      BY <1>2, <1>3, <2>1
    <2>3. \A i \in 1..Len(s) : s[i] = t[i]
      BY <1>1, <2>1, <2>2, RankFacts
    <2> QED  BY <2>1, <2>3
  <1> QED  BY <1>2, <1>3

LEMMA PairsItems ==
    ASSUME OrderingAssumption, NEW m, IsSplits(m)
    PROVE  /\ Pairs(m) \in Seq(Int) /\ Len(Pairs(m)) = 2 * Len(Alphabetically(DOMAIN m))
           /\ Len(Alphabetically(DOMAIN m)) \in Nat
           /\ \A k \in 1..Len(Alphabetically(DOMAIN m)) :
                 /\ Pairs(m)[2 * k - 1] = Rank(Alphabetically(DOMAIN m)[k])
                 /\ Pairs(m)[2 * k] = Rank(m[Alphabetically(DOMAIN m)[k]])
                 /\ Alphabetically(DOMAIN m)[k] \in DOMAIN m
  <1> DEFINE keys == Alphabetically(DOMAIN m)
             n == Len(keys)
             item(i) == IF i % 2 = 1 THEN Rank(keys[(i + 1) \div 2])
                        ELSE Rank(m[keys[(i + 1) \div 2]])
             p == Pairs(m)
  <1>1. keys \in Seq(DOMAIN m) /\ n \in Nat
    BY AlphabeticallyFacts DEF IsSplits
  <1>2. p = [i \in 1..(2 * n) |-> item(i)]
    BY DEF Pairs
  <1> HIDE DEF keys, n, p
  <1>3. \A k \in 1..n : keys[k] \in DOMAIN m
    BY <1>1 DEF n
  <1>4. \A k \in 1..n : Rank(keys[k]) \in Int /\ Rank(m[keys[k]]) \in Int
    <2> SUFFICES ASSUME NEW k \in 1..n
                 PROVE  Rank(keys[k]) \in Int /\ Rank(m[keys[k]]) \in Int
      OBVIOUS
    <2>1. keys[k] \in AllStrings /\ m[keys[k]] \in AllStrings
      BY <1>3 DEF IsSplits
    <2> QED  BY <2>1, RankFacts
  <1>5. \A i \in 1..(2 * n) : (i + 1) \div 2 \in 1..n
    BY <1>1
  <1>6. \A i \in 1..(2 * n) : item(i) \in Int
    BY <1>4, <1>5
  <1>7. \A k \in 1..n : /\ 2 * k - 1 \in 1..(2 * n) /\ 2 * k \in 1..(2 * n)
                        /\ (2 * k - 1) % 2 = 1 /\ (2 * k) % 2 = 0
                        /\ ((2 * k - 1) + 1) \div 2 = k /\ (2 * k + 1) \div 2 = k
    BY <1>1
  <1>8. \A k \in 1..n : item(2 * k - 1) = Rank(keys[k]) /\ item(2 * k) = Rank(m[keys[k]])
    BY <1>7
  <1> HIDE DEF item
  <1>9. 2 * n \in Nat
    BY <1>1
  <1>10. p \in Seq(Int) /\ Len(p) = 2 * n /\ \A i \in 1..(2 * n) : p[i] = item(i)
    BY <1>2, <1>6, <1>9
  <1> QED  BY <1>1, <1>3, <1>7, <1>8, <1>10 DEF keys, n, p

LEMMA PairsFacts ==
    ASSUME OrderingAssumption, NEW m, IsSplits(m), NEW n, IsSplits(n)
    PROVE  Pairs(m) \in Seq(Int) /\ (Pairs(m) = Pairs(n) => m = n)
  <1>1. Pairs(m) \in Seq(Int)
    BY PairsItems
  <1> SUFFICES ASSUME Pairs(m) = Pairs(n)
               PROVE  m = n
    BY <1>1
  <1> DEFINE km == Alphabetically(DOMAIN m)
             kn == Alphabetically(DOMAIN n)
             p == Pairs(m)
             c == Len(km)
  <1>2. /\ Len(p) = 2 * c /\ c \in Nat
        /\ \A k \in 1..c : /\ p[2 * k - 1] = Rank(km[k]) /\ p[2 * k] = Rank(m[km[k]])
                           /\ km[k] \in DOMAIN m
    BY PairsItems
  <1>3. /\ Len(p) = 2 * Len(kn) /\ Len(kn) \in Nat
        /\ \A k \in 1..Len(kn) : /\ p[2 * k - 1] = Rank(kn[k]) /\ p[2 * k] = Rank(n[kn[k]])
                                 /\ kn[k] \in DOMAIN n
    BY PairsItems
  <1>4. km \in Seq(DOMAIN m) /\ kn \in Seq(DOMAIN n) /\ ToSet(km) = DOMAIN m /\ ToSet(kn) = DOMAIN n
    BY AlphabeticallyFacts DEF IsSplits
  <1> HIDE DEF km, kn, p
  <1>5. Len(kn) = c
    BY <1>2, <1>3
  <1>6. \A k \in 1..c : km[k] = kn[k] /\ m[km[k]] = n[km[k]]
    <2> SUFFICES ASSUME NEW k \in 1..c
                 PROVE  km[k] = kn[k] /\ m[km[k]] = n[km[k]]
      OBVIOUS
    <2>1. km[k] \in DOMAIN m /\ kn[k] \in DOMAIN n /\ Rank(km[k]) = Rank(kn[k])
      BY <1>2, <1>3, <1>5
    <2>2. km[k] \in AllStrings /\ kn[k] \in AllStrings
      BY <2>1 DEF IsSplits
    <2>3. km[k] = kn[k]
      BY <2>1, <2>2, RankFacts
    <2>4. Rank(m[km[k]]) = Rank(n[km[k]])
      BY <1>2, <1>3, <1>5, <2>3
    <2>5. m[km[k]] \in AllStrings /\ n[km[k]] \in AllStrings
      BY <2>1, <2>3 DEF IsSplits
    <2> QED  BY <2>3, <2>4, <2>5, RankFacts
  <1>7. km = kn
    BY <1>4, <1>5, <1>6
  <1>8. DOMAIN m = DOMAIN n
    BY <1>4, <1>7
  <1>9. ASSUME NEW key \in DOMAIN m
        PROVE  m[key] = n[key]
    <2>1. PICK k \in DOMAIN km : key = km[k]
      BY <1>4 DEF ToSet
    <2>2. k \in 1..c
      BY <1>4, <2>1
    <2> QED  BY <1>6, <2>1, <2>2
  <1> QED  BY <1>8, <1>9 DEF IsSplits

-----------------------------------------------------------------------------
(* Bags of times                                                           *)

TimeBags == UNION {[D -> Nat \ {0}] : D \in SUBSET Nat}
Copies(b, n) == IF n \in DOMAIN b THEN b[n] ELSE 0

LEMMA BagAddFacts ==
    ASSUME NEW b \in TimeBags, NEW n \in Nat
    PROVE  /\ Bag!BagAdd(b, n) \in TimeBags
           /\ DOMAIN Bag!BagAdd(b, n) = DOMAIN b \cup {n}
           /\ \A e \in DOMAIN b \cup {n} :
                 Bag!BagAdd(b, n)[e] = IF e = n THEN Copies(b, n) + 1 ELSE b[e]
  <1>1. PICK D \in SUBSET Nat : b \in [D -> Nat \ {0}]
    BY DEF TimeBags
  <1>2. Bag!BagAdd(b, n) = [e \in D \cup {n} |-> IF e = n THEN Copies(b, n) + 1 ELSE b[e]]
    <2>1. CASE n \in D
      BY <1>1, <2>1 DEF Bag!BagAdd, Copies
    <2>2. CASE n \notin D
      BY <1>1, <2>2 DEF Bag!BagAdd, Copies
    <2> QED  BY <2>1, <2>2
  <1>3. Bag!BagAdd(b, n) \in [D \cup {n} -> Nat \ {0}]
    BY <1>1, <1>2 DEF Copies
  <1> QED  BY <1>1, <1>2, <1>3 DEF TimeBags

LEMMA BagsEqual ==
    ASSUME NEW b \in TimeBags, NEW c \in TimeBags, DOMAIN b = DOMAIN c,
           \A e \in DOMAIN b : b[e] = c[e]
    PROVE  b = c
  BY DEF TimeBags

LEMMA BagAddCommutes ==
    ASSUME NEW b \in TimeBags, NEW m \in Nat, NEW n \in Nat
    PROVE  Bag!BagAdd(Bag!BagAdd(b, m), n) = Bag!BagAdd(Bag!BagAdd(b, n), m)
  <1> DEFINE c == Bag!BagAdd(b, m)
             d == Bag!BagAdd(b, n)
  <1>1. /\ c \in TimeBags /\ DOMAIN c = DOMAIN b \cup {m}
        /\ \A e \in DOMAIN b \cup {m} : c[e] = IF e = m THEN Copies(b, m) + 1 ELSE b[e]
        /\ d \in TimeBags /\ DOMAIN d = DOMAIN b \cup {n}
        /\ \A e \in DOMAIN b \cup {n} : d[e] = IF e = n THEN Copies(b, n) + 1 ELSE b[e]
    BY BagAddFacts
  <1> HIDE DEF c, d
  <1>2. /\ Bag!BagAdd(c, n) \in TimeBags /\ DOMAIN Bag!BagAdd(c, n) = DOMAIN c \cup {n}
        /\ \A e \in DOMAIN c \cup {n} : Bag!BagAdd(c, n)[e] = IF e = n THEN Copies(c, n) + 1 ELSE c[e]
        /\ Bag!BagAdd(d, m) \in TimeBags /\ DOMAIN Bag!BagAdd(d, m) = DOMAIN d \cup {m}
        /\ \A e \in DOMAIN d \cup {m} : Bag!BagAdd(d, m)[e] = IF e = m THEN Copies(d, m) + 1 ELSE d[e]
    BY <1>1, BagAddFacts
  <1>3. CASE m = n
    BY <1>3 DEF c, d
  <1>4. CASE m # n
    <2>1. Copies(c, n) = Copies(b, n) /\ Copies(d, m) = Copies(b, m)
      BY <1>1, <1>4 DEF Copies
    <2>2. ASSUME NEW e \in DOMAIN b \cup {m, n}
          PROVE  Bag!BagAdd(c, n)[e] = Bag!BagAdd(d, m)[e]
      BY <1>1, <1>2, <1>4, <2>1, <2>2
    <2> QED  BY <1>1, <1>2, <2>2, BagsEqual DEF c, d
  <1> QED  BY <1>3, <1>4

LEMMA BagRemoveUndoes ==
    ASSUME NEW b \in TimeBags, NEW n \in Nat
    PROVE  Bag!BagRemove(Bag!BagAdd(b, n), n) = b
  <1>1. PICK D \in SUBSET Nat : b \in [D -> Nat \ {0}]
    BY DEF TimeBags
  <1> DEFINE c == Bag!BagAdd(b, n)
  <1>2. /\ DOMAIN c = D \cup {n} /\ DOMAIN b = D
        /\ c[n] = Copies(b, n) + 1
        /\ \A e \in D \ {n} : c[e] = b[e]
    BY <1>1, BagAddFacts
  <1> HIDE DEF c
  <1>3. CASE n \in D
    <2>1. c[n] = b[n] + 1 /\ b[n] \in Nat \ {0} /\ DOMAIN c = D
      BY <1>1, <1>2, <1>3 DEF Copies
    <2>2. Bag!BagRemove(c, n) = [e \in D |-> IF e = n THEN c[e] - 1 ELSE c[e]]
      BY <1>3, <2>1 DEF Bag!BagRemove
    <2>3. \A e \in D : (IF e = n THEN c[e] - 1 ELSE c[e]) = b[e]
      BY <1>2, <2>1
    <2>4. Bag!BagRemove(c, n) = [e \in D |-> b[e]]
      BY <2>2, <2>3
    <2> QED  BY <1>1, <2>4 DEF c
  <1>4. CASE n \notin D
    <2>1. c[n] = 1
      BY <1>2, <1>4 DEF Copies
    <2>2. Bag!BagRemove(c, n) = [e \in D |-> c[e]]
      BY <1>2, <1>4, <2>1 DEF Bag!BagRemove
    <2>3. Bag!BagRemove(c, n) = [e \in D |-> b[e]]
      BY <1>2, <1>4, <2>2
    <2> QED  BY <1>1, <2>3 DEF c
  <1> QED  BY <1>3, <1>4

TallyOn(f, S) == FoldFunctionOnSet(LAMBDA ns, bag : Bag!BagAdd(bag, ns), EmptyBag, f, S)
Putting(f, U) == [x \in U |-> [b \in TimeBags |-> Bag!BagAdd(b, f[x])]]

LEMMA EmptyTimeBag == EmptyBag \in TimeBags
  <1>1. EmptyBag = [e \in {} |-> 1]
    BY DEF EmptyBag, SetToBag
  <1>2. EmptyBag \in [{} -> Nat \ {0}]
    BY <1>1
  <1> QED  BY <1>2 DEF TimeBags

LEMMA TallyIsFold ==
    ASSUME NEW U, IsFiniteSet(U), NEW f, \A x \in U : f[x] \in Nat,
           NEW S \in SUBSET U
    PROVE  TallyOn(f, S) = FoldOf(Putting(f, U), EmptyBag, S)
  <1> DEFINE g == Putting(f, U)
             Put2(h) == [s \in SUBSET S |-> IF s = {} THEN EmptyBag
                          ELSE Bag!BagAdd(h[s \ {CHOOSE x \in s : TRUE}], f[CHOOSE x \in s : TRUE])]
             Fold(h) == [s \in SUBSET S |-> FoldStep(g, EmptyBag, s, h)]
  <1>1. g \in [U -> [TimeBags -> TimeBags]]
    <2>1. \A x \in U, b \in TimeBags : Bag!BagAdd(b, f[x]) \in TimeBags
      BY BagAddFacts
    <2> QED  BY <2>1 DEF Putting
  <1>2. IsFiniteSet(S) /\ EmptyBag \in TimeBags
    <2>1. IsFiniteSet(S)
      BY FS_Subset
    <2>2. EmptyBag \in TimeBags
      BY EmptyTimeBag
    <2> QED  BY <2>1, <2>2
  <1>3. ASSUME NEW h \in [SUBSET S -> TimeBags]
        PROVE  Put2(h) = Fold(h)
    <2>1. ASSUME NEW s \in SUBSET S
          PROVE  (IF s = {} THEN EmptyBag
                  ELSE Bag!BagAdd(h[s \ {CHOOSE x \in s : TRUE}], f[CHOOSE x \in s : TRUE]))
                    = FoldStep(g, EmptyBag, s, h)
      <3>1. CASE s = {}
        BY <3>1 DEF FoldStep
      <3>2. CASE s # {}
        <4>1. Pick(s) \in U /\ h[s \ {Pick(s)}] \in TimeBags
          BY <3>2, PickFacts
        <4>2. g[Pick(s)][h[s \ {Pick(s)}]] = Bag!BagAdd(h[s \ {Pick(s)}], f[Pick(s)])
          BY <4>1 DEF Putting
        <4> QED  BY <3>2, <4>2, Zenon DEF FoldStep, Pick
      <3> QED  BY <3>1, <3>2
    <2> QED  BY <2>1, Zenon
  <1>4. ASSUME NEW h, h = Put2(h)
        PROVE  h \in [SUBSET S -> TimeBags]
    <2> DEFINE T == {s \in SUBSET S : h[s] \in TimeBags}
    <2>1. DOMAIN h = SUBSET S /\ \A s \in SUBSET S : h[s] = IF s = {} THEN EmptyBag
                          ELSE Bag!BagAdd(h[s \ {CHOOSE x \in s : TRUE}], f[CHOOSE x \in s : TRUE])
      BY <1>4, Zenon
    <2>2. {} \in T
      BY <1>2, <2>1
    <2>3. ASSUME NEW s \in SUBSET S, s # {}, s \ {Pick(s)} \in T
          PROVE  s \in T
      <3>1. h[s] = Bag!BagAdd(h[s \ {Pick(s)}], f[Pick(s)])
        BY <2>1, <2>3, Zenon DEF Pick
      <3>2. Pick(s) \in U /\ h[s \ {Pick(s)}] \in TimeBags
        BY <2>3, PickFacts
      <3>3. Bag!BagAdd(h[s \ {Pick(s)}], f[Pick(s)]) \in TimeBags
        BY <3>2, BagAddFacts
      <3> QED  BY <3>1, <3>3
    <2> HIDE DEF T
    <2>4. SUBSET S \subseteq T
      BY <1>2, <2>2, <2>3, SubsetInduction
    <2>5. PICK z : z = [s \in SUBSET S |-> IF s = {} THEN EmptyBag
                          ELSE Bag!BagAdd(h[s \ {CHOOSE x \in s : TRUE}], f[CHOOSE x \in s : TRUE])]
      OBVIOUS
    <2>6. h = z
      BY <1>4, <2>5, Zenon
    <2> QED  BY <2>4, <2>5, <2>6 DEF T
  <1>5. ASSUME NEW h, h = Fold(h)
        PROVE  h \in [SUBSET S -> TimeBags]
    <2>1. Operation(g, EmptyBag, U, TimeBags)
      BY <1>1, <1>2 DEF Operation
    <2>2. IsTable(h, g, EmptyBag, S)
      BY <1>5, Zenon DEF IsTable
    <2> HIDE DEF g
    <2> QED  BY <2>1, <2>2, TableTyped
  <1> HIDE DEF Put2, Fold
  <1>6. \A h : (h = Put2(h)) <=> (h = Fold(h))
    BY <1>3, <1>4, <1>5
  <1>7. (CHOOSE h : h = Put2(h)) = (CHOOSE h : h = Fold(h))
    BY <1>6, Zenon
  <1> QED  BY <1>7, Zenon DEF TallyOn, FoldFunctionOnSet, MapThenFoldSet, FoldOf, FoldTable, Put2, Fold

LEMMA TallyFacts ==
    ASSUME NEW U, IsFiniteSet(U), NEW f, \A x \in U : f[x] \in Nat
    PROVE  /\ TallyOn(f, U) \in TimeBags
           /\ U = {} => TallyOn(f, U) = EmptyBag
           /\ \A x \in U : TallyOn(f, U) = Bag!BagAdd(TallyOn(f, U \ {x}), f[x])
  <1> DEFINE g == Putting(f, U)
  <1>1. /\ g \in [U -> [TimeBags -> TimeBags]]
        /\ \A x \in U, b \in TimeBags : g[x][b] = Bag!BagAdd(b, f[x])
    <2>1. \A x \in U, b \in TimeBags : Bag!BagAdd(b, f[x]) \in TimeBags
      BY BagAddFacts
    <2> QED  BY <2>1 DEF Putting
  <1>2. ASSUME NEW x \in U, NEW y \in U, NEW b \in TimeBags
        PROVE  g[x][g[y][b]] = g[y][g[x][b]]
    <2>1. Bag!BagAdd(b, f[x]) \in TimeBags /\ Bag!BagAdd(b, f[y]) \in TimeBags
      BY BagAddFacts
    <2>2. Bag!BagAdd(Bag!BagAdd(b, f[y]), f[x]) = Bag!BagAdd(Bag!BagAdd(b, f[x]), f[y])
      BY BagAddCommutes
    <2> HIDE DEF g
    <2> QED  BY <1>1, <2>1, <2>2
  <1>3. \A S \in SUBSET U : TallyOn(f, S) = FoldOf(g, EmptyBag, S)
    BY TallyIsFold
  <1> HIDE DEF g
  <1>4. TakesAny(g, EmptyBag, U, TimeBags)
    <2>1. Operation(g, EmptyBag, U, TimeBags)
      BY <1>1, EmptyTimeBag DEF Operation
    <2>2. Commutes(g, U, TimeBags)
      BY <1>2 DEF Commutes
    <2> QED  BY <2>1, <2>2, FoldTakesAny
  <1>5. U \in SUBSET U /\ \A x \in U : U \ {x} \in SUBSET U
    OBVIOUS
  <1>6. ASSUME NEW x \in U
        PROVE  TallyOn(f, U) = Bag!BagAdd(TallyOn(f, U \ {x}), f[x])
    <2>1. FoldOf(g, EmptyBag, U) = g[x][FoldOf(g, EmptyBag, U \ {x})]
      BY <1>4, <1>5 DEF TakesAny
    <2>2. FoldOf(g, EmptyBag, U \ {x}) \in TimeBags
      BY <1>4, <1>5 DEF TakesAny
    <2> QED  BY <1>1, <1>3, <1>5, <2>1, <2>2
  <1>7. TallyOn(f, U) \in TimeBags /\ (U = {} => TallyOn(f, U) = EmptyBag)
    BY <1>3, <1>4, <1>5 DEF TakesAny
  <1> QED  BY <1>6, <1>7

LEMMA TallyExtends ==
    ASSUME NEW S, IsFiniteSet(S), NEW x, x \notin S, NEW f \in [S \cup {x} -> Nat],
           NEW h \in [S -> Nat], \A y \in S : h[y] = f[y]
    PROVE  Tally(f) = Bag!BagAdd(Tally(h), f[x]) /\ Tally(h) \in TimeBags
  <1> DEFINE U == S \cup {x}
  <1>1. IsFiniteSet(U) /\ U \ {x} = S /\ x \in U /\ \A y \in U : f[y] \in Nat
    BY FS_AddElement
  <1>2. Putting(f, S) = Putting(h, S)
    BY DEF Putting
  <1> HIDE DEF U
  <1>3. TallyOn(f, U) = Bag!BagAdd(TallyOn(f, S), f[x])
    BY <1>1, TallyFacts
  <1>4. TallyOn(h, S) = TallyOn(f, S)
    <2>1. S \in SUBSET S /\ (\A y \in S : f[y] \in Nat) /\ (\A y \in S : h[y] \in Nat)
      OBVIOUS
    <2>2. TallyOn(f, S) = FoldOf(Putting(f, S), EmptyBag, S)
      BY <2>1, TallyIsFold
    <2>3. TallyOn(h, S) = FoldOf(Putting(h, S), EmptyBag, S)
      BY <2>1, TallyIsFold
    <2> QED  BY <1>2, <2>2, <2>3
  <1>5. TallyOn(h, S) \in TimeBags
    BY TallyFacts
  <1>6. DOMAIN f = U /\ DOMAIN h = S
    BY DEF U
  <1>7. Tally(f) = TallyOn(f, U) /\ Tally(h) = TallyOn(h, S)
    BY <1>6 DEF Tally, FoldFunction, TallyOn
  <1> QED  BY <1>3, <1>4, <1>5, <1>7

LEMMA TallyEmpty ==
    ASSUME NEW f, DOMAIN f = {}
    PROVE  Tally(f) = EmptyBag
  <1>1. TallyOn(f, {}) = EmptyBag
    BY TallyFacts, FS_EmptySet
  <1> QED  BY <1>1 DEF Tally, FoldFunction, TallyOn

-----------------------------------------------------------------------------
(* Recounts                                                                *)

(* A finite part of the ring, with times in it.                            *)
Timed(ring, ids) ==
    IsFiniteSet(ids) /\ \A i \in ids : ring[i].total_ns \in Nat /\ ring[i].self_ns \in Nat

LEMMA RecountEmpty ==
    ASSUME NEW ring
    PROVE  Recount(ring, {}) = BucketState
  <1> DEFINE totals == [id \in {} |-> ring[id].total_ns]
             selves == [id \in {} |-> ring[id].self_ns]
  <1>1. DOMAIN totals = {} /\ DOMAIN selves = {}
    OBVIOUS
  <1> HIDE DEF totals, selves
  <1>2. SumFunction(totals) = 0 /\ SumFunction(selves) = 0
    BY <1>1, SumEmpty
  <1>3. Tally(totals) = EmptyBag /\ Tally(selves) = EmptyBag
    BY <1>1, TallyEmpty
  <1>4. Cardinality({}) = 0
    BY FS_EmptySet
  <1> QED  BY <1>2, <1>3, <1>4 DEF Recount, BucketState, totals, selves

(* What was added to a sum and is taken away leaves the sum.               *)
LEMMA AddedThenTaken ==
  ASSUME NEW m \in Nat, NEW n \in Nat, NEW k, k = m + n
  PROVE  k - m = n
  OBVIOUS

(* One more span, and one less.                                            *)
LEMMA RecountExtends ==
    ASSUME NEW ring, NEW ids, NEW x, x \notin ids, Timed(ring, ids \cup {x})
    PROVE  /\ Recount(ring, ids \cup {x}) = add(Recount(ring, ids), ring[x].total_ns, ring[x].self_ns)
           /\ Recount(ring, ids) = remove(Recount(ring, ids \cup {x}), ring[x].total_ns, ring[x].self_ns)
           /\ Recount(ring, ids).count \in Nat
           /\ (Recount(ring, ids).count = 0) <=> (ids = {})
  <1> DEFINE U == ids \cup {x}
             tU == [id \in U |-> ring[id].total_ns]
             sU == [id \in U |-> ring[id].self_ns]
             t == [id \in ids |-> ring[id].total_ns]
             s == [id \in ids |-> ring[id].self_ns]
  <1>1. /\ IsFiniteSet(ids) /\ Cardinality(ids) \in Nat /\ Cardinality(U) = Cardinality(ids) + 1
        /\ (Cardinality(ids) = 0) <=> (ids = {})
    <2>1. IsFiniteSet(ids)
      BY FS_Subset DEF Timed
    <2> QED  BY <2>1, FS_AddElement, FS_CardinalityType, FS_EmptySet
  <1>2. /\ tU \in [U -> Nat] /\ t \in [ids -> Nat] /\ tU[x] = ring[x].total_ns
        /\ sU \in [U -> Nat] /\ s \in [ids -> Nat] /\ sU[x] = ring[x].self_ns
        /\ \A y \in ids : t[y] = tU[y] /\ s[y] = sU[y]
        /\ ring[x].total_ns \in Nat /\ ring[x].self_ns \in Nat
    BY DEF Timed
  <1>3. /\ Recount(ring, U) = [count |-> Cardinality(U),
                               total_sum_ns |-> SumFunction(tU), self_sum_ns |-> SumFunction(sU),
                               total_ns_multiset |-> Tally(tU), self_ns_multiset |-> Tally(sU)]
        /\ Recount(ring, ids) = [count |-> Cardinality(ids),
                                 total_sum_ns |-> SumFunction(t), self_sum_ns |-> SumFunction(s),
                                 total_ns_multiset |-> Tally(t), self_ns_multiset |-> Tally(s)]
    BY DEF Recount
  <1> HIDE DEF tU, sU, t, s
  <1>4. /\ SumFunction(tU) = ring[x].total_ns + SumFunction(t) /\ SumFunction(t) \in Nat
        /\ SumFunction(sU) = ring[x].self_ns + SumFunction(s) /\ SumFunction(s) \in Nat
    BY <1>1, <1>2, SumExtends
  <1>5. /\ Tally(tU) = Bag!BagAdd(Tally(t), ring[x].total_ns) /\ Tally(t) \in TimeBags
        /\ Tally(sU) = Bag!BagAdd(Tally(s), ring[x].self_ns) /\ Tally(s) \in TimeBags
    BY <1>1, <1>2, TallyExtends
  <1>6. /\ Bag!BagRemove(Tally(tU), ring[x].total_ns) = Tally(t)
        /\ Bag!BagRemove(Tally(sU), ring[x].self_ns) = Tally(s)
    BY <1>2, <1>5, BagRemoveUndoes
  <1>7. Recount(ring, U) = add(Recount(ring, ids), ring[x].total_ns, ring[x].self_ns)
    BY <1>1, <1>2, <1>3, <1>4, <1>5 DEF add
  <1>8. Recount(ring, ids) = remove(Recount(ring, U), ring[x].total_ns, ring[x].self_ns)
    <2>1. /\ Cardinality(U) - 1 = Cardinality(ids)
          /\ SumFunction(tU) - ring[x].total_ns = SumFunction(t)
          /\ SumFunction(sU) - ring[x].self_ns = SumFunction(s)
      <3>1. Cardinality(U) - 1 = Cardinality(ids)
        BY ONLY <1>1
      <3>2. SumFunction(tU) - ring[x].total_ns = SumFunction(t)
        <4>1. SumFunction(tU) = ring[x].total_ns + SumFunction(t)
          BY <1>4
        <4>2. ring[x].total_ns \in Nat
          BY <1>2
        <4>3. SumFunction(t) \in Nat
          BY <1>4
        <4> QED  BY ONLY <4>1, <4>2, <4>3, AddedThenTaken, Zenon
      <3>3. SumFunction(sU) - ring[x].self_ns = SumFunction(s)
        <4>1. SumFunction(sU) = ring[x].self_ns + SumFunction(s)
          BY <1>4
        <4>2. ring[x].self_ns \in Nat
          BY <1>2
        <4>3. SumFunction(s) \in Nat
          BY <1>4
        <4> QED  BY ONLY <4>1, <4>2, <4>3, AddedThenTaken, Zenon
      <3> QED  BY <3>1, <3>2, <3>3
    <2>2. PICK r : r = Recount(ring, U)
      OBVIOUS
    <2>3. /\ r.count = Cardinality(U)
          /\ r.total_sum_ns = SumFunction(tU) /\ r.self_sum_ns = SumFunction(sU)
          /\ r.total_ns_multiset = Tally(tU) /\ r.self_ns_multiset = Tally(sU)
      BY <1>3, <2>2
    <2>4. remove(r, ring[x].total_ns, ring[x].self_ns) = Recount(ring, ids)
      BY <1>3, <1>6, <2>1, <2>3, Zenon DEF remove
    <2> QED  BY <2>2, <2>4
  <1> QED  BY <1>1, <1>3, <1>7, <1>8

LEMMA RecountWithout ==
    ASSUME NEW ring, NEW whole, Timed(ring, whole), NEW x \in whole
    PROVE  /\ Recount(ring, whole) = add(Recount(ring, whole \ {x}), ring[x].total_ns, ring[x].self_ns)
           /\ Recount(ring, whole \ {x}) = remove(Recount(ring, whole), ring[x].total_ns, ring[x].self_ns)
           /\ (Recount(ring, whole \ {x}).count = 0) <=> (whole \ {x} = {})
  <1>1. PICK rest : rest = whole \ {x}
    OBVIOUS
  <1>2. PICK all : all = rest \cup {x}
    OBVIOUS
  <1>3. x \notin rest /\ all = whole
    BY <1>1, <1>2
  <1>4. Timed(ring, rest \cup {x})
    BY <1>2, <1>3
  <1>5. /\ Recount(ring, rest \cup {x}) = add(Recount(ring, rest), ring[x].total_ns, ring[x].self_ns)
        /\ Recount(ring, rest) = remove(Recount(ring, rest \cup {x}), ring[x].total_ns, ring[x].self_ns)
        /\ (Recount(ring, rest).count = 0) <=> (rest = {})
    BY ONLY <1>3, <1>4, RecountExtends
  <1>6. rest \cup {x} = whole
    BY <1>2, <1>3
  <1> QED  BY ONLY <1>1, <1>5, <1>6, Zenon

LEMMA RecountSame ==
    ASSUME NEW ring, NEW other, NEW ids,
           \A i \in ids : /\ other[i].total_ns = ring[i].total_ns
                          /\ other[i].self_ns = ring[i].self_ns
    PROVE  Recount(other, ids) = Recount(ring, ids)
  <1>1. /\ [id \in ids |-> other[id].total_ns] = [id \in ids |-> ring[id].total_ns]
        /\ [id \in ids |-> other[id].self_ns] = [id \in ids |-> ring[id].self_ns]
    OBVIOUS
  <1> QED  BY <1>1, Zenon DEF Recount

(* Every bucket of a ring, counted from scratch.                           *)
Recounted(ring) ==
    [bucket \in {ring[id].bucket : id \in DOMAIN ring} |->
        Recount(ring, Contributors(ring, bucket))]

LEMMA TimedPart ==
    ASSUME NEW ring, NEW ids, Timed(ring, ids), NEW part \in SUBSET ids
    PROVE  Timed(ring, part)
  <1>1. IsFiniteSet(part)
    BY FS_Subset DEF Timed
  <1> QED  BY <1>1 DEF Timed

(* An entry whose self time is rewritten.                                  *)
LEMMA RecountRewritten ==
    ASSUME NEW ring, Timed(ring, DOMAIN ring), NEW id \in DOMAIN ring, NEW other,
           DOMAIN other = DOMAIN ring, other[id].self_ns \in Nat,
           \A i \in DOMAIN ring : /\ other[i].bucket = ring[i].bucket
                                  /\ other[i].total_ns = ring[i].total_ns
                                  /\ i # id => other[i].self_ns = ring[i].self_ns
    PROVE  LET b == ring[id].bucket
               counts == Recounted(ring)
           IN  /\ b \in DOMAIN counts
               /\ Recounted(other) =
                    [counts EXCEPT ![b] =
                        add(remove(counts[b], ring[id].total_ns, ring[id].self_ns),
                            ring[id].total_ns, other[id].self_ns)]
  <1> DEFINE b == ring[id].bucket
             C == Contributors(ring, b)
             R == C \ {id}
  <1>1. /\ id \in C /\ id \notin R /\ R \cup {id} = C /\ C \in SUBSET (DOMAIN ring)
        /\ \A bucket : Contributors(other, bucket) = Contributors(ring, bucket)
        /\ {other[i].bucket : i \in DOMAIN other} = {ring[i].bucket : i \in DOMAIN ring}
    BY DEF Contributors
  <1> HIDE DEF C
  <1>2. Timed(ring, C) /\ Timed(other, C)
    <2>1. Timed(ring, C)
      BY <1>1, TimedPart
    <2>2. \A i \in C : other[i].total_ns \in Nat /\ other[i].self_ns \in Nat
      BY <1>1 DEF Timed
    <2> QED  BY <2>1, <2>2 DEF Timed
  <1>3. Recount(ring, R) = remove(Recount(ring, C), ring[id].total_ns, ring[id].self_ns)
    BY <1>1, <1>2, RecountWithout
  <1>4. Recount(other, C) = add(Recount(other, R), other[id].total_ns, other[id].self_ns)
    BY <1>1, <1>2, RecountWithout
  <1>5. Recount(other, R) = Recount(ring, R)
    BY <1>1, RecountSame
  <1>6. Recount(other, C) = add(remove(Recount(ring, C), ring[id].total_ns, ring[id].self_ns),
                                ring[id].total_ns, other[id].self_ns)
    BY <1>3, <1>4, <1>5
  <1>7. ASSUME NEW bucket \in {ring[i].bucket : i \in DOMAIN ring}, bucket # b
        PROVE  Recount(other, Contributors(ring, bucket)) = Recount(ring, Contributors(ring, bucket))
    <2>1. \A i \in Contributors(ring, bucket) : i \in DOMAIN ring /\ i # id
      BY <1>7 DEF Contributors
    <2> QED  BY <2>1, RecountSame
  <1>8. Recounted(other) = [bucket \in {ring[i].bucket : i \in DOMAIN ring} |->
                               Recount(other, Contributors(ring, bucket))]
    BY <1>1 DEF Recounted
  <1>9. b \in DOMAIN Recounted(ring) /\ Recounted(ring)[b] = Recount(ring, C)
    BY DEF Recounted, C
  <1>10. Recounted(other) = [Recounted(ring) EXCEPT ![b] = Recount(other, C)]
    <2> HIDE DEF b
    <2> QED  BY <1>7, <1>8, <1>9 DEF Recounted, C
  <1> QED  BY <1>6, <1>9, <1>10

(* An entry that leaves.                                                   *)
LEMMA RecountRemoved ==
    ASSUME NEW ring, Timed(ring, DOMAIN ring), NEW id \in DOMAIN ring
    PROVE  LET b == ring[id].bucket
               counts == Recounted(ring)
               left == remove(counts[b], ring[id].total_ns, ring[id].self_ns)
           IN  /\ b \in DOMAIN counts
               /\ Recounted(Without(ring, id)) =
                    IF left.count = 0 THEN Without(counts, b) ELSE [counts EXCEPT ![b] = left]
  <1> DEFINE b == ring[id].bucket
             C == Contributors(ring, b)
             R == C \ {id}
             other == Without(ring, id)
             buckets == {ring[i].bucket : i \in DOMAIN ring}
  <1>1. /\ id \in C /\ id \notin R /\ R \cup {id} = C /\ C \in SUBSET (DOMAIN ring)
        /\ DOMAIN other = DOMAIN ring \ {id} /\ \A i \in DOMAIN other : other[i] = ring[i]
        /\ Contributors(other, b) = R
        /\ \A bucket : bucket # b => Contributors(other, bucket) = Contributors(ring, bucket)
    BY DEF Contributors, Without
  <1>2. {other[i].bucket : i \in DOMAIN other} = IF R = {} THEN buckets \ {b} ELSE buckets
    BY <1>1 DEF Contributors
  <1> HIDE DEF C, other
  <1>3. Timed(ring, C)
    BY <1>1, TimedPart
  <1>4. /\ Recount(ring, R) = remove(Recount(ring, C), ring[id].total_ns, ring[id].self_ns)
        /\ (Recount(ring, R).count = 0) <=> (R = {})
    BY <1>1, <1>3, RecountWithout
  <1>5. \A bucket : Recount(other, Contributors(other, bucket)) = Recount(ring, Contributors(other, bucket))
    <2> TAKE bucket
    <2>1. \A i \in Contributors(other, bucket) : other[i] = ring[i]
      BY <1>1 DEF Contributors
    <2> QED  BY <2>1, RecountSame
  <1>6. b \in DOMAIN Recounted(ring) /\ Recounted(ring)[b] = Recount(ring, C)
    BY DEF Recounted, C
  <1>7. Recounted(other) = [bucket \in (IF R = {} THEN buckets \ {b} ELSE buckets) |->
                               IF bucket = b THEN Recount(ring, R)
                               ELSE Recount(ring, Contributors(ring, bucket))]
    BY <1>1, <1>2, <1>5 DEF Recounted
  <1>8. Recounted(ring) = [bucket \in buckets |-> Recount(ring, Contributors(ring, bucket))]
    BY DEF Recounted
  <1> HIDE DEF b, R, buckets
  <1>9. Recounted(other) = IF R = {} THEN Without(Recounted(ring), b)
                           ELSE [Recounted(ring) EXCEPT ![b] = Recount(ring, R)]
    <2>1. CASE R = {}
      BY <1>7, <1>8, <2>1 DEF Without
    <2>2. CASE R # {}
      BY <1>7, <1>8, <2>2
    <2> QED  BY <2>1, <2>2
  <1> QED  BY <1>4, <1>6, <1>9 DEF b, other

(* An entry that joins.                                                    *)
LEMMA RecountAdded ==
    ASSUME NEW ring, Timed(ring, DOMAIN ring), NEW id, id \notin DOMAIN ring,
           NEW entry, entry.total_ns \in Nat, entry.self_ns \in Nat
    PROVE  Recounted(Put(ring, id, entry)) =
               Put(Recounted(ring), entry.bucket,
                   add(At(Recounted(ring), entry.bucket, BucketState),
                       entry.total_ns, entry.self_ns))
  <1> DEFINE b == entry.bucket
             R == Contributors(ring, b)
             C == R \cup {id}
             other == Put(ring, id, entry)
             buckets == {ring[i].bucket : i \in DOMAIN ring}
  <1>1. /\ id \notin R /\ R \in SUBSET (DOMAIN ring)
        /\ DOMAIN other = DOMAIN ring \cup {id} /\ other[id] = entry
        /\ \A i \in DOMAIN ring : other[i] = ring[i]
        /\ Contributors(other, b) = C
        /\ \A bucket : bucket # b => Contributors(other, bucket) = Contributors(ring, bucket)
        /\ {other[i].bucket : i \in DOMAIN other} = buckets \cup {b}
    BY DEF Contributors, Put
  <1>2. b \notin buckets => R = {}
    BY DEF Contributors
  <1> HIDE DEF R, other
  <1>3. Timed(other, C)
    <2>1. IsFiniteSet(R)
      BY <1>1, FS_Subset DEF Timed
    <2>2. IsFiniteSet(C)
      BY <2>1, FS_AddElement
    <2>3. \A i \in C : other[i].total_ns \in Nat /\ other[i].self_ns \in Nat
      BY <1>1 DEF Timed
    <2> QED  BY <2>2, <2>3 DEF Timed
  <1>4. Recount(other, C) = add(Recount(other, R), entry.total_ns, entry.self_ns)
    BY <1>1, <1>3, RecountExtends
  <1>5. Recount(other, R) = Recount(ring, R)
    BY <1>1, RecountSame
  <1>6. ASSUME NEW bucket, bucket # b
        PROVE  Recount(other, Contributors(other, bucket)) = Recount(ring, Contributors(ring, bucket))
    <2>1. \A i \in Contributors(ring, bucket) : other[i] = ring[i]
      BY <1>1 DEF Contributors
    <2> QED  BY <1>1, <1>6, <2>1, RecountSame
  <1>7. Recount(ring, R) = At(Recounted(ring), b, BucketState)
    <2>1. CASE b \in buckets
      BY <2>1 DEF Recounted, At, R
    <2>2. CASE b \notin buckets
      <3>1. Recount(ring, R) = BucketState
        BY <1>2, <2>2, RecountEmpty
      <3> QED  BY <2>2, <3>1 DEF Recounted, At
    <2> QED  BY <2>1, <2>2
  <1>8. Recounted(other) = [bucket \in buckets \cup {b} |->
                               IF bucket = b THEN Recount(other, C)
                               ELSE Recount(ring, Contributors(ring, bucket))]
    BY <1>1, <1>6 DEF Recounted
  <1>9. Recounted(ring) = [bucket \in buckets |-> Recount(ring, Contributors(ring, bucket))]
    BY DEF Recounted
  <1> HIDE DEF b, buckets, C
  <1>10. Recounted(other) = Put(Recounted(ring), b, Recount(other, C))
    BY <1>8, <1>9 DEF Put
  <1> QED  BY <1>4, <1>5, <1>7, <1>10 DEF b, other

-----------------------------------------------------------------------------
(* The time of the children                                                *)

(* `whole` is `rest` and one more entry.                                   *)
OneMore(whole, rest, id) ==
    /\ id \notin DOMAIN rest /\ DOMAIN whole = DOMAIN rest \cup {id}
    /\ \A i \in DOMAIN rest : /\ whole[i].span = rest[i].span
                              /\ whole[i].total_ns = rest[i].total_ns

SameTotals(other, ring) ==
    /\ DOMAIN other = DOMAIN ring
    /\ \A i \in DOMAIN ring : /\ other[i].span = ring[i].span
                              /\ other[i].total_ns = ring[i].total_ns

LEMMA ChildTimeSame ==
    ASSUME NEW ring, NEW other, SameTotals(other, ring)
    PROVE  \A p : ChildTime(other, p) = ChildTime(ring, p)
  <1> TAKE p
  <1>1. Children(other, p) = Children(ring, p) /\ Children(ring, p) \subseteq DOMAIN ring
    BY DEF Children, SameTotals
  <1>2. [c \in Children(other, p) |-> other[c].total_ns] = [c \in Children(ring, p) |-> ring[c].total_ns]
    BY <1>1 DEF SameTotals
  <1> QED  BY <1>2, Zenon DEF ChildTime

(* Its time is what the whole has more for its parent.                     *)
LEMMA ChildTimeOfOneMore ==
    ASSUME NEW whole, NEW rest, NEW id, OneMore(whole, rest, id), Timed(whole, DOMAIN whole)
    PROVE  \A p : /\ ChildTime(rest, p) \in Nat
                  /\ ChildTime(whole, p) = IF p = whole[id].span.parent_id
                                            THEN whole[id].total_ns + ChildTime(rest, p)
                                            ELSE ChildTime(rest, p)
  <1> TAKE p
  <1> DEFINE R == Children(rest, p)
             W == Children(whole, p)
             f == [c \in R |-> rest[c].total_ns]
             g == [c \in W |-> whole[c].total_ns]
  <1>1. /\ id \notin R /\ R \subseteq DOMAIN whole
        /\ W = IF p = whole[id].span.parent_id THEN R \cup {id} ELSE R
        /\ \A c \in R : whole[c].total_ns = rest[c].total_ns
    BY DEF OneMore, Children
  <1>2. IsFiniteSet(R)
    BY <1>1, FS_Subset DEF Timed
  <1> HIDE DEF R, W
  <1>3. f \in [R -> Nat]
    BY <1>1 DEF Timed
  <1>4. SumFunction(f) \in Nat
    <2>1. DOMAIN f = R /\ \A c \in R : f[c] \in Nat
      BY <1>3
    <2> HIDE DEF f
    <2>2. SumFunctionOnSet(f, R) \in Nat
      BY <1>2, <2>1, SumFacts
    <2> QED  BY <2>1, <2>2 DEF SumFunction
  <1>5. CASE p = whole[id].span.parent_id
    <2>1. g \in [R \cup {id} -> Nat] /\ g[id] = whole[id].total_ns /\ \A c \in R : f[c] = g[c]
      BY <1>1, <1>5 DEF Timed, OneMore
    <2> HIDE DEF f, g
    <2>2. SumFunction(g) = g[id] + SumFunction(f)
      <3>1. id \notin R
        BY <1>1
      <3> QED  BY ONLY <1>2, <1>3, <2>1, <3>1, SumExtends
    <2> QED  BY <1>4, <1>5, <2>1, <2>2 DEF ChildTime, f, g, R, W
  <1>6. CASE p # whole[id].span.parent_id
    <2>1. g = f
      BY <1>1, <1>6
    <2> HIDE DEF f, g
    <2> QED  BY <1>4, <1>6, <2>1 DEF ChildTime, f, g, R, W
  <1> QED  BY <1>5, <1>6

LEMMA ChildTimeType ==
    ASSUME NEW ring, Timed(ring, DOMAIN ring)
    PROVE  \A p : ChildTime(ring, p) \in Nat
  <1> TAKE p
  <1> DEFINE R == Children(ring, p)
             f == [c \in R |-> ring[c].total_ns]
  <1>1. R \in SUBSET (DOMAIN ring)
    BY DEF Children
  <1>2. Timed(ring, R)
    BY <1>1, TimedPart
  <1>3. DOMAIN f = R /\ (\A c \in R : f[c] \in Nat) /\ IsFiniteSet(R)
    BY <1>2 DEF Timed
  <1> HIDE DEF f, R
  <1>4. SumFunctionOnSet(f, R) \in Nat
    BY <1>3, SumFacts
  <1> QED  BY <1>3, <1>4 DEF ChildTime, SumFunction, f, R

LEMMA ChildTimeNone ==
    ASSUME NEW ring, NEW p, Children(ring, p) = {}
    PROVE  ChildTime(ring, p) = 0
  <1> DEFINE f == [c \in Children(ring, p) |-> ring[c].total_ns]
  <1>1. DOMAIN f = {}
    OBVIOUS
  <1> HIDE DEF f
  <1>2. SumFunction(f) = 0
    BY <1>1, SumEmpty
  <1> QED  BY <1>2 DEF ChildTime, f

-----------------------------------------------------------------------------
(* The parts of the invariant                                              *)

ParkedIn(pending) == UNION {ToSet(pending[p]) : p \in DOMAIN pending}

IsAggregator(a) ==
    /\ DOMAIN a = {"history_budget", "order", "by_id", "child_sum", "pending",
                   "pending_len", "buckets", "split_keys"}
    /\ a.history_budget \in Nat \ {0}

IsEntry(e) ==
    DOMAIN e = {"span", "bucket", "total_ns", "self_ns"} /\ e.total_ns = e.span.total_ns

(* The queue and the index name the same ids, each id once.                *)
RingOk(a, seen) ==
    /\ a.order \in Seq(Nat) /\ IsInjective(a.order)
    /\ ToSet(a.order) = DOMAIN a.by_id
    /\ \A id \in DOMAIN a.by_id :
          /\ IsEntry(a.by_id[id])
          /\ a.by_id[id].span \in seen /\ a.by_id[id].span.id = id

(* Each child is parked once, under its own parent.                        *)
PendingOk(pending, seen) ==
    \A p \in DOMAIN pending :
        /\ pending[p] \in Seq(Spans) /\ IsInjective(pending[p])
        /\ \A span \in ToSet(pending[p]) : span \in seen /\ span.parent_id = p

(* Neither a parent that is waited for nor a child that waits is in `ids`. *)
Apart(pending, ids) ==
    /\ DOMAIN pending \cap ids = {}
    /\ \A span \in ParkedIn(pending) : span.id \notin ids

AggOk(a, seen) ==
    /\ IsAggregator(a)
    /\ RingOk(a, seen)
    /\ PendingOk(a.pending, seen)
    /\ Apart(a.pending, DOMAIN a.by_id)

(* b is a but for the times of a's entries and what is counted from them.  *)
Keeps(b, a) ==
    /\ IsAggregator(b)
    /\ b.history_budget = a.history_budget /\ b.order = a.order
    /\ b.pending = a.pending /\ b.pending_len = a.pending_len
    /\ b.split_keys = a.split_keys
    /\ DOMAIN b.buckets = DOMAIN a.buckets
    /\ DOMAIN b.by_id = DOMAIN a.by_id
    /\ \A id \in DOMAIN a.by_id :
          /\ IsEntry(b.by_id[id])
          /\ b.by_id[id].span = a.by_id[id].span
          /\ b.by_id[id].bucket = a.by_id[id].bucket

LEMMA KeepsOk ==
    ASSUME NEW a, NEW b, NEW seen, AggOk(a, seen), Keeps(b, a)
    PROVE  AggOk(b, seen)
  BY DEF AggOk, Keeps, RingOk

LEMMA KeepsTrans ==
    ASSUME NEW a, NEW b, NEW c, Keeps(b, a), Keeps(c, b)
    PROVE  Keeps(c, a)
  BY DEF Keeps

-----------------------------------------------------------------------------
(* What the parts of InsertSpan do                                         *)

LEMMA BumpKeeps ==
    ASSUME NEW a, IsAggregator(a), \A i \in DOMAIN a.by_id : IsEntry(a.by_id[i]),
           NEW id \in DOMAIN a.by_id, NEW sum
    PROVE  Keeps(bump_parent_self(a, id, sum), a)
  <1> DEFINE e == a.by_id[id]
             self_ns == Less(e.total_ns, sum)
             bs == IF e.bucket \notin DOMAIN a.buckets THEN a.buckets
                   ELSE [a.buckets EXCEPT ![e.bucket] =
                            add(remove(a.buckets[e.bucket], e.total_ns, e.self_ns),
                                e.total_ns, self_ns)]
             ids == [a.by_id EXCEPT ![id].self_ns = self_ns]
             b == [a EXCEPT !.by_id = ids, !.buckets = bs]
  <1>1. bump_parent_self(a, id, sum) = IF self_ns = e.self_ns THEN a ELSE b
    BY DEF bump_parent_self
  <1>2. /\ DOMAIN ids = DOMAIN a.by_id
        /\ \A i \in DOMAIN a.by_id : /\ IsEntry(ids[i])
                                     /\ ids[i].span = a.by_id[i].span
                                     /\ ids[i].bucket = a.by_id[i].bucket
    BY DEF IsEntry
  <1>3. DOMAIN bs = DOMAIN a.buckets
    OBVIOUS
  <1> HIDE DEF bs, ids
  <1>4. Keeps(b, a)
    BY <1>2, <1>3 DEF Keeps, IsAggregator
  <1>5. Keeps(a, a)
    BY DEF Keeps
  <1> QED  BY <1>1, <1>4, <1>5

(* What eviction leaves: some of the ring, some of what is parked.         *)
Shrinks(b, a) ==
    /\ b.history_budget = a.history_budget /\ b.split_keys = a.split_keys
    /\ DOMAIN b.buckets \subseteq DOMAIN a.buckets
    /\ DOMAIN b.by_id \subseteq DOMAIN a.by_id
    /\ \A id \in DOMAIN b.by_id : b.by_id[id].bucket = a.by_id[id].bucket
    /\ DOMAIN b.pending \subseteq DOMAIN a.pending
    /\ \A p \in DOMAIN b.pending : b.pending[p] = a.pending[p]

LEMMA GiveBackKeeps ==
    ASSUME NEW a, IsAggregator(a), \A i \in DOMAIN a.by_id : IsEntry(a.by_id[i]), NEW entry
    PROVE  Keeps(GiveBack(a, entry), a)
  <1> DEFINE parent == entry.span.parent_id
             sum == Less(a.child_sum[parent], entry.total_ns)
             cs == IF sum = 0 THEN Without(a.child_sum, parent)
                              ELSE [a.child_sum EXCEPT ![parent] = sum]
             b == [a EXCEPT !.child_sum = cs]
  <1>1. GiveBack(a, entry) = IF parent \in DOMAIN a.by_id /\ parent \in DOMAIN a.child_sum
                             THEN bump_parent_self(b, parent, sum) ELSE a
    BY DEF GiveBack
  <1>2. Keeps(a, a)
    BY DEF Keeps
  <1> HIDE DEF cs, sum
  <1>3. Keeps(b, a) /\ b.by_id = a.by_id
    BY DEF Keeps, IsAggregator
  <1> HIDE DEF b
  <1>4. parent \in DOMAIN a.by_id => Keeps(bump_parent_self(b, parent, sum), b)
    BY <1>3, BumpKeeps DEF Keeps
  <1> QED  BY <1>1, <1>2, <1>3, <1>4, KeepsTrans

LEMMA TakeKeeps ==
    ASSUME NEW a, IsAggregator(a), \A i \in DOMAIN a.by_id : IsEntry(a.by_id[i]), NEW span
    PROVE  Keeps(TakeFromParent(a, span), a)
  <1> DEFINE parent == span.parent_id
             sum == At(a.child_sum, parent, 0) + span.total_ns
             cs == Put(a.child_sum, parent, sum)
             b == [a EXCEPT !.child_sum = cs]
  <1>1. TakeFromParent(a, span) = IF parent \notin DOMAIN a.by_id THEN a
                                  ELSE bump_parent_self(b, parent, sum)
    BY DEF TakeFromParent
  <1>2. Keeps(a, a)
    BY DEF Keeps
  <1> HIDE DEF cs, sum
  <1>3. Keeps(b, a) /\ b.by_id = a.by_id
    BY DEF Keeps, IsAggregator
  <1> HIDE DEF b
  <1>4. parent \in DOMAIN a.by_id => Keeps(bump_parent_self(b, parent, sum), b)
    BY <1>3, BumpKeeps DEF Keeps
  <1> QED  BY <1>1, <1>2, <1>3, <1>4, KeepsTrans

LEMMA EvictFacts ==
    ASSUME NEW a, NEW seen, AggOk(a, seen), a.order # <<>>
    PROVE  LET b == evict_oldest(a)
               id == Head(a.order)
           IN  /\ AggOk(b, seen) /\ Shrinks(b, a)
               /\ b.order = Tail(a.order)
               /\ b.pending = Without(a.pending, id)
               /\ b.pending_len = a.pending_len - Len(At(a.pending, id, <<>>))
  <1> DEFINE id == Head(a.order)
             entry == a.by_id[id]
             left == remove(a.buckets[entry.bucket], entry.total_ns, entry.self_ns)
             len == a.pending_len - Len(At(a.pending, id, <<>>))
             sums == Without(a.child_sum, id)
             bs == IF entry.bucket \notin DOMAIN a.buckets THEN a.buckets
                   ELSE IF left.count = 0 THEN Without(a.buckets, entry.bucket)
                   ELSE [a.buckets EXCEPT ![entry.bucket] = left]
             b == [a EXCEPT !.order = Tail(a.order),
                            !.by_id = Without(a.by_id, id),
                            !.pending = Without(a.pending, id),
                            !.pending_len = len,
                            !.child_sum = sums,
                            !.buckets = bs]
  <1>1. /\ id \in DOMAIN a.by_id
        /\ Tail(a.order) \in Seq(Nat) /\ IsInjective(Tail(a.order))
        /\ ToSet(Tail(a.order)) = DOMAIN a.by_id \ {id}
    BY TailFacts DEF AggOk, RingOk
  <1>2. evict_oldest(a) = GiveBack(b, entry)
    BY <1>1 DEF evict_oldest, AggOk, IsAggregator
  <1>3. DOMAIN bs \subseteq DOMAIN a.buckets
    BY DEF Without
  <1> HIDE DEF len, sums, bs
  <1>4. /\ IsAggregator(b) /\ DOMAIN b.buckets \subseteq DOMAIN a.buckets
        /\ b.history_budget = a.history_budget /\ b.split_keys = a.split_keys
        /\ b.order = Tail(a.order)
        /\ b.by_id = Without(a.by_id, id) /\ b.pending = Without(a.pending, id)
        /\ b.pending_len = len
    BY <1>3 DEF AggOk, IsAggregator
  <1> HIDE DEF b, id
  <1>5. /\ DOMAIN b.by_id = DOMAIN a.by_id \ {id}
        /\ \A i \in DOMAIN b.by_id : b.by_id[i] = a.by_id[i]
        /\ DOMAIN b.pending = DOMAIN a.pending \ {id}
        /\ \A p \in DOMAIN b.pending : b.pending[p] = a.pending[p]
    BY <1>4 DEF Without
  <1>6. RingOk(b, seen)
    BY <1>1, <1>4, <1>5 DEF AggOk, RingOk
  <1>7. PendingOk(b.pending, seen) /\ Apart(b.pending, DOMAIN b.by_id)
    BY <1>5 DEF AggOk, PendingOk, Apart, ParkedIn
  <1>8. AggOk(b, seen) /\ Shrinks(b, a)
    BY <1>4, <1>5, <1>6, <1>7 DEF AggOk, Shrinks
  <1> HIDE DEF entry
  <1>9. Keeps(GiveBack(b, entry), b)
    BY <1>8, GiveBackKeeps DEF AggOk, RingOk
  <1>10. Shrinks(GiveBack(b, entry), a)
    BY <1>8, <1>9 DEF Keeps, Shrinks
  <1>11. AggOk(GiveBack(b, entry), seen)
    BY <1>8, <1>9, KeepsOk
  <1> QED  BY <1>2, <1>4, <1>9, <1>10, <1>11 DEF Keeps, id, len

LEMMA RoomFacts ==
    ASSUME NEW a, NEW seen, AggOk(a, seen)
    PROVE  AggOk(MakeRoom(a), seen) /\ Shrinks(MakeRoom(a), a)
  <1>1. Len(a.order) >= a.history_budget => a.order # <<>>
    BY DEF AggOk, IsAggregator, RingOk
  <1>2. Shrinks(a, a)
    BY DEF Shrinks
  <1> QED  BY <1>1, <1>2, EvictFacts DEF MakeRoom

(* A span whose id is new joins the ring; the children that waited for it  *)
(* are no longer parked.                                                   *)
LEMMA InsertFacts ==
    ASSUME AggregatorAssumption, NEW a, NEW seen, AggOk(a, seen), seen \subseteq Spans,
           NEW span \in seen, span.id \notin DOMAIN a.by_id, span \notin ParkedIn(a.pending)
    PROVE  LET b == InsertSpan(a, span)
               waiting == Waiters(MakeRoom(a), span.id)
           IN  /\ AggOk(b, seen)
               /\ DOMAIN b.by_id \subseteq DOMAIN a.by_id \cup {span.id}
               /\ b.split_keys = a.split_keys /\ b.history_budget = a.history_budget
               /\ b.order = Append(MakeRoom(a).order, span.id)
               /\ b.pending = Without(MakeRoom(a).pending, span.id)
               /\ b.pending_len = MakeRoom(a).pending_len - Len(waiting)
               /\ DOMAIN b.buckets \subseteq DOMAIN a.buckets \cup {resolve(a, span)}
               /\ \A id \in DOMAIN b.by_id \cap DOMAIN a.by_id :
                     b.by_id[id].bucket = a.by_id[id].bucket
               /\ span.id \in DOMAIN b.by_id => b.by_id[span.id].bucket = resolve(a, span)
               /\ waiting \in Seq(Spans) /\ IsInjective(waiting)
               /\ ToSet(waiting) \subseteq ParkedIn(a.pending)
               /\ ParkedIn(b.pending) \subseteq ParkedIn(a.pending) \ ToSet(waiting)
  <1> DEFINE m == MakeRoom(a)
             t == TakeFromParent(m, span)
             id == span.id
             bucket == resolve(a, span)
             self_ns == Less(span.total_ns, At(a.child_sum, span.id, 0))
             bs == Put(t.buckets, bucket,
                       add(At(t.buckets, bucket, BucketState), span.total_ns, self_ns))
             len == t.pending_len - Len(Waiters(t, span.id))
             entry == [span |-> span, bucket |-> bucket,
                       total_ns |-> span.total_ns, self_ns |-> self_ns]
             b == [t EXCEPT !.buckets = bs, !.order = Append(t.order, id),
                            !.by_id = Put(t.by_id, id, entry),
                            !.pending = Without(t.pending, id), !.pending_len = len]
             waiting == Waiters(m, id)
  <1>1. AggOk(m, seen) /\ Shrinks(m, a)
    BY RoomFacts
  <1>2. Keeps(t, m)
    BY <1>1, TakeKeeps DEF AggOk, RingOk
  <1>3. AggOk(t, seen)
    BY <1>1, <1>2, KeepsOk
  <1>4. IsEntry(entry) /\ entry.span = span /\ entry.bucket = bucket
    BY DEF IsEntry
  <1>5. InsertSpan(a, span) = b
    BY <1>3 DEF InsertSpan, AggOk, IsAggregator
  <1>6. DOMAIN bs \subseteq DOMAIN a.buckets \cup {bucket}
    BY <1>1, <1>2 DEF Keeps, Shrinks, Put
  <1> HIDE DEF m, bucket, self_ns, bs, len, entry
  <1>7. /\ IsAggregator(b) /\ b.buckets = bs
        /\ b.history_budget = t.history_budget /\ b.split_keys = t.split_keys
        /\ b.order = Append(t.order, id)
        /\ b.by_id = Put(t.by_id, id, entry) /\ b.pending = Without(t.pending, id)
        /\ b.pending_len = len
    BY <1>3 DEF AggOk, IsAggregator
  <1> HIDE DEF b
  <1>8. /\ DOMAIN b.by_id = DOMAIN t.by_id \cup {id}
        /\ b.by_id[id] = entry
        /\ \A i \in DOMAIN t.by_id \ {id} : b.by_id[i] = t.by_id[i]
        /\ DOMAIN b.pending = DOMAIN t.pending \ {id}
        /\ \A p \in DOMAIN b.pending : b.pending[p] = t.pending[p]
    BY <1>7 DEF Put, Without
  <1>9. id \in Nat /\ id \notin DOMAIN t.by_id
    BY <1>1, <1>2 DEF AggregatorAssumption, Keeps, Shrinks
  <1>10. RingOk(b, seen)
    <2>1. /\ b.order \in Seq(Nat) /\ IsInjective(b.order)
          /\ ToSet(b.order) = ToSet(t.order) \cup {id}
      BY <1>3, <1>7, <1>9, AppendFacts DEF AggOk, RingOk
    <2> QED  BY <1>3, <1>4, <1>8, <1>9, <2>1 DEF AggOk, RingOk
  <1>11. /\ ParkedIn(t.pending) \subseteq ParkedIn(a.pending)
         /\ ParkedIn(b.pending) \subseteq ParkedIn(t.pending)
    BY <1>1, <1>2, <1>8 DEF Keeps, Shrinks, ParkedIn
  <1>12. \A s \in ParkedIn(b.pending) : s \in Spans /\ s # span /\ s.id # id
    BY <1>3, <1>11 DEF AggregatorAssumption, AggOk, PendingOk, ParkedIn
  <1>13. PendingOk(b.pending, seen) /\ Apart(b.pending, DOMAIN b.by_id)
    <2>1. PendingOk(b.pending, seen)
      BY <1>3, <1>8 DEF AggOk, PendingOk
    <2>2. Apart(b.pending, DOMAIN b.by_id)
      BY <1>3, <1>8, <1>11, <1>12 DEF AggOk, Apart
    <2> QED  BY <2>1, <2>2
  <1>14. AggOk(b, seen)
    BY <1>7, <1>10, <1>13 DEF AggOk
  <1>15. /\ waiting \in Seq(Spans) /\ IsInjective(waiting)
         /\ ToSet(waiting) \subseteq ParkedIn(a.pending)
         /\ \A s \in ToSet(waiting) : s.parent_id = id
    <2>1. CASE id \in DOMAIN m.pending
      <3>1. waiting = m.pending[id] /\ waiting = a.pending[id] /\ id \in DOMAIN a.pending
        BY <1>1, <2>1 DEF Waiters, At, Shrinks
      <3> QED  BY <1>1, <2>1, <3>1 DEF AggOk, PendingOk, ParkedIn
    <2>2. CASE id \notin DOMAIN m.pending
      <3>1. waiting = <<>>
        BY <2>2 DEF Waiters, At
      <3> QED  BY <3>1 DEF ToSet, IsInjective
    <2> QED  BY <2>1, <2>2
  <1>16. ParkedIn(b.pending) \cap ToSet(waiting) = {}
    BY <1>8, <1>13, <1>15 DEF PendingOk, ParkedIn
  <1>17. /\ DOMAIN b.by_id \subseteq DOMAIN a.by_id \cup {id}
         /\ b.split_keys = a.split_keys /\ b.history_budget = a.history_budget
         /\ \A i \in DOMAIN b.by_id \cap DOMAIN a.by_id : b.by_id[i].bucket = a.by_id[i].bucket
         /\ b.by_id[id].bucket = bucket
    BY <1>1, <1>2, <1>4, <1>7, <1>8 DEF Keeps, Shrinks
  <1>18. /\ b.order = Append(m.order, id) /\ b.pending = Without(m.pending, id)
         /\ b.pending_len = m.pending_len - Len(waiting)
    BY <1>2, <1>7 DEF Keeps, Waiters, len
  <1> QED  BY <1>5, <1>7, <1>11, <1>14, <1>15, <1>16, <1>17, <1>6, <1>18 DEF m, bucket

(* What is parked over the cap goes with its whole parent.                 *)
LEMMA ParkFacts ==
    ASSUME NEW a, NEW seen, AggOk(a, seen), seen \subseteq Spans, NEW span \in seen,
           span.id \notin DOMAIN a.by_id, span.parent_id \notin DOMAIN a.by_id,
           span \notin ParkedIn(a.pending)
    PROVE  LET b == park_pending(a, span)
           IN  /\ AggOk(b, seen)
               /\ b.by_id = a.by_id /\ b.buckets = a.buckets
               /\ b.child_sum = a.child_sum /\ b.split_keys = a.split_keys
               /\ ParkedIn(b.pending) \subseteq ParkedIn(a.pending) \cup {span}
  <1> DEFINE parent == span.parent_id
             before == At(a.pending, parent, <<>>)
             waiting == Put(a.pending, parent, Append(before, span))
             lowest == Lowest(DOMAIN waiting)
             kept == Without(waiting, lowest)
             len == a.pending_len + 1
             less == len - Len(waiting[lowest])
             parked == [a EXCEPT !.pending = waiting, !.pending_len = len]
             dropped == [a EXCEPT !.pending = kept, !.pending_len = less]
  <1>1. /\ before \in Seq(Spans) /\ IsInjective(before) /\ span \notin ToSet(before)
        /\ \A s \in ToSet(before) : s \in seen /\ s.parent_id = parent
        /\ ToSet(before) \subseteq ParkedIn(a.pending)
    <2>1. CASE parent \in DOMAIN a.pending
      BY <2>1 DEF At, AggOk, PendingOk, ParkedIn
    <2>2. CASE parent \notin DOMAIN a.pending
      BY <2>2 DEF At, ToSet, IsInjective
    <2> QED  BY <2>1, <2>2
  <1>2. /\ Append(before, span) \in Seq(Spans) /\ IsInjective(Append(before, span))
        /\ ToSet(Append(before, span)) = ToSet(before) \cup {span}
    BY <1>1, AppendFacts
  <1> HIDE DEF before
  <1>3. /\ DOMAIN waiting = DOMAIN a.pending \cup {parent}
        /\ waiting[parent] = Append(before, span)
        /\ \A p \in DOMAIN a.pending \ {parent} : waiting[p] = a.pending[p]
    BY DEF Put
  <1>4. PendingOk(waiting, seen)
    BY <1>1, <1>2, <1>3 DEF AggOk, PendingOk
  <1>5. ParkedIn(waiting) \subseteq ParkedIn(a.pending) \cup {span}
    <2> SUFFICES ASSUME NEW p \in DOMAIN waiting, NEW s \in ToSet(waiting[p])
                 PROVE  s \in ParkedIn(a.pending) \cup {span}
      BY DEF ParkedIn
    <2>1. CASE p = parent
      BY <1>1, <1>2, <1>3, <2>1
    <2>2. CASE p # parent
      BY <1>3, <2>2 DEF ParkedIn
    <2> QED  BY <2>1, <2>2
  <1>6. Apart(waiting, DOMAIN a.by_id)
    BY <1>3, <1>5 DEF AggOk, Apart
  <1> HIDE DEF waiting
  <1>7. /\ PendingOk(kept, seen) /\ Apart(kept, DOMAIN a.by_id)
        /\ ParkedIn(kept) \subseteq ParkedIn(waiting)
    BY <1>4, <1>6 DEF Without, PendingOk, Apart, ParkedIn
  <1> HIDE DEF kept
  <1>8. park_pending(a, span) = parked \/ park_pending(a, span) = dropped
    <2>1. parked.pending = waiting /\ parked.pending_len = len
      BY DEF AggOk, IsAggregator
    <2>2. [parked EXCEPT !.pending = Without(parked.pending, Lowest(DOMAIN parked.pending)),
                         !.pending_len = parked.pending_len
                            - Len(parked.pending[Lowest(DOMAIN parked.pending)])] = dropped
      BY <2>1 DEF AggOk, IsAggregator, kept
    <2> QED  BY <2>2 DEF park_pending, waiting, before
  <1> HIDE DEF len, less
  <1>9. /\ IsAggregator(parked) /\ IsAggregator(dropped)
        /\ parked.order = a.order /\ dropped.order = a.order
        /\ parked.by_id = a.by_id /\ dropped.by_id = a.by_id
        /\ parked.buckets = a.buckets /\ dropped.buckets = a.buckets
        /\ parked.child_sum = a.child_sum /\ dropped.child_sum = a.child_sum
        /\ parked.split_keys = a.split_keys /\ dropped.split_keys = a.split_keys
        /\ parked.pending = waiting /\ dropped.pending = kept
    BY DEF AggOk, IsAggregator
  <1> HIDE DEF parked, dropped
  <1>10. AggOk(parked, seen) /\ AggOk(dropped, seen)
    BY <1>4, <1>6, <1>7, <1>9 DEF AggOk, RingOk
  <1> QED  BY <1>5, <1>7, <1>8, <1>9, <1>10

-----------------------------------------------------------------------------
(* The times in the ring and what is counted from them                     *)

Entries(a) == IsAggregator(a) /\ \A i \in DOMAIN a.by_id : IsEntry(a.by_id[i])

Booked(a) == Timed(a.by_id, DOMAIN a.by_id) /\ a.buckets = Recounted(a.by_id)

(* The sums of children and the self times are those of `ring`, which may  *)
(* be a's own ring, one before a span left or one after a span came.       *)
SumsOk(a, ring) ==
    /\ DOMAIN a.child_sum \subseteq DOMAIN a.by_id
    /\ \A i \in DOMAIN a.by_id :
          /\ At(a.child_sum, i, 0) = ChildTime(ring, i)
          /\ a.by_id[i].self_ns = Less(a.by_id[i].total_ns, ChildTime(ring, i))

LedgerOk(a) == Booked(a) /\ SumsOk(a, a.by_id)

(* b is a with the self time of `id` what `sum` leaves of its total.       *)
Bumped(b, a, id, sum) ==
    /\ b.child_sum = a.child_sum /\ SameTotals(b.by_id, a.by_id)
    /\ \A i \in DOMAIN a.by_id \ {id} : b.by_id[i].self_ns = a.by_id[i].self_ns
    /\ b.by_id[id].self_ns = Less(a.by_id[id].total_ns, sum)

LEMMA BumpBooks ==
    ASSUME NEW a, Entries(a), Booked(a), NEW id \in DOMAIN a.by_id, NEW sum \in Nat
    PROVE  LET b == bump_parent_self(a, id, sum)
           IN  Booked(b) /\ Bumped(b, a, id, sum)
  <1> DEFINE e == a.by_id[id]
             self_ns == Less(e.total_ns, sum)
             rewritten == add(remove(a.buckets[e.bucket], e.total_ns, e.self_ns),
                              e.total_ns, self_ns)
             bs == IF e.bucket \notin DOMAIN a.buckets THEN a.buckets
                   ELSE [a.buckets EXCEPT ![e.bucket] = rewritten]
             ids == [a.by_id EXCEPT ![id].self_ns = self_ns]
             b == [a EXCEPT !.by_id = ids, !.buckets = bs]
  <1>1. bump_parent_self(a, id, sum) = IF self_ns = e.self_ns THEN a ELSE b
    BY DEF bump_parent_self
  <1>2. self_ns \in Nat
    BY DEF Booked, Timed, Less
  <1>3. /\ DOMAIN ids = DOMAIN a.by_id
        /\ ids[id].self_ns = self_ns
        /\ \A i \in DOMAIN a.by_id : /\ ids[i].span = a.by_id[i].span
                                     /\ ids[i].bucket = a.by_id[i].bucket
                                     /\ ids[i].total_ns = a.by_id[i].total_ns
                                     /\ i # id => ids[i].self_ns = a.by_id[i].self_ns
    BY DEF Entries, IsEntry
  <1> HIDE DEF ids, self_ns
  <1>4. Timed(a.by_id, DOMAIN a.by_id)
    BY DEF Booked
  <1>5. /\ e.bucket \in DOMAIN Recounted(a.by_id)
        /\ Recounted(ids) = [Recounted(a.by_id) EXCEPT ![e.bucket] =
                add(remove(Recounted(a.by_id)[e.bucket], e.total_ns, e.self_ns),
                    e.total_ns, ids[id].self_ns)]
    BY <1>2, <1>3, <1>4, RecountRewritten
  <1>6. Recounted(ids) = bs
    BY <1>3, <1>5 DEF Booked
  <1>7. Timed(ids, DOMAIN ids)
    BY <1>2, <1>3, <1>4 DEF Timed
  <1> HIDE DEF bs
  <1>8. b.by_id = ids /\ b.buckets = bs /\ b.child_sum = a.child_sum
    BY DEF Entries, IsAggregator
  <1>9. Booked(b) /\ Bumped(b, a, id, sum)
    BY <1>3, <1>6, <1>7, <1>8 DEF Booked, Bumped, SameTotals, self_ns
  <1>10. self_ns = e.self_ns => Booked(a) /\ Bumped(a, a, id, sum)
    BY DEF Bumped, SameTotals, self_ns
  <1> QED  BY <1>1, <1>9, <1>10

(* After a bump for the time of `ring`'s children.                         *)
LEMMA BumpedSums ==
    ASSUME NEW a, NEW b, NEW id \in DOMAIN a.by_id, NEW ring, NEW sum,
           Bumped(b, a, id, sum), DOMAIN a.child_sum \subseteq DOMAIN a.by_id,
           sum = ChildTime(ring, id), At(a.child_sum, id, 0) = sum,
           \A i \in DOMAIN a.by_id \ {id} :
               /\ At(a.child_sum, i, 0) = ChildTime(ring, i)
               /\ a.by_id[i].self_ns = Less(a.by_id[i].total_ns, ChildTime(ring, i))
    PROVE  SumsOk(b, ring)
  <1>1. ASSUME NEW i \in DOMAIN b.by_id
        PROVE  /\ At(b.child_sum, i, 0) = ChildTime(ring, i)
               /\ b.by_id[i].self_ns = Less(b.by_id[i].total_ns, ChildTime(ring, i))
    <2>1. CASE i = id
      BY <2>1 DEF Bumped, SameTotals
    <2>2. CASE i # id
      BY <2>2 DEF Bumped, SameTotals
    <2> QED  BY <2>1, <2>2
  <1> QED  BY <1>1 DEF SumsOk, Bumped, SameTotals

LEMMA GiveBackBooks ==
    ASSUME NEW a, Entries(a), Booked(a), NEW whole, NEW id, OneMore(whole, a.by_id, id),
           Timed(whole, DOMAIN whole), SumsOk(a, whole)
    PROVE  LET b == GiveBack(a, whole[id])
           IN  Booked(b) /\ SumsOk(b, a.by_id) /\ SameTotals(b.by_id, a.by_id)
  <1> DEFINE entry == whole[id]
             parent == entry.span.parent_id
             sum == Less(a.child_sum[parent], entry.total_ns)
             cs == IF sum = 0 THEN Without(a.child_sum, parent)
                              ELSE [a.child_sum EXCEPT ![parent] = sum]
             c == [a EXCEPT !.child_sum = cs]
             b == bump_parent_self(c, parent, sum)
  <1>1. GiveBack(a, entry) = IF parent \in DOMAIN a.by_id /\ parent \in DOMAIN a.child_sum
                             THEN b ELSE a
    BY DEF GiveBack
  <1>2. /\ entry.total_ns \in Nat
        /\ \A p : /\ ChildTime(a.by_id, p) \in Nat
                  /\ ChildTime(whole, p) = IF p = parent THEN entry.total_ns + ChildTime(a.by_id, p)
                                            ELSE ChildTime(a.by_id, p)
    <2>1. id \in DOMAIN whole
      BY DEF OneMore
    <2> QED  BY <2>1, ChildTimeOfOneMore DEF Timed
  <1> HIDE DEF entry, parent
  <1>3. CASE parent \in DOMAIN a.by_id /\ parent \in DOMAIN a.child_sum
    <2>1. sum = ChildTime(a.by_id, parent) /\ sum \in Nat
      BY <1>2, <1>3 DEF SumsOk, At, Less
    <2> HIDE DEF sum
    <2>2. /\ DOMAIN cs \subseteq DOMAIN a.child_sum
          /\ At(cs, parent, 0) = sum
          /\ \A i : i # parent => At(cs, i, 0) = At(a.child_sum, i, 0)
      BY <1>3 DEF Without, At
    <2> HIDE DEF cs
    <2>3. c.child_sum = cs /\ c.by_id = a.by_id /\ c.buckets = a.buckets /\ Entries(c)
      BY DEF Entries, IsAggregator
    <2> HIDE DEF c
    <2>4. Booked(c)
      BY <2>3 DEF Booked
    <2>5. Booked(b) /\ Bumped(b, c, parent, sum)
      BY <1>3, <2>1, <2>3, <2>4, BumpBooks
    <2> HIDE DEF b
    <2>6. /\ DOMAIN c.child_sum \subseteq DOMAIN c.by_id
          /\ At(c.child_sum, parent, 0) = sum
          /\ \A i \in DOMAIN c.by_id \ {parent} :
                /\ At(c.child_sum, i, 0) = ChildTime(a.by_id, i)
                /\ c.by_id[i].self_ns = Less(c.by_id[i].total_ns, ChildTime(a.by_id, i))
      BY <1>2, <2>2, <2>3 DEF SumsOk
    <2>7. parent \in DOMAIN c.by_id
      BY <1>3, <2>3
    <2>8. SumsOk(b, a.by_id)
      BY ONLY <2>1, <2>5, <2>6, <2>7, BumpedSums
    <2> QED  BY <1>1, <1>3, <2>5, <2>3, <2>8 DEF Bumped, entry
  <1>4. CASE ~(parent \in DOMAIN a.by_id /\ parent \in DOMAIN a.child_sum)
    <2>1. \A i \in DOMAIN a.by_id : ChildTime(whole, i) = ChildTime(a.by_id, i)
      <3> SUFFICES ASSUME NEW i \in DOMAIN a.by_id, i = parent
                   PROVE  ChildTime(whole, i) = ChildTime(a.by_id, i)
        BY <1>2
      <3>1. ChildTime(whole, i) = 0
        BY <1>4 DEF SumsOk, At
      <3> QED  BY <1>2, <3>1
    <2>2. SumsOk(a, a.by_id)
      BY <2>1 DEF SumsOk
    <2> QED  BY <1>1, <1>4, <2>2 DEF entry, SameTotals
  <1> QED  BY <1>3, <1>4

LEMMA TakeBooks ==
    ASSUME NEW a, Entries(a), LedgerOk(a), NEW whole, NEW id, OneMore(whole, a.by_id, id),
           Timed(whole, DOMAIN whole), NEW span, whole[id].span = span,
           whole[id].total_ns = span.total_ns
    PROVE  LET b == TakeFromParent(a, span)
           IN  Booked(b) /\ SumsOk(b, whole) /\ SameTotals(b.by_id, a.by_id)
  <1> DEFINE parent == span.parent_id
             sum == At(a.child_sum, parent, 0) + span.total_ns
             cs == Put(a.child_sum, parent, sum)
             c == [a EXCEPT !.child_sum = cs]
             b == bump_parent_self(c, parent, sum)
  <1>1. TakeFromParent(a, span) = IF parent \notin DOMAIN a.by_id THEN a ELSE b
    BY DEF TakeFromParent
  <1>2. /\ span.total_ns \in Nat
        /\ \A p : /\ ChildTime(a.by_id, p) \in Nat
                  /\ ChildTime(whole, p) = IF p = parent THEN span.total_ns + ChildTime(a.by_id, p)
                                            ELSE ChildTime(a.by_id, p)
    <2>1. id \in DOMAIN whole
      BY DEF OneMore
    <2> QED  BY <2>1, ChildTimeOfOneMore DEF Timed
  <1> HIDE DEF parent
  <1>3. CASE parent \in DOMAIN a.by_id
    <2>1. sum = ChildTime(whole, parent) /\ sum \in Nat
      BY <1>2, <1>3 DEF LedgerOk, SumsOk
    <2> HIDE DEF sum
    <2>2. /\ DOMAIN cs \subseteq DOMAIN a.child_sum \cup {parent}
          /\ At(cs, parent, 0) = sum
          /\ \A i : i # parent => At(cs, i, 0) = At(a.child_sum, i, 0)
      BY DEF Put, At
    <2> HIDE DEF cs
    <2>3. c.child_sum = cs /\ c.by_id = a.by_id /\ c.buckets = a.buckets /\ Entries(c)
      BY DEF Entries, IsAggregator
    <2> HIDE DEF c
    <2>4. Booked(c)
      BY <2>3 DEF LedgerOk, Booked
    <2>5. Booked(b) /\ Bumped(b, c, parent, sum)
      BY <1>3, <2>1, <2>3, <2>4, BumpBooks
    <2> HIDE DEF b
    <2>6. /\ DOMAIN c.child_sum \subseteq DOMAIN c.by_id
          /\ At(c.child_sum, parent, 0) = sum
          /\ \A i \in DOMAIN c.by_id \ {parent} :
                /\ At(c.child_sum, i, 0) = ChildTime(whole, i)
                /\ c.by_id[i].self_ns = Less(c.by_id[i].total_ns, ChildTime(whole, i))
      BY <1>2, <1>3, <2>2, <2>3 DEF LedgerOk, SumsOk
    <2>7. parent \in DOMAIN c.by_id
      BY <1>3, <2>3
    <2>8. SumsOk(b, whole)
      BY ONLY <2>1, <2>5, <2>6, <2>7, BumpedSums
    <2> QED  BY <1>1, <1>3, <2>3, <2>5, <2>8 DEF Bumped
  <1>4. CASE parent \notin DOMAIN a.by_id
    <2>1. SumsOk(a, whole)
      BY <1>2, <1>4 DEF LedgerOk, SumsOk
    <2> QED  BY <1>1, <1>4, <2>1 DEF LedgerOk, SameTotals
  <1> QED  BY <1>3, <1>4

LEMMA EvictBooks ==
    ASSUME NEW a, NEW seen, AggOk(a, seen), a.order # <<>>, LedgerOk(a)
    PROVE  LedgerOk(evict_oldest(a))
  <1> DEFINE id == Head(a.order)
             entry == a.by_id[id]
             left == remove(a.buckets[entry.bucket], entry.total_ns, entry.self_ns)
             len == a.pending_len - Len(At(a.pending, id, <<>>))
             ring == Without(a.by_id, id)
             sums == Without(a.child_sum, id)
             bs == IF entry.bucket \notin DOMAIN a.buckets THEN a.buckets
                   ELSE IF left.count = 0 THEN Without(a.buckets, entry.bucket)
                   ELSE [a.buckets EXCEPT ![entry.bucket] = left]
             b == [a EXCEPT !.order = Tail(a.order),
                            !.by_id = ring,
                            !.pending = Without(a.pending, id),
                            !.pending_len = len,
                            !.child_sum = sums,
                            !.buckets = bs]
             c == GiveBack(b, entry)
  <1>1. id \in DOMAIN a.by_id
    BY TailFacts DEF AggOk, RingOk
  <1>2. evict_oldest(a) = c
    BY <1>1 DEF evict_oldest, AggOk, IsAggregator
  <1>3. bs = Recounted(ring)
    BY <1>1, RecountRemoved DEF LedgerOk, Booked
  <1> HIDE DEF len, bs
  <1>4. /\ IsAggregator(b) /\ b.by_id = ring /\ b.child_sum = sums /\ b.buckets = bs
    BY DEF AggOk, IsAggregator
  <1> HIDE DEF b, id
  <1>5. /\ DOMAIN ring = DOMAIN a.by_id \ {id}
        /\ \A i \in DOMAIN ring : ring[i] = a.by_id[i] /\ IsEntry(ring[i])
        /\ OneMore(a.by_id, ring, id)
    BY <1>1 DEF Without, OneMore, AggOk, RingOk
  <1>6. Timed(a.by_id, DOMAIN a.by_id)
    BY DEF LedgerOk, Booked
  <1>7. Timed(ring, DOMAIN ring)
    <2>1. IsFiniteSet(DOMAIN ring)
      BY <1>5, <1>6, FS_Subset DEF Timed
    <2> QED  BY <1>5, <1>6, <2>1 DEF Timed
  <1>8. Entries(b) /\ Booked(b)
    BY <1>3, <1>4, <1>5, <1>7 DEF Entries, Booked
  <1>9. SumsOk(b, a.by_id)
    BY <1>4, <1>5 DEF LedgerOk, SumsOk, Without, At
  <1>10. Booked(c) /\ SumsOk(c, b.by_id) /\ SameTotals(c.by_id, b.by_id)
    BY <1>4, <1>5, <1>6, <1>8, <1>9, GiveBackBooks
  <1> HIDE DEF c
  <1>11. LedgerOk(c)
    BY <1>10, ChildTimeSame DEF LedgerOk, SumsOk
  <1> QED  BY <1>2, <1>11

LEMMA RoomBooks ==
    ASSUME NEW a, NEW seen, AggOk(a, seen), LedgerOk(a)
    PROVE  LedgerOk(MakeRoom(a))
  <1>1. Len(a.order) >= a.history_budget => a.order # <<>>
    BY DEF AggOk, IsAggregator, RingOk
  <1> QED  BY <1>1, EvictBooks DEF MakeRoom

(* A span none of whose children is in the ring.                           *)
LEMMA InsertBooks ==
    ASSUME AggregatorAssumption, NEW a, NEW seen, AggOk(a, seen), seen \subseteq Spans,
           NEW span \in seen, span.id \notin DOMAIN a.by_id, LedgerOk(a),
           Children(a.by_id, span.id) = {}, span.parent_id # span.id
    PROVE  LedgerOk(InsertSpan(a, span))
  <1> DEFINE m == MakeRoom(a)
             t == TakeFromParent(m, span)
             id == span.id
             bucket == resolve(a, span)
             self_ns == Less(span.total_ns, At(a.child_sum, span.id, 0))
             bs == Put(t.buckets, bucket,
                       add(At(t.buckets, bucket, BucketState), span.total_ns, self_ns))
             len == t.pending_len - Len(Waiters(t, span.id))
             entry == [span |-> span, bucket |-> bucket,
                       total_ns |-> span.total_ns, self_ns |-> self_ns]
             whole == Put(m.by_id, id, entry)
             ring == Put(t.by_id, id, entry)
             b == [t EXCEPT !.buckets = bs, !.order = Append(t.order, id),
                            !.by_id = ring,
                            !.pending = Without(t.pending, id), !.pending_len = len]
  <1>1. AggOk(m, seen) /\ Shrinks(m, a) /\ LedgerOk(m)
    BY RoomFacts, RoomBooks
  <1>2. Keeps(t, m) /\ AggOk(t, seen)
    <2>1. Keeps(t, m)
      BY <1>1, TakeKeeps DEF AggOk, RingOk
    <2> QED  BY <1>1, <2>1, KeepsOk
  <1>3. /\ entry.span = span /\ entry.bucket = bucket
        /\ entry.total_ns = span.total_ns /\ entry.self_ns = self_ns
    OBVIOUS
  <1>4. InsertSpan(a, span) = b
    BY <1>2 DEF InsertSpan, AggOk, IsAggregator
  <1>5. self_ns = span.total_ns /\ span.total_ns \in Nat
    <2>1. span.total_ns \in Nat
      BY DEF AggregatorAssumption
    <2>2. At(a.child_sum, id, 0) = 0
      BY DEF LedgerOk, SumsOk, At
    <2> QED  BY <2>1, <2>2 DEF Less
  <1> HIDE DEF m, bucket, self_ns, entry
  <1>6. id \notin DOMAIN m.by_id /\ DOMAIN t.by_id = DOMAIN m.by_id
    BY <1>1, <1>2 DEF Shrinks, Keeps
  <1>7. Children(m.by_id, id) = {}
    <2> SUFFICES ASSUME NEW c \in DOMAIN m.by_id
                 PROVE  m.by_id[c].span.parent_id # id
      BY DEF Children
    <2>1. m.by_id[c].span = a.by_id[c].span /\ c \in DOMAIN a.by_id
      <3>1. c \in DOMAIN a.by_id
        BY <1>1 DEF Shrinks
      <3>2. m.by_id[c].span \in Spans /\ m.by_id[c].span.id = c
        BY <1>1 DEF AggOk, RingOk
      <3>3. a.by_id[c].span \in Spans /\ a.by_id[c].span.id = c
        BY <3>1 DEF AggOk, RingOk
      <3> QED  BY <3>1, <3>2, <3>3 DEF AggregatorAssumption
    <2> QED  BY <2>1 DEF Children
  <1>8. /\ OneMore(whole, m.by_id, id) /\ whole[id] = entry
        /\ DOMAIN whole = DOMAIN m.by_id \cup {id}
        /\ \A i \in DOMAIN m.by_id : whole[i] = m.by_id[i]
    BY <1>6 DEF OneMore, Put
  <1> HIDE DEF whole
  <1>9. Timed(m.by_id, DOMAIN m.by_id)
    BY <1>1 DEF LedgerOk, Booked
  <1>10. Timed(whole, DOMAIN whole)
    <2>1. IsFiniteSet(DOMAIN whole)
      BY <1>8, <1>9, FS_AddElement DEF Timed
    <2> QED  BY <1>3, <1>5, <1>8, <1>9, <2>1 DEF Timed
  <1>11. Booked(t) /\ SumsOk(t, whole) /\ SameTotals(t.by_id, m.by_id)
    <2>1. Entries(m)
      BY <1>1 DEF Entries, AggOk, RingOk
    <2> QED  BY <1>1, <1>3, <1>8, <1>10, <2>1, TakeBooks
  <1> HIDE DEF t
  <1>12. bs = Recounted(ring)
    <2>1. Timed(t.by_id, DOMAIN t.by_id) /\ t.buckets = Recounted(t.by_id)
      BY <1>11 DEF Booked
    <2> QED  BY <1>3, <1>5, <1>6, <2>1, RecountAdded
  <1> HIDE DEF bs, len
  <1>13. /\ DOMAIN ring = DOMAIN t.by_id \cup {id} /\ ring[id] = entry
         /\ \A i \in DOMAIN t.by_id : ring[i] = t.by_id[i]
    BY <1>6 DEF Put
  <1> HIDE DEF ring
  <1>14. b.by_id = ring /\ b.buckets = bs /\ b.child_sum = t.child_sum
    BY <1>2 DEF AggOk, IsAggregator
  <1> HIDE DEF b
  <1>15. Booked(b)
    <2>1. Timed(t.by_id, DOMAIN t.by_id)
      BY <1>11 DEF Booked
    <2>2. IsFiniteSet(DOMAIN ring)
      BY <1>13, <2>1, FS_AddElement DEF Timed
    <2>3. Timed(ring, DOMAIN ring)
      BY <1>3, <1>5, <1>13, <2>1, <2>2 DEF Timed
    <2> QED  BY <1>12, <1>14, <2>3 DEF Booked
  <1>16. \A p : ChildTime(ring, p) = ChildTime(whole, p)
    <2>1. SameTotals(ring, whole)
      BY <1>6, <1>8, <1>11, <1>13 DEF SameTotals
    <2> QED  BY <2>1, ChildTimeSame
  <1>17. ChildTime(ring, id) = 0
    <2>1. Children(whole, id) = {}
      BY <1>3, <1>7, <1>8 DEF Children
    <2> QED  BY <1>16, <2>1, ChildTimeNone
  <1>18. SumsOk(b, ring)
    <2>1. DOMAIN b.child_sum \subseteq DOMAIN b.by_id
      BY <1>11, <1>13, <1>14 DEF SumsOk
    <2>2. At(b.child_sum, id, 0) = 0 /\ ring[id].self_ns = Less(ring[id].total_ns, 0)
      BY <1>3, <1>5, <1>6, <1>11, <1>13, <1>14 DEF SumsOk, At, Less
    <2>3. ASSUME NEW i \in DOMAIN t.by_id
          PROVE  /\ At(b.child_sum, i, 0) = ChildTime(ring, i)
                 /\ ring[i].self_ns = Less(ring[i].total_ns, ChildTime(ring, i))
      BY <1>11, <1>13, <1>14, <1>16 DEF SumsOk
    <2> QED  BY <1>13, <1>14, <1>17, <2>1, <2>2, <2>3 DEF SumsOk
  <1> QED  BY <1>4, <1>14, <1>15, <1>18 DEF LedgerOk

LEMMA EmptyLedger ==
    ASSUME NEW a, DOMAIN a.by_id = {}, DOMAIN a.child_sum = {}, a.buckets = <<>>
    PROVE  LedgerOk(a)
  <1>1. Timed(a.by_id, DOMAIN a.by_id)
    BY FS_EmptySet DEF Timed
  <1>2. Recounted(a.by_id) = <<>>
    BY DEF Recounted
  <1> QED  BY <1>1, <1>2 DEF LedgerOk, Booked, SumsOk

-----------------------------------------------------------------------------
(* The limits                                                              *)

Lengths(pending) == [p \in DOMAIN pending |-> Len(pending[p])]

(* `len` children are parked, at least one under each parent that is there.*)
Counted(pending, len) ==
    /\ IsFiniteSet(DOMAIN pending) /\ DOMAIN pending \subseteq Nat
    /\ \A p \in DOMAIN pending : pending[p] \in Seq(Spans) /\ pending[p] # <<>>
    /\ len = SumFunction(Lengths(pending))

LEMMA CountedType ==
    ASSUME NEW pending, NEW len, Counted(pending, len)
    PROVE  len \in Nat
  <1> DEFINE f == Lengths(pending)
  <1>1. DOMAIN f = DOMAIN pending /\ \A p \in DOMAIN pending : f[p] \in Nat
    BY DEF Counted, Lengths
  <1> HIDE DEF f
  <1>2. SumFunctionOnSet(f, DOMAIN pending) \in Nat
    BY <1>1, SumFacts DEF Counted
  <1> QED  BY <1>1, <1>2 DEF Counted, SumFunction, f

(* The children of one parent more.                                        *)
LEMMA CountedExtends ==
    ASSUME NEW rest, NEW whole, NEW key, key \notin DOMAIN rest,
           DOMAIN whole = DOMAIN rest \cup {key}, \A p \in DOMAIN rest : whole[p] = rest[p],
           IsFiniteSet(DOMAIN rest), \A p \in DOMAIN whole : whole[p] \in Seq(Spans)
    PROVE  SumFunction(Lengths(whole)) = Len(whole[key]) + SumFunction(Lengths(rest))
  <1> DEFINE S == DOMAIN rest
             f == Lengths(whole)
             h == Lengths(rest)
  <1>1. /\ f \in [S \cup {key} -> Nat] /\ h \in [S -> Nat] /\ f[key] = Len(whole[key])
        /\ \A p \in S : h[p] = f[p]
    BY DEF Lengths
  <1>2. IsFiniteSet(S) /\ key \notin S
    OBVIOUS
  <1> HIDE DEF S, f, h
  <1>3. SumFunction(f) = f[key] + SumFunction(h)
    <2>1. f \in [S \cup {key} -> Nat]
      BY <1>1
    <2>2. h \in [S -> Nat]
      BY <1>1
    <2>3. \A p \in S : h[p] = f[p]
      BY <1>1
    <2> QED  BY ONLY <1>2, <2>1, <2>2, <2>3, SumExtends
  <1>4. f[key] = Len(whole[key])
    BY <1>1
  <1> QED  BY ONLY <1>3, <1>4, Zenon DEF f, h

LEMMA CountedWithout ==
    ASSUME NEW pending, NEW len, Counted(pending, len), NEW key
    PROVE  LET rest == len - Len(At(pending, key, <<>>))
           IN  /\ Counted(Without(pending, key), rest)
               /\ rest <= len
               /\ key \in DOMAIN pending => rest < len
  <1> DEFINE kept == Without(pending, key)
  <1>1. /\ DOMAIN kept = DOMAIN pending \ {key}
        /\ \A p \in DOMAIN kept : kept[p] = pending[p]
    BY DEF Without
  <1> HIDE DEF kept
  <1>2. IsFiniteSet(DOMAIN kept)
    BY <1>1, FS_Subset DEF Counted
  <1>3. Counted(kept, SumFunction(Lengths(kept)))
    BY <1>1, <1>2 DEF Counted
  <1>4. SumFunction(Lengths(kept)) \in Nat
    BY <1>3, CountedType
  <1>5. CASE key \in DOMAIN pending
    <2>1. len = Len(pending[key]) + SumFunction(Lengths(kept))
      <3>1. /\ key \notin DOMAIN kept /\ DOMAIN pending = DOMAIN kept \cup {key}
            /\ \A p \in DOMAIN kept : pending[p] = kept[p]
            /\ \A p \in DOMAIN pending : pending[p] \in Seq(Spans)
        BY <1>1, <1>5 DEF Counted
      <3>2. SumFunction(Lengths(pending)) = Len(pending[key]) + SumFunction(Lengths(kept))
        BY ONLY <1>2, <3>1, CountedExtends
      <3> QED  BY <3>2 DEF Counted
    <2>2. Len(pending[key]) \in Nat /\ Len(pending[key]) > 0
      BY <1>5 DEF Counted
    <2>3. /\ len - Len(pending[key]) = SumFunction(Lengths(kept))
          /\ SumFunction(Lengths(kept)) < len
      <3> \A m, n \in Nat : m > 0 => (m + n) - m = n /\ n < m + n
        OBVIOUS
      <3> QED  BY <1>4, <2>1, <2>2, Zenon
    <2>4. At(pending, key, <<>>) = pending[key]
      BY <1>5 DEF At
    <2> QED  BY <1>3, <1>4, <2>1, <2>2, <2>3, <2>4 DEF kept
  <1>6. CASE key \notin DOMAIN pending
    <2>1. Lengths(kept) = Lengths(pending)
      BY <1>1, <1>6 DEF Lengths
    <2>2. Len(At(pending, key, <<>>)) = 0
      BY <1>6 DEF At
    <2>3. len = SumFunction(Lengths(kept))
      BY <2>1 DEF Counted
    <2> QED  BY <1>3, <1>4, <1>6, <2>2, <2>3 DEF kept
  <1> QED  BY <1>5, <1>6

LEMMA CountedAppend ==
    ASSUME NEW pending, NEW len, Counted(pending, len), NEW key \in Nat, NEW span \in Spans
    PROVE  Counted(Put(pending, key, Append(At(pending, key, <<>>), span)), len + 1)
  <1> DEFINE before == At(pending, key, <<>>)
             rest == Without(pending, key)
             whole == Put(pending, key, Append(before, span))
  <1>1. Counted(rest, len - Len(before))
    BY CountedWithout
  <1>2. /\ DOMAIN rest = DOMAIN pending \ {key}
        /\ \A p \in DOMAIN rest : rest[p] = pending[p]
    BY DEF Without
  <1>3. before \in Seq(Spans)
    BY DEF Counted, At
  <1> HIDE DEF before, rest
  <1>4. Append(before, span) \in Seq(Spans) /\ Len(Append(before, span)) = Len(before) + 1
    BY <1>3
  <1>5. /\ key \notin DOMAIN rest /\ DOMAIN whole = DOMAIN rest \cup {key}
        /\ \A p \in DOMAIN rest : whole[p] = rest[p]
        /\ whole[key] = Append(before, span)
    BY <1>2 DEF Put
  <1> HIDE DEF whole
  <1>6. \A p \in DOMAIN whole : whole[p] \in Seq(Spans) /\ whole[p] # <<>>
    BY <1>1, <1>3, <1>4, <1>5 DEF Counted
  <1>7. IsFiniteSet(DOMAIN whole) /\ IsFiniteSet(DOMAIN rest)
    BY <1>1, <1>5, FS_AddElement DEF Counted
  <1>8. SumFunction(Lengths(whole)) = Len(whole[key]) + SumFunction(Lengths(rest))
    BY ONLY <1>5, <1>6, <1>7, CountedExtends
  <1>9. SumFunction(Lengths(whole)) = len + 1
    <2>1. SumFunction(Lengths(rest)) = len - Len(before)
      BY <1>1 DEF Counted
    <2>2. len \in Nat /\ Len(before) \in Nat
      BY <1>3, CountedType
    <2> QED  BY <1>4, <1>5, <1>8, <2>1, <2>2
  <1>10. Counted(whole, len + 1)
    <2>1. DOMAIN whole \subseteq Nat
      BY <1>1, <1>5 DEF Counted
    <2> QED  BY <1>6, <1>7, <1>9, <2>1, Zenon DEF Counted
  <1> QED  BY <1>10 DEF whole, before

LEMMA LowestIsOne ==
    ASSUME NEW S \in SUBSET Nat, S # {}
    PROVE  Lowest(S) \in S
  <1> DEFINE Below == {n \in Nat : \A k \in S : n <= k}
  <1>1. \E k \in S : \A other \in S : k <= other
    <2> SUFFICES ASSUME \A k \in S : \E other \in S : other < k
                 PROVE  FALSE
      OBVIOUS
    <2>1. 0 \in Below
      OBVIOUS
    <2>2. ASSUME NEW n \in Nat, n \in Below
          PROVE  n + 1 \in Below
      <3>1. \A k \in S : n <= k
        BY <2>2
      <3>2. n \notin S
        BY <3>1
      <3>3. \A k \in S : n + 1 <= k
        BY <3>1, <3>2
      <3> QED  BY <3>3
    <2> HIDE DEF Below
    <2>3. Nat \subseteq Below
      BY <2>1, <2>2, Induction
    <2>4. PICK k \in S : TRUE
      OBVIOUS
    <2>5. k + 1 \in Below
      BY <2>3
    <2> QED  BY <2>5 DEF Below
  <1> QED  BY <1>1, Zenon DEF Lowest

LimitsOk(a) ==
    /\ a.history_budget \in Budgets /\ a.split_keys \subseteq Keys
    /\ Len(a.order) <= a.history_budget
    /\ Counted(a.pending, a.pending_len) /\ a.pending_len <= pending_cap(a)

LEMMA CapType ==
    ASSUME NEW a, a.history_budget \in Nat
    PROVE  pending_cap(a) \in Nat \ {0}
  BY DEF pending_cap

LEMMA RoomLimits ==
    ASSUME AggregatorAssumption, NEW a, NEW seen, AggOk(a, seen), LimitsOk(a)
    PROVE  LET m == MakeRoom(a)
           IN  /\ Len(m.order) < a.history_budget
               /\ Counted(m.pending, m.pending_len) /\ m.pending_len <= pending_cap(a)
  <1>1. /\ a.history_budget \in Nat \ {0} /\ pending_cap(a) \in Nat
        /\ a.order \in Seq(Nat) /\ a.pending_len \in Nat
    BY CapType, CountedType DEF AggOk, IsAggregator, RingOk, LimitsOk
  <1>2. CASE Len(a.order) >= a.history_budget
    <2> DEFINE m == evict_oldest(a)
               id == Head(a.order)
    <2>1. a.order # <<>>
      BY <1>1, <1>2
    <2>2. /\ m.order = Tail(a.order) /\ m.pending = Without(a.pending, id)
          /\ m.pending_len = a.pending_len - Len(At(a.pending, id, <<>>))
      BY <2>1, EvictFacts
    <2> HIDE DEF m, id
    <2>3. Len(m.order) < a.history_budget
      BY <1>1, <2>1, <2>2 DEF LimitsOk
    <2>4. Counted(m.pending, m.pending_len) /\ m.pending_len <= a.pending_len
      BY <2>2, CountedWithout DEF LimitsOk
    <2>5. m.pending_len \in Nat
      BY <2>4, CountedType
    <2>6. m.pending_len <= pending_cap(a)
      BY <1>1, <2>4, <2>5 DEF LimitsOk
    <2> QED  BY <1>2, <2>3, <2>4, <2>6 DEF MakeRoom, m
  <1>3. CASE ~(Len(a.order) >= a.history_budget)
    BY <1>1, <1>3 DEF MakeRoom, LimitsOk
  <1> QED  BY <1>2, <1>3

LEMMA InsertLimits ==
    ASSUME AggregatorAssumption, NEW a, NEW seen, AggOk(a, seen), seen \subseteq Spans,
           NEW span \in seen, span.id \notin DOMAIN a.by_id, span \notin ParkedIn(a.pending),
           LimitsOk(a)
    PROVE  LimitsOk(InsertSpan(a, span))
  <1> DEFINE m == MakeRoom(a)
             b == InsertSpan(a, span)
             id == span.id
  <1>1. /\ b.split_keys = a.split_keys /\ b.history_budget = a.history_budget
        /\ b.order = Append(m.order, id) /\ b.pending = Without(m.pending, id)
        /\ b.pending_len = m.pending_len - Len(At(m.pending, id, <<>>))
    BY InsertFacts DEF Waiters
  <1>2. /\ Len(m.order) < a.history_budget
        /\ Counted(m.pending, m.pending_len) /\ m.pending_len <= pending_cap(a)
    BY RoomLimits
  <1>3. m.order \in Seq(Nat) /\ a.history_budget \in Nat
    BY RoomFacts DEF AggOk, IsAggregator, RingOk
  <1> HIDE DEF m, b, id
  <1>4. Counted(b.pending, b.pending_len) /\ b.pending_len <= m.pending_len
    BY <1>1, <1>2, CountedWithout
  <1>5. b.pending_len <= pending_cap(b)
    <2>1. /\ b.pending_len \in Nat /\ m.pending_len \in Nat /\ pending_cap(a) \in Nat
          /\ pending_cap(b) = pending_cap(a)
      BY <1>1, <1>2, <1>3, <1>4, CountedType, CapType DEF pending_cap
    <2> QED  BY <1>2, <1>4, <2>1
  <1>6. Len(b.order) <= b.history_budget
    BY <1>1, <1>2, <1>3
  <1>7. LimitsOk(b)
    BY <1>1, <1>4, <1>5, <1>6 DEF LimitsOk
  <1> QED  BY <1>7 DEF b

(* Dropping one parent's children is enough, at once.                      *)
LEMMA ParkLimits ==
    ASSUME AggregatorAssumption, NEW a, NEW seen, AggOk(a, seen), NEW span \in Spans, LimitsOk(a)
    PROVE  LimitsOk(park_pending(a, span))
  <1> DEFINE parent == span.parent_id
             before == At(a.pending, parent, <<>>)
             waiting == Put(a.pending, parent, Append(before, span))
             len == a.pending_len + 1
             lowest == Lowest(DOMAIN waiting)
             less == len - Len(waiting[lowest])
             kept == Without(waiting, lowest)
             parked == [a EXCEPT !.pending = waiting, !.pending_len = len]
             dropped == [a EXCEPT !.pending = kept, !.pending_len = less]
  <1>1. park_pending(a, span) = IF len <= pending_cap(a) THEN parked ELSE dropped
    <2>1. parked.pending = waiting /\ parked.pending_len = len
      BY DEF AggOk, IsAggregator
    <2>2. [parked EXCEPT !.pending = Without(parked.pending, Lowest(DOMAIN parked.pending)),
                         !.pending_len = parked.pending_len
                            - Len(parked.pending[Lowest(DOMAIN parked.pending)])] = dropped
      BY <2>1 DEF AggOk, IsAggregator
    <2> QED  BY <2>1, <2>2 DEF park_pending
  <1>2. Counted(waiting, len) /\ parent \in DOMAIN waiting
    <2>1. parent \in Nat
      BY DEF AggregatorAssumption
    <2>2. Counted(waiting, len)
      BY <2>1, CountedAppend DEF LimitsOk
    <2> QED  BY <2>2 DEF Put
  <1> HIDE DEF waiting
  <1>3. lowest \in DOMAIN waiting
    BY <1>2, LowestIsOne DEF Counted
  <1>4. Counted(kept, less) /\ less < len
    <2>1. At(waiting, lowest, <<>>) = waiting[lowest]
      BY <1>3 DEF At
    <2> HIDE DEF lowest, len
    <2> QED  BY <1>2, <1>3, <2>1, CountedWithout
  <1>5. a.pending_len \in Nat /\ less \in Nat /\ pending_cap(a) \in Nat
    BY <1>4, CountedType, CapType DEF LimitsOk, AggOk, IsAggregator
  <1>6. less <= pending_cap(a)
    BY <1>4, <1>5 DEF LimitsOk
  <1> HIDE DEF kept, less, len
  <1>7. /\ parked.pending = waiting /\ parked.pending_len = len
        /\ dropped.pending = kept /\ dropped.pending_len = less
        /\ parked.order = a.order /\ dropped.order = a.order
        /\ parked.split_keys = a.split_keys /\ dropped.split_keys = a.split_keys
        /\ parked.history_budget = a.history_budget /\ dropped.history_budget = a.history_budget
    BY DEF AggOk, IsAggregator
  <1> HIDE DEF parked, dropped
  <1>8. pending_cap(parked) = pending_cap(a) /\ pending_cap(dropped) = pending_cap(a)
    BY <1>7 DEF pending_cap
  <1>9. LimitsOk(dropped)
    BY <1>4, <1>6, <1>7, <1>8 DEF LimitsOk
  <1>10. len <= pending_cap(a) => LimitsOk(parked)
    BY <1>2, <1>7, <1>8 DEF LimitsOk
  <1> QED  BY <1>1, <1>9, <1>10

-----------------------------------------------------------------------------
(* The inductive invariant                                                 *)

(* The calls to come are for different spans, none of them in the ring or  *)
(* parked.                                                                 *)
TodoOk ==
    /\ todo \in Seq(Spans) /\ IsInjective(todo) /\ ToSet(todo) \subseteq received
    /\ \A span \in ToSet(todo) : span.id \notin InRing /\ span \notin ParkedIn(agg.pending)

(* The ids a rebuild has taken apart and not lost.                         *)
Live == InRing \cup {span.id : span \in ToSet(todo) \cup ParkedIn(agg.pending)}

(* What a rebuild sets aside still has nothing to do with the ring.        *)
SavedOk ==
    saved # Nothing => PendingOk(saved.pending, received) /\ Apart(saved.pending, Live)

AggInv ==
    /\ received \subseteq Spans
    /\ AggOk(agg, received)
    /\ TodoOk
    /\ SavedOk

LEMMA InitInv ==
    ASSUME AggregatorAssumption, AggInit
    PROVE  AggInv
  <1>1. AggOk(agg, received)
    <2>1. IsAggregator(agg)
      BY DEF AggregatorAssumption, AggInit, IsAggregator
    <2>2. RingOk(agg, received)
      BY DEF AggInit, RingOk, IsInjective, ToSet
    <2>3. PendingOk(agg.pending, received) /\ Apart(agg.pending, DOMAIN agg.by_id)
      BY DEF AggInit, PendingOk, Apart, ParkedIn
    <2> QED  BY <2>1, <2>2, <2>3 DEF AggOk
  <1>2. TodoOk
    BY DEF AggInit, TodoOk, IsInjective, ToSet
  <1> QED  BY <1>1, <1>2 DEF AggInit, AggInv, SavedOk

(* Everything parked came, so its id is not that of a span yet to come.    *)
LEMMA Unseen ==
    ASSUME AggregatorAssumption, AggInv, NEW span \in Spans, span \notin received
    PROVE  span.id \notin InRing /\ span \notin ParkedIn(agg.pending)
  <1>1. span.id \notin InRing
    BY DEF AggregatorAssumption, AggInv, AggOk, RingOk, InRing
  <1>2. span \notin ParkedIn(agg.pending)
    BY DEF AggInv, AggOk, PendingOk, ParkedIn
  <1> QED  BY <1>1, <1>2

LEMMA AbsorbInv ==
    ASSUME AggregatorAssumption, AggInv, NEW span \in Spans, absorb(span)
    PROVE  AggInv'
  <1>1. /\ AtRest /\ span \notin received /\ todo' = <<span>>
        /\ received' = received \cup {span} /\ agg' = agg /\ saved' = saved
    BY DEF absorb
  <1>2. AggOk(agg', received')
    BY <1>1 DEF AggInv, AggOk, RingOk, PendingOk
  <1>3. TodoOk'
    <2>1. todo' \in Seq(Spans) /\ IsInjective(todo') /\ ToSet(todo') = {span}
      BY <1>1 DEF IsInjective, ToSet
    <2> QED  BY <1>1, <2>1, Unseen DEF TodoOk, InRing, AggInv
  <1> QED  BY <1>1, <1>2, <1>3 DEF AggInv, SavedOk, AtRest

(* The next call's span, seen once it is off the list.                     *)
LEMMA NextCall ==
    ASSUME AggInv, todo # <<>>
    PROVE  /\ Head(todo) \in received /\ Head(todo) \in ToSet(todo)
           /\ Head(todo).id \notin InRing /\ Head(todo) \notin ParkedIn(agg.pending)
           /\ Tail(todo) \in Seq(Spans) /\ IsInjective(Tail(todo))
           /\ ToSet(Tail(todo)) = ToSet(todo) \ {Head(todo)}
  BY TailFacts DEF AggInv, TodoOk

LEMMA ParkInv ==
    ASSUME AggregatorAssumption, AggInv, ParkStep
    PROVE  AggInv'
  <1> DEFINE span == Head(todo)
  <1>1. /\ todo # <<>> /\ span.parent_id \notin InRing
        /\ agg' = park_pending(agg, span) /\ todo' = Tail(todo)
        /\ saved' = saved /\ received' = received
    BY DEF ParkStep, ParentMissing, InRing
  <1>2. /\ AggOk(agg', received') /\ agg'.by_id = agg.by_id
        /\ ParkedIn(agg'.pending) \subseteq ParkedIn(agg.pending) \cup {span}
    BY <1>1, NextCall, ParkFacts DEF AggInv, InRing
  <1>3. TodoOk'
    BY <1>1, <1>2, NextCall DEF AggInv, TodoOk, InRing
  <1>4. Live' \subseteq Live
    BY <1>1, <1>2, NextCall DEF Live, InRing
  <1>5. SavedOk'
    BY <1>1, <1>4 DEF AggInv, SavedOk, Apart
  <1> QED  BY <1>1, <1>2, <1>3, <1>5 DEF AggInv

LEMMA InsertInv ==
    ASSUME AggregatorAssumption, AggInv, InsertStep
    PROVE  AggInv'
  <1> DEFINE span == Head(todo)
             waiting == Waiters(MakeRoom(agg), span.id)
  <1>1. /\ todo # <<>> /\ agg' = InsertSpan(agg, span) /\ todo' = waiting \o Tail(todo)
        /\ saved' = saved /\ received' = received
    BY DEF InsertStep
  <1>2. /\ AggOk(agg', received')
        /\ DOMAIN agg'.by_id \subseteq DOMAIN agg.by_id \cup {span.id}
        /\ waiting \in Seq(Spans) /\ IsInjective(waiting)
        /\ ToSet(waiting) \subseteq ParkedIn(agg.pending)
        /\ ParkedIn(agg'.pending) \subseteq ParkedIn(agg.pending) \ ToSet(waiting)
    BY <1>1, NextCall, InsertFacts DEF AggInv, InRing
  <1> HIDE DEF waiting
  <1>3. /\ todo' \in Seq(Spans) /\ IsInjective(todo')
        /\ ToSet(todo') = ToSet(waiting) \cup ToSet(Tail(todo))
    <2>1. ToSet(waiting) \cap ToSet(Tail(todo)) = {}
      BY <1>1, <1>2, NextCall DEF AggInv, TodoOk
    <2> QED  BY <1>1, <1>2, <2>1, NextCall, ConcatFacts
  <1>4. ToSet(todo') \subseteq received /\ span \notin ToSet(todo')
    BY <1>1, <1>2, <1>3, NextCall DEF AggInv, AggOk, TodoOk, PendingOk, ParkedIn
  <1>5. TodoOk'
    <2> SUFFICES ASSUME NEW s \in ToSet(todo')
                 PROVE  s.id \notin DOMAIN agg'.by_id /\ s \notin ParkedIn(agg'.pending)
      BY <1>1, <1>3, <1>4 DEF TodoOk, InRing
    <2>1. s.id # span.id
      BY <1>1, <1>4, NextCall DEF AggregatorAssumption, AggInv
    <2>2. CASE s \in ToSet(waiting)
      BY <1>2, <2>1, <2>2 DEF AggInv, AggOk, Apart
    <2>3. CASE s \in ToSet(Tail(todo))
      BY <1>1, <1>2, <2>1, <2>3, NextCall DEF AggInv, TodoOk, InRing
    <2> QED  BY <1>3, <2>2, <2>3
  <1>6. Live' \subseteq Live
    BY <1>1, <1>2, <1>3, NextCall DEF Live, InRing
  <1>7. SavedOk'
    BY <1>1, <1>6 DEF AggInv, SavedOk, Apart
  <1> QED  BY <1>1, <1>2, <1>5, <1>7 DEF AggInv

(* The ring is taken apart: its spans become the calls to come.            *)
LEMMA SplitKeysInv ==
    ASSUME AggregatorAssumption, AggInv, NEW keys, set_split_keys(keys)
    PROVE  AggInv'
  <1>1. /\ saved = Nothing /\ received' = received
        /\ saved'.pending = agg.pending
        /\ agg' = [agg EXCEPT !.split_keys = keys, !.buckets = <<>>, !.child_sum = <<>>,
                              !.order = <<>>, !.by_id = <<>>,
                              !.pending = <<>>, !.pending_len = 0]
        /\ todo' = SpansInOrder(agg)
    BY DEF set_split_keys, AtRest
  <1>2. /\ IsAggregator(agg')
        /\ agg'.order = <<>> /\ agg'.by_id = <<>> /\ agg'.pending = <<>>
    BY <1>1 DEF AggInv, AggOk, IsAggregator
  <1>3. AggOk(agg', received')
    <2>1. RingOk(agg', received')
      BY <1>2 DEF RingOk, IsInjective, ToSet
    <2>2. PendingOk(agg'.pending, received') /\ Apart(agg'.pending, DOMAIN agg'.by_id)
      BY <1>2 DEF PendingOk, Apart, ParkedIn
    <2> QED  BY <1>2, <2>1, <2>2 DEF AggOk
  <1>4. /\ \A i \in DOMAIN agg.order :
              /\ agg.order[i] \in InRing
              /\ SpansInOrder(agg)[i] \in received /\ SpansInOrder(agg)[i].id = agg.order[i]
        /\ DOMAIN SpansInOrder(agg) = DOMAIN agg.order
    BY DEF AggInv, AggOk, RingOk, InRing, ToSet, SpansInOrder
  <1>5. todo' \in Seq(Spans)
    <2>1. Len(agg.order) \in Nat /\ DOMAIN agg.order = 1..Len(agg.order)
      BY DEF AggInv, AggOk, RingOk
    <2>2. \A i \in 1..Len(agg.order) : SpansInOrder(agg)[i] \in Spans
      BY <1>4, <2>1 DEF AggInv
    <2>3. SpansInOrder(agg) = [i \in 1..Len(agg.order) |-> agg.by_id[agg.order[i]].span]
      BY <2>1 DEF SpansInOrder
    <2>4. SpansInOrder(agg) \in [1..Len(agg.order) -> Spans]
      BY <2>2, <2>3
    <2> QED  BY ONLY <1>1, <2>1, <2>4
  <1>6. IsInjective(todo')
    BY <1>1, <1>4 DEF AggInv, AggOk, RingOk, IsInjective
  <1>7. \A span \in ToSet(todo') : span \in received /\ span.id \in InRing
    BY <1>1, <1>4 DEF ToSet
  <1>8. TodoOk'
    BY <1>1, <1>2, <1>5, <1>6, <1>7 DEF TodoOk, InRing, ParkedIn
  <1>9. Live' \subseteq InRing
    BY <1>2, <1>7 DEF Live, InRing, ParkedIn
  <1>10. SavedOk'
    BY <1>1, <1>9 DEF AggInv, AggOk, SavedOk, Apart, InRing
  <1> QED  BY <1>1, <1>3, <1>8, <1>10 DEF AggInv

LEMMA RestoreInv ==
    ASSUME AggInv, RestorePending
    PROVE  AggInv'
  <1>1. /\ todo = <<>> /\ saved # Nothing /\ saved' = Nothing
        /\ todo' = todo /\ received' = received
        /\ agg' = [agg EXCEPT !.pending = saved.pending, !.pending_len = saved.pending_len]
    BY DEF RestorePending
  <1>2. /\ IsAggregator(agg') /\ agg'.pending = saved.pending
        /\ agg'.order = agg.order /\ agg'.by_id = agg.by_id
    BY <1>1 DEF AggInv, AggOk, IsAggregator
  <1>3. AggOk(agg', received')
    BY <1>1, <1>2 DEF AggInv, AggOk, RingOk, SavedOk, Apart, Live, InRing
  <1>4. TodoOk'
    BY <1>1 DEF AggInv, TodoOk, ToSet
  <1> QED  BY <1>1, <1>3, <1>4 DEF AggInv, SavedOk

LEMMA NextInv ==
    ASSUME AggregatorAssumption, AggInv, [AggNext]_aggVars
    PROVE  AggInv'
  <1>1. CASE UNCHANGED aggVars
    BY <1>1 DEF aggVars, AggInv, TodoOk, SavedOk, Live, InRing
  <1> QED  BY <1>1, AbsorbInv, ParkInv, InsertInv, SplitKeysInv, RestoreInv DEF AggNext

-----------------------------------------------------------------------------
(* The times, step by step                                                 *)

(* The spans that are still to be absorbed.                                *)
Due == ToSet(todo) \cup ParkedIn(agg.pending) \cup ParkedIn(saved.pending)

(* The parent of every span in the ring came, and is not to come again:    *)
(* no span joins after its children.                                       *)
ParentsSettled ==
    \A id \in InRing :
        LET parent == agg.by_id[id].span.parent_id
        IN  parent = NoParent \/ \E s \in received \ Due : s.id = parent

LedgerInv == LedgerOk(agg) /\ ParentsSettled

LEMMA InitLedger ==
    ASSUME AggregatorAssumption, AggInit
    PROVE  LedgerInv
  <1>1. DOMAIN agg.by_id = {} /\ DOMAIN agg.child_sum = {} /\ agg.buckets = <<>>
    BY DEF AggInit
  <1>2. LedgerOk(agg)
    BY <1>1, EmptyLedger
  <1> QED  BY <1>1, <1>2 DEF LedgerInv, ParentsSettled, InRing

(* The ring may gain entries whose parents settled; less may become due.   *)
LEMMA StaysSettled ==
    ASSUME LedgerInv, AggInv, received' = received, Due' \subseteq Due,
           \A id \in DOMAIN agg'.by_id :
               \/ id \in InRing /\ agg'.by_id[id].span = agg.by_id[id].span
               \/ agg'.by_id[id].span.parent_id \in InRing \cup {NoParent}
    PROVE  ParentsSettled'
  <1> SUFFICES ASSUME NEW id \in DOMAIN agg'.by_id,
                      agg'.by_id[id].span.parent_id # NoParent
               PROVE  \E s \in received \ Due : s.id = agg'.by_id[id].span.parent_id
    BY DEF ParentsSettled, InRing
  <1>1. CASE id \in InRing /\ agg'.by_id[id].span = agg.by_id[id].span
    BY <1>1 DEF LedgerInv, ParentsSettled
  <1>2. CASE agg'.by_id[id].span.parent_id \in InRing
    <2> DEFINE s == agg.by_id[agg'.by_id[id].span.parent_id].span
    <2>1. s \in received /\ s.id = agg'.by_id[id].span.parent_id /\ s.id \in InRing
      BY <1>2 DEF AggInv, AggOk, RingOk, InRing
    <2>2. s \notin ToSet(todo) /\ s \notin ParkedIn(agg.pending)
      BY <2>1 DEF AggInv, AggOk, Apart, TodoOk, InRing
    <2>3. s \notin ParkedIn(saved.pending)
      <3>1. CASE saved = Nothing
        BY <3>1 DEF Nothing, ParkedIn
      <3>2. CASE saved # Nothing
        BY <2>1, <3>2 DEF AggInv, SavedOk, Apart, Live
      <3> QED  BY <3>1, <3>2
    <2> QED  BY <2>1, <2>2, <2>3 DEF Due
  <1> QED  BY <1>1, <1>2

LEMMA AbsorbLedger ==
    ASSUME LedgerInv, AggInv, NEW span \in Spans, absorb(span)
    PROVE  LedgerInv'
  <1>1. /\ AtRest /\ span \notin received /\ todo' = <<span>>
        /\ received' = received \cup {span} /\ agg' = agg /\ saved' = saved
    BY DEF absorb
  <1>2. Due' = Due \cup {span}
    <2>1. ToSet(todo') = {span} /\ ToSet(todo) = {}
      BY <1>1 DEF ToSet, AtRest
    <2> QED  BY <1>1, <2>1 DEF Due
  <1>3. received \ Due \subseteq received' \ Due'
    BY <1>1, <1>2
  <1>4. ParentsSettled'
    BY <1>1, <1>3 DEF LedgerInv, ParentsSettled, InRing
  <1> QED  BY <1>1, <1>4 DEF LedgerInv

LEMMA ParkLedger ==
    ASSUME AggregatorAssumption, LedgerInv, AggInv, ParkStep
    PROVE  LedgerInv'
  <1> DEFINE span == Head(todo)
  <1>1. /\ todo # <<>> /\ span.parent_id \notin InRing
        /\ agg' = park_pending(agg, span) /\ todo' = Tail(todo)
        /\ saved' = saved /\ received' = received
    BY DEF ParkStep, ParentMissing, InRing
  <1>2. /\ agg'.by_id = agg.by_id /\ agg'.buckets = agg.buckets
        /\ agg'.child_sum = agg.child_sum
        /\ ParkedIn(agg'.pending) \subseteq ParkedIn(agg.pending) \cup {span}
    BY <1>1, NextCall, ParkFacts DEF AggInv, InRing
  <1>3. LedgerOk(agg')
    BY <1>2 DEF LedgerInv, LedgerOk, Booked, SumsOk
  <1>4. Due' \subseteq Due
    BY <1>1, <1>2, NextCall DEF Due
  <1> QED  BY <1>1, <1>2, <1>3, <1>4, StaysSettled DEF LedgerInv, InRing

LEMMA InsertLedger ==
    ASSUME AggregatorAssumption, LedgerInv, AggInv, InsertStep
    PROVE  LedgerInv'
  <1> DEFINE span == Head(todo)
             waiting == Waiters(MakeRoom(agg), span.id)
  <1>1. /\ todo # <<>> /\ agg' = InsertSpan(agg, span) /\ todo' = waiting \o Tail(todo)
        /\ saved' = saved /\ received' = received
        /\ span.parent_id \in InRing \cup {NoParent}
    BY DEF InsertStep, ParentMissing, InRing
  <1>2. /\ AggOk(agg', received')
        /\ DOMAIN agg'.by_id \subseteq DOMAIN agg.by_id \cup {span.id}
        /\ waiting \in Seq(Spans) /\ IsInjective(waiting)
        /\ ToSet(waiting) \subseteq ParkedIn(agg.pending)
        /\ ParkedIn(agg'.pending) \subseteq ParkedIn(agg.pending) \ ToSet(waiting)
    BY <1>1, NextCall, InsertFacts DEF AggInv, InRing
  <1> HIDE DEF waiting
  <1>3. span \in received /\ span \in Spans /\ span.id \notin InRing /\ span.id # NoParent
    BY <1>1, NextCall DEF AggregatorAssumption, AggInv
  <1>4. Children(agg.by_id, span.id) = {}
    <2> SUFFICES ASSUME NEW c \in InRing, agg.by_id[c].span.parent_id = span.id
                 PROVE  FALSE
      BY DEF Children, InRing
    <2>1. PICK s \in received \ Due : s.id = span.id
      BY <1>3 DEF LedgerInv, ParentsSettled
    <2>2. s = span
      BY <1>3, <2>1 DEF AggregatorAssumption, AggInv
    <2> QED  BY <1>1, <2>1, <2>2, NextCall DEF Due
  <1>5. LedgerOk(agg')
    BY <1>1, <1>3, <1>4, InsertBooks DEF AggInv, LedgerInv, InRing
  <1>6. Due' \subseteq Due
    <2>1. ToSet(todo') = ToSet(waiting) \cup ToSet(Tail(todo))
      <3>1. ToSet(waiting) \cap ToSet(Tail(todo)) = {}
        BY <1>1, <1>2, NextCall DEF AggInv, TodoOk
      <3> QED  BY <1>1, <1>2, <3>1, NextCall, ConcatFacts
    <2> QED  BY <1>1, <1>2, <2>1, NextCall DEF Due
  <1>7. \A id \in DOMAIN agg'.by_id :
            \/ id \in InRing /\ agg'.by_id[id].span = agg.by_id[id].span
            \/ agg'.by_id[id].span.parent_id \in InRing \cup {NoParent}
    <2> TAKE id \in DOMAIN agg'.by_id
    <2>1. agg'.by_id[id].span \in Spans /\ agg'.by_id[id].span.id = id
      BY <1>1, <1>2 DEF AggInv, AggOk, RingOk
    <2>2. CASE id = span.id
      <3>1. agg'.by_id[id].span = span
        BY <1>3, <2>1, <2>2 DEF AggregatorAssumption
      <3> QED  BY <1>1, <3>1
    <2>3. CASE id \in InRing
      <3>1. agg.by_id[id].span \in Spans /\ agg.by_id[id].span.id = id
        BY <2>3 DEF AggInv, AggOk, RingOk, InRing
      <3> QED  BY <2>1, <2>3, <3>1 DEF AggregatorAssumption
    <2> QED  BY <1>2, <2>2, <2>3 DEF InRing
  <1>8. ParentsSettled'
    BY <1>1, <1>6, <1>7, StaysSettled
  <1> QED  BY <1>5, <1>8 DEF LedgerInv

LEMMA SplitKeysLedger ==
    ASSUME AggInv, NEW keys, set_split_keys(keys)
    PROVE  LedgerInv'
  <1>1. DOMAIN agg'.by_id = {} /\ DOMAIN agg'.child_sum = {} /\ agg'.buckets = <<>>
    BY DEF set_split_keys, AggInv, AggOk, IsAggregator
  <1>2. LedgerOk(agg')
    BY <1>1, EmptyLedger
  <1> QED  BY <1>1, <1>2 DEF LedgerInv, ParentsSettled, InRing

LEMMA RestoreLedger ==
    ASSUME LedgerInv, AggInv, RestorePending
    PROVE  LedgerInv'
  <1>1. /\ todo' = todo /\ received' = received /\ saved' = Nothing
        /\ agg'.pending = saved.pending /\ agg'.by_id = agg.by_id
        /\ agg'.buckets = agg.buckets /\ agg'.child_sum = agg.child_sum
    BY DEF RestorePending, AggInv, AggOk, IsAggregator
  <1>2. LedgerOk(agg')
    BY <1>1 DEF LedgerInv, LedgerOk, Booked, SumsOk
  <1>3. Due' \subseteq Due
    BY <1>1 DEF Due, Nothing, ParkedIn
  <1> QED  BY <1>1, <1>2, <1>3, StaysSettled DEF LedgerInv, InRing

LEMMA NextLedger ==
    ASSUME AggregatorAssumption, LedgerInv, AggInv, [AggNext]_aggVars
    PROVE  LedgerInv'
  <1>1. CASE UNCHANGED aggVars
    BY <1>1 DEF aggVars, LedgerInv, ParentsSettled, Due, InRing
  <1> QED  BY <1>1, AbsorbLedger, ParkLedger, InsertLedger, SplitKeysLedger, RestoreLedger
           DEF AggNext

-----------------------------------------------------------------------------
(* The limits, step by step                                                *)

(* What a rebuild sets aside keeps its count, and fits when it comes back. *)
LimitsInv ==
    /\ LimitsOk(agg)
    /\ saved # Nothing => /\ Counted(saved.pending, saved.pending_len)
                          /\ saved.pending_len <= pending_cap(agg)

LEMMA NothingCounted ==
    ASSUME NEW pending, DOMAIN pending = {}
    PROVE  Counted(pending, 0)
  <1> DEFINE f == Lengths(pending)
  <1>1. DOMAIN f = {}
    BY DEF Lengths
  <1> HIDE DEF f
  <1>2. SumFunction(f) = 0
    BY <1>1, SumEmpty
  <1> QED  BY <1>2, FS_EmptySet DEF Counted, f

LEMMA InitLimits ==
    ASSUME AggregatorAssumption, AggInit
    PROVE  LimitsInv
  <1>1. /\ agg.history_budget \in Budgets /\ agg.history_budget \in Nat
        /\ agg.split_keys = {} /\ agg.order = <<>>
        /\ DOMAIN agg.pending = {} /\ agg.pending_len = 0 /\ saved = Nothing
    BY DEF AggregatorAssumption, AggInit
  <1>2. Counted(agg.pending, 0) /\ 0 <= pending_cap(agg)
    <2>1. Counted(agg.pending, 0)
      BY <1>1, NothingCounted
    <2>2. pending_cap(agg) \in Nat
      BY <1>1, CapType
    <2> QED  BY <2>1, <2>2
  <1> QED  BY <1>1, <1>2 DEF LimitsInv, LimitsOk

LEMMA NextLimits ==
    ASSUME AggregatorAssumption, LimitsInv, AggInv, [AggNext]_aggVars
    PROVE  LimitsInv'
  <1>1. CASE UNCHANGED aggVars
    BY <1>1 DEF aggVars, LimitsInv, LimitsOk, pending_cap
  <1>2. ASSUME NEW span \in Spans, absorb(span)
        PROVE  LimitsInv'
    BY <1>2 DEF absorb, LimitsInv, LimitsOk, pending_cap
  <1>3. CASE ParkStep
    <2>1. /\ agg' = park_pending(agg, Head(todo)) /\ saved' = saved
          /\ Head(todo) \in received /\ Head(todo) \in Spans
          /\ Head(todo).id \notin InRing /\ Head(todo).parent_id \notin InRing
          /\ Head(todo) \notin ParkedIn(agg.pending)
      BY <1>3, NextCall DEF ParkStep, ParentMissing, InRing, AggInv
    <2>2. LimitsOk(agg')
      BY <2>1, ParkLimits DEF LimitsInv, AggInv
    <2>3. agg'.history_budget = agg.history_budget
      BY <2>1 DEF park_pending, AggInv, AggOk, IsAggregator
    <2> QED  BY <2>1, <2>2, <2>3 DEF LimitsInv, pending_cap
  <1>4. CASE InsertStep
    <2>1. /\ agg' = InsertSpan(agg, Head(todo)) /\ saved' = saved
          /\ Head(todo) \in received /\ Head(todo).id \notin InRing
          /\ Head(todo) \notin ParkedIn(agg.pending)
      BY <1>4, NextCall DEF InsertStep
    <2>2. LimitsOk(agg')
      BY <2>1, InsertLimits DEF LimitsInv, AggInv, InRing
    <2>3. agg'.history_budget = agg.history_budget
      BY <2>1, InsertFacts DEF AggInv, InRing
    <2> QED  BY <2>1, <2>2, <2>3 DEF LimitsInv, pending_cap
  <1>5. ASSUME NEW keys \in SUBSET Keys, set_split_keys(keys)
        PROVE  LimitsInv'
    <2>1. /\ agg'.history_budget = agg.history_budget /\ agg'.split_keys = keys
          /\ agg'.order = <<>> /\ DOMAIN agg'.pending = {} /\ agg'.pending_len = 0
          /\ saved'.pending = agg.pending /\ saved'.pending_len = agg.pending_len
          /\ agg.history_budget \in Nat
      BY <1>5 DEF set_split_keys, AggInv, AggOk, IsAggregator
    <2>2. Counted(agg'.pending, 0) /\ 0 <= pending_cap(agg') /\ pending_cap(agg') = pending_cap(agg)
      <3>1. Counted(agg'.pending, 0)
        BY <2>1, NothingCounted
      <3>2. pending_cap(agg) \in Nat
        BY <2>1, CapType
      <3>3. pending_cap(agg') = pending_cap(agg)
        BY <2>1 DEF pending_cap
      <3> QED  BY <3>1, <3>2, <3>3
    <2>3. LimitsOk(agg')
      BY <2>1, <2>2 DEF LimitsInv, LimitsOk
    <2> QED  BY <2>1, <2>2, <2>3 DEF LimitsInv, LimitsOk
  <1>6. CASE RestorePending
    <2>1. /\ saved # Nothing /\ saved' = Nothing
          /\ agg'.history_budget = agg.history_budget /\ agg'.split_keys = agg.split_keys
          /\ agg'.order = agg.order
          /\ agg'.pending = saved.pending /\ agg'.pending_len = saved.pending_len
      BY <1>6 DEF RestorePending, AggInv, AggOk, IsAggregator
    <2>2. pending_cap(agg') = pending_cap(agg)
      BY <2>1 DEF pending_cap
    <2> QED  BY <2>1, <2>2 DEF LimitsInv, LimitsOk
  <1> QED  BY <1>1, <1>2, <1>3, <1>4, <1>5, <1>6 DEF AggNext

-----------------------------------------------------------------------------
(* The stacks of the aggregator: names, and never none                     *)

Names == {span.name : span \in Spans}
Stacks == Seq(Names) \ {<<>>}

StacksOk ==
    /\ \A bucket \in DOMAIN agg.buckets : bucket.stack \in Stacks
    /\ \A id \in InRing : agg.by_id[id].bucket.stack \in Stacks

LEMMA ResolveStack ==
    ASSUME StacksOk, NEW span \in Spans, ~ParentMissing(agg, span)
    PROVE  resolve(agg, span).stack \in Stacks
  <1> DEFINE parent == IF span.parent_id = NoParent
                       THEN [stack |-> <<>>, splits |-> <<>>]
                       ELSE agg.by_id[span.parent_id].bucket
  <1>1. resolve(agg, span).stack = Append(parent.stack, span.name)
    BY DEF resolve
  <1>2. parent.stack \in Seq(Names)
    BY DEF StacksOk, Stacks, ParentMissing, InRing
  <1>3. span.name \in Names
    BY DEF Names
  <1> HIDE DEF parent
  <1>4. Append(parent.stack, span.name) \in Seq(Names)
        /\ Len(Append(parent.stack, span.name)) = Len(parent.stack) + 1
        /\ Len(parent.stack) \in Nat
    BY <1>2, <1>3
  <1> QED  BY <1>1, <1>4 DEF Stacks

(* A bucket after a step was there before, or is that of a span whose      *)
(* parent is in the ring.                                                  *)
Resolved == {resolve(agg, span) : span \in {s \in Spans : ~ParentMissing(agg, s)}}
EntryBuckets == {agg.by_id[id].bucket : id \in InRing}

LEMMA BucketsStep ==
    ASSUME AggregatorAssumption, AggInv,
           \/ UNCHANGED aggVars
           \/ \E span \in Spans : absorb(span)
           \/ ParkStep \/ InsertStep \/ RestorePending
           \/ \E keys : set_split_keys(keys)
    PROVE  /\ DOMAIN agg'.buckets \subseteq DOMAIN agg.buckets \cup Resolved
           /\ EntryBuckets' \subseteq EntryBuckets \cup Resolved
  <1>1. CASE UNCHANGED aggVars \/ \E span \in Spans : absorb(span)
    <2>1. agg' = agg
      BY <1>1 DEF aggVars, absorb
    <2> QED  BY <2>1 DEF EntryBuckets, InRing
  <1>2. CASE ParkStep
    <2>1. agg'.by_id = agg.by_id /\ agg'.buckets = agg.buckets
      BY <1>2, NextCall, ParkFacts DEF ParkStep, ParentMissing, AggInv, InRing
    <2> QED  BY <2>1 DEF EntryBuckets, InRing
  <1>3. CASE InsertStep
    <2> DEFINE span == Head(todo)
    <2>1. /\ agg' = InsertSpan(agg, span) /\ ~ParentMissing(agg, span)
          /\ span \in received /\ span \in Spans
          /\ span.id \notin InRing /\ span \notin ParkedIn(agg.pending)
      BY <1>3, NextCall DEF InsertStep, AggInv
    <2> HIDE DEF span
    <2>2. /\ DOMAIN agg'.by_id \subseteq DOMAIN agg.by_id \cup {span.id}
          /\ DOMAIN agg'.buckets \subseteq DOMAIN agg.buckets \cup {resolve(agg, span)}
          /\ \A id \in DOMAIN agg'.by_id \cap DOMAIN agg.by_id :
                agg'.by_id[id].bucket = agg.by_id[id].bucket
          /\ span.id \in DOMAIN agg'.by_id => agg'.by_id[span.id].bucket = resolve(agg, span)
      BY <2>1, InsertFacts DEF AggInv, InRing
    <2>3. resolve(agg, span) \in Resolved
      BY <2>1 DEF Resolved
    <2>4. \A id \in DOMAIN agg'.by_id : agg'.by_id[id].bucket \in EntryBuckets \cup Resolved
      BY <2>2, <2>3 DEF EntryBuckets, InRing
    <2> QED  BY <2>2, <2>3, <2>4 DEF EntryBuckets, InRing
  <1>4. CASE RestorePending
    <2>1. agg'.by_id = agg.by_id /\ agg'.buckets = agg.buckets
      BY <1>4 DEF RestorePending, AggInv, AggOk, IsAggregator
    <2> QED  BY <2>1 DEF EntryBuckets, InRing
  <1>5. ASSUME NEW keys, set_split_keys(keys)
        PROVE  DOMAIN agg'.buckets = {} /\ EntryBuckets' = {}
    <2>1. agg'.by_id = <<>> /\ agg'.buckets = <<>>
      BY <1>5 DEF set_split_keys, AggInv, AggOk, IsAggregator
    <2> QED  BY <2>1 DEF EntryBuckets, InRing
  <1> QED  BY <1>1, <1>2, <1>3, <1>4, <1>5

LEMMA StacksStep ==
    ASSUME AggregatorAssumption, AggInv, StacksOk,
           \/ UNCHANGED aggVars
           \/ \E span \in Spans : absorb(span)
           \/ ParkStep \/ InsertStep \/ RestorePending
           \/ \E keys : set_split_keys(keys)
    PROVE  StacksOk'
  <1>1. /\ DOMAIN agg'.buckets \subseteq DOMAIN agg.buckets \cup Resolved
        /\ EntryBuckets' \subseteq EntryBuckets \cup Resolved
    BY BucketsStep
  <1>2. \A bucket \in Resolved : bucket.stack \in Stacks
    BY ResolveStack DEF Resolved
  <1>3. \A bucket \in EntryBuckets : bucket.stack \in Stacks
    BY DEF StacksOk, EntryBuckets
  <1>4. \A id \in InRing' : agg'.by_id[id].bucket \in EntryBuckets'
    BY DEF EntryBuckets
  <1> QED  BY <1>1, <1>2, <1>3, <1>4 DEF StacksOk

-----------------------------------------------------------------------------
(* Lines of spans                                                          *)

LEMMA LineInjective ==
    ASSUME AggregatorAssumption, NEW line \in Seq(Spans), line # <<>>, Descends(line)
    PROVE  IsInjective(line)
  <1> DEFINE T == {i \in 1..Len(line) : \E j \in 1..Len(line) : i < j /\ line[i] = line[j]}
  <1>1. /\ Len(line) \in Nat \ {0} /\ DOMAIN line = 1..Len(line)
        /\ \A i \in 1..Len(line) : line[i] \in Spans
        /\ line[1].parent_id = NoParent
        /\ \A i \in 2..Len(line) : line[i].parent_id = line[i - 1].id
    BY DEF Descends
  <1>2. T = {}
    <2> SUFFICES ASSUME T # {}
                 PROVE  FALSE
      OBVIOUS
    <2>0. T \subseteq Nat
      BY <1>1
    <2>1. PICK i \in T : \A m \in T : i <= m
      BY <2>0, LeastNatural
    <2>2. PICK j \in 1..Len(line) : i < j /\ line[i] = line[j]
      OBVIOUS
    <2>3. /\ i \in 1..Len(line) /\ j \in 2..Len(line)
          /\ j - 1 \in 1..Len(line) /\ line[j].parent_id = line[j - 1].id
      BY <1>1, <2>2
    <2>4. line[j - 1].id # NoParent
      BY <1>1, <2>3 DEF AggregatorAssumption
    <2>5. i # 1
      BY <1>1, <2>2, <2>3, <2>4
    <2>6. /\ i \in 2..Len(line) /\ i - 1 \in 1..Len(line) /\ i - 1 < j - 1
          /\ line[i].parent_id = line[i - 1].id
      BY <1>1, <2>2, <2>3, <2>5
    <2>7. line[i - 1] = line[j - 1]
      BY <1>1, <2>2, <2>3, <2>6 DEF AggregatorAssumption
    <2>8. i - 1 \in T
      BY <2>3, <2>6, <2>7
    <2> QED  BY <2>1, <2>6, <2>8
  <1>3. ASSUME NEW i \in DOMAIN line, NEW j \in DOMAIN line, line[i] = line[j]
        PROVE  i = j
    <2>1. ~(i < j) /\ ~(j < i)
      BY <1>1, <1>2, <1>3
    <2> QED  BY <1>1, <2>1
  <1> QED  BY <1>3 DEF IsInjective

LEMMA LinesFacts ==
    ASSUME AggregatorAssumption, NEW line
    PROVE  line \in Lines <=> line \in Seq(Spans) /\ line # <<>> /\ Descends(line)
  <1>1. Cardinality(Spans) \in Nat
    BY FS_CardinalityType DEF AggregatorAssumption
  <1>2. ASSUME line \in Lines
        PROVE  line \in Seq(Spans) /\ line # <<>> /\ Descends(line)
    <2>1. PICK n \in 1..Cardinality(Spans) : line \in [1..n -> Spans] /\ Descends(line)
      BY <1>2 DEF Lines
    <2>2. n \in Nat /\ n # 0
      BY <1>1
    <2>3. line \in Seq(Spans) /\ Len(line) = n
      BY <2>1, <2>2
    <2> QED  BY <2>1, <2>2, <2>3
  <1>3. ASSUME line \in Seq(Spans), line # <<>>, Descends(line)
        PROVE  line \in Lines
    <2> DEFINE n == Len(line)
    <2>1. n \in Nat /\ n # 0 /\ line \in [1..n -> Spans]
      BY <1>3
    <2>2. IsInjective(line)
      BY <1>3, LineInjective
    <2>3. line \in Injection(1..n, Spans)
      BY <2>1, <2>2 DEF Injection, IsInjective
    <2>4. Cardinality(1..n) <= Cardinality(Spans)
      BY <2>3, FS_Injection DEF AggregatorAssumption
    <2>5. Cardinality(1..n) = n
      <3>1. 1 \in Int /\ n \in Int
        BY <2>1
      <3> HIDE DEF n
      <3>2. Cardinality(1..n) = IF 1 > n THEN 0 ELSE n - 1 + 1
        BY <3>1, FS_Interval
      <3> QED  BY <2>1, <3>2
    <2>6. n \in 1..Cardinality(Spans)
      BY <1>1, <2>1, <2>4, <2>5
    <2> QED  BY <1>3, <2>1, <2>6 DEF Lines
  <1> QED  BY <1>2, <1>3

LEMMA LineBegins ==
    ASSUME AggregatorAssumption, NEW span \in Spans, span.parent_id = NoParent, NEW keys
    PROVE  /\ <<span>> \in Lines /\ Last(<<span>>) = span /\ ToSet(<<span>>) = {span}
           /\ BucketOf(<<span>>, keys) = [stack |-> Append(<<>>, span.name),
                                          splits |-> collect_splits(span, <<>>, keys)]
  <1> DEFINE line == <<span>>
             own == {k \in keys : With(line, k) # {}}
  <1>1. line \in Seq(Spans) /\ line # <<>> /\ Len(line) = 1 /\ line[1] = span /\ DOMAIN line = {1}
    OBVIOUS
  <1> HIDE DEF line
  <1>2. Descends(line)
    BY <1>1 DEF Descends
  <1>3. \A k : With(line, k) = IF k \in DOMAIN span.fields THEN {1} ELSE {}
    BY <1>1 DEF With
  <1>4. own = DOMAIN span.fields \cap keys
    BY <1>3
  <1>5. \A k \in own : line[Max(With(line, k))].fields[k] = span.fields[k]
    <2>1. Max({1}) = 1
      BY DEF Max
    <2> QED  BY <1>1, <1>3, <1>4, <2>1
  <1> HIDE DEF own
  <1>6. [k \in own |-> line[Max(With(line, k))].fields[k]] = [k \in own |-> span.fields[k]]
    BY <1>5
  <1>7. collect_splits(span, <<>>, keys) = [k \in own |-> span.fields[k]]
    <2>1. own \cup DOMAIN <<>> = own
      OBVIOUS
    <2>2. [k \in own |-> IF k \in own THEN span.fields[k] ELSE <<>>[k]]
          = [k \in own |-> span.fields[k]]
      OBVIOUS
    <2> QED  BY <1>4, <2>1, <2>2 DEF collect_splits
  <1>8. [i \in DOMAIN line |-> line[i].name] = Append(<<>>, span.name)
    BY <1>1
  <1>9. BucketOf(line, keys) = [stack |-> [i \in DOMAIN line |-> line[i].name],
                                splits |-> [k \in own |-> line[Max(With(line, k))].fields[k]]]
    BY DEF BucketOf, own
  <1>10. BucketOf(line, keys) = [stack |-> Append(<<>>, span.name),
                                 splits |-> collect_splits(span, <<>>, keys)]
    BY <1>6, <1>7, <1>8, <1>9
  <1>11. line \in Lines /\ Last(line) = span /\ ToSet(line) = {span}
    BY <1>1, <1>2, LinesFacts DEF Last, ToSet
  <1> QED  BY <1>10, <1>11 DEF line

LEMMA LineExtends ==
    ASSUME AggregatorAssumption, NEW line \in Lines, NEW span \in Spans,
           span.parent_id = Last(line).id, NEW keys
    PROVE  LET longer == Append(line, span)
               b == BucketOf(line, keys)
           IN  /\ longer \in Lines /\ Last(longer) = span
               /\ ToSet(longer) = ToSet(line) \cup {span}
               /\ BucketOf(longer, keys) = [stack |-> Append(b.stack, span.name),
                                            splits |-> collect_splits(span, b.splits, keys)]
  <1> DEFINE n == Len(line)
             longer == Append(line, span)
             b == BucketOf(line, keys)
             own == DOMAIN span.fields \cap keys
             had == {k \in keys : With(line, k) # {}}
             has == {k \in keys : With(longer, k) # {}}
             value == [k \in has |-> longer[Max(With(longer, k))].fields[k]]
  <1>1. line \in Seq(Spans) /\ line # <<>> /\ Descends(line)
    BY LinesFacts
  <1>2. /\ n \in Nat \ {0} /\ DOMAIN line = 1..n
        /\ longer \in Seq(Spans) /\ longer # <<>> /\ Len(longer) = n + 1 /\ DOMAIN longer = 1..(n + 1)
        /\ \A i \in 1..n : longer[i] = line[i]
        /\ longer[n + 1] = span /\ Last(line) = line[n]
    BY <1>1 DEF Last
  <1>3. ToSet(longer) = ToSet(line) \cup {span}
    BY <1>1, AppendFacts
  <1> HIDE DEF longer
  <1>4. Descends(longer)
    <2>1. \A i \in 2..(n + 1) : i \in 2..n \/ i = n + 1
      BY <1>2
    <2>2. \A i \in 2..n : i \in 1..n /\ i - 1 \in 1..n
      BY <1>2
    <2>3. (n + 1) - 1 = n /\ n \in 1..n /\ 1 \in 1..n
      BY <1>2
    <2> QED  BY <1>1, <1>2, <2>1, <2>2, <2>3 DEF Descends
  <1>5. longer \in Lines /\ Last(longer) = span
    BY <1>2, <1>4, LinesFacts DEF Last
  <1>6. \A k : /\ With(line, k) \subseteq 1..n
               /\ With(longer, k) = With(line, k) \cup
                      (IF k \in DOMAIN span.fields THEN {n + 1} ELSE {})
    BY <1>2 DEF With
  <1>7. has = own \cup had
    BY <1>6
  <1>8. b = [stack |-> [i \in DOMAIN line |-> line[i].name],
             splits |-> [k \in had |-> line[Max(With(line, k))].fields[k]]]
    BY DEF BucketOf
  <1>9. BucketOf(longer, keys) = [stack |-> [i \in DOMAIN longer |-> longer[i].name],
                                  splits |-> value]
    BY DEF BucketOf
  <1> HIDE DEF b, has, had
  <1>10. DOMAIN b.splits = had /\ \A k \in had : b.splits[k] = line[Max(With(line, k))].fields[k]
    BY <1>8
  <1>11. ASSUME NEW k \in has
         PROVE  value[k] = IF k \in own THEN span.fields[k] ELSE b.splits[k]
    <2>1. CASE k \in own
      <3>1. n + 1 \in With(longer, k) /\ \A i \in With(longer, k) : i \in Int /\ i <= n + 1
        BY <1>2, <1>6, <2>1
      <3>2. Max(With(longer, k)) = n + 1
        BY <1>2, <3>1 DEF Max
      <3> QED  BY <1>2, <2>1, <3>2
    <2>2. CASE k \notin own
      <3>1. k \in had /\ k \in keys
        BY <1>7, <2>2 DEF has
      <3>2. With(longer, k) = With(line, k) /\ With(line, k) # {}
        BY <1>6, <2>2, <3>1 DEF had
      <3>3. Max(With(line, k)) \in 1..n
        <4>1. With(line, k) \subseteq 1..n
          BY <1>6
        <4>2. \E m \in With(line, k) : \A i \in With(line, k) : m >= i
          BY <1>2, <3>2, <4>1, HighestOf
        <4> QED  BY <4>1, <4>2 DEF Max
      <3>4. b.splits[k] = line[Max(With(line, k))].fields[k]
        BY <1>10, <3>1
      <3> QED  BY <1>2, <2>2, <3>2, <3>3, <3>4
    <2> QED  BY <2>1, <2>2
  <1>12. value = collect_splits(span, b.splits, keys)
    <2>1. collect_splits(span, b.splits, keys) =
              [k \in own \cup DOMAIN b.splits |-> IF k \in own THEN span.fields[k] ELSE b.splits[k]]
      BY DEF collect_splits
    <2>2. value = [k \in has |-> IF k \in own THEN span.fields[k] ELSE b.splits[k]]
      BY <1>11
    <2> QED  BY <1>7, <1>10, <2>1, <2>2
  <1>13. [i \in DOMAIN longer |-> longer[i].name] = Append(b.stack, span.name)
    <2> DEFINE s == [i \in 1..n |-> line[i].name]
    <2>1. b.stack = s
      BY <1>2, <1>8
    <2>2. Len(s) = n /\ s \in Seq({line[i].name : i \in 1..n})
      <3> DEFINE N == {line[i].name : i \in 1..n}
      <3>1. s \in [1..n -> N]
        OBVIOUS
      <3> HIDE DEF s, N
      <3>2. Len(s) = n /\ s \in Seq(N)
        BY <1>2, <3>1
      <3> QED  BY <3>2 DEF N
    <2>3. Append(s, span.name) = [i \in 1..(n + 1) |-> IF i = n + 1 THEN span.name ELSE s[i]]
      BY <1>2, <2>2
    <2>4. [i \in 1..(n + 1) |-> IF i = n + 1 THEN span.name ELSE s[i]]
          = [i \in 1..(n + 1) |-> longer[i].name]
      BY <1>2
    <2> QED  BY <1>2, <2>1, <2>3, <2>4
  <1> HIDE DEF value
  <1>14. BucketOf(longer, keys) = [stack |-> Append(b.stack, span.name),
                                   splits |-> collect_splits(span, b.splits, keys)]
    BY <1>9, <1>12, <1>13
  <1> QED  BY <1>3, <1>5, <1>14 DEF longer, b

LineOk(entry, keys, seen) ==
    \E line \in Lines : /\ Last(line) = entry.span /\ ToSet(line) \subseteq seen
                        /\ entry.bucket = BucketOf(line, keys)

(* Every entry stands in the bucket of its line, all of which came.        *)
LinesOk == \A id \in InRing : LineOk(agg.by_id[id], agg.split_keys, received)

LEMMA ResolveLine ==
    ASSUME AggregatorAssumption, AggInv, LinesOk, NEW span \in received, ~ParentMissing(agg, span),
           NEW entry, entry.span = span, entry.bucket = resolve(agg, span)
    PROVE  LineOk(entry, agg.split_keys, received)
  <1> DEFINE keys == agg.split_keys
             p == span.parent_id
  <1>1. span \in Spans
    BY DEF AggInv
  <1>2. CASE p = NoParent
    <2>1. resolve(agg, span) = [stack |-> Append(<<>>, span.name),
                                splits |-> collect_splits(span, <<>>, keys)]
      BY <1>2 DEF resolve
    <2>2. /\ <<span>> \in Lines /\ Last(<<span>>) = span /\ ToSet(<<span>>) = {span}
          /\ BucketOf(<<span>>, keys) = [stack |-> Append(<<>>, span.name),
                                         splits |-> collect_splits(span, <<>>, keys)]
      BY <1>1, <1>2, LineBegins
    <2> QED  BY <2>1, <2>2 DEF LineOk
  <1>3. CASE p # NoParent
    <2>1. p \in InRing
      BY <1>3 DEF ParentMissing, InRing
    <2> DEFINE above == agg.by_id[p]
    <2>2. PICK line \in Lines : /\ Last(line) = above.span /\ ToSet(line) \subseteq received
                                /\ above.bucket = BucketOf(line, keys)
      BY <2>1 DEF LinesOk, LineOk
    <2>3. above.span.id = p
      BY <2>1 DEF AggInv, AggOk, RingOk, InRing
    <2>4. resolve(agg, span) = [stack |-> Append(above.bucket.stack, span.name),
                                splits |-> collect_splits(span, above.bucket.splits, keys)]
      BY <1>3 DEF resolve
    <2> HIDE DEF above, keys
    <2>5. PICK longer : longer = Append(line, span)
      OBVIOUS
    <2>6. PICK b : b = BucketOf(line, keys)
      OBVIOUS
    <2>7. /\ longer \in Lines /\ Last(longer) = span
          /\ ToSet(longer) = ToSet(line) \cup {span}
          /\ BucketOf(longer, keys) = [stack |-> Append(b.stack, span.name),
                                       splits |-> collect_splits(span, b.splits, keys)]
      BY <1>1, <2>2, <2>3, <2>5, <2>6, LineExtends
    <2>8. resolve(agg, span) = BucketOf(longer, keys)
      BY <2>2, <2>4, <2>6, <2>7
    <2>9. ToSet(longer) \subseteq received
      BY <2>2, <2>7
    <2> QED  BY <2>7, <2>8, <2>9 DEF LineOk, keys
  <1> QED  BY <1>2, <1>3

LEMMA LinesStep ==
    ASSUME AggregatorAssumption, AggInv, LinesOk, [AggNext]_aggVars
    PROVE  LinesOk'
  <1>1. CASE /\ agg'.by_id = agg.by_id /\ agg'.split_keys = agg.split_keys
             /\ received \subseteq received'
    BY <1>1 DEF LinesOk, LineOk, InRing
  <1>2. CASE UNCHANGED aggVars \/ \E span \in Spans : absorb(span)
    BY <1>1, <1>2 DEF aggVars, absorb
  <1>3. CASE ParkStep
    <2>1. agg'.by_id = agg.by_id /\ agg'.split_keys = agg.split_keys
      BY <1>3, NextCall, ParkFacts DEF ParkStep, ParentMissing, AggInv, InRing
    <2> QED  BY <1>1, <1>3, <2>1 DEF ParkStep
  <1>4. CASE RestorePending
    <2>1. agg'.by_id = agg.by_id /\ agg'.split_keys = agg.split_keys
      BY <1>4 DEF RestorePending, AggInv, AggOk, IsAggregator
    <2> QED  BY <1>1, <1>4, <2>1 DEF RestorePending
  <1>5. ASSUME NEW keys \in SUBSET Keys, set_split_keys(keys)
        PROVE  LinesOk'
    <2>1. agg'.by_id = <<>>
      BY <1>5 DEF set_split_keys, AggInv, AggOk, IsAggregator
    <2> QED  BY <2>1 DEF LinesOk, InRing
  <1>6. CASE InsertStep
    <2> DEFINE span == Head(todo)
    <2>1. /\ agg' = InsertSpan(agg, span) /\ ~ParentMissing(agg, span)
          /\ received' = received /\ span \in received /\ span \in Spans
          /\ span.id \notin InRing /\ span \notin ParkedIn(agg.pending)
      BY <1>6, NextCall DEF InsertStep, AggInv
    <2> HIDE DEF span
    <2>2. /\ AggOk(agg', received)
          /\ DOMAIN agg'.by_id \subseteq DOMAIN agg.by_id \cup {span.id}
          /\ agg'.split_keys = agg.split_keys
          /\ \A id \in DOMAIN agg'.by_id \cap DOMAIN agg.by_id :
                agg'.by_id[id].bucket = agg.by_id[id].bucket
          /\ span.id \in DOMAIN agg'.by_id => agg'.by_id[span.id].bucket = resolve(agg, span)
      BY <2>1, InsertFacts DEF AggInv, InRing
    <2>3. \A id \in DOMAIN agg'.by_id : agg'.by_id[id].span \in Spans /\ agg'.by_id[id].span.id = id
      BY <2>2 DEF AggOk, RingOk, AggInv
    <2>4. \A id \in DOMAIN agg.by_id : agg.by_id[id].span \in Spans /\ agg.by_id[id].span.id = id
      BY DEF AggOk, RingOk, AggInv
    <2>5. ASSUME NEW id \in DOMAIN agg'.by_id
          PROVE  LineOk(agg'.by_id[id], agg.split_keys, received)
      <3>1. CASE id = span.id
        <4>1. agg'.by_id[id].span = span
          BY <2>1, <2>3, <3>1 DEF AggregatorAssumption
        <4> QED  BY <2>1, <2>2, <3>1, <4>1, ResolveLine
      <3>2. CASE id # span.id
        <4>1. id \in InRing /\ agg'.by_id[id].span = agg.by_id[id].span
              /\ agg'.by_id[id].bucket = agg.by_id[id].bucket
          BY <2>2, <2>3, <2>4, <3>2 DEF AggregatorAssumption, InRing
        <4>2. LineOk(agg.by_id[id], agg.split_keys, received)
          BY <4>1 DEF LinesOk
        <4> QED  BY <4>1, <4>2 DEF LineOk
      <3> QED  BY <3>1, <3>2
    <2> QED  BY <2>1, <2>2, <2>5 DEF LinesOk, InRing
  <1> QED  BY <1>2, <1>3, <1>4, <1>5, <1>6 DEF AggNext

-----------------------------------------------------------------------------
(* While nothing has to leave the ring                                     *)

Roomy == Cardinality(received) <= agg.history_budget
Orphans == {span \in received : span.parent_id # NoParent}
Fits == Roomy /\ Cardinality(Orphans) <= pending_cap(agg)

(* A call that finds room: the span joins, everything else stays.          *)
Joins(span) ==
    /\ agg'.order = Append(agg.order, span.id)
    /\ DOMAIN agg'.by_id = InRing \cup {span.id}
    /\ \A id \in InRing : /\ agg'.by_id[id].span = agg.by_id[id].span
                          /\ agg'.by_id[id].bucket = agg.by_id[id].bucket
    /\ agg'.by_id[span.id].span = span /\ agg'.by_id[span.id].bucket = resolve(agg, span)
    /\ DOMAIN agg.buckets \subseteq DOMAIN agg'.buckets
    /\ agg'.pending = Without(agg.pending, span.id)
    /\ todo' = Waiters(agg, span.id) \o Tail(todo)
    /\ agg'.history_budget = agg.history_budget /\ received' = received /\ saved' = saved

LEMMA ReceivedFinite ==
    ASSUME AggregatorAssumption, AggInv
    PROVE  IsFiniteSet(received) /\ Cardinality(received) \in Nat
  <1>1. received \in SUBSET Spans /\ IsFiniteSet(Spans)
    BY DEF AggregatorAssumption, AggInv
  <1> QED  BY <1>1, FS_Subset, FS_CardinalityType

(* The ring and the span at hand are different spans that came.            *)
LEMMA NoEviction ==
    ASSUME AggregatorAssumption, AggInv, Roomy, todo # <<>>
    PROVE  MakeRoom(agg) = agg
  <1> DEFINE n == Len(agg.order)
             f == [i \in 1..(n + 1) |-> IF i <= n THEN agg.by_id[agg.order[i]].span ELSE Head(todo)]
  <1>1. /\ agg.order \in Seq(Nat) /\ n \in Nat /\ DOMAIN agg.order = 1..n
        /\ \A i, j \in 1..n : agg.order[i] = agg.order[j] => i = j
        /\ \A i \in 1..n : agg.order[i] \in InRing
    BY DEF AggInv, AggOk, RingOk, InRing, ToSet, IsInjective
  <1>2. \A id \in InRing : agg.by_id[id].span \in received /\ agg.by_id[id].span.id = id
    BY DEF AggInv, AggOk, RingOk, InRing
  <1>3. Head(todo) \in received /\ Head(todo).id \notin InRing
    BY NextCall
  <1> HIDE DEF n
  <1>4. DOMAIN f = 1..(n + 1) /\ \A i \in 1..(n + 1) :
           f[i] = IF i <= n THEN agg.by_id[agg.order[i]].span ELSE Head(todo)
    OBVIOUS
  <1>5. \A i \in 1..(n + 1) : (i \in 1..n /\ i <= n) \/ (i = n + 1 /\ ~(i <= n))
    BY <1>1
  <1>6. \A i \in 1..(n + 1) : f[i] \in received
    BY <1>1, <1>2, <1>3, <1>4, <1>5
  <1>7. ASSUME NEW i \in 1..(n + 1), NEW j \in 1..(n + 1), f[i] = f[j]
        PROVE  i = j
    <2>1. CASE i <= n /\ j <= n
      <3>1. i \in 1..n /\ j \in 1..n
        BY <1>5, <2>1
      <3>2. f[i] = agg.by_id[agg.order[i]].span /\ f[j] = agg.by_id[agg.order[j]].span
        BY <1>4, <2>1
      <3>3. agg.order[i] = agg.order[j]
        BY <1>1, <1>2, <1>7, <3>1, <3>2
      <3> QED  BY <1>1, <3>1, <3>3
    <2>2. CASE i <= n /\ ~(j <= n)
      BY <1>1, <1>2, <1>3, <1>4, <1>5, <1>7, <2>2
    <2>3. CASE ~(i <= n) /\ j <= n
      BY <1>1, <1>2, <1>3, <1>4, <1>5, <1>7, <2>3
    <2>4. CASE ~(i <= n) /\ ~(j <= n)
      BY <1>5, <2>4
    <2> QED  BY <2>1, <2>2, <2>3, <2>4
  <1>8. f \in [1..(n + 1) -> received]
    BY <1>4, <1>6
  <1> HIDE DEF f
  <1>9. f \in Injection(1..(n + 1), received)
    BY <1>7, <1>8 DEF Injection, IsInjective
  <1>10. Cardinality(1..(n + 1)) <= Cardinality(received)
    BY <1>9, ReceivedFinite, FS_Injection
  <1>11. Cardinality(1..(n + 1)) = n + 1
    <2>1. 1 \in Int /\ n + 1 \in Int /\ ~(1 > n + 1) /\ (n + 1) - 1 + 1 = n + 1
      BY <1>1
    <2>2. PICK m : m = n + 1
      OBVIOUS
    <2>3. Cardinality(1..m) = IF 1 > m THEN 0 ELSE m - 1 + 1
      BY <2>1, <2>2, FS_Interval
    <2> QED  BY <2>1, <2>2, <2>3
  <1>12. agg.history_budget \in Nat /\ ~(n >= agg.history_budget)
    BY <1>1, <1>10, <1>11, ReceivedFinite DEF AggInv, AggOk, IsAggregator, Roomy
  <1> QED  BY <1>12 DEF MakeRoom, n

LEMMA RoomyInsert ==
    ASSUME AggregatorAssumption, AggInv, Roomy, InsertStep
    PROVE  Joins(Head(todo))
  <1> DEFINE span == Head(todo)
  <1>1. /\ todo # <<>> /\ agg' = InsertSpan(agg, span)
        /\ todo' = Waiters(MakeRoom(agg), span.id) \o Tail(todo)
        /\ saved' = saved /\ received' = received
    BY DEF InsertStep
  <1>2. MakeRoom(agg) = agg
    BY <1>1, NoEviction
  <1>3. /\ span \in received /\ span \in Spans
        /\ span.id \notin InRing /\ span \notin ParkedIn(agg.pending)
    BY <1>1, NextCall DEF AggInv
  <1> HIDE DEF span
  <1>4. /\ AggOk(agg', received)
        /\ agg'.history_budget = agg.history_budget
        /\ agg'.order = Append(agg.order, span.id)
        /\ agg'.pending = Without(agg.pending, span.id)
        /\ \A id \in DOMAIN agg'.by_id \cap DOMAIN agg.by_id :
              agg'.by_id[id].bucket = agg.by_id[id].bucket
        /\ span.id \in DOMAIN agg'.by_id => agg'.by_id[span.id].bucket = resolve(agg, span)
    BY <1>1, <1>2, <1>3, InsertFacts DEF AggInv, InRing
  <1>5. DOMAIN agg'.by_id = InRing \cup {span.id}
    <2>1. agg.order \in Seq(Nat) /\ ToSet(agg.order) = InRing /\ span.id \in Nat
      BY <1>3 DEF AggregatorAssumption, AggInv, AggOk, RingOk, InRing
    <2>2. ToSet(Append(agg.order, span.id)) = InRing \cup {span.id}
      BY <2>1, AppendFacts
    <2> QED  BY <1>4, <2>2 DEF AggOk, RingOk
  <1>6. /\ \A id \in DOMAIN agg'.by_id : agg'.by_id[id].span \in Spans /\ agg'.by_id[id].span.id = id
        /\ \A id \in InRing : agg.by_id[id].span \in Spans /\ agg.by_id[id].span.id = id
    BY <1>4 DEF AggOk, RingOk, AggInv, InRing
  <1>7. /\ \A id \in InRing : agg'.by_id[id].span = agg.by_id[id].span
        /\ agg'.by_id[span.id].span = span
    BY <1>3, <1>5, <1>6 DEF AggregatorAssumption
  <1>8. DOMAIN agg.buckets \subseteq DOMAIN agg'.buckets
    <2> DEFINE t == TakeFromParent(agg, span)
               bucket == resolve(agg, span)
               self_ns == Less(span.total_ns, At(agg.child_sum, span.id, 0))
    <2>1. IsAggregator(t) /\ DOMAIN t.buckets = DOMAIN agg.buckets
      BY TakeKeeps DEF AggInv, AggOk, RingOk, Keeps
    <2> HIDE DEF t, bucket, self_ns
    <2>2. InsertSpan(agg, span).buckets =
             Put(t.buckets, bucket, add(At(t.buckets, bucket, BucketState), span.total_ns, self_ns))
      BY <1>2, <2>1 DEF InsertSpan, IsAggregator, t, bucket, self_ns
    <2>3. DOMAIN agg'.buckets = DOMAIN t.buckets \cup {bucket}
      BY <1>1, <2>2 DEF Put
    <2> QED  BY <2>1, <2>3
  <1>9. todo' = Waiters(agg, span.id) \o Tail(todo)
    BY <1>1, <1>2
  <1>10. /\ \A id \in InRing : agg'.by_id[id].bucket = agg.by_id[id].bucket
         /\ agg'.by_id[span.id].bucket = resolve(agg, span)
    BY <1>4, <1>5 DEF InRing
  <1>11. Joins(span)
    BY <1>1, <1>4, <1>5, <1>7, <1>8, <1>9, <1>10 DEF Joins
  <1> QED  BY <1>11 DEF span

LEMMA ParkKeeps ==
    ASSUME NEW a, IsAggregator(a), NEW span
    PROVE  LET b == park_pending(a, span)
               waiting == Put(a.pending, span.parent_id,
                              Append(At(a.pending, span.parent_id, <<>>), span))
           IN  /\ b.order = a.order /\ b.history_budget = a.history_budget
               /\ DOMAIN b.pending \subseteq DOMAIN waiting
               /\ a.pending_len + 1 <= pending_cap(a) => b.pending = waiting
  <1> DEFINE waiting == Put(a.pending, span.parent_id,
                            Append(At(a.pending, span.parent_id, <<>>), span))
             lowest == Lowest(DOMAIN waiting)
             parked == [a EXCEPT !.pending = waiting, !.pending_len = @ + 1]
             dropped == [parked EXCEPT !.pending = Without(waiting, lowest),
                                       !.pending_len = @ - Len(waiting[lowest])]
  <1>1. /\ parked.pending = waiting /\ parked.pending_len = a.pending_len + 1
        /\ parked.order = a.order /\ parked.history_budget = a.history_budget
        /\ dropped.order = a.order /\ dropped.history_budget = a.history_budget
        /\ dropped.pending = Without(waiting, lowest)
    BY DEF IsAggregator
  <1>2. park_pending(a, span) = IF parked.pending_len <= pending_cap(a) THEN parked
        ELSE [parked EXCEPT !.pending = Without(@, Lowest(DOMAIN parked.pending)),
                            !.pending_len = @ - Len(parked.pending[Lowest(DOMAIN parked.pending)])]
    BY DEF park_pending
  <1> HIDE DEF waiting
  <1>3. [parked EXCEPT !.pending = Without(@, Lowest(DOMAIN parked.pending)),
                       !.pending_len = @ - Len(parked.pending[Lowest(DOMAIN parked.pending)])]
        = dropped
    BY <1>1
  <1> HIDE DEF parked, dropped
  <1>4. park_pending(a, span) = IF a.pending_len + 1 <= pending_cap(a) THEN parked ELSE dropped
    BY <1>1, <1>2, <1>3
  <1>5. DOMAIN Without(waiting, lowest) \subseteq DOMAIN waiting
    BY DEF Without
  <1> QED  BY <1>1, <1>4, <1>5 DEF waiting

(* What every step leaves alone, and what only grows.                      *)
LEMMA OnlyGrows ==
    ASSUME AggregatorAssumption, AggInv, [AggNext]_aggVars
    PROVE  /\ agg'.history_budget = agg.history_budget /\ received \subseteq received'
           /\ Roomy' => Roomy
           /\ Fits' => Fits
  <1>1. agg'.history_budget = agg.history_budget /\ received \subseteq received'
    <2>1. CASE UNCHANGED aggVars \/ \E span \in Spans : absorb(span)
      BY <2>1 DEF aggVars, absorb
    <2>2. CASE ParkStep
      BY <2>2, ParkKeeps DEF ParkStep, AggInv, AggOk
    <2>3. CASE InsertStep
      BY <2>3, NextCall, InsertFacts DEF InsertStep, AggInv, InRing
    <2>4. CASE RestorePending \/ \E keys \in SUBSET Keys : set_split_keys(keys)
      BY <2>4 DEF RestorePending, set_split_keys, AggInv, AggOk, IsAggregator
    <2> QED  BY <2>1, <2>2, <2>3, <2>4 DEF AggNext
  <1>2. AggInv'
    BY NextInv
  <1>3. IsFiniteSet(received') /\ Cardinality(received') \in Nat
    <2>1. received' \in SUBSET Spans /\ IsFiniteSet(Spans)
      BY <1>2 DEF AggregatorAssumption, AggInv
    <2> QED  BY <2>1, FS_Subset, FS_CardinalityType
  <1>4. Cardinality(received) \in Nat /\ Cardinality(received) <= Cardinality(received')
    BY <1>1, <1>3, FS_Subset, FS_CardinalityType
  <1>5. agg.history_budget \in Nat
    BY DEF AggInv, AggOk, IsAggregator
  <1>6. Roomy' => Roomy
    BY <1>1, <1>3, <1>4, <1>5 DEF Roomy
  <1>7. pending_cap(agg') = pending_cap(agg) /\ pending_cap(agg) \in Nat
    BY <1>1, <1>5, CapType DEF pending_cap
  <1>8. Cardinality(Orphans) <= Cardinality(Orphans')
        /\ Cardinality(Orphans) \in Nat /\ Cardinality(Orphans') \in Nat
    <2>1. Orphans \subseteq Orphans' /\ Orphans' \subseteq received'
      BY <1>1 DEF Orphans
    <2>2. IsFiniteSet(Orphans')
      BY <1>3, <2>1, FS_Subset
    <2> QED  BY <2>1, <2>2, FS_Subset, FS_CardinalityType
  <1>9. Fits' => Fits
    BY <1>6, <1>7, <1>8 DEF Fits
  <1> QED  BY <1>1, <1>6, <1>9

(* A parent stands before its children in the queue.                       *)
ParentOf(id) == agg.by_id[id].span.parent_id
OrderOk ==
    \A i \in 1..Len(agg.order) :
        ParentOf(agg.order[i]) = NoParent
        \/ \E j \in 1..(i - 1) : agg.order[j] = ParentOf(agg.order[i])

(* So a rebuild parks nothing that its end would overwrite.                *)
RebuildOk ==
    saved # Nothing =>
        /\ DOMAIN agg.pending = {}
        /\ \A i \in 1..Len(todo) :
              \/ todo[i].parent_id \in InRing \cup {NoParent}
              \/ \E j \in 1..(i - 1) : todo[j].id = todo[i].parent_id

(* Every span in the ring has its ancestors there.                         *)
HigherStack(id) ==
    IF ParentOf(id) = NoParent THEN <<>> ELSE agg.by_id[ParentOf(id)].bucket.stack
PathsOk ==
    \A id \in InRing :
        /\ ParentOf(id) \in InRing \cup {NoParent}
        /\ agg.by_id[id].bucket.stack = Append(HigherStack(id), agg.by_id[id].span.name)

RoomyOk == OrderOk /\ RebuildOk /\ PathsOk

LEMMA OrderInRing ==
    ASSUME AggInv
    PROVE  /\ agg.order \in Seq(Nat) /\ Len(agg.order) \in Nat
           /\ DOMAIN agg.order = 1..Len(agg.order)
           /\ \A i \in 1..Len(agg.order) : agg.order[i] \in InRing
           /\ \A id \in InRing : \E i \in 1..Len(agg.order) : agg.order[i] = id
  BY DEF AggInv, AggOk, RingOk, InRing, ToSet

LEMMA RoomyInsertOk ==
    ASSUME AggregatorAssumption, AggInv, Roomy, RoomyOk, InsertStep
    PROVE  RoomyOk'
  <1> DEFINE n == Len(agg.order)
  <1>0. PICK span : span = Head(todo)
    OBVIOUS
  <1>1. Joins(span)
    BY <1>0, RoomyInsert
  <1>2. todo # <<>> /\ ~ParentMissing(agg, span)
    BY <1>0 DEF InsertStep
  <1>3. span \in received /\ span \in Spans /\ span.id \notin InRing
    BY <1>0, <1>2, NextCall DEF AggInv
  <1>4. todo \in Seq(Spans) /\ Len(todo) \in Nat \ {0} /\ span = todo[1]
    BY <1>0, <1>2 DEF AggInv, TodoOk
  <1> HIDE DEF n
  <1>5. span.parent_id \in InRing \cup {NoParent} /\ span.id \in Nat
    BY <1>2, <1>3 DEF ParentMissing, InRing, AggregatorAssumption
  <1>6. /\ n \in Nat /\ Len(agg'.order) = n + 1
        /\ \A i \in 1..n : agg'.order[i] = agg.order[i] /\ agg.order[i] \in InRing
        /\ agg'.order[n + 1] = span.id
        /\ \A id \in InRing : \E i \in 1..n : agg.order[i] = id
    BY <1>1, <1>5, OrderInRing DEF Joins, n
  <1>7. /\ \A id \in InRing : ParentOf(id)' = ParentOf(id)
        /\ ParentOf(span.id)' = span.parent_id
    BY <1>1 DEF Joins, ParentOf
  <1>8. OrderOk'
    <2> SUFFICES ASSUME NEW i \in 1..(n + 1),
                        ParentOf(agg.order[i])' # NoParent
                 PROVE  \E j \in 1..(i - 1) : agg'.order[j] = ParentOf(agg.order[i])'
      BY <1>6 DEF OrderOk
    <2>1. CASE i \in 1..n
      <3>1. ParentOf(agg.order[i])' = ParentOf(agg.order[i])
        BY <1>6, <1>7, <2>1 DEF ParentOf
      <3>2. PICK j \in 1..(i - 1) : agg.order[j] = ParentOf(agg.order[i])
        BY <2>1, <3>1 DEF RoomyOk, OrderOk, n
      <3>3. j \in 1..n
        BY <1>6, <2>1
      <3> QED  BY <1>6, <3>1, <3>2, <3>3
    <2>2. CASE i = n + 1
      <3>1. ParentOf(agg.order[i])' = span.parent_id
        BY <1>6, <1>7, <2>2 DEF ParentOf
      <3>2. PICK j \in 1..n : agg.order[j] = span.parent_id
        BY <1>5, <1>6, <3>1
      <3>3. j \in 1..(i - 1)
        BY <1>6, <2>2
      <3> QED  BY <1>6, <3>1, <3>2, <3>3
    <2> QED  BY <1>6, <2>1, <2>2
  <1>9. RebuildOk'
    <2> SUFFICES ASSUME saved # Nothing
                 PROVE  /\ DOMAIN agg'.pending = {}
                        /\ \A i \in 1..Len(todo') :
                              \/ todo'[i].parent_id \in InRing' \cup {NoParent}
                              \/ \E j \in 1..(i - 1) : todo'[j].id = todo'[i].parent_id
      BY <1>1 DEF RebuildOk, Joins
    <2>1. DOMAIN agg.pending = {}
      BY DEF RoomyOk, RebuildOk
    <2>2. DOMAIN agg'.pending = {}
      BY <1>1, <2>1 DEF Joins, Without
    <2>3. Waiters(agg, span.id) = <<>>
      BY <2>1 DEF Waiters, At
    <2>4. todo' = Tail(todo)
      <3>1. Tail(todo) \in Seq(Spans)
        BY <1>4
      <3> QED  BY <1>1, <2>3, <3>1 DEF Joins
    <2>5. /\ Len(todo') = Len(todo) - 1
          /\ \A i \in 1..Len(todo') : todo'[i] = todo[i + 1]
      BY <1>4, <2>4
    <2>6. InRing' = InRing \cup {span.id}
      BY <1>1 DEF Joins, InRing
    <2>7. ASSUME NEW i \in 1..Len(todo'), todo'[i].parent_id \notin InRing' \cup {NoParent}
          PROVE  \E j \in 1..(i - 1) : todo'[j].id = todo'[i].parent_id
      <3>1. i + 1 \in 1..Len(todo) /\ (i + 1) - 1 = i /\ i \in Nat
        BY <1>4, <2>5
      <3>2. todo[i + 1].parent_id \notin InRing \cup {NoParent}
        BY <2>5, <2>6, <2>7
      <3>3. PICK j \in 1..i : todo[j].id = todo[i + 1].parent_id
        BY <3>1, <3>2 DEF RoomyOk, RebuildOk
      <3>4. j # 1
        BY <1>4, <2>5, <2>6, <2>7, <3>3
      <3>5. j - 1 \in 1..(i - 1) /\ j - 1 \in 1..Len(todo') /\ (j - 1) + 1 = j
        BY <1>4, <2>5, <3>1, <3>4
      <3> QED  BY <2>5, <3>3, <3>5
    <2> QED  BY <2>2, <2>7
  <1>10. PathsOk'
    <2>1. InRing' = InRing \cup {span.id}
      BY <1>1 DEF Joins, InRing
    <2>2. ASSUME NEW id \in InRing
          PROVE  /\ ParentOf(id)' \in InRing' \cup {NoParent}
                 /\ agg'.by_id[id].bucket.stack = Append(HigherStack(id)', agg'.by_id[id].span.name)
      <3>1. ParentOf(id) \in InRing \cup {NoParent}
            /\ agg.by_id[id].bucket.stack = Append(HigherStack(id), agg.by_id[id].span.name)
        BY DEF RoomyOk, PathsOk
      <3>2. HigherStack(id)' = HigherStack(id)
        BY <1>1, <1>7, <3>1 DEF HigherStack, Joins
      <3> QED  BY <1>1, <1>7, <2>1, <3>1, <3>2 DEF Joins
    <2>3. /\ ParentOf(span.id)' \in InRing' \cup {NoParent}
          /\ agg'.by_id[span.id].bucket.stack
                = Append(HigherStack(span.id)', agg'.by_id[span.id].span.name)
      <3>1. HigherStack(span.id)' = IF span.parent_id = NoParent THEN <<>>
                                    ELSE agg.by_id[span.parent_id].bucket.stack
        BY <1>1, <1>5, <1>7 DEF HigherStack, Joins
      <3>2. resolve(agg, span).stack = Append(HigherStack(span.id)', span.name)
        BY <3>1 DEF resolve
      <3> QED  BY <1>1, <1>5, <1>7, <2>1, <3>2 DEF Joins
    <2> QED  BY <2>1, <2>2, <2>3 DEF PathsOk
  <1> QED  BY <1>8, <1>9, <1>10 DEF RoomyOk

LEMMA RoomySplit ==
    ASSUME AggInv, RoomyOk, NEW keys, set_split_keys(keys)
    PROVE  RoomyOk'
  <1> DEFINE n == Len(agg.order)
  <1>1. /\ agg'.by_id = <<>> /\ agg'.order = <<>> /\ agg'.pending = <<>>
        /\ todo' = SpansInOrder(agg)
    BY DEF set_split_keys, AggInv, AggOk, IsAggregator
  <1>2. n \in Nat /\ DOMAIN agg.order = 1..n /\ \A i \in 1..n : agg.order[i] \in InRing
    BY OrderInRing
  <1> HIDE DEF n
  <1>3. /\ todo' = [i \in 1..n |-> agg.by_id[agg.order[i]].span]
        /\ \A i \in 1..n : todo'[i] = agg.by_id[agg.order[i]].span
    BY <1>1, <1>2 DEF SpansInOrder
  <1>4. Len(todo') = n
    BY <1>2, <1>3
  <1>5. \A i \in 1..n : todo'[i].id = agg.order[i] /\ todo'[i].parent_id = ParentOf(agg.order[i])
    BY <1>2, <1>3 DEF AggInv, AggOk, RingOk, InRing, ParentOf
  <1>6. ASSUME NEW i \in 1..n, todo'[i].parent_id # NoParent
        PROVE  \E j \in 1..(i - 1) : todo'[j].id = todo'[i].parent_id
    <2>1. PICK j \in 1..(i - 1) : agg.order[j] = ParentOf(agg.order[i])
      BY <1>5, <1>6 DEF RoomyOk, OrderOk, n
    <2>2. j \in 1..n
      BY <1>2
    <2> QED  BY <1>5, <2>1, <2>2
  <1>7. RebuildOk'
    BY <1>1, <1>4, <1>6 DEF RebuildOk
  <1>8. OrderOk' /\ PathsOk'
    BY <1>1 DEF OrderOk, PathsOk, InRing
  <1> QED  BY <1>7, <1>8 DEF RoomyOk

LEMMA RoomyStep ==
    ASSUME AggregatorAssumption, AggInv, Roomy, RoomyOk, [AggNext]_aggVars
    PROVE  RoomyOk'
  <1>1. CASE /\ agg'.by_id = agg.by_id /\ agg'.order = agg.order
             /\ saved' # Nothing => /\ saved # Nothing /\ todo' = todo
                                    /\ agg'.pending = agg.pending
    BY <1>1 DEF RoomyOk, OrderOk, PathsOk, RebuildOk, HigherStack, ParentOf, InRing
  <1>2. CASE UNCHANGED aggVars
    BY <1>1, <1>2 DEF aggVars
  <1>3. CASE \E span \in Spans : absorb(span)
    BY <1>1, <1>3 DEF absorb, AtRest
  <1>4. CASE ParkStep
    <2>1. agg'.by_id = agg.by_id /\ agg'.order = agg.order
      BY <1>4, NextCall, ParkFacts, ParkKeeps DEF ParkStep, ParentMissing, AggInv, AggOk, InRing
    <2>2. saved' = saved /\ todo # <<>> /\ Head(todo).parent_id \notin InRing \cup {NoParent}
      BY <1>4 DEF ParkStep, ParentMissing, InRing
    <2>3. todo \in Seq(Spans) /\ 1 \in 1..Len(todo) /\ Head(todo) = todo[1]
      BY <2>2 DEF AggInv, TodoOk
    <2>4. saved = Nothing
      BY <2>2, <2>3 DEF RoomyOk, RebuildOk
    <2> QED  BY <1>1, <2>1, <2>2, <2>4
  <1>5. CASE RestorePending
    <2>1. agg'.by_id = agg.by_id /\ agg'.order = agg.order /\ saved' = Nothing
      BY <1>5 DEF RestorePending, AggInv, AggOk, IsAggregator
    <2> QED  BY <1>1, <2>1
  <1>6. ASSUME NEW keys \in SUBSET Keys, set_split_keys(keys)
        PROVE  RoomyOk'
    BY <1>6, RoomySplit
  <1>7. CASE InsertStep
    BY <1>7, RoomyInsertOk
  <1> QED  BY <1>2, <1>3, <1>4, <1>5, <1>6, <1>7 DEF AggNext

RoomInv == Roomy => RoomyOk

LEMMA InitRoom ==
    ASSUME AggInit
    PROVE  RoomInv
  BY DEF AggInit, RoomInv, RoomyOk, OrderOk, RebuildOk, PathsOk, InRing

LEMMA NextRoom ==
    ASSUME AggregatorAssumption, AggInv, RoomInv, [AggNext]_aggVars
    PROVE  RoomInv'
  BY OnlyGrows, RoomyStep DEF RoomInv

LEMMA SplitRoom ==
    ASSUME AggInv, RoomInv, NEW keys, set_split_keys(keys)
    PROVE  RoomInv'
  <1>1. received' = received /\ agg'.history_budget = agg.history_budget
    BY DEF set_split_keys, AggInv, AggOk, IsAggregator
  <1>2. Roomy' => Roomy
    BY <1>1 DEF Roomy
  <1> QED  BY <1>2, RoomySplit DEF RoomInv

-----------------------------------------------------------------------------
(* While all that came fits                                                *)

LEMMA SeqCard ==
    ASSUME NEW S, NEW s \in Seq(S), IsInjective(s)
    PROVE  IsFiniteSet(ToSet(s)) /\ Cardinality(ToSet(s)) = Len(s)
  <1> DEFINE n == Len(s)
             T == ToSet(s)
             D == 1..n
  <1>1. n \in Nat /\ DOMAIN s = D /\ T = {s[i] : i \in D}
    BY DEF ToSet
  <1>2. s \in Surjection(D, T)
    BY <1>1 DEF Surjection
  <1>3. s \in Injection(D, T)
    BY <1>1, <1>2 DEF Injection, Surjection, IsInjective
  <1>4. IsFiniteSet(D) /\ Cardinality(D) = n
    <2>1. Cardinality(D) = IF 1 > n THEN 0 ELSE n - 1 + 1
      BY <1>1, FS_Interval
    <2>2. IsFiniteSet(D)
      BY <1>1, FS_Interval
    <2> QED  BY <1>1, <2>1, <2>2
  <1> HIDE DEF D, T, n
  <1>5. IsFiniteSet(T) /\ Cardinality(T) = Cardinality(D)
    BY <1>2, <1>3, <1>4, FS_Surjection
  <1> QED  BY <1>4, <1>5 DEF T, n

(* What is counted is how many are parked.                                 *)
LEMMA ParkedCount ==
    ASSUME NEW pending, NEW len, Counted(pending, len), NEW seen, PendingOk(pending, seen)
    PROVE  IsFiniteSet(ParkedIn(pending)) /\ Cardinality(ParkedIn(pending)) = len
  <1> DEFINE U == DOMAIN pending
             f == Lengths(pending)
             under(s) == UNION {ToSet(pending[p]) : p \in s}
             T == {s \in SUBSET U : /\ IsFiniteSet(under(s))
                                    /\ Cardinality(under(s)) = SumFunctionOnSet(f, s)}
  <1>1. /\ IsFiniteSet(U)
        /\ \A p \in U : pending[p] \in Seq(Spans) /\ IsInjective(pending[p])
        /\ \A p \in U : \A span \in ToSet(pending[p]) : span.parent_id = p
    BY DEF Counted, PendingOk
  <1>2. DOMAIN f = U /\ \A p \in U : f[p] = Len(pending[p]) /\ f[p] \in Nat
    BY <1>1 DEF Lengths
  <1> HIDE DEF f
  <1>3. {} \in T
    <2>1. under({}) = {}
      OBVIOUS
    <2>2. IsFiniteSet({}) /\ Cardinality({}) = 0
      BY FS_EmptySet
    <2>3. SumFunctionOnSet(f, {}) = 0
      BY <2>2, SumFacts
    <2> QED  BY <2>1, <2>2, <2>3
  <1>4. ASSUME NEW s \in SUBSET U, s # {}, s \ {Pick(s)} \in T
        PROVE  s \in T
    <2> DEFINE x == Pick(s)
               rest == under(s \ {x})
               own == ToSet(pending[x])
    <2>1. x \in s /\ x \in U
      BY <1>4, PickFacts
    <2>2. IsFiniteSet(rest) /\ Cardinality(rest) = SumFunctionOnSet(f, s \ {x})
      BY <1>4
    <2>3. IsFiniteSet(own) /\ Cardinality(own) = f[x]
      BY <1>1, <1>2, <2>1, SeqCard
    <2>4. under(s) = rest \cup own
      BY <2>1
    <2>5. rest \cap own = {}
      BY <1>1, <2>1
    <2> HIDE DEF rest, own, x
    <2>6. /\ IsFiniteSet(rest \cup own)
          /\ Cardinality(rest \cup own) = Cardinality(rest) + Cardinality(own)
      <3>1. /\ IsFiniteSet(rest \cup own)
            /\ Cardinality(rest \cup own)
                   = Cardinality(rest) + Cardinality(own) - Cardinality(rest \cap own)
        BY <2>2, <2>3, FS_Union
      <3>2. Cardinality(rest \cap own) = 0
        BY <2>5, FS_EmptySet
      <3>3. Cardinality(rest) \in Nat /\ Cardinality(own) \in Nat
        BY <2>2, <2>3, FS_CardinalityType
      <3> QED  BY <3>1, <3>2, <3>3
    <2>7. /\ SumFunctionOnSet(f, s) = f[x] + SumFunctionOnSet(f, s \ {x})
          /\ f[x] \in Nat
      <3>1. IsFiniteSet(s)
        BY <1>1, FS_Subset
      <3>2. \A y \in s : f[y] \in Nat
        BY <1>2
      <3> QED  BY <1>2, <2>1, <3>1, <3>2, SumFacts
    <2>8. SumFunctionOnSet(f, s \ {x}) \in Nat
      BY <2>2, FS_CardinalityType
    <2>9. Cardinality(rest \cup own) = SumFunctionOnSet(f, s)
      BY <2>2, <2>3, <2>6, <2>7, <2>8
    <2> QED  BY <2>4, <2>6, <2>9
  <1> HIDE DEF T
  <1>5. SUBSET U \subseteq T
    BY <1>1, <1>3, <1>4, SubsetInduction
  <1>6. U \in T
    BY <1>5
  <1>7. under(U) = ParkedIn(pending)
    BY DEF ParkedIn
  <1>8. len = SumFunctionOnSet(f, U)
    BY <1>2 DEF Counted, SumFunction, f
  <1> QED  BY <1>6, <1>7, <1>8 DEF T

(* No root waits; and while all that came fits, it is somewhere.           *)
RootsFree == NoParent \notin DOMAIN agg.pending /\ NoParent \notin DOMAIN saved.pending
AllHere == \A span \in received : span.id \in InRing \/ span \in Due
KeptInv == RootsFree /\ (Fits => AllHere)

LEMMA RootsFreeStep ==
    ASSUME AggregatorAssumption, AggInv, RootsFree, [AggNext]_aggVars
    PROVE  RootsFree'
  <1>1. CASE UNCHANGED aggVars \/ \E span \in Spans : absorb(span)
    BY <1>1 DEF aggVars, absorb, RootsFree
  <1>2. CASE ParkStep
    <2> DEFINE span == Head(todo)
               waiting == Put(agg.pending, span.parent_id,
                              Append(At(agg.pending, span.parent_id, <<>>), span))
    <2>1. agg' = park_pending(agg, span) /\ saved' = saved /\ span.parent_id # NoParent
      BY <1>2 DEF ParkStep, ParentMissing
    <2>2. DOMAIN agg'.pending \subseteq DOMAIN waiting
      BY <2>1, ParkKeeps DEF AggInv, AggOk
    <2>3. DOMAIN waiting = DOMAIN agg.pending \cup {span.parent_id}
      BY DEF Put
    <2> QED  BY <2>1, <2>2, <2>3 DEF RootsFree
  <1>3. CASE InsertStep
    <2>1. agg'.pending = Without(MakeRoom(agg).pending, Head(todo).id) /\ saved' = saved
      BY <1>3, NextCall, InsertFacts DEF InsertStep, AggInv, InRing
    <2>2. DOMAIN MakeRoom(agg).pending \subseteq DOMAIN agg.pending
      BY RoomFacts DEF AggInv, Shrinks
    <2> QED  BY <2>1, <2>2 DEF RootsFree, Without
  <1>4. ASSUME NEW keys \in SUBSET Keys, set_split_keys(keys)
        PROVE  RootsFree'
    <2>1. agg'.pending = <<>> /\ saved'.pending = agg.pending
      BY <1>4 DEF set_split_keys, AggInv, AggOk, IsAggregator
    <2> QED  BY <2>1 DEF RootsFree
  <1>5. CASE RestorePending
    <2>1. agg'.pending = saved.pending /\ saved' = Nothing
      BY <1>5 DEF RestorePending, AggInv, AggOk, IsAggregator
    <2> QED  BY <2>1 DEF RootsFree, Nothing
  <1> QED  BY <1>1, <1>2, <1>3, <1>4, <1>5 DEF AggNext

(* What waits, and the child at hand, are children that came.              *)
LEMMA NoDrop ==
    ASSUME AggregatorAssumption, AggInv, LimitsInv, RootsFree, Fits, ParkStep
    PROVE  agg.pending_len + 1 <= pending_cap(agg)
  <1> DEFINE P == ParkedIn(agg.pending)
             span == Head(todo)
  <1>1. span \in received /\ span \notin P /\ span.parent_id # NoParent
    BY NextCall DEF ParkStep, ParentMissing
  <1>2. \A s \in P : s \in received /\ s.parent_id # NoParent
    BY DEF ParkedIn, RootsFree, AggInv, AggOk, PendingOk
  <1>3. IsFiniteSet(P) /\ Cardinality(P) = agg.pending_len
    BY ParkedCount DEF AggInv, AggOk, LimitsInv, LimitsOk
  <1> HIDE DEF P, span
  <1>4. P \cup {span} \subseteq Orphans
    BY <1>1, <1>2 DEF Orphans
  <1>5. Cardinality(P \cup {span}) = Cardinality(P) + 1
    BY <1>1, <1>3, FS_AddElement
  <1>6. IsFiniteSet(Orphans)
    <2>1. Orphans \in SUBSET received
      BY DEF Orphans
    <2> QED  BY <2>1, ReceivedFinite, FS_Subset
  <1>7. Cardinality(P \cup {span}) <= Cardinality(Orphans) /\ Cardinality(Orphans) \in Nat
    BY <1>4, <1>6, FS_Subset, FS_CardinalityType
  <1>8. pending_cap(agg) \in Nat
    BY CapType DEF AggInv, AggOk, IsAggregator
  <1>9. Cardinality(P) \in Nat
    BY <1>3, FS_CardinalityType
  <1> QED  BY <1>3, <1>5, <1>7, <1>8, <1>9 DEF Fits

LEMMA ParkAllHere ==
    ASSUME AggregatorAssumption, AggInv, LimitsInv, RootsFree, Fits, AllHere, ParkStep
    PROVE  AllHere'
  <1> DEFINE span == Head(todo)
             p == span.parent_id
             before == At(agg.pending, p, <<>>)
             waiting == Put(agg.pending, p, Append(before, span))
  <1>1. /\ agg' = park_pending(agg, span) /\ todo # <<>> /\ todo' = Tail(todo)
        /\ received' = received /\ saved' = saved
    BY DEF ParkStep
  <1>2. agg'.by_id = agg.by_id
    BY <1>1, NextCall, ParkFacts DEF ParkStep, ParentMissing, AggInv, InRing
  <1>3. agg'.pending = waiting
    BY <1>1, NoDrop, ParkKeeps DEF AggInv, AggOk
  <1>4. ToSet(todo) = ToSet(todo') \cup {span} /\ span \in Spans
    BY <1>1, NextCall DEF AggInv
  <1>5. /\ before \in Seq(Spans)
        /\ p \in DOMAIN agg.pending => before = agg.pending[p]
    <2>1. \A q \in DOMAIN agg.pending : agg.pending[q] \in Seq(Spans)
      BY DEF AggInv, AggOk, PendingOk
    <2> QED  BY <2>1 DEF At
  <1>6. ToSet(Append(before, span)) = ToSet(before) \cup {span}
    BY <1>4, <1>5, AppendFacts
  <1> HIDE DEF span, p, before
  <1>7. DOMAIN waiting = DOMAIN agg.pending \cup {p} /\ waiting[p] = Append(before, span)
        /\ \A q \in DOMAIN agg.pending \ {p} : waiting[q] = agg.pending[q]
    BY DEF Put
  <1> HIDE DEF waiting
  <1>8. ParkedIn(agg.pending) \cup {span} \subseteq ParkedIn(waiting)
    <2>1. span \in ParkedIn(waiting)
      BY <1>6, <1>7 DEF ParkedIn
    <2>2. ASSUME NEW q \in DOMAIN agg.pending
          PROVE  ToSet(agg.pending[q]) \subseteq ToSet(waiting[q]) /\ q \in DOMAIN waiting
      BY <1>5, <1>6, <1>7
    <2> QED  BY <2>1, <2>2 DEF ParkedIn
  <1>9. Due \subseteq Due'
    BY <1>1, <1>3, <1>4, <1>8 DEF Due
  <1> QED  BY <1>1, <1>2, <1>9 DEF AllHere, InRing

LEMMA InsertAllHere ==
    ASSUME AggregatorAssumption, AggInv, Fits, AllHere, InsertStep
    PROVE  AllHere'
  <1>0. PICK span : span = Head(todo)
    OBVIOUS
  <1>1. Joins(span)
    BY <1>0, RoomyInsert DEF Fits
  <1>2. ToSet(todo) = ToSet(Tail(todo)) \cup {span} /\ Tail(todo) \in Seq(Spans)
    BY <1>0, NextCall DEF InsertStep
  <1>3. \A q \in DOMAIN agg.pending : agg.pending[q] \in Seq(Spans)
    BY DEF AggInv, AggOk, PendingOk
  <1>4. Waiters(agg, span.id) \in Seq(Spans)
        /\ (span.id \in DOMAIN agg.pending => Waiters(agg, span.id) = agg.pending[span.id])
    BY <1>3 DEF Waiters, At
  <1>5. ToSet(todo') = ToSet(Waiters(agg, span.id)) \cup ToSet(Tail(todo))
    <2>1. todo' = Waiters(agg, span.id) \o Tail(todo)
      BY <1>1 DEF Joins
    <2>2. PICK w : w = Waiters(agg, span.id)
      OBVIOUS
    <2>3. PICK t : t = Tail(todo)
      OBVIOUS
    <2>4. w \in Seq(Spans) /\ t \in Seq(Spans)
      BY <1>2, <1>4, <2>2, <2>3
    <2>5. ToSet(w \o t) = ToSet(w) \cup ToSet(t)
      BY ONLY <2>4, ConcatSet
    <2> QED  BY <2>1, <2>2, <2>3, <2>5
  <1>6. /\ DOMAIN agg'.pending = DOMAIN agg.pending \ {span.id}
        /\ \A q \in DOMAIN agg'.pending : agg'.pending[q] = agg.pending[q]
    BY <1>1 DEF Joins, Without
  <1>7. ParkedIn(agg.pending) \subseteq ParkedIn(agg'.pending) \cup ToSet(todo')
    BY <1>4, <1>5, <1>6 DEF ParkedIn
  <1>8. saved' = saved /\ received' = received /\ InRing' = InRing \cup {span.id}
    BY <1>1 DEF Joins, InRing
  <1>9. ASSUME NEW s \in received
        PROVE  s.id \in InRing' \/ s \in Due'
    <2>1. s.id \in InRing \/ s \in ToSet(Tail(todo)) \cup {span} \cup ParkedIn(agg.pending)
                                                      \cup ParkedIn(saved.pending)
      BY <1>2 DEF AllHere, Due
    <2> QED  BY <1>5, <1>7, <1>8, <2>1 DEF Due
  <1> QED  BY <1>8, <1>9 DEF AllHere

LEMMA AllHereStep ==
    ASSUME AggregatorAssumption, AggInv, LimitsInv, RootsFree, RoomyOk, Fits, AllHere,
           [AggNext]_aggVars
    PROVE  AllHere'
  <1>1. CASE UNCHANGED aggVars
    BY <1>1 DEF aggVars, AllHere, Due, InRing
  <1>2. ASSUME NEW span \in Spans, absorb(span)
        PROVE  AllHere'
    <2>1. /\ AtRest /\ todo' = <<span>> /\ received' = received \cup {span}
          /\ agg' = agg /\ saved' = saved
      BY <1>2 DEF absorb
    <2>2. ToSet(todo) = {} /\ ToSet(todo') = {span}
      BY <2>1 DEF AtRest, ToSet
    <2> QED  BY <2>1, <2>2 DEF AllHere, Due, InRing
  <1>3. CASE ParkStep
    BY <1>3, ParkAllHere
  <1>4. CASE InsertStep
    BY <1>4, InsertAllHere
  <1>5. ASSUME NEW keys \in SUBSET Keys, set_split_keys(keys)
        PROVE  AllHere'
    <2>1. /\ AtRest /\ received' = received /\ saved'.pending = agg.pending
          /\ todo' = SpansInOrder(agg)
      BY <1>5 DEF set_split_keys
    <2>2. ToSet(todo) = {} /\ ParkedIn(saved.pending) = {}
      BY <2>1 DEF AtRest, ToSet, Nothing, ParkedIn
    <2>3. ASSUME NEW s \in received, s.id \in InRing
          PROVE  s \in ToSet(todo')
      <3>1. PICK i \in 1..Len(agg.order) : agg.order[i] = s.id
        BY <2>3, OrderInRing
      <3>2. agg.by_id[s.id].span = s
        BY <2>3 DEF AggregatorAssumption, AggInv, AggOk, RingOk, InRing
      <3>3. i \in DOMAIN todo' /\ todo'[i] = s
        BY <2>1, <3>1, <3>2, OrderInRing DEF SpansInOrder
      <3> QED  BY <3>3 DEF ToSet
    <2> QED  BY <2>1, <2>2, <2>3 DEF AllHere, Due
  <1>6. CASE RestorePending
    <2>1. /\ agg'.by_id = agg.by_id /\ agg'.pending = saved.pending /\ saved # Nothing
          /\ todo' = todo /\ received' = received
      BY <1>6 DEF RestorePending, AggInv, AggOk, IsAggregator
    <2>2. ParkedIn(agg.pending) = {}
      BY <2>1 DEF RoomyOk, RebuildOk, ParkedIn
    <2> QED  BY <2>1, <2>2 DEF AllHere, Due, InRing
  <1> QED  BY <1>1, <1>2, <1>3, <1>4, <1>5, <1>6 DEF AggNext

LEMMA InitKept ==
    ASSUME AggInit
    PROVE  KeptInv
  BY DEF AggInit, KeptInv, RootsFree, AllHere, Nothing

LEMMA NextKept ==
    ASSUME AggregatorAssumption, AggInv, LimitsInv, RoomInv, KeptInv, [AggNext]_aggVars
    PROVE  KeptInv'
  <1>1. Fits' => Fits /\ Roomy
    BY OnlyGrows DEF Fits
  <1> QED  BY <1>1, RootsFreeStep, AllHereStep DEF KeptInv, RoomInv

(* Down a line that came, from its root: each span is in the ring, for a   *)
(* child never waits for a parent that is.                                 *)
LEMMA LineArrives ==
    ASSUME AggregatorAssumption, AggInv, RootsFree, AllHere, AtRest,
           NEW line \in Lines, ToSet(line) \subseteq received
    PROVE  Last(line).id \in InRing
  <1> DEFINE T == {i \in 1..Len(line) : line[i].id \notin InRing}
  <1>1. /\ line \in Seq(Spans) /\ Len(line) \in Nat \ {0} /\ DOMAIN line = 1..Len(line)
        /\ Last(line) = line[Len(line)] /\ Descends(line)
    BY LinesFacts DEF Last
  <1>2. \A i \in 1..Len(line) : line[i] \in received
    BY <1>1 DEF ToSet
  <1>3. T = {}
    <2> SUFFICES ASSUME T # {}
                 PROVE  FALSE
      OBVIOUS
    <2>1. T \subseteq Nat
      BY <1>1
    <2>2. PICK i \in T : \A m \in T : i <= m
      BY <2>1, LeastNatural
    <2>3. line[i] \in Due
      BY <1>2 DEF AllHere
    <2>4. line[i] \in ParkedIn(agg.pending)
      BY <2>3 DEF Due, AtRest, Nothing, ToSet, ParkedIn
    <2>5. line[i].parent_id \in DOMAIN agg.pending
      BY <2>4 DEF ParkedIn, AggInv, AggOk, PendingOk
    <2>6. line[i].parent_id # NoParent /\ line[i].parent_id \notin InRing
      BY <2>5 DEF RootsFree, AggInv, AggOk, Apart, InRing
    <2>7. i \in 2..Len(line)
      BY <1>1, <2>6 DEF Descends
    <2>8. line[i].parent_id = line[i - 1].id /\ i - 1 \in 1..Len(line) /\ ~(i <= i - 1)
      BY <1>1, <2>7 DEF Descends
    <2> QED  BY <2>2, <2>6, <2>8
  <1> QED  BY <1>1, <1>3

LEMMA AllSettled ==
    ASSUME AggregatorAssumption, AggInv, RootsFree, AllHere, LinesOk, AtRest
    PROVE  /\ InRing = {span.id : span \in {s \in received : Rooted(s)}}
           /\ Parked = {span \in received : ~Rooted(span)}
  <1>1. \A id \in InRing : /\ agg.by_id[id].span \in received /\ agg.by_id[id].span.id = id
                           /\ Rooted(agg.by_id[id].span)
    BY DEF AggInv, AggOk, RingOk, InRing, LinesOk, LineOk, Rooted
  <1>2. \A s \in received : Rooted(s) => s.id \in InRing
    BY LineArrives DEF Rooted
  <1>3. \A s \in received : s.id \in InRing => Rooted(s)
    <2>1. \A s \in received : s.id \in InRing => agg.by_id[s.id].span = s
      BY <1>1 DEF AggregatorAssumption, AggInv
    <2> QED  BY <1>1, <2>1
  <1>4. Parked = ParkedIn(agg.pending)
    <2>1. \A p \in DOMAIN agg.pending : agg.pending[p] \in Seq(Spans)
      BY DEF AggInv, AggOk, PendingOk
    <2>2. \A p \in DOMAIN agg.pending : ToSet(agg.pending[p]) \subseteq Spans
      BY <2>1 DEF ToSet
    <2>3. \A p \in DOMAIN agg.pending : \A span :
             Contains(agg.pending[p], span) <=> span \in ToSet(agg.pending[p])
      BY <2>1 DEF Contains, ToSet
    <2> QED  BY <2>2, <2>3 DEF Parked, ParkedIn
  <1>5. Due = ParkedIn(agg.pending)
    BY DEF Due, AtRest, Nothing, ToSet, ParkedIn
  <1>6. \A s \in Parked : s \in received /\ s.id \notin InRing
    BY <1>4 DEF AggInv, AggOk, PendingOk, Apart, ParkedIn, InRing
  <1>7. \A s \in received : s.id \notin InRing => s \in Parked
    BY <1>4, <1>5 DEF AllHere
  <1>8. InRing = {span.id : span \in {s \in received : Rooted(s)}}
    BY <1>1, <1>2
  <1>9. Parked = {span \in received : ~Rooted(span)}
    BY <1>2, <1>3, <1>6, <1>7
  <1> QED  BY <1>8, <1>9

-----------------------------------------------------------------------------
(* Theorems                                                                *)

(* Where a span is: at most once in the ring, among the calls to come or   *)
(* parked, and never in two of them, through every arrival and rebuild.    *)
THEOREM AggInvariant == AggSpec => []AggInv
  <1>1. AggInit => AggInv
    BY AggregatorAssumption, InitInv
  <1>2. AggInv /\ [AggNext]_aggVars => AggInv'
    BY AggregatorAssumption, NextInv
  <1> QED  BY <1>1, <1>2, PTL DEF AggSpec

(* Through arrivals, evictions, drained children and rebuilds, the queue   *)
(* of the ring and the index of its spans name the same ids.               *)
THEOREM RingInLockStep == AggSpec => []LockStep
  <1>1. AggInv => LockStep
    BY DEF AggInv, AggOk, RingOk, LockStep, InRing
  <1> QED  BY <1>1, AggInvariant, PTL

(* A child waits only for its own parent, and only while that parent is    *)
(* not in the ring.                                                        *)
THEOREM NoChildStranded == AggSpec => []NoStrandedChild
  <1>1. AggInv => NoStrandedChild
    BY DEF AggInv, AggOk, PendingOk, Apart, NoStrandedChild, InRing
  <1> QED  BY <1>1, AggInvariant, PTL

(* What a bucket shows is a count from scratch of the entries of the ring  *)
(* that are in it, after any arrivals, evictions, rewritten parents and    *)
(* rebuilds.                                                               *)
THEOREM BucketsAreRecounts == AggSpec => []BucketsRecount
  <1>1. AggInit => LedgerInv
    BY AggregatorAssumption, InitLedger
  <1>2. AggInv /\ LedgerInv /\ [AggNext]_aggVars => LedgerInv'
    BY AggregatorAssumption, NextLedger
  <1>3. LedgerInv => BucketsRecount
    BY DEF LedgerInv, LedgerOk, Booked, Recounted, BucketsRecount, InRing
  <1> QED  BY <1>1, <1>2, <1>3, AggInvariant, PTL DEF AggSpec

(* A span's self time is its total less the totals of its children in the  *)
(* ring, whatever came, went or was rebuilt since.                         *)
THEOREM SelfTimesExact == AggSpec => []SelfTimeExact
  <1>1. AggInit => LedgerInv
    BY AggregatorAssumption, InitLedger
  <1>2. AggInv /\ LedgerInv /\ [AggNext]_aggVars => LedgerInv'
    BY AggregatorAssumption, NextLedger
  <1>3. LedgerInv => SelfTimeExact
    BY DEF LedgerInv, LedgerOk, SumsOk, SelfTimeExact, InRing
  <1> QED  BY <1>1, <1>2, <1>3, AggInvariant, PTL DEF AggSpec

(* The ring never has more spans than the history budget, and what is      *)
(* parked is counted right and never over its cap, also while a rebuild    *)
(* takes the ring apart: one parent's children dropped are enough.         *)
THEOREM AggregatorTyped == AggSpec => []TypeOK
  <1>1. AggInit => LedgerInv /\ LimitsInv
    BY AggregatorAssumption, InitLedger, InitLimits
  <1>2. AggInv /\ LedgerInv /\ LimitsInv /\ [AggNext]_aggVars => LedgerInv' /\ LimitsInv'
    BY AggregatorAssumption, NextLedger, NextLimits
  <1>3. AggInv /\ LedgerInv /\ LimitsInv => TypeOK
    <2> SUFFICES ASSUME AggInv, LedgerInv, LimitsInv
                 PROVE  TypeOK
      OBVIOUS
    <2>1. agg.order \in Seq({s.id : s \in Spans})
      <3>1. agg.order \in Seq(Nat) /\ \A i \in DOMAIN agg.order : agg.order[i] \in InRing
        BY DEF AggInv, AggOk, RingOk, InRing, ToSet
      <3>2. \A id \in InRing : id \in {s.id : s \in Spans}
        BY DEF AggInv, AggOk, RingOk, InRing
      <3>3. \A i \in 1..Len(agg.order) : agg.order[i] \in {s.id : s \in Spans}
        BY <3>1, <3>2
      <3> QED  BY <3>1, <3>3
    <2>2. \A id \in InRing : agg.by_id[id].span \in received /\ agg.by_id[id].self_ns \in Nat
      BY DEF AggInv, AggOk, RingOk, InRing, LedgerInv, LedgerOk, Booked, Timed
    <2>3. \A id \in DOMAIN agg.child_sum : agg.child_sum[id] \in Nat
      <3>1. \A id : ChildTime(agg.by_id, id) \in Nat
        BY ChildTimeType DEF LedgerInv, LedgerOk, Booked
      <3> QED  BY <3>1 DEF LedgerInv, LedgerOk, SumsOk, At
    <2>4. \A p \in DOMAIN agg.pending :
              agg.pending[p] # <<>> /\ ToSet(agg.pending[p]) \subseteq received
      BY DEF AggInv, AggOk, PendingOk, LimitsInv, LimitsOk, Counted
    <2>5. agg.pending_len = SumFunction([p \in DOMAIN agg.pending |-> Len(agg.pending[p])])
      BY DEF LimitsInv, LimitsOk, Counted, Lengths
    <2>6. todo \in Seq(received)
      <3>1. todo \in Seq(Spans) /\ \A i \in DOMAIN todo : todo[i] \in received
        BY DEF AggInv, TodoOk, ToSet
      <3> QED  BY <3>1
    <2>7. /\ agg.history_budget \in Budgets /\ agg.split_keys \subseteq Keys
          /\ Len(agg.order) <= agg.history_budget /\ IsInjective(agg.order)
          /\ agg.pending_len <= pending_cap(agg)
      BY DEF AggInv, AggOk, RingOk, LimitsInv, LimitsOk
    <2> QED  BY <2>1, <2>2, <2>3, <2>4, <2>5, <2>6, <2>7 DEF TypeOK
  <1> QED  BY <1>1, <1>2, <1>3, AggInvariant, PTL DEF AggSpec

(* An entry stands in the bucket of its ancestors' names and of the split  *)
(* values nearest to the leaf, also when the ancestors have left the ring  *)
(* and when the split keys have changed (state.rs:393-404, 468).           *)
THEOREM BucketsArePaths == AggSpec => []BucketIsPath
  <1>1. AggInit => LinesOk
    BY DEF AggInit, LinesOk, InRing
  <1>2. AggInv /\ LinesOk /\ [AggNext]_aggVars => LinesOk'
    BY AggregatorAssumption, LinesStep
  <1>3. LinesOk => BucketIsPath
    BY DEF LinesOk, LineOk, BucketIsPath
  <1> QED  BY <1>1, <1>2, <1>3, AggInvariant, PTL DEF AggSpec

(* While the budget and the cap suffice for all that came, the order in    *)
(* which spans came and the rebuilds in between do not show: the ring      *)
(* holds the spans whose ancestors came, and the others wait (state.rs:    *)
(* 213, 300, 457-461).                                                     *)
THEOREM OrderOfArrival == AggSpec => []ArrivalOrderIrrelevant
  <1>1. AggInit => LinesOk /\ LedgerInv /\ LimitsInv /\ RoomInv /\ KeptInv
    <2>1. AggInit => LinesOk
      BY DEF AggInit, LinesOk, InRing
    <2> QED  BY <2>1, AggregatorAssumption, InitLedger, InitLimits, InitRoom, InitKept
  <1>2. AggInv /\ LinesOk /\ LedgerInv /\ LimitsInv /\ RoomInv /\ KeptInv /\ [AggNext]_aggVars
        => LinesOk' /\ LedgerInv' /\ LimitsInv' /\ RoomInv' /\ KeptInv'
    BY AggregatorAssumption, LinesStep, NextLedger, NextLimits, NextRoom, NextKept
  <1>3. AggInv /\ LinesOk /\ KeptInv => ArrivalOrderIrrelevant
    BY AggregatorAssumption, AllSettled
       DEF KeptInv, Fits, Roomy, Orphans, ArrivalOrderIrrelevant
  <1> QED  BY <1>1, <1>2, <1>3, AggInvariant, PTL DEF AggSpec

=============================================================================
