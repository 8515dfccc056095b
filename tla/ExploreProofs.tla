--------------------------- MODULE ExploreProofs ---------------------------
(***************************************************************************)
(* Theorems of ExploreSpec, for any spans and any number of keys, about    *)
(* the stack table: what is expanded is closed under ancestors, the scans  *)
(* of neighbouring rows see the tree of stacks, and the cursor keeps its   *)
(* place and stays on a row.                                               *)
(***************************************************************************)
EXTENDS Explore, AggregatorProofs

-----------------------------------------------------------------------------
(* Ancestors and prefixes, element by element                              *)

(* p is the beginning of s.                                                *)
Begins(p, s) == Len(p) <= Len(s) /\ \A i \in 1..Len(p) : p[i] = s[i]

LEMMA FrontFacts ==
    ASSUME NEW S, NEW s \in Seq(S), NEW n \in 0..Len(s)
    PROVE  /\ SubSeq(s, 1, n) \in Seq(S) /\ Len(SubSeq(s, 1, n)) = n
           /\ \A i \in 1..n : SubSeq(s, 1, n)[i] = s[i]
  OBVIOUS

LEMMA PrefixIsBegins ==
    ASSUME NEW S, NEW s \in Seq(S), NEW p \in Seq(S)
    PROVE  IsPrefix(p, s) <=> Begins(p, s)
  <1>1. SubSeq(p, 1, Len(p)) = p
    OBVIOUS
  <1>2. CASE Len(p) <= Len(s)
    <2> DEFINE f == SubSeq(s, 1, Len(p))
    <2>1. f \in Seq(S) /\ Len(f) = Len(p) /\ \A i \in 1..Len(p) : f[i] = s[i]
      BY <1>2, FrontFacts
    <2> HIDE DEF f
    <2>2. f = p <=> \A i \in 1..Len(p) : p[i] = s[i]
      BY <2>1
    <2> QED  BY <1>1, <1>2, <2>2 DEF IsPrefix, Begins, f
  <1> QED  BY <1>2 DEF IsPrefix, Begins

LEMMA AncestorFacts ==
    ASSUME NEW S, NEW s \in Seq(S), NEW p
    PROVE  p \in Ancestors(s) <=>
              p \in Seq(S) /\ 0 < Len(p) /\ Len(p) < Len(s) /\ Begins(p, s)
  <1>1. ASSUME p \in Ancestors(s)
        PROVE  p \in Seq(S) /\ 0 < Len(p) /\ Len(p) < Len(s) /\ Begins(p, s)
    <2>1. PICK n \in 1..(Len(s) - 1) : p = SubSeq(s, 1, n)
      BY <1>1 DEF Ancestors
    <2>2. n \in 0..Len(s)
      OBVIOUS
    <2>3. p \in Seq(S) /\ Len(p) = n /\ \A i \in 1..n : p[i] = s[i]
      BY <2>1, <2>2, FrontFacts
    <2> QED  BY <2>3 DEF Begins
  <1>2. ASSUME p \in Seq(S), 0 < Len(p), Len(p) < Len(s), Begins(p, s)
        PROVE  p \in Ancestors(s)
    <2> DEFINE f == SubSeq(s, 1, Len(p))
    <2>1. Len(p) \in 1..(Len(s) - 1) /\ Len(p) \in 0..Len(s)
      BY <1>2
    <2>2. f \in Seq(S) /\ Len(f) = Len(p) /\ \A i \in 1..Len(p) : f[i] = s[i]
      BY <2>1, FrontFacts
    <2> HIDE DEF f
    <2>3. p = f
      BY <1>2, <2>2 DEF Begins
    <2> QED  BY <2>1, <2>3 DEF Ancestors, f
  <1> QED  BY <1>1, <1>2

LEMMA BeginsOrder ==
    ASSUME NEW S, NEW p \in Seq(S), NEW q \in Seq(S), NEW s \in Seq(S), Begins(q, s)
    PROVE  /\ Begins(p, q) => Begins(p, s)
           /\ Begins(p, s) /\ Len(p) <= Len(q) => Begins(p, q)
  BY DEF Begins

(* The ancestors of an ancestor; and what lies between two stacks.         *)
LEMMA AncestorOrder ==
    ASSUME NEW S, NEW t \in Seq(S), NEW s \in Seq(S), NEW p \in Ancestors(s)
    PROVE  /\ p \in Seq(S)
           /\ Ancestors(p) \subseteq Ancestors(s)
           /\ IsPrefix(t, p) => IsPrefix(t, s)
           /\ IsPrefix(t, s) /\ ~IsPrefix(t, p) => p \in Ancestors(t)
  <1>1. p \in Seq(S) /\ 0 < Len(p) /\ Len(p) < Len(s) /\ Begins(p, s)
    BY AncestorFacts
  <1>2. ASSUME NEW q \in Ancestors(p)
        PROVE  q \in Ancestors(s)
    <2>1. q \in Seq(S) /\ 0 < Len(q) /\ Len(q) < Len(p) /\ Begins(q, p)
      BY <1>1, <1>2, AncestorFacts
    <2>2. Begins(q, s) /\ Len(q) < Len(s)
      BY <1>1, <2>1, BeginsOrder
    <2> QED  BY <2>1, <2>2, AncestorFacts
  <1>3. IsPrefix(t, p) => IsPrefix(t, s)
    BY <1>1, PrefixIsBegins, BeginsOrder
  <1>4. ASSUME IsPrefix(t, s), ~IsPrefix(t, p)
        PROVE  p \in Ancestors(t)
    <2>1. Begins(t, s) /\ ~Begins(t, p)
      BY <1>1, <1>4, PrefixIsBegins
    <2>2. Len(p) < Len(t)
      BY <1>1, <2>1, BeginsOrder
    <2>3. Begins(p, t)
      BY <1>1, <2>1, <2>2, BeginsOrder
    <2> QED  BY <1>1, <2>2, <2>3, AncestorFacts
  <1> QED  BY <1>1, <1>2, <1>3, <1>4

-----------------------------------------------------------------------------
(* The rows: a stack of strings and splits                                 *)

BucketOk(b) ==
    b = [stack |-> b.stack, splits |-> b.splits] /\ b.stack \in Stacks /\ IsSplits(b.splits)

RowsOk ==
    /\ \A bucket \in DOMAIN agg.buckets : BucketOk(bucket)
    /\ \A id \in InRing : BucketOk(agg.by_id[id].bucket)

LEMMA NamesFacts ==
    ASSUME PanesAssumption
    PROVE  Names \subseteq AllStrings /\ Stacks \subseteq Seq(AllStrings) \ {<<>>}
  <1>1. Names \subseteq AllStrings
    BY DEF PanesAssumption, Names
  <1> QED  BY <1>1 DEF Stacks

LEMMA ResolveRow ==
    ASSUME PanesAssumption, RowsOk, StacksOk, NEW span \in Spans, ~ParentMissing(agg, span)
    PROVE  BucketOk(resolve(agg, span))
  <1> DEFINE parent == IF span.parent_id = NoParent
                       THEN [stack |-> <<>>, splits |-> <<>>]
                       ELSE agg.by_id[span.parent_id].bucket
             own == DOMAIN span.fields \cap agg.split_keys
             splits == collect_splits(span, parent.splits, agg.split_keys)
             b == resolve(agg, span)
  <1>1. b = [stack |-> Append(parent.stack, span.name), splits |-> splits]
    BY DEF resolve
  <1>2. b.stack \in Stacks
    BY ResolveStack
  <1>3. IsSplits(parent.splits)
    <2>1. CASE span.parent_id = NoParent
      <3>1. parent.splits = <<>>
        BY <2>1
      <3> HIDE DEF parent
      <3> QED  BY <3>1 DEF IsSplits
    <2>2. CASE span.parent_id # NoParent
      BY <2>2 DEF RowsOk, BucketOk, ParentMissing, InRing
    <2> QED  BY <2>1, <2>2
  <1> HIDE DEF parent
  <1>4. \A key \in own : key \in AllStrings /\ span.fields[key] \in AllStrings
    BY DEF PanesAssumption, Range
  <1>5. splits = [k \in own \cup DOMAIN parent.splits |->
                    IF k \in own THEN span.fields[k] ELSE parent.splits[k]]
    BY DEF collect_splits
  <1> HIDE DEF own, splits
  <1>6. IsSplits(splits)
    BY <1>3, <1>4, <1>5 DEF IsSplits
  <1> HIDE DEF b
  <1>7. b.splits = splits
    BY <1>1
  <1>8. b = [stack |-> b.stack, splits |-> b.splits]
    BY <1>1
  <1> QED  BY <1>2, <1>6, <1>7, <1>8 DEF BucketOk, b

LEMMA RowsStep ==
    ASSUME AggregatorAssumption, PanesAssumption, AggInv, StacksOk, RowsOk,
           \/ UNCHANGED aggVars
           \/ \E span \in Spans : absorb(span)
           \/ ParkStep \/ InsertStep \/ RestorePending
           \/ \E keys : set_split_keys(keys)
    PROVE  RowsOk'
  <1>1. /\ DOMAIN agg'.buckets \subseteq DOMAIN agg.buckets \cup Resolved
        /\ EntryBuckets' \subseteq EntryBuckets \cup Resolved
    BY BucketsStep
  <1>2. \A bucket \in Resolved : BucketOk(bucket)
    BY ResolveRow DEF Resolved
  <1>3. \A bucket \in EntryBuckets : BucketOk(bucket)
    BY DEF RowsOk, EntryBuckets
  <1>4. \A id \in InRing' : agg'.by_id[id].bucket \in EntryBuckets'
    BY DEF EntryBuckets
  <1> QED  BY <1>1, <1>2, <1>3, <1>4 DEF RowsOk

-----------------------------------------------------------------------------
(* The order of the rows                                                   *)

(* s and t have the same first n elements.                                 *)
Agree(s, t, n) == n <= Len(s) /\ n <= Len(t) /\ \A i \in 1..n : s[i] = t[i]

(* What lies between two vectors that agree agrees with them.              *)
LEMMA BetweenAgrees ==
    ASSUME NEW l \in Seq(Int), NEW m \in Seq(Int), NEW r \in Seq(Int), NEW n \in Nat,
           Agree(l, r, n), Before(l, m), Before(m, r)
    PROVE  Agree(l, m, n)
  <1>1. PICK i : FirstBefore(l, m, i)
    BY BeforeIs
  <1>2. PICK k : FirstBefore(m, r, k)
    BY BeforeIs
  <1>3. /\ i \in 1..Len(m) /\ k \in 1..Len(r)
        /\ Len(l) \in Nat /\ Len(m) \in Nat /\ Len(r) \in Nat
        /\ \A j \in 1..Len(l) : l[j] \in Int
        /\ \A j \in 1..Len(m) : m[j] \in Int
        /\ \A j \in 1..Len(r) : r[j] \in Int
    BY <1>1, <1>2 DEF FirstBefore
  <1>4. CASE i > n
    BY <1>1, <1>3, <1>4 DEF FirstBefore, Agree
  <1>5. CASE i <= n
    <2>1. i \in 1..n /\ i <= Len(l) /\ l[i] = r[i] /\ i <= Len(r)
      BY <1>3, <1>5 DEF Agree
    <2>2. l[i] < m[i]
      BY <1>1, <1>3, <2>1 DEF FirstBefore
    <2>3. CASE k < i
      <3>1. k \in 1..(i - 1) /\ k <= Len(m) /\ k \in 1..n
        BY <1>3, <1>5, <2>3
      <3>2. m[k] = l[k] /\ l[k] = r[k] /\ m[k] < r[k]
        BY <1>1, <1>2, <1>3, <3>1 DEF FirstBefore, Agree
      <3> QED  BY <1>3, <3>1, <3>2
    <2>4. CASE k = i
      <3>1. m[i] < r[i]
        BY <1>2, <1>3, <2>4 DEF FirstBefore
      <3> QED  BY <1>3, <2>1, <2>2, <3>1
    <2>5. CASE k > i
      <3>1. m[i] = r[i]
        BY <1>2, <1>3, <2>5 DEF FirstBefore
      <3> QED  BY <1>3, <2>1, <2>2, <3>1
    <2> QED  BY <1>3, <2>3, <2>4, <2>5
  <1> QED  BY <1>3, <1>4, <1>5

LEMMA RanksAgree ==
    ASSUME OrderingAssumption, NEW s \in Seq(AllStrings), NEW t \in Seq(AllStrings), NEW n \in Nat
    PROVE  Agree(Ranks(s), Ranks(t), n) <=> Agree(s, t, n)
  <1>1. /\ Len(Ranks(s)) = Len(s) /\ Len(Ranks(t)) = Len(t)
        /\ \A i \in 1..Len(s) : Ranks(s)[i] = Rank(s[i])
        /\ \A i \in 1..Len(t) : Ranks(t)[i] = Rank(t[i])
    BY RanksFacts
  <1>2. \A i \in 1..n : i <= Len(s) /\ i <= Len(t) =>
            /\ i \in 1..Len(s) /\ i \in 1..Len(t)
            /\ s[i] \in AllStrings /\ t[i] \in AllStrings
    OBVIOUS
  <1>3. \A i \in 1..n : i <= Len(s) /\ i <= Len(t) => (Ranks(s)[i] = Ranks(t)[i] <=> s[i] = t[i])
    BY <1>1, <1>2, RankFacts
  <1>4. n <= Len(s) => \A i \in 1..n : i <= Len(s)
    OBVIOUS
  <1>5. n <= Len(t) => \A i \in 1..n : i <= Len(t)
    OBVIOUS
  <1> QED  BY <1>1, <1>3, <1>4, <1>5 DEF Agree

StackOf(row) == Ranks(row.stack)
SplitsOf(row) == Pairs(row.splits)

LEMMA RowVectors ==
    ASSUME OrderingAssumption, PanesAssumption, NEW m, BucketOk(m), NEW n, BucketOk(n)
    PROVE  /\ m.stack \in Seq(AllStrings) /\ StackOf(m) \in Seq(Int) /\ SplitsOf(m) \in Seq(Int)
           /\ StackOf(m) = StackOf(n) => m.stack = n.stack
           /\ StackOf(m) = StackOf(n) /\ SplitsOf(m) = SplitsOf(n) => m = n
           /\ RowBefore(m, n) <=> \/ Before(StackOf(m), StackOf(n))
                                  \/ StackOf(m) = StackOf(n) /\ Before(SplitsOf(m), SplitsOf(n))
  <1>1. m.stack \in Seq(AllStrings) /\ n.stack \in Seq(AllStrings)
        /\ IsSplits(m.splits) /\ IsSplits(n.splits)
    BY NamesFacts DEF BucketOk
  <1>2. StackOf(m) \in Seq(Int) /\ (StackOf(m) = StackOf(n) => m.stack = n.stack)
    BY <1>1, RanksFacts DEF StackOf
  <1>3. SplitsOf(m) \in Seq(Int) /\ (SplitsOf(m) = SplitsOf(n) => m.splits = n.splits)
    BY <1>1, PairsFacts DEF SplitsOf
  <1>4. m.stack = n.stack /\ m.splits = n.splits => m = n
    BY Zenon DEF BucketOk
  <1>5. m.stack = n.stack => StackOf(m) = StackOf(n)
    BY DEF StackOf
  <1> QED  BY <1>1, <1>2, <1>3, <1>4, <1>5 DEF RowBefore, StackOf, SplitsOf

RowOrder(S) == {p \in S \X S : RowBefore(p[1], p[2])}

(* The rows stand in a strict order, and no two in one place.              *)
LEMMA RowsInOrder ==
    ASSUME OrderingAssumption, PanesAssumption, NEW S, \A row \in S : BucketOk(row)
    PROVE  /\ StrictOrder(RowOrder(S), S)
           /\ \A m, n \in S : <<m, n>> \in RowOrder(S) <=> RowBefore(m, n)
  <1> DEFINE R == RowOrder(S)
  <1>1. \A m, n \in S : <<m, n>> \in R <=> RowBefore(m, n)
    BY DEF RowOrder
  <1> HIDE DEF R
  <1>2. ASSUME NEW m \in S
        PROVE  ~RowBefore(m, m)
    BY RowVectors, BeforeIrreflexive
  <1>3. ASSUME NEW l \in S, NEW m \in S, NEW n \in S, RowBefore(l, m), RowBefore(m, n)
        PROVE  RowBefore(l, n)
    <2>1. /\ StackOf(l) \in Seq(Int) /\ StackOf(m) \in Seq(Int) /\ StackOf(n) \in Seq(Int)
          /\ SplitsOf(l) \in Seq(Int) /\ SplitsOf(m) \in Seq(Int) /\ SplitsOf(n) \in Seq(Int)
      BY RowVectors
    <2>2. /\ \/ Before(StackOf(l), StackOf(m))
             \/ StackOf(l) = StackOf(m) /\ Before(SplitsOf(l), SplitsOf(m))
          /\ \/ Before(StackOf(m), StackOf(n))
             \/ StackOf(m) = StackOf(n) /\ Before(SplitsOf(m), SplitsOf(n))
      BY <1>3, RowVectors
    <2>3. Before(StackOf(l), StackOf(m)) /\ Before(StackOf(m), StackOf(n))
          => Before(StackOf(l), StackOf(n))
      BY <2>1, BeforeTransitive
    <2>4. Before(SplitsOf(l), SplitsOf(m)) /\ Before(SplitsOf(m), SplitsOf(n))
          => Before(SplitsOf(l), SplitsOf(n))
      BY <2>1, BeforeTransitive
    <2>5. \/ Before(StackOf(l), StackOf(n))
          \/ StackOf(l) = StackOf(n) /\ Before(SplitsOf(l), SplitsOf(n))
      BY ONLY <2>2, <2>3, <2>4
    <2> QED  BY <2>5, RowVectors
  <1>4. ASSUME NEW m \in S, NEW n \in S, m # n
        PROVE  RowBefore(m, n) \/ RowBefore(n, m)
    <2>1. /\ StackOf(m) \in Seq(Int) /\ StackOf(n) \in Seq(Int)
          /\ SplitsOf(m) \in Seq(Int) /\ SplitsOf(n) \in Seq(Int)
          /\ ~(StackOf(m) = StackOf(n) /\ SplitsOf(m) = SplitsOf(n))
      BY <1>4, RowVectors
    <2>2. StackOf(m) # StackOf(n) =>
            Before(StackOf(m), StackOf(n)) \/ Before(StackOf(n), StackOf(m))
      BY <2>1, BeforeTotal
    <2>3. SplitsOf(m) # SplitsOf(n) =>
            Before(SplitsOf(m), SplitsOf(n)) \/ Before(SplitsOf(n), SplitsOf(m))
      BY <2>1, BeforeTotal
    <2> QED  BY <2>1, <2>2, <2>3, RowVectors
  <1> QED  BY <1>1, <1>2, <1>3, <1>4 DEF StrictOrder, R

(* A row between two rows that share the first levels shares them too.     *)
LEMMA RowBetween ==
    ASSUME OrderingAssumption, PanesAssumption,
           NEW m, BucketOk(m), NEW q, BucketOk(q), NEW n, BucketOk(n),
           RowBefore(m, q), q = n \/ RowBefore(q, n), NEW k \in Nat, Agree(m.stack, n.stack, k)
    PROVE  Agree(m.stack, q.stack, k)
  <1>1. /\ m.stack \in Seq(AllStrings) /\ q.stack \in Seq(AllStrings)
        /\ n.stack \in Seq(AllStrings)
        /\ StackOf(m) \in Seq(Int) /\ StackOf(q) \in Seq(Int) /\ StackOf(n) \in Seq(Int)
    BY RowVectors
  <1>2. Agree(StackOf(m), StackOf(n), k)
    BY <1>1, RanksAgree DEF StackOf
  <1>3. Before(StackOf(m), StackOf(q)) \/ StackOf(m) = StackOf(q)
    BY RowVectors
  <1>4. q = n \/ Before(StackOf(q), StackOf(n)) \/ StackOf(q) = StackOf(n)
    BY RowVectors
  <1>5. Agree(StackOf(m), StackOf(m), k)
    BY <1>2 DEF Agree
  <1>6. Agree(StackOf(m), StackOf(q), k)
    BY <1>1, <1>2, <1>3, <1>4, <1>5, BetweenAgrees
  <1> QED  BY <1>1, <1>6, RanksAgree DEF StackOf

(* What extends a row's stack comes after the row.                         *)
LEMMA ExtensionAfter ==
    ASSUME OrderingAssumption, PanesAssumption, NEW m, BucketOk(m), NEW n, BucketOk(n),
           Begins(m.stack, n.stack), Len(m.stack) < Len(n.stack)
    PROVE  RowBefore(m, n)
  <1>1. m.stack \in Seq(AllStrings) /\ n.stack \in Seq(AllStrings)
    BY RowVectors
  <1> DEFINE i == Len(m.stack) + 1
  <1>2. /\ Len(StackOf(m)) = Len(m.stack) /\ Len(StackOf(n)) = Len(n.stack)
        /\ Len(m.stack) \in Nat /\ Len(n.stack) \in Nat
    BY <1>1, RanksFacts DEF StackOf
  <1>3. Agree(StackOf(m), StackOf(n), Len(m.stack))
    <2>1. Agree(m.stack, n.stack, Len(m.stack))
      BY <1>2 DEF Begins, Agree
    <2> QED  BY <1>1, <1>2, <2>1, RanksAgree DEF StackOf
  <1>4. FirstBefore(StackOf(m), StackOf(n), i)
    BY <1>2, <1>3 DEF FirstBefore, Agree
  <1> QED  BY <1>4, BeforeIs, RowVectors

-----------------------------------------------------------------------------
(* The tree that is drawn                                                  *)

LEMMA FrontsAgree ==
    ASSUME NEW S, NEW s \in Seq(S), NEW t \in Seq(S), NEW n \in 0..Len(s), n <= Len(t)
    PROVE  SubSeq(t, 1, n) = SubSeq(s, 1, n) <=> Agree(s, t, n)
  <1> DEFINE f == SubSeq(s, 1, n)
             g == SubSeq(t, 1, n)
  <1>1. f \in Seq(S) /\ Len(f) = n /\ \A i \in 1..n : f[i] = s[i]
    BY FrontFacts
  <1>2. g \in Seq(S) /\ Len(g) = n /\ \A i \in 1..n : g[i] = t[i]
    BY FrontFacts
  <1> HIDE DEF f, g
  <1>3. g = f <=> \A i \in 1..n : g[i] = f[i]
    BY <1>1, <1>2
  <1>4. g = f <=> Agree(s, t, n)
    BY <1>1, <1>2, <1>3 DEF Agree
  <1> QED  BY <1>4 DEF f, g

(* The rows between a row and one that shares its first levels.            *)
LEMMA UpToAgree ==
    ASSUME OrderingAssumption, PanesAssumption, RowsOk,
           NEW row \in Rows, NEW last \in After(row), NEW k \in Nat,
           Agree(row.stack, last.stack, k)
    PROVE  \A q \in UpTo(row, last) : q \in Rows /\ Agree(row.stack, q.stack, k)
  <1> SUFFICES ASSUME NEW q \in UpTo(row, last)
               PROVE  q \in Rows /\ Agree(row.stack, q.stack, k)
    OBVIOUS
  <1>1. /\ q \in Rows /\ last \in Rows /\ RowBefore(row, q)
        /\ q = last \/ RowBefore(q, last)
    BY DEF UpTo, After
  <1>2. BucketOk(row) /\ BucketOk(q) /\ BucketOk(last)
    BY <1>1 DEF RowsOk, Rows
  <1> QED  BY <1>1, <1>2, RowBetween

LEMMA RowStacks ==
    ASSUME RowsOk
    PROVE  \A row \in Rows : BucketOk(row) /\ row.stack \in Seq(Names) /\ row.stack # <<>>
  BY DEF RowsOk, Rows, BucketOk, Stacks

LEMMA SubtreeTogether ==
    ASSUME OrderingAssumption, PanesAssumption, RowsOk,
           NEW row \in Rows, NEW last \in After(row), IsPrefix(row.stack, last.stack)
    PROVE  \A r \in UpTo(row, last) : IsPrefix(row.stack, r.stack)
  <1>1. \A r \in Rows : r.stack \in Seq(Names)
    BY RowStacks
  <1>2. last \in Rows
    BY DEF After
  <1>3. Agree(row.stack, last.stack, Len(row.stack))
    <2>1. Begins(row.stack, last.stack)
      BY <1>1, <1>2, PrefixIsBegins
    <2> QED  BY <1>1, <2>1 DEF Begins, Agree
  <1>4. \A r \in UpTo(row, last) : r \in Rows /\ Agree(row.stack, r.stack, Len(row.stack))
    BY <1>1, <1>3, UpToAgree
  <1>5. \A r \in UpTo(row, last) : r \in Rows /\ Begins(row.stack, r.stack)
    BY <1>4 DEF Agree, Begins
  <1> QED  BY <1>1, <1>5, PrefixIsBegins

LEMMA MarkerTells ==
    ASSUME OrderingAssumption, PanesAssumption, RowsOk, NEW row \in Rows
    PROVE  has_children(row) <=> \E r \in Rows : IsStrictPrefix(row.stack, r.stack)
  <1>1. \A r \in Rows : BucketOk(r) /\ r.stack \in Seq(Names)
    BY RowStacks
  <1>2. ASSUME has_children(row)
        PROVE  \E r \in Rows : IsStrictPrefix(row.stack, r.stack)
    <2>1. PICK below \in After(row) :
              /\ \A r \in UpTo(row, below) : IsPrefix(row.stack, r.stack)
              /\ Len(below.stack) > Len(row.stack)
      BY <1>2 DEF has_children
    <2>2. below \in Rows /\ below \in UpTo(row, below)
      BY DEF UpTo, After
    <2>3. below.stack # row.stack
      BY <1>1, <2>1, <2>2
    <2> QED  BY <2>1, <2>2, <2>3 DEF IsStrictPrefix
  <1>3. ASSUME NEW r \in Rows, IsStrictPrefix(row.stack, r.stack)
        PROVE  has_children(row)
    <2>1. IsPrefix(row.stack, r.stack) /\ row.stack # r.stack
      BY <1>3 DEF IsStrictPrefix
    <2>2. Begins(row.stack, r.stack)
      BY <1>1, <2>1, PrefixIsBegins
    <2>3. Len(row.stack) < Len(r.stack)
      BY <1>1, <2>1, <2>2 DEF Begins
    <2>4. r \in After(row)
      BY <1>1, <2>2, <2>3, ExtensionAfter DEF After
    <2> QED  BY <2>1, <2>3, <2>4, SubtreeTogether DEF has_children
  <1> QED  BY <1>2, <1>3

SharesAbove(row, r, depth) ==
    /\ Len(r.stack) >= depth
    /\ SubSeq(r.stack, 1, depth - 1) = SubSeq(row.stack, 1, depth - 1)
    /\ r.stack[depth] # row.stack[depth]

LEMMA BranchEnds ==
    ASSUME OrderingAssumption, PanesAssumption, RowsOk, NEW row \in Rows,
           NEW depth \in 2..Len(row.stack)
    PROVE  has_sibling_after(row, depth) <=> \E r \in After(row) : SharesAbove(row, r, depth)
  <1> DEFINE k == depth - 1
             above(r) == SubSeq(r.stack, 1, depth - 1)
             met(r) == Len(r.stack) >= k /\ above(r) = above(row)
  <1>1. \A r \in Rows : r.stack \in Seq(Names) /\ Len(r.stack) \in Nat
    BY RowStacks
  <1>2. /\ depth \in Int /\ k \in Nat /\ depth - 1 = k /\ k \in 0..Len(row.stack)
        /\ \A r \in Rows : Len(r.stack) >= depth => k <= Len(r.stack)
    BY <1>1
  <1>3. ASSUME NEW r \in Rows, k <= Len(r.stack)
        PROVE  above(r) = above(row) <=> Agree(row.stack, r.stack, k)
    BY <1>1, <1>2, <1>3, FrontsAgree
  <1>4. has_sibling_after(row, depth) <=>
           \E sibling \in After(row) :
               /\ \A r \in UpTo(row, sibling) : met(r)
               /\ Len(sibling.stack) >= depth /\ sibling.stack[depth] # row.stack[depth]
    BY DEF has_sibling_after
  <1>5. \A r : SharesAbove(row, r, depth) <=>
           Len(r.stack) >= depth /\ above(r) = above(row) /\ r.stack[depth] # row.stack[depth]
    BY DEF SharesAbove
  <1>6. \A r \in After(row) : r \in Rows /\ r \in UpTo(row, r)
    BY DEF UpTo, After
  <1> HIDE DEF k, above
  <1>7. ASSUME NEW s \in After(row), \A r \in UpTo(row, s) : met(r)
        PROVE  above(s) = above(row)
    BY <1>6, <1>7
  <1>8. ASSUME NEW s \in After(row), above(s) = above(row), Len(s.stack) >= depth
        PROVE  \A r \in UpTo(row, s) : met(r)
    <2>1. Agree(row.stack, s.stack, k)
      BY <1>2, <1>3, <1>6, <1>8
    <2>2. \A q \in UpTo(row, s) : q \in Rows /\ Agree(row.stack, q.stack, k)
      BY <1>2, <2>1, UpToAgree
    <2>3. \A q \in UpTo(row, s) : k <= Len(q.stack)
      BY <2>2 DEF Agree
    <2> QED  BY <1>1, <1>2, <1>3, <2>2, <2>3
  <1> HIDE DEF met
  <1> QED  BY <1>4, <1>5, <1>7, <1>8

LEMMA RowsDrawn ==
    ASSUME OrderingAssumption, PanesAssumption, RowsOk
    PROVE  TreeDrawn
  <1> SUFFICES ASSUME NEW row \in Rows
               PROVE  /\ has_children(row) <=> \E r \in Rows : IsStrictPrefix(row.stack, r.stack)
                      /\ \A depth \in 2..Len(row.stack) :
                            has_sibling_after(row, depth) <=>
                              \E r \in After(row) : SharesAbove(row, r, depth)
                      /\ \A last \in After(row), r \in Rows :
                            r \in UpTo(row, last) /\ IsPrefix(row.stack, last.stack)
                            => IsPrefix(row.stack, r.stack)
    BY DEF TreeDrawn, SharesAbove
  <1> QED  BY MarkerTells, BranchEnds, SubtreeTogether

-----------------------------------------------------------------------------
(* The cursor                                                              *)

LEMMA RowsFinite ==
    ASSUME LedgerInv
    PROVE  IsFiniteSet(Rows)
  <1> DEFINE bucket == [id \in InRing |-> agg.by_id[id].bucket]
  <1>1. IsFiniteSet(InRing)
    BY DEF LedgerInv, LedgerOk, Booked, Timed, InRing
  <1>2. Rows = {agg.by_id[id].bucket : id \in InRing}
    BY DEF Rows, LedgerInv, LedgerOk, Booked, Recounted, InRing
  <1>3. bucket \in Surjection(InRing, Rows)
    BY <1>2 DEF Surjection
  <1> QED  BY <1>1, <1>3, FS_Surjection

(* Two visible rows never have one position.                               *)
LEMMA OneRowAPlace ==
    ASSUME OrderingAssumption, PanesAssumption, RowsOk, IsFiniteSet(Rows), NEW open
    PROVE  /\ IsFiniteSet(Visible(open))
           /\ \A row \in Visible(open) : Position(open, row) \in Nat
                                         /\ Position(open, row) < Cardinality(Visible(open))
           /\ \A r, row \in Visible(open) : Position(open, r) = Position(open, row) => r = row
  <1> DEFINE V == Visible(open)
             R == RowOrder(V)
  <1>1. V \subseteq Rows
    BY DEF Visible
  <1>2. IsFiniteSet(V)
    BY <1>1, FS_Subset
  <1>3. \A row \in V : BucketOk(row)
    BY <1>1, RowStacks
  <1>4. ASSUME NEW row \in V
        PROVE  Position(open, row) = Cardinality(BelowIn(R, V, row))
    <2>1. {r \in V : RowBefore(r, row)} = BelowIn(R, V, row)
      BY DEF BelowIn, RowOrder
    <2> QED  BY <2>1 DEF Position
  <1> HIDE DEF V
  <1>5. StrictOrder(R, V)
    BY <1>3, RowsInOrder
  <1> HIDE DEF R
  <1>6. /\ \A x \in V : Cardinality(BelowIn(R, V, x)) \in 0..(Cardinality(V) - 1)
        /\ \A x, y \in V : <<x, y>> \in R =>
              Cardinality(BelowIn(R, V, x)) < Cardinality(BelowIn(R, V, y))
    BY <1>2, <1>5, BelowFacts
  <1>7. Cardinality(V) \in Nat
    BY <1>2, FS_CardinalityType
  <1>8. \A row \in V : Position(open, row) \in 0..(Cardinality(V) - 1)
    BY <1>4, <1>6
  <1>9. ASSUME NEW x \in V, NEW y \in V, Position(open, x) = Position(open, y), x # y
        PROVE  FALSE
    <2>1. <<x, y>> \in R \/ <<y, x>> \in R
      BY <1>5, <1>9 DEF StrictOrder
    <2>2. Position(open, x) < Position(open, y) \/ Position(open, y) < Position(open, x)
      BY <1>4, <1>6, <2>1
    <2> QED  BY <1>8, <1>9, <2>2
  <1>10. \A row \in V : Position(open, row) \in Nat /\ Position(open, row) < Cardinality(V)
    BY <1>7, <1>8
  <1> QED  BY <1>2, <1>9, <1>10 DEF V

(* What is expanded in a row's subtree moves neither the row nor those     *)
(* before it.                                                              *)
LEMMA SubtreeMovesNoCursor ==
    ASSUME OrderingAssumption, PanesAssumption, RowsOk, NEW row \in Rows, NEW open, NEW wider,
           \A p \in Seq(Names) : ~IsPrefix(row.stack, p) => (p \in open <=> p \in wider)
    PROVE  /\ row \in Visible(open) <=> row \in Visible(wider)
           /\ Position(open, row) = Position(wider, row)
  <1>1. \A r \in Rows : BucketOk(r) /\ r.stack \in Seq(Names)
    BY RowStacks
  <1>2. ASSUME NEW r \in Rows, r = row \/ RowBefore(r, row)
        PROVE  r \in Visible(open) <=> r \in Visible(wider)
    <2>1. ~RowBefore(row, r)
      <3> DEFINE S == {row, r}
      <3>1. StrictOrder(RowOrder(S), S)
            /\ \A m, n \in S : <<m, n>> \in RowOrder(S) <=> RowBefore(m, n)
        <4>1. \A m \in S : BucketOk(m)
          BY <1>1
        <4> HIDE DEF S
        <4> QED  BY <4>1, RowsInOrder
      <3>2. row \in S /\ r \in S
        OBVIOUS
      <3> HIDE DEF S
      <3> QED  BY <1>2, <3>1, <3>2 DEF StrictOrder
    <2>2. ASSUME NEW p \in Ancestors(r.stack)
          PROVE  p \in Seq(Names) /\ ~IsPrefix(row.stack, p)
      <3>1. p \in Seq(Names) /\ Len(p) < Len(r.stack) /\ Begins(p, r.stack)
        BY <1>1, AncestorFacts
      <3>2. ASSUME IsPrefix(row.stack, p)
            PROVE  FALSE
        <4>1. Begins(row.stack, p)
          BY <1>1, <3>1, <3>2, PrefixIsBegins
        <4>2. Begins(row.stack, r.stack)
          BY <1>1, <3>1, <4>1, BeginsOrder
        <4>3. Len(row.stack) < Len(r.stack)
          BY <1>1, <3>1, <4>1 DEF Begins
        <4> QED  BY <1>1, <2>1, <4>2, <4>3, ExtensionAfter
      <3> QED  BY <3>1, <3>2
    <2>3. \A p \in Ancestors(r.stack) : p \in open <=> p \in wider
      BY <2>2
    <2> QED  BY <2>3 DEF Visible
  <1>3. {r \in Visible(open) : RowBefore(r, row)} = {r \in Visible(wider) : RowBefore(r, row)}
    <2>1. Visible(open) \subseteq Rows /\ Visible(wider) \subseteq Rows
      BY DEF Visible
    <2>2. \A r \in Rows : RowBefore(r, row) => (r \in Visible(open) <=> r \in Visible(wider))
      BY <1>2
    <2> QED  BY <2>1, <2>2
  <1> QED  BY <1>2, <1>3 DEF Position

CursorAt(row) == row \in Visible(expanded') /\ Position(expanded', row) = selected'

PlaceKept(row) ==
    \/ CursorAt(row)
    \/ \E r \in Rows : CursorAt(r) /\ r.stack = Parent(row.stack)
    \/ \A r \in Rows : r.stack # Parent(row.stack)

(* Nothing outside the row's subtree opens or closes.                      *)
LEMMA StaysOnRow ==
    ASSUME OrderingAssumption, PanesAssumption, RowsOk, NEW row \in Rows, OnCursor(row),
           selected' = selected,
           \A p \in Seq(Names) : ~IsPrefix(row.stack, p) => (p \in expanded <=> p \in expanded')
    PROVE  CursorAt(row)
  <1>1. PICK wider : wider = expanded'
    OBVIOUS
  <1>2. \A p \in Seq(Names) : ~IsPrefix(row.stack, p) => (p \in expanded <=> p \in wider)
    BY <1>1
  <1>3. /\ row \in Visible(expanded) <=> row \in Visible(wider)
        /\ Position(expanded, row) = Position(wider, row)
    BY <1>2, SubtreeMovesNoCursor
  <1> QED  BY <1>1, <1>3 DEF OnCursor, CursorAt

LEMMA ExpandKeepsPlace ==
    ASSUME OrderingAssumption, PanesAssumption, RowsOk, NEW row \in Rows,
           ExpandSelected(row) \/ ExpandAllSelected(row)
    PROVE  CursorAt(row)
  <1> DEFINE between(stack) == {p \in Ancestors(stack) : IsPrefix(row.stack, p)}
             opened == UNION {between(r.stack) : r \in {r \in Rows : IsPrefix(row.stack, r.stack)}}
  <1>1. IsPrefix(row.stack, row.stack)
    <2>1. row.stack \in Seq(Names)
      BY RowStacks
    <2> QED  BY <2>1, PrefixIsBegins DEF Begins
  <1>2. OnCursor(row) /\ selected' = selected
    BY DEF ExpandSelected, ExpandAllSelected, OnRow, Expanding
  <1>3. expanded' = expanded \cup {row.stack} \/ expanded' = expanded \cup opened
    BY DEF ExpandSelected, ExpandAllSelected, Expanding
  <1>4. \A p \in opened : IsPrefix(row.stack, p)
    OBVIOUS
  <1> HIDE DEF opened
  <1>5. \A p \in Seq(Names) : ~IsPrefix(row.stack, p) => (p \in expanded <=> p \in expanded')
    BY <1>1, <1>3, <1>4
  <1> QED  BY <1>2, <1>5, StaysOnRow

LEMMA ParentFacts ==
    ASSUME NEW S, NEW stack \in Seq(S), Len(stack) > 1
    PROVE  /\ Parent(stack) \in Seq(S) /\ Len(Parent(stack)) = Len(stack) - 1
           /\ Ancestors(Parent(stack)) \subseteq Ancestors(stack)
           /\ \A p \in Ancestors(Parent(stack)) : ~IsPrefix(Parent(stack), p)
  <1>1. Parent(stack) \in Ancestors(stack)
    BY DEF Parent, Ancestors
  <1>2. Parent(stack) \in Seq(S) /\ Len(Parent(stack)) = Len(stack) - 1
    BY FrontFacts DEF Parent
  <1>3. Ancestors(Parent(stack)) \subseteq Ancestors(stack)
    BY <1>1, AncestorOrder
  <1>4. ASSUME NEW p \in Ancestors(Parent(stack))
        PROVE  ~IsPrefix(Parent(stack), p)
    <2>1. p \in Seq(S) /\ Len(p) < Len(Parent(stack))
      BY <1>2, AncestorFacts
    <2> QED  BY <1>2, <2>1, PrefixIsBegins DEF Begins
  <1> QED  BY <1>2, <1>3, <1>4

(* The parent's row is visible once the parent is closed.                  *)
LEMMA ParentShows ==
    ASSUME RowsOk, NEW row \in Rows, row \in Visible(expanded), Len(row.stack) > 1,
           NEW r \in Rows, r.stack = Parent(row.stack)
    PROVE  r \in Visible(Outside(Parent(row.stack)))
  <1>1. row.stack \in Seq(Names) /\ Ancestors(row.stack) \subseteq expanded
    BY RowStacks DEF Visible
  <1>2. /\ Ancestors(r.stack) \subseteq Ancestors(row.stack)
        /\ \A p \in Ancestors(r.stack) : ~IsPrefix(Parent(row.stack), p)
    BY <1>1, ParentFacts
  <1> QED  BY <1>1, <1>2 DEF Visible, Outside

LEMMA CollapseKeepsPlace ==
    ASSUME OrderingAssumption, PanesAssumption, RowsOk, IsFiniteSet(Rows), NEW row \in Rows,
           CollapseSelected(row)
    PROVE  PlaceKept(row)
  <1> DEFINE open == Outside(Parent(row.stack))
             parents == {r \in Visible(open) : r.stack = Parent(row.stack)}
             places == {Position(open, r) : r \in parents}
  <1>1. OnCursor(row)
    BY DEF CollapseSelected, OnRow
  <1>2. CASE Expanding(Outside(row.stack))
    <2>1. expanded' = Outside(row.stack) /\ selected' = selected
      BY <1>2 DEF Expanding
    <2>2. \A p \in Seq(Names) : ~IsPrefix(row.stack, p) => (p \in expanded <=> p \in expanded')
      BY <2>1 DEF Outside
    <2> QED  BY <1>1, <2>1, <2>2, StaysOnRow DEF PlaceKept
  <1>3. CASE /\ Len(row.stack) > 1 /\ expanded' = open
             /\ selected' = IF parents = {} THEN selected ELSE Min(places)
    <2>1. CASE parents = {}
      <3>1. \A r \in Rows : r.stack # Parent(row.stack)
        BY <1>1, <1>3, <2>1, ParentShows DEF OnCursor
      <3> QED  BY <3>1 DEF PlaceKept
    <2>2. CASE parents # {}
      <3>1. places \subseteq Nat /\ places # {}
        BY <2>2, OneRowAPlace
      <3>2. \E n \in places : \A m \in places : n <= m
        BY <3>1, LeastNatural
      <3> HIDE DEF places
      <3>3. Min(places) \in places
        BY <3>2 DEF Min
      <3> USE DEF places
      <3>4. PICK r \in parents : Position(open, r) = Min(places)
        BY <3>3
      <3>5. r \in Rows
        BY DEF Visible
      <3>6. CursorAt(r) /\ r.stack = Parent(row.stack)
        BY <1>3, <2>2, <3>4, Zenon DEF CursorAt
      <3> QED  BY <3>5, <3>6 DEF PlaceKept
    <2> QED  BY <2>1, <2>2
  <1>4. \/ Expanding(Outside(row.stack))
        \/ /\ Len(row.stack) > 1 /\ expanded' = open
           /\ selected' = IF parents = {} THEN selected ELSE Min(places)
    BY DEF CollapseSelected
  <1> QED  BY <1>2, <1>3, <1>4

-----------------------------------------------------------------------------
(* The inductive invariant                                                 *)

ExpandedOk == expanded \subseteq Seq(Names) /\ ExpandedIsClosed

ExploreInv == AggInv /\ LedgerInv /\ StacksOk /\ RowsOk /\ ExpandedOk

(* What is outside the subtree of a stack is closed.                       *)
LEMMA OutsideClosed ==
    ASSUME ExpandedOk, NEW stack \in Seq(Names), expanded' = Outside(stack)
    PROVE  ExpandedOk'
  <1>1. \A s \in expanded : s \in Seq(Names) /\ Ancestors(s) \subseteq expanded
    BY DEF ExpandedOk, ExpandedIsClosed
  <1>2. \A s \in Outside(stack) : s \in expanded /\ ~IsPrefix(stack, s)
    BY DEF Outside
  <1>3. ASSUME NEW s \in Outside(stack), NEW p \in Ancestors(s)
        PROVE  p \in Outside(stack)
    <2>1. p \in expanded
      BY <1>1, <1>2
    <2>2. ~IsPrefix(stack, p)
      BY <1>1, <1>2, AncestorOrder
    <2> QED  BY <2>1, <2>2 DEF Outside
  <1> QED  BY <1>1, <1>2, <1>3 DEF ExpandedOk, ExpandedIsClosed

(* The row at the cursor is visible.                                       *)
LEMMA RowFacts ==
    ASSUME StacksOk, NEW row \in Rows, OnRow(row)
    PROVE  row.stack \in Seq(Names) /\ Ancestors(row.stack) \subseteq expanded
  BY DEF StacksOk, Stacks, Rows, OnRow, OnCursor, Visible

LEMMA ExpandStep ==
    ASSUME StacksOk, ExpandedOk, NEW row \in Rows, ExpandSelected(row)
    PROVE  ExpandedOk'
  <1>1. expanded' = expanded \cup {row.stack}
    BY DEF ExpandSelected, Expanding
  <1>2. row.stack \in Seq(Names) /\ Ancestors(row.stack) \subseteq expanded
    BY RowFacts DEF ExpandSelected
  <1> QED  BY <1>1, <1>2 DEF ExpandedOk, ExpandedIsClosed

LEMMA ExpandAllStep ==
    ASSUME StacksOk, ExpandedOk, NEW row \in Rows, ExpandAllSelected(row)
    PROVE  ExpandedOk'
  <1> DEFINE below == {r \in Rows : IsPrefix(row.stack, r.stack)}
             between(stack) == {p \in Ancestors(stack) : IsPrefix(row.stack, p)}
             opened == UNION {between(r.stack) : r \in below}
  <1>1. expanded' = expanded \cup opened
    BY DEF ExpandAllSelected, Expanding
  <1>2. row.stack \in Seq(Names) /\ Ancestors(row.stack) \subseteq expanded
    BY RowFacts DEF ExpandAllSelected
  <1>3. ASSUME NEW p \in opened
        PROVE  p \in Seq(Names) /\ Ancestors(p) \subseteq expanded'
    <2>1. PICK r \in below : p \in between(r.stack)
      OBVIOUS
    <2>2. r.stack \in Seq(Names) /\ p \in Ancestors(r.stack) /\ IsPrefix(row.stack, r.stack)
      BY <2>1 DEF StacksOk, Stacks, Rows
    <2>3. p \in Seq(Names) /\ Ancestors(p) \subseteq Ancestors(r.stack)
      BY <2>2, AncestorOrder
    <2>4. ASSUME NEW q \in Ancestors(p)
          PROVE  q \in expanded'
      <3>1. CASE IsPrefix(row.stack, q)
        <4>1. q \in between(r.stack)
          BY <2>3, <2>4, <3>1
        <4> QED  BY <1>1, <4>1
      <3>2. CASE ~IsPrefix(row.stack, q)
        <4>1. q \in Ancestors(row.stack)
          BY <1>2, <2>2, <2>3, <2>4, <3>2, AncestorOrder
        <4> QED  BY <1>1, <1>2, <4>1
      <3> QED  BY <3>1, <3>2
    <2> QED  BY <2>3, <2>4
  <1>4. \A s \in expanded : s \in Seq(Names) /\ Ancestors(s) \subseteq expanded'
    BY <1>1 DEF ExpandedOk, ExpandedIsClosed
  <1> HIDE DEF opened
  <1> QED  BY <1>1, <1>3, <1>4 DEF ExpandedOk, ExpandedIsClosed

LEMMA CollapseStep ==
    ASSUME StacksOk, ExpandedOk, NEW row \in Rows, CollapseSelected(row)
    PROVE  ExpandedOk'
  <1>1. row.stack \in Seq(Names)
    BY RowFacts DEF CollapseSelected
  <1>2. \/ expanded' = Outside(row.stack)
        \/ Len(row.stack) > 1 /\ expanded' = Outside(Parent(row.stack))
    BY DEF CollapseSelected, Expanding
  <1>3. Len(row.stack) > 1 => Parent(row.stack) \in Seq(Names)
    BY <1>1 DEF Parent
  <1> QED  BY <1>1, <1>2, <1>3, OutsideClosed

(* A change of the split keys closes every row.                            *)
LEMMA ToggleStep ==
    ASSUME ToggleSplitSelected
    PROVE  ExpandedOk' /\ \E keys : set_split_keys(keys)
  <1>1. expanded' = {} /\ \E keys : set_split_keys(keys)
    BY DEF ToggleSplitSelected
  <1> QED  BY <1>1 DEF ExpandedOk, ExpandedIsClosed

LEMMA ExploreInitInv ==
    ASSUME AggregatorAssumption, ExploreInit
    PROVE  ExploreInv
  <1>1. AggInv
    BY InitInv DEF ExploreInit
  <1>2. StacksOk
    BY DEF ExploreInit, AggInit, StacksOk, InRing
  <1>3. ExpandedOk
    BY DEF ExploreInit, PanesInit, ExpandedOk, ExpandedIsClosed
  <1>4. LedgerInv
    BY InitLedger DEF ExploreInit
  <1>5. RowsOk
    BY DEF ExploreInit, AggInit, RowsOk, InRing
  <1> QED  BY <1>1, <1>2, <1>3, <1>4, <1>5 DEF ExploreInv

(* A step is one of the aggregator's or none for it, and one of the arms   *)
(* that open and close rows or none for what is expanded.                  *)
LEMMA ExploreSteps ==
    ASSUME [ExploreNext]_exploreVars
    PROVE  /\ \/ UNCHANGED aggVars
              \/ \E span \in Spans : absorb(span)
              \/ ParkStep \/ InsertStep \/ RestorePending
              \/ \E keys : set_split_keys(keys)
           /\ \/ UNCHANGED expanded
              \/ ToggleSplitSelected
              \/ \E row \in Rows : \/ ExpandSelected(row) \/ ExpandAllSelected(row)
                                   \/ CollapseSelected(row)
  <1>1. CASE UNCHANGED exploreVars
    BY <1>1 DEF exploreVars, panesVars
  <1>2. CASE AggStep
    BY <1>2 DEF AggStep, panesVars
  <1>3. CASE SelectUp \/ SelectDown \/ SwitchFocus
    BY <1>3 DEF SelectUp, SelectDown, MoveTo, SwitchFocus
  <1>4. CASE ToggleSplitSelected
    BY <1>4, ToggleStep
  <1>5. ASSUME NEW row \in Rows,
               ExpandSelected(row) \/ ExpandAllSelected(row) \/ CollapseSelected(row)
        PROVE  UNCHANGED aggVars
    BY <1>5 DEF ExpandSelected, ExpandAllSelected, CollapseSelected, Expanding
  <1>6. CASE ExploreKey
    BY <1>6 DEF ExploreKey, Show, InList, InTree, panesVars,
                EnterExplore, ExitExplore, ExploreSelectUp, ExploreSelectDown,
                ExploreSort, ExploreInvertSort, BeginExploreSearch, ExploreSearchChar,
                ExploreSearchBackspace, ExploreSearchCancel, ExploreSearchCommit,
                ExploreOpenTrace, ExitTraceDetail, TraceDetailSelectUp,
                TraceDetailSelectDown, TraceDetailExpand, TraceDetailCollapse
  <1> QED  BY <1>1, <1>2, <1>3, <1>4, <1>5, <1>6 DEF ExploreNext, TableKey

LEMMA ExploreNextInv ==
    ASSUME AggregatorAssumption, PanesAssumption, ExploreInv, [ExploreNext]_exploreVars
    PROVE  ExploreInv'
  <1>1. AggInv'
    BY ExploreSteps, NextInv, AbsorbInv, ParkInv, InsertInv, SplitKeysInv, RestoreInv
       DEF ExploreInv
  <1>2. StacksOk'
    BY ExploreSteps, StacksStep DEF ExploreInv
  <1>3. ExpandedOk'
    <2>1. CASE UNCHANGED expanded
      BY <2>1 DEF ExploreInv, ExpandedOk, ExpandedIsClosed
    <2>2. CASE ToggleSplitSelected
      BY <2>2, ToggleStep
    <2>3. ASSUME NEW row \in Rows,
                 ExpandSelected(row) \/ ExpandAllSelected(row) \/ CollapseSelected(row)
          PROVE  ExpandedOk'
      BY <2>3, ExpandStep, ExpandAllStep, CollapseStep DEF ExploreInv
    <2> QED  BY <2>1, <2>2, <2>3, ExploreSteps
  <1>4. LedgerInv'
    <2>1. CASE UNCHANGED aggVars
      BY <2>1, NextLedger DEF ExploreInv
    <2> QED  BY <2>1, ExploreSteps, AbsorbLedger, ParkLedger, InsertLedger, SplitKeysLedger,
                RestoreLedger DEF ExploreInv
  <1>5. RowsOk'
    BY ExploreSteps, RowsStep DEF ExploreInv
  <1> QED  BY <1>1, <1>2, <1>3, <1>4, <1>5 DEF ExploreInv

(* The arms that open and close rows act on the row at the cursor, and     *)
(* there is one such row.                                                  *)
LEMMA StepKeepsPlace ==
    ASSUME OrderingAssumption, PanesAssumption, ExploreInv, [ExploreNext]_exploreVars,
           NEW row \in Rows, OnRow(row), expanded' # expanded
    PROVE  PlaceKept(row)
  <1>1. RowsOk /\ IsFiniteSet(Rows)
    BY RowsFinite DEF ExploreInv
  <1>2. PICK r \in Rows : ExpandSelected(r) \/ ExpandAllSelected(r) \/ CollapseSelected(r)
    <2>1. ~ToggleSplitSelected
      BY DEF OnRow, ToggleSplitSelected
    <2> QED  BY <2>1, ExploreSteps
  <1>3. OnCursor(r) /\ OnCursor(row)
    BY <1>2 DEF ExpandSelected, ExpandAllSelected, CollapseSelected, OnRow
  <1>4. r = row
    BY <1>1, <1>3, OneRowAPlace DEF OnCursor
  <1>5. CASE ExpandSelected(row) \/ ExpandAllSelected(row)
    BY <1>1, <1>5, ExpandKeepsPlace DEF PlaceKept
  <1>6. CASE CollapseSelected(row)
    BY <1>1, <1>6, CollapseKeepsPlace
  <1> QED  BY <1>2, <1>4, <1>5, <1>6

-----------------------------------------------------------------------------
(* The cursor while nothing has to leave the ring                          *)

(* While the buckets are rebuilt no key is taken, and the cursor is at the *)
(* top, where the change of the split keys put it.                         *)
CursorOk ==
    /\ selected \in Nat
    /\ saved # Nothing => selected = 0
    /\ Roomy /\ saved = Nothing => selected = 0 \/ selected < Cardinality(Visible(expanded))

CursorInv == RoomInv /\ CursorOk

(* A row that is not at the top level has its parent's row.                *)
LEMMA ParentHasRow ==
    ASSUME LedgerInv, StacksOk, PathsOk, NEW row \in Rows, Len(row.stack) > 1
    PROVE  \E r \in Rows : r.stack = Parent(row.stack)
  <1>1. /\ Rows = {agg.by_id[id].bucket : id \in InRing}
        /\ \A id \in InRing : agg.by_id[id].bucket.stack \in Seq(Names)
    BY DEF Rows, LedgerInv, LedgerOk, Booked, Recounted, InRing, StacksOk, Stacks
  <1>2. PICK id \in InRing : row = agg.by_id[id].bucket
    BY <1>1
  <1>3. /\ ParentOf(id) \in InRing \cup {NoParent}
        /\ row.stack = Append(HigherStack(id), agg.by_id[id].span.name)
    BY <1>2 DEF PathsOk
  <1>4. HigherStack(id) \in Seq(Names)
    BY <1>1, <1>3 DEF HigherStack
  <1>5. Parent(row.stack) = HigherStack(id)
    BY <1>3, <1>4 DEF Parent
  <1>6. ParentOf(id) # NoParent
    BY <1>3 DEF HigherStack
  <1>7. HigherStack(id) = agg.by_id[ParentOf(id)].bucket.stack /\ ParentOf(id) \in InRing
    BY <1>3, <1>6 DEF HigherStack
  <1> QED  BY <1>1, <1>5, <1>7

(* The rows only grow.                                                     *)
LEMMA RowsGrow ==
    ASSUME AggregatorAssumption, AggInv, LedgerInv, Roomy, saved = Nothing, AggStep
    PROVE  Rows \subseteq Rows' /\ saved' = Nothing
  <1>1. CASE \E span \in Spans : absorb(span)
    BY <1>1 DEF absorb, Rows
  <1>2. CASE ParkStep
    BY <1>2, NextCall, ParkFacts DEF ParkStep, ParentMissing, AggInv, InRing, Rows
  <1>3. CASE InsertStep
    BY <1>3, RoomyInsert DEF Joins, InsertStep, Rows
  <1>4. CASE RestorePending
    BY <1>4 DEF RestorePending
  <1> QED  BY <1>1, <1>2, <1>3, <1>4 DEF AggStep

(* A step is one of the aggregator's, which no cursor sees, or of a key on *)
(* the aggregator at rest.                                                 *)
LEMMA CursorSteps ==
    ASSUME [ExploreNext]_exploreVars
    PROVE  \/ AggStep
           \/ UNCHANGED <<aggVars, selected, expanded>>
           \/ AtRest /\ (SelectUp \/ SelectDown \/ ToggleSplitSelected)
           \/ AtRest /\ \E row \in Rows : \/ ExpandSelected(row) \/ ExpandAllSelected(row)
                                          \/ CollapseSelected(row)
  <1>1. CASE UNCHANGED exploreVars
    BY <1>1 DEF exploreVars, panesVars
  <1>2. CASE TableKey
    BY <1>2 DEF TableKey, SelectUp, SelectDown, SwitchFocus, ToggleSplitSelected, ExpandSelected,
                ExpandAllSelected, CollapseSelected, OnRow, Press
  <1>3. CASE ExploreKey
    BY <1>3 DEF ExploreKey, Show, InList, InTree, panesVars,
                EnterExplore, ExitExplore, ExploreSelectUp, ExploreSelectDown,
                ExploreSort, ExploreInvertSort, BeginExploreSearch, ExploreSearchChar,
                ExploreSearchBackspace, ExploreSearchCancel, ExploreSearchCommit,
                ExploreOpenTrace, ExitTraceDetail, TraceDetailSelectUp,
                TraceDetailSelectDown, TraceDetailExpand, TraceDetailCollapse
  <1> QED  BY <1>1, <1>2, <1>3 DEF ExploreNext

LEMMA MinOfTwo ==
    ASSUME NEW m \in Nat, NEW n \in Nat
    PROVE  Min({m, n}) \in {m, n} /\ Min({m, n}) <= m /\ Min({m, n}) <= n
  <1>1. \E least \in {m, n} : \A other \in {m, n} : least <= other
    OBVIOUS
  <1> QED  BY <1>1 DEF Min

(* Up and down stay between the first row and the last.                    *)
LEMMA MoveStaysOn ==
    ASSUME CursorOk, AtRest, IsFiniteSet(Visible(expanded)), SelectUp \/ SelectDown
    PROVE  CursorOk'
  <1> DEFINE size == Cardinality(Visible(expanded))
  <1>1. size \in Nat /\ selected \in Nat
    BY FS_CardinalityType DEF CursorOk
  <1>2. UNCHANGED aggVars /\ UNCHANGED expanded
    BY DEF SelectUp, SelectDown, MoveTo
  <1>3. \/ UNCHANGED selected
        \/ selected' = IF selected > 0 THEN selected - 1 ELSE 0
        \/ size > 0 /\ selected' = Min({selected + 1, size - 1})
    BY DEF SelectUp, SelectDown, MoveTo, current_selected, current_pane_len
  <1>4. saved = Nothing /\ saved' = saved
    BY <1>2 DEF AtRest, aggVars
  <1>5. Visible(expanded)' = Visible(expanded) /\ (Roomy' <=> Roomy)
    BY <1>2 DEF aggVars, Visible, Rows, Roomy
  <1>6. size > 0 => Min({selected + 1, size - 1}) \in 0..(size - 1)
    <2>1. CASE size > 0
      <3>1. selected + 1 \in Nat /\ size - 1 \in Nat
        BY <1>1, <2>1
      <3> HIDE DEF size
      <3>2. Min({selected + 1, size - 1}) \in Nat /\ Min({selected + 1, size - 1}) <= size - 1
        BY <3>1, MinOfTwo
      <3> QED  BY <1>1, <3>1, <3>2
    <2> QED  BY <2>1
  <1>7. Cardinality(Visible(expanded))' = size
    BY <1>5
  <1> HIDE DEF size
  <1>8. selected' \in Nat /\ (Roomy => selected' = 0 \/ selected' < size)
    <2>1. CASE UNCHANGED selected
      BY <1>1, <1>4, <2>1 DEF CursorOk, size
    <2>2. CASE selected' = IF selected > 0 THEN selected - 1 ELSE 0
      BY <1>1, <1>4, <2>2 DEF CursorOk, size
    <2>3. CASE size > 0 /\ selected' = Min({selected + 1, size - 1})
      BY <1>1, <1>6, <2>3
    <2> QED  BY <1>3, <2>1, <2>2, <2>3
  <1> QED  BY <1>4, <1>5, <1>7, <1>8 DEF CursorOk

(* Where rows open and close, the cursor keeps its place, which is a row's.*)
LEMMA OpeningStaysOn ==
    ASSUME OrderingAssumption, PanesAssumption, ExploreInv, CursorInv, AtRest, NEW row \in Rows,
           ExpandSelected(row) \/ ExpandAllSelected(row) \/ CollapseSelected(row)
    PROVE  CursorOk'
  <1>1. RowsOk /\ IsFiniteSet(Rows) /\ LedgerInv /\ StacksOk
    BY RowsFinite DEF ExploreInv
  <1>2. PlaceKept(row)
    BY <1>1, ExpandKeepsPlace, CollapseKeepsPlace DEF PlaceKept
  <1>3. UNCHANGED aggVars
    BY DEF ExpandSelected, ExpandAllSelected, CollapseSelected, Expanding
  <1>4. saved = Nothing /\ saved' = saved /\ (Roomy' <=> Roomy) /\ Rows' = Rows
    BY <1>3 DEF AtRest, aggVars, Roomy, Rows
  <1>5. PICK open : open = expanded'
    OBVIOUS
  <1>6. Visible(expanded)' = Visible(open)
    BY <1>4, <1>5 DEF Visible
  <1>7. ASSUME NEW r \in Rows, CursorAt(r)
        PROVE  selected' \in Nat /\ selected' < Cardinality(Visible(open))
    BY <1>1, <1>5, <1>7, OneRowAPlace DEF CursorAt
  <1>8. \/ selected' = selected
        \/ \E r \in Rows : CursorAt(r)
    <2>1. CASE ExpandSelected(row) \/ ExpandAllSelected(row)
      BY <2>1 DEF ExpandSelected, ExpandAllSelected, Expanding
    <2>2. CASE CollapseSelected(row)
      <3> DEFINE shut == Outside(Parent(row.stack))
                 parents == {r \in Visible(shut) : r.stack = Parent(row.stack)}
      <3>1. CASE selected' = selected
        BY <3>1
      <3>2. CASE parents # {}
        <4>1. \E r \in Rows : r.stack = Parent(row.stack)
          BY <3>2 DEF Visible
        <4> QED  BY <1>2, <4>1 DEF PlaceKept
      <3> QED  BY <2>2, <3>1, <3>2 DEF CollapseSelected, Expanding
    <2> QED  BY <2>1, <2>2
  <1>9. Roomy => \E r \in Rows : CursorAt(r)
    <2>1. CASE CollapseSelected(row) /\ row.stack \notin expanded /\ Roomy
      <3>1. PathsOk
        BY <2>1 DEF CursorInv, RoomInv, RoomyOk
      <3>2. Len(row.stack) > 1
        BY <2>1 DEF CollapseSelected
      <3>3. \E r \in Rows : r.stack = Parent(row.stack)
        BY <1>1, <3>1, <3>2, ParentHasRow
      <3> QED  BY <1>2, <3>3 DEF PlaceKept
    <2>2. CASE CollapseSelected(row) /\ row.stack \in expanded
      <3>1. OnCursor(row) /\ expanded' = Outside(row.stack) /\ selected' = selected
        BY <2>2 DEF CollapseSelected, OnRow, Expanding
      <3>2. \A p \in Seq(Names) : ~IsPrefix(row.stack, p) => (p \in expanded <=> p \in expanded')
        BY <3>1 DEF Outside
      <3> QED  BY <1>1, <3>1, <3>2, StaysOnRow
    <2>3. CASE ExpandSelected(row) \/ ExpandAllSelected(row)
      BY <1>1, <2>3, ExpandKeepsPlace
    <2> QED  BY <2>1, <2>2, <2>3
  <1> QED  BY <1>4, <1>6, <1>7, <1>8, <1>9 DEF CursorInv, CursorOk

(* A row that comes does not make the table shorter.                       *)
LEMMA AggStaysOn ==
    ASSUME AggregatorAssumption, PanesAssumption, ExploreInv, CursorInv, AggStep
    PROVE  CursorOk'
  <1>1. /\ AggInv /\ LedgerInv /\ RowsOk
        /\ UNCHANGED <<selected, expanded>>
    BY DEF ExploreInv, AggStep, panesVars
  <1>2. [AggNext]_aggVars
    BY DEF AggStep, AggNext
  <1>3. Roomy' => Roomy
    BY <1>1, <1>2, OnlyGrows
  <1>4. CASE saved # Nothing
    BY <1>1, <1>4 DEF CursorInv, CursorOk
  <1>5. CASE ~Roomy /\ saved = Nothing
    <2>1. saved' = Nothing
      BY <1>5 DEF AggStep, absorb, ParkStep, InsertStep, RestorePending
    <2> QED  BY <1>1, <1>3, <1>5, <2>1 DEF CursorInv, CursorOk
  <1>6. CASE Roomy /\ saved = Nothing
    <2>1. Rows \subseteq Rows' /\ saved' = Nothing
      BY <1>1, <1>6, RowsGrow
    <2>2. Visible(expanded) \subseteq Visible(expanded)'
      BY <1>1, <2>1 DEF Visible
    <2>3. IsFiniteSet(Rows)'
      <3>1. LedgerInv'
        BY <1>1, AbsorbLedger, ParkLedger, InsertLedger, RestoreLedger DEF AggStep
      <3> QED  BY <3>1, RowsFinite, PTL
    <2>4. IsFiniteSet(Visible(expanded)')
      <3>1. Visible(expanded)' \subseteq Rows'
        BY DEF Visible
      <3> QED  BY <2>3, <3>1, FS_Subset
    <2>5. /\ Cardinality(Visible(expanded)) \in Nat /\ Cardinality(Visible(expanded)') \in Nat
          /\ Cardinality(Visible(expanded)) <= Cardinality(Visible(expanded)')
      BY <2>2, <2>4, FS_Subset, FS_CardinalityType
    <2> QED  BY <1>1, <1>6, <2>1, <2>5 DEF CursorInv, CursorOk
  <1> QED  BY <1>4, <1>5, <1>6

LEMMA ExploreInitCursor ==
    ASSUME ExploreInit
    PROVE  CursorInv
  <1>1. RoomInv
    BY InitRoom DEF ExploreInit
  <1> QED  BY <1>1 DEF CursorInv, CursorOk, ExploreInit, PanesInit, AggInit

LEMMA ExploreNextCursor ==
    ASSUME AggregatorAssumption, OrderingAssumption, PanesAssumption, ExploreInv, CursorInv,
           [ExploreNext]_exploreVars
    PROVE  CursorInv'
  <1>1. RoomInv'
    <2>1. CASE \E keys : set_split_keys(keys)
      BY <2>1, SplitRoom DEF ExploreInv, CursorInv
    <2>2. CASE ~\E keys : set_split_keys(keys)
      <3>1. [AggNext]_aggVars
        BY <2>2, ExploreSteps DEF AggNext
      <3> QED  BY <3>1, NextRoom DEF ExploreInv, CursorInv
    <2> QED  BY <2>1, <2>2
  <1>2. CursorOk'
    <2>1. CASE AggStep
      BY <2>1, AggStaysOn
    <2>2. CASE UNCHANGED <<aggVars, selected, expanded>>
      BY <2>2 DEF CursorInv, CursorOk, aggVars, Roomy, Visible, Rows
    <2>3. CASE AtRest /\ (SelectUp \/ SelectDown)
      <3>1. IsFiniteSet(Visible(expanded))
        BY RowsFinite, OneRowAPlace DEF ExploreInv
      <3> QED  BY <2>3, <3>1, MoveStaysOn DEF CursorInv
    <2>4. CASE ToggleSplitSelected
      BY <2>4 DEF ToggleSplitSelected, CursorOk
    <2>5. ASSUME NEW row \in Rows, AtRest,
                 ExpandSelected(row) \/ ExpandAllSelected(row) \/ CollapseSelected(row)
          PROVE  CursorOk'
      BY <2>5, OpeningStaysOn
    <2> QED  BY <2>1, <2>2, <2>3, <2>4, <2>5, CursorSteps
  <1> QED  BY <1>1, <1>2 DEF CursorInv

-----------------------------------------------------------------------------
(* Theorems                                                                *)

(* Under any view the aggregator's invariant holds, every stack is one of  *)
(* names, and what is expanded is closed under ancestors.                  *)
THEOREM ExploreInvariant == ExploreSpec => []ExploreInv
  <1>1. ExploreInit => ExploreInv
    BY AggregatorAssumption, ExploreInitInv
  <1>2. ExploreInv /\ [ExploreNext]_exploreVars => ExploreInv'
    BY AggregatorAssumption, PanesAssumption, ExploreNextInv
  <1> QED  BY <1>1, <1>2, PTL DEF ExploreSpec

(* Whatever rows come and go while the user opens and closes them, no      *)
(* stack is expanded below one that is not.                                *)
THEOREM ExpandedClosed == ExploreSpec => []ExpandedIsClosed
  <1>1. ExploreInv => ExpandedIsClosed
    BY DEF ExploreInv, ExpandedOk
  <1> QED  BY <1>1, ExploreInvariant, PTL

(* The scans of neighbouring rows see the whole tree of stacks: the marker *)
(* of a row, the ends of the branches and the extent of a subtree are      *)
(* right for any names, splits and rows (state.rs:407-411).                *)
THEOREM TreeIsDrawn == ExploreSpec => []TreeDrawn
  <1>1. ExploreInv => TreeDrawn
    BY OrderingAssumption, PanesAssumption, RowsDrawn DEF ExploreInv
  <1> QED  BY <1>1, ExploreInvariant, PTL

(* Opening and closing leaves the cursor on its bucket, or takes it to the *)
(* parent's row where there is one, for any names, splits and rows         *)
(* (core.rs:387-442).                                                      *)
THEOREM PlaceIsKept == ExploreSpec => KeepsPlace
  <1>1. ASSUME ExploreInv, [ExploreNext]_exploreVars
        PROVE  [\A row \in Rows : OnRow(row) /\ expanded' # expanded => PlaceKept(row)]_panesVars
    BY <1>1, OrderingAssumption, PanesAssumption, StepKeepsPlace
  <1>2. ExploreInv /\ [ExploreNext]_exploreVars =>
            [LET cursor(row) == row \in Visible(expanded') /\ Position(expanded', row) = selected'
             IN  \A row \in Rows :
                    OnRow(row) /\ expanded' # expanded =>
                        \/ cursor(row)
                        \/ \E r \in Rows : cursor(r) /\ r.stack = Parent(row.stack)
                        \/ \A r \in Rows : r.stack # Parent(row.stack)]_panesVars
    BY <1>1 DEF PlaceKept, CursorAt
  <1> QED  BY <1>2, ExploreInvariant, PTL DEF ExploreSpec, KeepsPlace

(* While nothing had to leave the ring, no key, span or change of the      *)
(* split keys takes the cursor off the rows (core.rs:387-442).             *)
THEOREM CursorStaysOnRow == ExploreSpec => []CursorOnRow
  <1>1. ExploreInit => CursorInv
    BY ExploreInitCursor
  <1>2. ExploreInv /\ CursorInv /\ [ExploreNext]_exploreVars => CursorInv'
    BY AggregatorAssumption, OrderingAssumption, PanesAssumption, ExploreNextCursor
  <1>3. ExploreInv /\ CursorInv => CursorOnRow
    <2>1. ASSUME ExploreInv, ~Evicted
          PROVE  Roomy
      <3>1. agg.history_budget \in Nat /\ Cardinality(received) \in Nat
        BY <2>1, AggregatorAssumption, ReceivedFinite
           DEF ExploreInv, AggInv, AggOk, IsAggregator
      <3> QED  BY <2>1, <3>1 DEF Evicted, Roomy
    <2> QED  BY <2>1 DEF CursorInv, CursorOk, CursorOnRow, AtRest
  <1> QED  BY <1>1, <1>2, <1>3, ExploreInvariant, PTL DEF ExploreSpec

=============================================================================
