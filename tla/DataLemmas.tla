----------------------------- MODULE DataLemmas -----------------------------
(***************************************************************************)
(* Lemmas about numbers, sequences and folds over finite sets that several *)
(* proofs cite.                                                            *)
(***************************************************************************)
EXTENDS Integers, Sequences, SequencesExt, FiniteSetTheorems, TLAPS

-----------------------------------------------------------------------------
(* Induction, on a set instead of a formula                                *)

LEMMA LeastNatural ==
    ASSUME NEW T, T \subseteq Nat, T # {}
    PROVE  \E n \in T : \A m \in T : n <= m
  <1> DEFINE R == OpToRel(<, Nat)
  <1>1. IsWellFoundedOn(R, Nat)
    BY NatLessThanWellFounded
  <1> HIDE DEF R
  <1>2. PICK n \in T : \A m \in T : <<m, n>> \notin R
    BY <1>1, WFMin
  <1> USE DEF R
  <1>3. \A m \in T : ~(m < n)
    BY <1>2 DEF OpToRel
  <1> QED  BY <1>3

LEMMA HighestOf ==
    ASSUME NEW n \in Nat, NEW T, T \subseteq 1..n, T # {}
    PROVE  \E m \in T : \A i \in T : m >= i
  <1> DEFINE U == {n - i : i \in T}
  <1>0. \A i \in T : i \in Int /\ n - i \in Nat
    OBVIOUS
  <1>1. U \subseteq Nat /\ U # {}
    BY <1>0
  <1>2. PICK u \in U : \A m \in U : u <= m
    BY <1>1, LeastNatural
  <1>3. PICK m \in T : u = n - m
    OBVIOUS
  <1>4. \A i \in T : n - i \in U
    OBVIOUS
  <1> HIDE DEF U
  <1>5. \A i \in T : n - m <= n - i
    BY <1>2, <1>3, <1>4
  <1> QED  BY <1>0, <1>5

LEMMA Induction ==
    ASSUME NEW T, 0 \in T, \A n \in Nat : n \in T => n + 1 \in T
    PROVE  Nat \subseteq T
  <1> SUFFICES ASSUME Nat \ T # {}
               PROVE  FALSE
    OBVIOUS
  <1>1. PICK n \in Nat \ T : \A m \in Nat \ T : n <= m
    BY LeastNatural
  <1>2. n - 1 \in Nat /\ n - 1 \in T /\ (n - 1) + 1 = n
    BY <1>1
  <1> QED  BY <1>2

-----------------------------------------------------------------------------
(* Sequences without repetition                                            *)

LEMMA TailFacts ==
    ASSUME NEW S, NEW s \in Seq(S), s # <<>>
    PROVE  /\ Head(s) \in S /\ Head(s) \in ToSet(s)
           /\ Tail(s) \in Seq(S) /\ ToSet(Tail(s)) \subseteq ToSet(s)
           /\ IsInjective(s) => /\ IsInjective(Tail(s))
                                /\ ToSet(Tail(s)) = ToSet(s) \ {Head(s)}
  <1>1. /\ Len(s) \in Nat \ {0} /\ Head(s) = s[1] /\ DOMAIN s = 1..Len(s)
        /\ Tail(s) \in Seq(S) /\ DOMAIN Tail(s) = 1..(Len(s) - 1)
        /\ \A i \in 1..(Len(s) - 1) : Tail(s)[i] = s[i + 1]
        /\ \A i \in 1..Len(s) : s[i] \in S
    OBVIOUS
  <1>2. Head(s) \in S /\ Head(s) \in ToSet(s)
    BY <1>1 DEF ToSet
  <1>3. ToSet(Tail(s)) = {s[i] : i \in 2..Len(s)}
    <2>1. \A i \in 1..(Len(s) - 1) : i + 1 \in 2..Len(s)
      BY <1>1
    <2>2. \A i \in 2..Len(s) : i - 1 \in 1..(Len(s) - 1) /\ (i - 1) + 1 = i
      BY <1>1
    <2>3. ToSet(Tail(s)) = {s[i + 1] : i \in 1..(Len(s) - 1)}
      BY <1>1 DEF ToSet
    <2>4. ASSUME NEW x
          PROVE  x \in {s[i + 1] : i \in 1..(Len(s) - 1)} <=> x \in {s[i] : i \in 2..Len(s)}
      BY ONLY <2>1, <2>2
    <2> QED  BY ONLY <2>3, <2>4
  <1>4. ToSet(Tail(s)) \subseteq ToSet(s)
    BY <1>1, <1>3 DEF ToSet
  <1>5. ASSUME IsInjective(s)
        PROVE  IsInjective(Tail(s)) /\ ToSet(Tail(s)) = ToSet(s) \ {Head(s)}
    <2>1. IsInjective(Tail(s))
      BY <1>1, <1>5 DEF IsInjective
    <2>2. ToSet(s) = {s[1]} \cup {s[i] : i \in 2..Len(s)}
      BY <1>1 DEF ToSet
    <2>3. s[1] \notin {s[i] : i \in 2..Len(s)}
      BY <1>1, <1>5 DEF IsInjective
    <2> QED  BY <1>1, <1>3, <2>1, <2>2, <2>3
  <1> QED  BY <1>1, <1>2, <1>4, <1>5

LEMMA AppendFacts ==
    ASSUME NEW S, NEW s \in Seq(S), NEW e \in S
    PROVE  /\ Append(s, e) \in Seq(S) /\ Append(s, e) # <<>>
           /\ ToSet(Append(s, e)) = ToSet(s) \cup {e}
           /\ IsInjective(s) /\ e \notin ToSet(s) => IsInjective(Append(s, e))
  <1>1. /\ Len(s) \in Nat /\ DOMAIN s = 1..Len(s)
        /\ Append(s, e) \in Seq(S) /\ DOMAIN Append(s, e) = 1..(Len(s) + 1)
        /\ \A i \in 1..Len(s) : Append(s, e)[i] = s[i]
        /\ Append(s, e)[Len(s) + 1] = e
    OBVIOUS
  <1>2. ToSet(Append(s, e)) = ToSet(s) \cup {e}
    BY <1>1 DEF ToSet
  <1>3. IsInjective(s) /\ e \notin ToSet(s) => IsInjective(Append(s, e))
    BY <1>1 DEF IsInjective, ToSet
  <1>4. Append(s, e) # <<>>
    BY <1>1
  <1> QED  BY <1>1, <1>2, <1>3, <1>4

LEMMA ConcatSet ==
    ASSUME NEW S, NEW s \in Seq(S), NEW t \in Seq(S)
    PROVE  ToSet(s \o t) = ToSet(s) \cup ToSet(t)
  <1> DEFINE u == s \o t
  <1>1. /\ Len(s) \in Nat /\ DOMAIN s = 1 .. Len(s) /\ Len(t) \in Nat /\ DOMAIN t = 1 .. Len(t)
        /\ DOMAIN u = 1 .. Len(s) + Len(t)
        /\ \A i \in 1 .. Len(s) : u[i] = s[i] /\ i \in DOMAIN u
        /\ \A i \in Len(s) + 1 .. Len(s) + Len(t) : u[i] = t[i - Len(s)]
    OBVIOUS
  <1>2. \A i \in 1 .. Len(t) : u[Len(s) + i] = t[i] /\ Len(s) + i \in DOMAIN u
    BY <1>1
  <1>3. \A i \in DOMAIN u : i \in 1 .. Len(s) \/ i \in Len(s) + 1 .. Len(s) + Len(t)
    BY <1>1
  <1>4. \A i \in Len(s) + 1 .. Len(s) + Len(t) : i - Len(s) \in 1 .. Len(t)
    BY <1>1
  <1> HIDE DEF u
  <1>5. ASSUME NEW x \in ToSet(u)
        PROVE  x \in ToSet(s) \cup ToSet(t)
    <2>1. PICK i \in DOMAIN u : x = u[i]
      BY DEF ToSet
    <2> QED  BY <1>1, <1>3, <1>4, <2>1 DEF ToSet
  <1>6. ASSUME NEW x \in ToSet(s)
        PROVE  x \in ToSet(u)
    BY <1>1 DEF ToSet
  <1>7. ASSUME NEW x \in ToSet(t)
        PROVE  x \in ToSet(u)
    <2>1. PICK i \in DOMAIN t : x = t[i]
      BY DEF ToSet
    <2> QED  BY <1>1, <1>2, <2>1 DEF ToSet
  <1> QED  BY <1>5, <1>6, <1>7 DEF u

LEMMA ConcatItems ==
    ASSUME NEW S, NEW s \in Seq(S), NEW t \in Seq(S)
    PROVE  s \o t = [i \in 1 .. Len(s) + Len(t) |-> IF i <= Len(s) THEN s[i] ELSE t[i - Len(s)]]
  <1> DEFINE u == s \o t
             v == [i \in 1 .. Len(s) + Len(t) |-> IF i <= Len(s) THEN s[i] ELSE t[i - Len(s)]]
  <1>1. /\ Len(s) \in Nat /\ Len(t) \in Nat
        /\ DOMAIN u = 1 .. Len(s) + Len(t)
        /\ \A i \in 1 .. Len(s) : u[i] = s[i]
        /\ \A i \in Len(s) + 1 .. Len(s) + Len(t) : u[i] = t[i - Len(s)]
    OBVIOUS
  <1>2. u = [i \in DOMAIN u |-> u[i]]
    <2>1. u \in Seq(S)
      OBVIOUS
    <2> HIDE DEF u
    <2> QED  BY <2>1
  <1> HIDE DEF u
  <1>3. ASSUME NEW i \in 1 .. Len(s) + Len(t)
        PROVE  u[i] = IF i <= Len(s) THEN s[i] ELSE t[i - Len(s)]
    <2>1. CASE i <= Len(s)
      <3>1. i \in 1 .. Len(s)
        BY <1>1, <2>1
      <3> QED  BY <1>1, <2>1, <3>1
    <2>2. CASE ~(i <= Len(s))
      <3>1. i \in Len(s) + 1 .. Len(s) + Len(t)
        BY <1>1, <2>2
      <3> QED  BY <1>1, <2>2, <3>1
    <2> QED  BY <2>1, <2>2
  <1>4. u = v
    BY <1>1, <1>2, <1>3
  <1> QED  BY <1>4 DEF u

LEMMA ConcatFacts ==
    ASSUME NEW S, NEW s \in Seq(S), NEW t \in Seq(S),
           IsInjective(s), IsInjective(t), ToSet(s) \cap ToSet(t) = {}
    PROVE  /\ s \o t \in Seq(S)
           /\ ToSet(s \o t) = ToSet(s) \cup ToSet(t)
           /\ IsInjective(s \o t)
  <1>1. /\ Len(s) \in Nat /\ DOMAIN s = 1..Len(s)
        /\ Len(t) \in Nat /\ DOMAIN t = 1..Len(t)
        /\ s \o t \in Seq(S) /\ DOMAIN (s \o t) = 1..(Len(s) + Len(t))
        /\ \A i \in 1..Len(s) : (s \o t)[i] = s[i]
        /\ \A i \in (Len(s) + 1)..(Len(s) + Len(t)) : (s \o t)[i] = t[i - Len(s)]
    OBVIOUS
  <1>2. \A i \in 1..Len(t) : /\ Len(s) + i \in (Len(s) + 1)..(Len(s) + Len(t))
                             /\ (Len(s) + i) - Len(s) = i
    BY <1>1
  <1>3. \A i \in (Len(s) + 1)..(Len(s) + Len(t)) : i - Len(s) \in 1..Len(t)
    BY <1>1
  <1>4. 1..(Len(s) + Len(t)) = 1..Len(s) \cup (Len(s) + 1)..(Len(s) + Len(t))
    BY <1>1
  <1>5. ToSet(s \o t) = ToSet(s) \cup ToSet(t)
    <2> DEFINE J == (Len(s) + 1)..(Len(s) + Len(t))
    <2>1. ToSet(s \o t) = {(s \o t)[i] : i \in 1..Len(s)} \cup {(s \o t)[i] : i \in J}
      BY <1>1, <1>4 DEF ToSet
    <2>2. {(s \o t)[i] : i \in 1..Len(s)} = ToSet(s)
      BY <1>1 DEF ToSet
    <2>3. ASSUME NEW x
          PROVE  x \in {(s \o t)[i] : i \in J} <=> x \in ToSet(t)
      <3>1. CASE x \in {(s \o t)[i] : i \in J}
        <4>1. PICK i \in J : x = (s \o t)[i]
          BY ONLY <3>1
        <4>2. i - Len(s) \in 1..Len(t) /\ x = t[i - Len(s)]
          BY ONLY <1>1, <1>3, <4>1
        <4>3. ToSet(t) = {t[k] : k \in 1..Len(t)}
          BY ONLY <1>1 DEF ToSet
        <4>4. x \in ToSet(t)
          BY ONLY <4>2, <4>3
        <4> QED  BY ONLY <3>1, <4>4
      <3>2. CASE x \in ToSet(t)
        <4> PICK i \in 1..Len(t) : x = t[i]
          BY <1>1, <3>2 DEF ToSet
        <4>1. Len(s) + i \in J /\ x = (s \o t)[Len(s) + i]
          BY <1>1, <1>2
        <4>2. x \in {(s \o t)[k] : k \in J}
          BY ONLY <4>1
        <4> QED  BY ONLY <3>2, <4>2
      <3> QED  BY <3>1, <3>2
    <2> QED  BY ONLY <2>1, <2>2, <2>3
  <1>6. IsInjective(s \o t)
    <2> SUFFICES ASSUME NEW i \in 1..(Len(s) + Len(t)), NEW j \in 1..(Len(s) + Len(t)),
                        (s \o t)[i] = (s \o t)[j]
                 PROVE  i = j
      BY <1>1 DEF IsInjective
    <2>1. CASE i \in 1..Len(s) /\ j \in 1..Len(s)
      <3>1. s[i] = s[j]
        BY <1>1, <2>1
      <3>2. \A k, l \in DOMAIN s : s[k] = s[l] => k = l
        BY DEF IsInjective
      <3> QED  BY ONLY <1>1, <2>1, <3>1, <3>2
    <2>2. CASE i \notin 1..Len(s) /\ j \notin 1..Len(s)
      <3>1. /\ i - Len(s) \in 1..Len(t) /\ t[i - Len(s)] = (s \o t)[i]
            /\ j - Len(s) \in 1..Len(t) /\ t[j - Len(s)] = (s \o t)[j]
        BY <1>1, <1>3, <1>4, <2>2
      <3>2. \A k, l \in DOMAIN t : t[k] = t[l] => k = l
        BY DEF IsInjective
      <3>3. i - Len(s) = j - Len(s)
        BY ONLY <1>1, <3>1, <3>2, (s \o t)[i] = (s \o t)[j]
      <3>4. i \in Int /\ j \in Int
        OBVIOUS
      <3> QED  BY ONLY <1>1, <3>3, <3>4
    <2>3. CASE i \in 1..Len(s) /\ j \notin 1..Len(s)
      <3>1. s[i] = (s \o t)[i]
        BY <1>1, <2>3
      <3>2. s[i] \in ToSet(s)
        BY <2>3 DEF ToSet
      <3>3. /\ j - Len(s) \in 1..Len(t)
            /\ t[j - Len(s)] = (s \o t)[j]
        BY <1>1, <1>3, <1>4, <2>3
      <3>4. t[j - Len(s)] \in ToSet(t)
        BY <1>1, <3>3 DEF ToSet
      <3> QED  BY <3>1, <3>2, <3>3, <3>4, Zenon
    <2>4. CASE i \notin 1..Len(s) /\ j \in 1..Len(s)
      <3>1. s[j] = (s \o t)[j]
        BY <1>1, <2>4
      <3>2. s[j] \in ToSet(s)
        BY <2>4 DEF ToSet
      <3>3. /\ i - Len(s) \in 1..Len(t)
            /\ t[i - Len(s)] = (s \o t)[i]
        BY <1>1, <1>3, <1>4, <2>4
      <3>4. t[i - Len(s)] \in ToSet(t)
        BY <1>1, <3>3 DEF ToSet
      <3> QED  BY <3>1, <3>2, <3>3, <3>4, Zenon
    <2> QED  BY <2>1, <2>2, <2>3, <2>4
  <1> QED  BY <1>1, <1>5, <1>6

-----------------------------------------------------------------------------
(* Folds over finite sets                                                  *)

(* The community modules fold a set from an element of their choice.  The  *)
(* operation is a function here, one of accumulators for each element, so  *)
(* that these lemmas hold of every operation; SumIsFold and TallyIsFold    *)
(* take those of the library to it.                                        *)
Pick(s) == CHOOSE x \in s : TRUE

FoldStep(g, base, s, f) == IF s = {} THEN base ELSE g[Pick(s)][f[s \ {Pick(s)}]]
FoldTable(g, base, S) == CHOOSE f : f = [s \in SUBSET S |-> FoldStep(g, base, s, f)]
FoldOf(g, base, S) == FoldTable(g, base, S)[S]

(* The elements of U, taken one by one, take accumulators to accumulators. *)
Operation(g, base, U, A) == IsFiniteSet(U) /\ base \in A /\ g \in [U -> [A -> A]]

LEMMA PickFacts ==
    ASSUME NEW S, S # {}
    PROVE  Pick(S) \in S
  BY DEF Pick

(* What holds of the empty set, and of a set if it does without the        *)
(* element that is picked, holds of every subset.                          *)
LEMMA SubsetInduction ==
    ASSUME NEW S, IsFiniteSet(S), NEW T, {} \in T,
           \A s \in SUBSET S : s # {} /\ s \ {Pick(s)} \in T => s \in T
    PROVE  SUBSET S \subseteq T
  <1> DEFINE N == {n \in Nat : \A s \in SUBSET S : Cardinality(s) = n => s \in T}
  <1>1. \A s \in SUBSET S : IsFiniteSet(s) /\ Cardinality(s) \in Nat
    BY FS_Subset, FS_CardinalityType
  <1>2. 0 \in N
    BY <1>1, FS_EmptySet
  <1>3. ASSUME NEW n \in Nat, n \in N
        PROVE  n + 1 \in N
    <2> SUFFICES ASSUME NEW s \in SUBSET S, Cardinality(s) = n + 1
                 PROVE  s \in T
      OBVIOUS
    <2>1. s # {}
      BY FS_EmptySet
    <2>2. Pick(s) \in s /\ s \ {Pick(s)} \in SUBSET S
      BY <2>1, PickFacts
    <2>3. Cardinality(s \ {Pick(s)}) = n
      BY <1>1, <2>2, FS_RemoveElement
    <2> QED  BY <1>3, <2>1, <2>2, <2>3
  <1>4. Nat \subseteq N
    BY <1>2, <1>3, Induction
  <1> QED  BY <1>1, <1>4

IsTable(h, g, base, S) == h = [s \in SUBSET S |-> FoldStep(g, base, s, h)]

(* A table of what is folded so far has accumulators for values.           *)
LEMMA TableTyped ==
    ASSUME NEW U, NEW A, NEW base, NEW g, Operation(g, base, U, A), NEW S \in SUBSET U,
           NEW h, IsTable(h, g, base, S)
    PROVE  h \in [SUBSET S -> A]
  <1> DEFINE T == {s \in SUBSET S : h[s] \in A}
  <1>1. DOMAIN h = SUBSET S /\ \A s \in SUBSET S : h[s] = FoldStep(g, base, s, h)
    BY Zenon DEF IsTable
  <1>2. IsFiniteSet(S) /\ base \in A /\ g \in [U -> [A -> A]]
    BY FS_Subset DEF Operation
  <1>3. {} \in T
    BY <1>1, <1>2 DEF FoldStep
  <1>4. ASSUME NEW s \in SUBSET S, s # {}, s \ {Pick(s)} \in T
        PROVE  s \in T
    <2>1. Pick(s) \in U
      BY <1>4, PickFacts
    <2>2. g[Pick(s)] \in [A -> A]
      BY <1>2, <2>1
    <2> QED  BY <1>1, <1>4, <2>2 DEF FoldStep
  <1> HIDE DEF T
  <1>5. SUBSET S \subseteq T
    BY <1>2, <1>3, <1>4, SubsetInduction
  <1>6. PICK z : z = [s \in SUBSET S |-> FoldStep(g, base, s, h)]
    OBVIOUS
  <1>7. h = z
    BY <1>6, Zenon DEF IsTable
  <1> QED  BY <1>5, <1>6, <1>7 DEF T

IsFoldTable(F, g, base, S, A) ==
    F \in [SUBSET S -> A] /\ \A s \in SUBSET S : F[s] = FoldStep(g, base, s, F)

(* The table that a fold chooses exists, and has accumulators for values.  *)
LEMMA FoldTableFacts ==
    ASSUME NEW U, NEW A, NEW base, NEW g, Operation(g, base, U, A),
           NEW S \in SUBSET U
    PROVE  IsFoldTable(FoldTable(g, base, S), g, base, S, A)
  <1> DEFINE N == {n \in Nat : \E f \in [SUBSET S -> A] :
                      \A s \in SUBSET S : Cardinality(s) <= n => f[s] = FoldStep(g, base, s, f)}
  <1>1. IsFiniteSet(S) /\ \A s \in SUBSET S : IsFiniteSet(s) /\ Cardinality(s) \in Nat
                                              /\ Cardinality(s) <= Cardinality(S)
    BY FS_Subset, FS_CardinalityType DEF Operation
  <1>0. base \in A /\ g \in [U -> [A -> A]]
    BY DEF Operation
  <1>2. ASSUME NEW f \in [SUBSET S -> A], NEW s \in SUBSET S
        PROVE  FoldStep(g, base, s, f) \in A
    <2>1. CASE s = {}
      BY <1>0, <2>1 DEF FoldStep
    <2>2. CASE s # {}
      <3>1. Pick(s) \in s /\ Pick(s) \in U /\ s \ {Pick(s)} \in SUBSET S
        BY <2>2, PickFacts
      <3>2. f[s \ {Pick(s)}] \in A /\ g[Pick(s)] \in [A -> A]
        BY <1>0, <3>1
      <3> QED  BY <2>2, <3>2 DEF FoldStep
    <2> QED  BY <2>1, <2>2
  <1>3. 0 \in N
    <2> DEFINE f == [s \in SUBSET S |-> base]
    <2>1. f \in [SUBSET S -> A]
      BY <1>0
    <2>2. ASSUME NEW s \in SUBSET S, Cardinality(s) <= 0
          PROVE  f[s] = FoldStep(g, base, s, f)
      <3>1. s = {}
        <4>1. Cardinality(s) = 0
          BY <1>1, <2>2
        <4> QED  BY <1>1, <4>1, FS_EmptySet
      <3> QED  BY <3>1 DEF FoldStep
    <2> QED  BY <2>1, <2>2
  <1>4. ASSUME NEW n \in Nat, n \in N
        PROVE  n + 1 \in N
    <2>1. PICK f \in [SUBSET S -> A] :
             \A s \in SUBSET S : Cardinality(s) <= n => f[s] = FoldStep(g, base, s, f)
      BY <1>4
    <2> DEFINE h == [s \in SUBSET S |-> IF Cardinality(s) <= n THEN f[s] ELSE FoldStep(g, base, s, f)]
    <2>2. h \in [SUBSET S -> A]
      BY <1>2
    <2>3. ASSUME NEW s \in SUBSET S, Cardinality(s) <= n + 1
          PROVE  h[s] = FoldStep(g, base, s, h)
      <3>1. h[s] = FoldStep(g, base, s, f)
        BY <2>1
      <3>2. CASE s = {}
        BY <3>1, <3>2 DEF FoldStep
      <3>3. CASE s # {}
        <4>1. Pick(s) \in s /\ s \ {Pick(s)} \in SUBSET S
          BY <3>3, PickFacts
        <4>2. Cardinality(s \ {Pick(s)}) = Cardinality(s) - 1
          BY <1>1, <4>1, FS_RemoveElement
        <4>3. Cardinality(s \ {Pick(s)}) <= n
          BY <1>1, <2>3, <4>2
        <4>4. h[s \ {Pick(s)}] = f[s \ {Pick(s)}]
          BY <4>1, <4>3
        <4> HIDE DEF h
        <4> QED  BY <3>1, <3>3, <4>4 DEF FoldStep
      <3> QED  BY <3>2, <3>3
    <2> HIDE DEF h
    <2> QED  BY <2>2, <2>3
  <1>5. Nat \subseteq N
    <2> HIDE DEF N
    <2> QED  BY <1>3, <1>4, Induction
  <1>6. PICK f \in [SUBSET S -> A] : \A s \in SUBSET S : f[s] = FoldStep(g, base, s, f)
    <2>1. Cardinality(S) \in N
      BY <1>1, <1>5
    <2> QED  BY <1>1, <2>1
  <1>7. f = [s \in SUBSET S |-> FoldStep(g, base, s, f)]
    BY <1>6
  <1> DEFINE F == FoldTable(g, base, S)
  <1>8. F = [s \in SUBSET S |-> FoldStep(g, base, s, F)]
    BY <1>7, Zenon DEF FoldTable
  <1>9. \A s \in SUBSET S : F[s] = FoldStep(g, base, s, F)
    <2> HIDE DEF F
    <2> QED  BY <1>8, Zenon
  <1> HIDE DEF F
  <1>12. F \in [SUBSET S -> A]
    <2>1. IsTable(F, g, base, S)
      BY <1>8, Zenon DEF IsTable
    <2> HIDE DEF F
    <2> QED  BY <2>1, TableTyped
  <1>13. IsFoldTable(F, g, base, S, A)
    BY <1>9, <1>12 DEF IsFoldTable
  <1> QED  BY <1>13 DEF F

(* The fold of a set is that of the rest and of the element picked first.  *)
Unfolds(g, base, U, A) ==
    \A S \in SUBSET U :
        /\ FoldOf(g, base, S) \in A
        /\ S = {} => FoldOf(g, base, S) = base
        /\ S # {} => FoldOf(g, base, S) = g[Pick(S)][FoldOf(g, base, S \ {Pick(S)})]

LEMMA FoldUnfolds ==
    ASSUME NEW U, NEW A, NEW base, NEW g, Operation(g, base, U, A)
    PROVE  Unfolds(g, base, U, A)
  <1> SUFFICES ASSUME NEW S \in SUBSET U
               PROVE  /\ FoldOf(g, base, S) \in A
                      /\ S = {} => FoldOf(g, base, S) = base
                      /\ S # {} => FoldOf(g, base, S) = g[Pick(S)][FoldOf(g, base, S \ {Pick(S)})]
    BY DEF Unfolds
  <1> DEFINE F == FoldTable(g, base, S)
             R == S \ {Pick(S)}
             G == FoldTable(g, base, R)
  <1>1. /\ F \in [SUBSET S -> A] /\ \A s \in SUBSET S : F[s] = FoldStep(g, base, s, F)
        /\ G \in [SUBSET R -> A] /\ \A s \in SUBSET R : G[s] = FoldStep(g, base, s, G)
    <2>1. \A s \in SUBSET U : IsFoldTable(FoldTable(g, base, s), g, base, s, A)
      BY FoldTableFacts
    <2>2. R \in SUBSET U
      OBVIOUS
    <2> HIDE DEF R
    <2> QED  BY <2>1, <2>2 DEF IsFoldTable
  <1>2. FoldOf(g, base, S) = F[S] /\ FoldOf(g, base, R) = G[R]
    BY DEF FoldOf
  <1>3. SUBSET R \subseteq {s \in SUBSET R : F[s] = G[s]}
    <2> DEFINE T == {s \in SUBSET R : F[s] = G[s]}
    <2>1. IsFiniteSet(R) /\ R \in SUBSET S
      BY FS_Subset DEF Operation
    <2> HIDE DEF F, G
    <2>2. {} \in T
      BY <1>1 DEF FoldStep
    <2>3. ASSUME NEW s \in SUBSET R, s # {}, s \ {Pick(s)} \in T
          PROVE  s \in T
      <3>1. FoldStep(g, base, s, F) = FoldStep(g, base, s, G)
        BY <2>3 DEF FoldStep
      <3> QED  BY <1>1, <2>1, <3>1
    <2> HIDE DEF T, R
    <2>4. SUBSET R \subseteq T
      BY <2>1, <2>2, <2>3, SubsetInduction
    <2> QED  BY <2>4 DEF T
  <1> HIDE DEF F, G
  <1>4. S # {} => F[S] = g[Pick(S)][F[R]]
    BY <1>1 DEF FoldStep
  <1>5. S = {} => F[S] = base
    BY <1>1 DEF FoldStep
  <1>6. F[R] = G[R] /\ F[S] \in A
    BY <1>1, <1>3
  <1> QED  BY <1>2, <1>4, <1>5, <1>6

(* When the order of two elements does not matter, any may be picked.      *)
TakesAny(g, base, U, A) ==
    \A S \in SUBSET U :
        /\ FoldOf(g, base, S) \in A
        /\ S = {} => FoldOf(g, base, S) = base
        /\ \A x \in S : FoldOf(g, base, S) = g[x][FoldOf(g, base, S \ {x})]

Commutes(g, U, A) == \A x, y \in U : \A a \in A : g[x][g[y][a]] = g[y][g[x][a]]

LEMMA FoldTakesAny ==
    ASSUME NEW U, NEW A, NEW base, NEW g, Operation(g, base, U, A), Commutes(g, U, A)
    PROVE  TakesAny(g, base, U, A)
  <1>0. Unfolds(g, base, U, A)
    BY FoldUnfolds
  <1> DEFINE N == {n \in Nat : \A s \in SUBSET U : Cardinality(s) = n =>
                      \A y \in s : FoldOf(g, base, s) = g[y][FoldOf(g, base, s \ {y})]}
  <1>1. \A s \in SUBSET U : IsFiniteSet(s) /\ Cardinality(s) \in Nat
    BY FS_Subset, FS_CardinalityType DEF Operation
  <1>2. 0 \in N
    BY <1>1, FS_EmptySet
  <1>3. ASSUME NEW n \in Nat, n \in N
        PROVE  n + 1 \in N
    <2> SUFFICES ASSUME NEW s \in SUBSET U, Cardinality(s) = n + 1, NEW y \in s
                 PROVE  FoldOf(g, base, s) = g[y][FoldOf(g, base, s \ {y})]
      OBVIOUS
    <2> DEFINE p == Pick(s)
    <2>1. p \in s /\ p \in U /\ y \in U
      BY PickFacts
    <2>2. FoldOf(g, base, s) = g[p][FoldOf(g, base, s \ {p})]
      BY <1>0, s # {} DEF Unfolds
    <2> HIDE DEF p
    <2>3. CASE y = p
      BY <2>2, <2>3
    <2>4. CASE y # p
      <3>1. Cardinality(s \ {p}) = n /\ Cardinality(s \ {y}) = n
        <4>1. IsFiniteSet(s)
          BY <1>1
        <4>2. /\ Cardinality(s \ {p}) = Cardinality(s) - 1
              /\ Cardinality(s \ {y}) = Cardinality(s) - 1
          BY <2>1, <4>1, FS_RemoveElement
        <4> QED  BY <4>2
      <3>2. s \ {p} \in SUBSET U /\ y \in s \ {p} /\ s \ {y} \in SUBSET U /\ p \in s \ {y}
        BY <2>1, <2>4
      <3>3. /\ FoldOf(g, base, s \ {p}) = g[y][FoldOf(g, base, (s \ {p}) \ {y})]
            /\ FoldOf(g, base, s \ {y}) = g[p][FoldOf(g, base, (s \ {y}) \ {p})]
        BY <1>3, <3>1, <3>2
      <3>4. (s \ {p}) \ {y} = (s \ {y}) \ {p} /\ (s \ {y}) \ {p} \in SUBSET U
        OBVIOUS
      <3>5. FoldOf(g, base, (s \ {y}) \ {p}) \in A
        BY <1>0, <3>4 DEF Unfolds
      <3> DEFINE rest == FoldOf(g, base, (s \ {y}) \ {p})
      <3>6. g[p][g[y][rest]] = g[y][g[p][rest]]
        BY <2>1, <3>5 DEF Commutes
      <3>7. /\ FoldOf(g, base, s \ {p}) = g[y][rest]
            /\ FoldOf(g, base, s \ {y}) = g[p][rest]
        BY <3>3, <3>4, Zenon
      <3> QED  BY <2>2, <3>6, <3>7, Zenon
    <2> QED  BY <2>3, <2>4
  <1> HIDE DEF N
  <1>4. Nat \subseteq N
    BY <1>2, <1>3, Induction
  <1>5. \A s \in SUBSET U : \A y \in s : FoldOf(g, base, s) = g[y][FoldOf(g, base, s \ {y})]
    BY <1>1, <1>4 DEF N
  <1> QED  BY <1>0, <1>5 DEF Unfolds, TakesAny

-----------------------------------------------------------------------------
(* Sums                                                                    *)

Adding(f, U) == [x \in U |-> [n \in Nat |-> f[x] + n]]

LEMMA SumIsFold ==
    ASSUME NEW U, IsFiniteSet(U), NEW f, \A x \in U : f[x] \in Nat,
           NEW S \in SUBSET U
    PROVE  SumFunctionOnSet(f, S) = FoldOf(Adding(f, U), 0, S)
  <1> DEFINE g == Adding(f, U)
             Sum(h) == [s \in SUBSET S |-> IF s = {} THEN 0
                          ELSE f[CHOOSE x \in s : TRUE] + h[s \ {CHOOSE x \in s : TRUE}]]
             Fold(h) == [s \in SUBSET S |-> FoldStep(g, 0, s, h)]
  <1>1. g \in [U -> [Nat -> Nat]]
    BY DEF Adding
  <1>0. IsFiniteSet(S)
    BY FS_Subset
  <1>2. ASSUME NEW h \in [SUBSET S -> Nat]
        PROVE  Sum(h) = Fold(h)
    <2>1. ASSUME NEW s \in SUBSET S
          PROVE  (IF s = {} THEN 0 ELSE f[CHOOSE x \in s : TRUE] + h[s \ {CHOOSE x \in s : TRUE}])
                    = FoldStep(g, 0, s, h)
      <3>1. CASE s = {}
        BY <3>1 DEF FoldStep
      <3>2. CASE s # {}
        <4>1. Pick(s) \in U /\ h[s \ {Pick(s)}] \in Nat
          BY <3>2, PickFacts
        <4>2. g[Pick(s)][h[s \ {Pick(s)}]] = f[Pick(s)] + h[s \ {Pick(s)}]
          BY <4>1 DEF Adding
        <4> QED  BY <3>2, <4>2, Zenon DEF FoldStep, Pick
      <3> QED  BY <3>1, <3>2
    <2> QED  BY <2>1, Zenon
  <1>3. ASSUME NEW h, h = Sum(h)
        PROVE  h \in [SUBSET S -> Nat]
    <2> DEFINE T == {s \in SUBSET S : h[s] \in Nat}
    <2>1. DOMAIN h = SUBSET S /\ \A s \in SUBSET S : h[s] = IF s = {} THEN 0
                          ELSE f[CHOOSE x \in s : TRUE] + h[s \ {CHOOSE x \in s : TRUE}]
      BY <1>3, Zenon
    <2>2. {} \in T
      BY <2>1
    <2>3. ASSUME NEW s \in SUBSET S, s # {}, s \ {Pick(s)} \in T
          PROVE  s \in T
      <3>1. h[s] = f[Pick(s)] + h[s \ {Pick(s)}]
        BY <2>1, <2>3, Zenon DEF Pick
      <3>2. Pick(s) \in U
        BY <2>3, PickFacts
      <3> QED  BY <2>3, <3>1, <3>2
    <2> HIDE DEF T
    <2>4. SUBSET S \subseteq T
      BY <1>0, <2>2, <2>3, SubsetInduction
    <2>5. PICK z : z = [s \in SUBSET S |-> IF s = {} THEN 0
                          ELSE f[CHOOSE x \in s : TRUE] + h[s \ {CHOOSE x \in s : TRUE}]]
      OBVIOUS
    <2>6. h = z
      BY <1>3, <2>5, Zenon
    <2> QED  BY <2>4, <2>5, <2>6 DEF T
  <1>4. ASSUME NEW h, h = Fold(h)
        PROVE  h \in [SUBSET S -> Nat]
    <2>1. Operation(g, 0, U, Nat)
      BY <1>1 DEF Operation
    <2>2. IsTable(h, g, 0, S)
      BY <1>4, Zenon DEF IsTable
    <2> HIDE DEF g
    <2> QED  BY <2>1, <2>2, TableTyped
  <1> HIDE DEF Sum, Fold
  <1>5. \A h : (h = Sum(h)) <=> (h = Fold(h))
    BY <1>2, <1>3, <1>4
  <1>6. (CHOOSE h : h = Sum(h)) = (CHOOSE h : h = Fold(h))
    BY <1>5, Zenon
  <1> QED  BY <1>6, Zenon DEF SumFunctionOnSet, FoldFunctionOnSet, MapThenFoldSet, FoldOf, FoldTable, Sum, Fold

LEMMA SumFacts ==
    ASSUME NEW U, IsFiniteSet(U), NEW f, \A x \in U : f[x] \in Nat
    PROVE  /\ SumFunctionOnSet(f, U) \in Nat
           /\ U = {} => SumFunctionOnSet(f, U) = 0
           /\ \A x \in U : SumFunctionOnSet(f, U) = f[x] + SumFunctionOnSet(f, U \ {x})
  <1> DEFINE g == Adding(f, U)
  <1>1. /\ g \in [U -> [Nat -> Nat]]
        /\ \A x \in U, n \in Nat : g[x][n] = f[x] + n
    BY DEF Adding
  <1>2. \A x, y \in U : \A n \in Nat : g[x][g[y][n]] = g[y][g[x][n]]
    BY <1>1
  <1>3. \A S \in SUBSET U : SumFunctionOnSet(f, S) = FoldOf(g, 0, S)
    BY SumIsFold
  <1> HIDE DEF g
  <1>4. Operation(g, 0, U, Nat)
    BY <1>1 DEF Operation
  <1>5. /\ \A S \in SUBSET U : FoldOf(g, 0, S) \in Nat /\ (S = {} => FoldOf(g, 0, S) = 0)
        /\ \A S \in SUBSET U : \A y \in S : FoldOf(g, 0, S) = g[y][FoldOf(g, 0, S \ {y})]
    <2>1. Commutes(g, U, Nat)
      BY <1>2 DEF Commutes
    <2>2. TakesAny(g, 0, U, Nat)
      BY <1>4, <2>1, FoldTakesAny
    <2> QED  BY <2>2 DEF TakesAny
  <1>6. ASSUME NEW x \in U
        PROVE  SumFunctionOnSet(f, U) = f[x] + SumFunctionOnSet(f, U \ {x})
    <2>2. U \in SUBSET U /\ U \ {x} \in SUBSET U
      OBVIOUS
    <2>3. FoldOf(g, 0, U) = g[x][FoldOf(g, 0, U \ {x})]
      BY <1>5, <2>2
    <2> QED  BY <1>1, <1>3, <1>5, <2>2, <2>3
  <1>7. U \in SUBSET U
    OBVIOUS
  <1> QED  BY <1>3, <1>5, <1>6, <1>7

LEMMA SumSame ==
    ASSUME NEW U, IsFiniteSet(U), NEW f, \A x \in U : f[x] \in Nat,
           NEW h, \A x \in U : h[x] = f[x]
    PROVE  SumFunctionOnSet(h, U) = SumFunctionOnSet(f, U)
  <1>1. Adding(f, U) = Adding(h, U)
    BY DEF Adding
  <1>2. U \in SUBSET U /\ \A x \in U : h[x] \in Nat
    OBVIOUS
  <1>3. SumFunctionOnSet(f, U) = FoldOf(Adding(f, U), 0, U)
    BY <1>2, SumIsFold
  <1>4. SumFunctionOnSet(h, U) = FoldOf(Adding(h, U), 0, U)
    BY <1>2, SumIsFold
  <1> QED  BY <1>1, <1>3, <1>4

LEMMA SumExtends ==
    ASSUME NEW S, IsFiniteSet(S), NEW x, x \notin S, NEW f \in [S \cup {x} -> Nat],
           NEW h \in [S -> Nat], \A y \in S : h[y] = f[y]
    PROVE  SumFunction(f) = f[x] + SumFunction(h) /\ SumFunction(h) \in Nat
  <1> DEFINE U == S \cup {x}
  <1>1. IsFiniteSet(U) /\ U \ {x} = S /\ x \in U /\ \A y \in U : f[y] \in Nat
    BY FS_AddElement
  <1> HIDE DEF U
  <1>2. SumFunctionOnSet(f, U) = f[x] + SumFunctionOnSet(f, S)
    BY <1>1, SumFacts
  <1>3. SumFunctionOnSet(h, S) = SumFunctionOnSet(f, S)
    <2>1. \A y \in S : f[y] \in Nat
      OBVIOUS
    <2> QED  BY <2>1, SumSame
  <1>4. SumFunctionOnSet(h, S) \in Nat
    BY SumFacts
  <1>5. DOMAIN f = U /\ DOMAIN h = S
    BY DEF U
  <1> QED  BY <1>2, <1>3, <1>4, <1>5 DEF SumFunction

LEMMA SumEmpty ==
    ASSUME NEW f, DOMAIN f = {}
    PROVE  SumFunction(f) = 0
  <1>1. SumFunctionOnSet(f, {}) = 0
    BY SumFacts, FS_EmptySet
  <1> QED  BY <1>1 DEF SumFunction

LEMMA SumGrows ==
    ASSUME NEW U, IsFiniteSet(U), NEW f, \A x \in U : f[x] \in Nat, NEW S \in SUBSET U
    PROVE  SumFunctionOnSet(f, S) \in Nat /\ SumFunctionOnSet(f, S) <= SumFunctionOnSet(f, U)
  <1> DEFINE T == {s \in SUBSET U : SumFunctionOnSet(f, S \cap s) <= SumFunctionOnSet(f, s)}
  <1>1. ASSUME NEW s \in SUBSET U
        PROVE  /\ IsFiniteSet(s) /\ SumFunctionOnSet(f, s) \in Nat
               /\ s = {} => SumFunctionOnSet(f, s) = 0
               /\ \A x \in s : SumFunctionOnSet(f, s) = f[x] + SumFunctionOnSet(f, s \ {x})
    <2>1. IsFiniteSet(s)
      BY FS_Subset
    <2>2. \A x \in s : f[x] \in Nat
      OBVIOUS
    <2> QED  BY <2>1, <2>2, SumFacts
  <1>2. {} \in T
    <2>1. S \cap {} = {} /\ {} \in SUBSET U
      OBVIOUS
    <2>2. SumFunctionOnSet(f, {}) \in Nat
      BY <1>1, <2>1
    <2> QED  BY <2>1, <2>2
  <1>3. ASSUME NEW s \in SUBSET U, s # {}, s \ {Pick(s)} \in T
        PROVE  s \in T
    <2> DEFINE x == Pick(s)
               r == s \ {x}
    <2>1. x \in s
      BY <1>3, PickFacts
    <2> HIDE DEF x
    <2>2. /\ r \in SUBSET U /\ S \cap r \in SUBSET U /\ S \cap s \in SUBSET U
          /\ SumFunctionOnSet(f, S \cap r) <= SumFunctionOnSet(f, r) /\ f[x] \in Nat
      BY <1>3, <2>1 DEF x
    <2>3. /\ SumFunctionOnSet(f, s) = f[x] + SumFunctionOnSet(f, r)
          /\ SumFunctionOnSet(f, r) \in Nat /\ SumFunctionOnSet(f, S \cap r) \in Nat
      BY <1>1, <2>1, <2>2
    <2>6. s \ {x} = r /\ (S \cap s) \ {x} = S \cap r /\ (x \notin S => S \cap s = S \cap r)
      OBVIOUS
    <2> HIDE DEF r
    <2>4. CASE x \in S
      <3>1. x \in S \cap s
        BY <2>1, <2>4
      <3>2. SumFunctionOnSet(f, S \cap s) = f[x] + SumFunctionOnSet(f, S \cap r)
        BY <1>1, <2>2, <2>6, <3>1
      <3> QED  BY <2>2, <2>3, <3>2
    <2>5. CASE x \notin S
      <3>1. SumFunctionOnSet(f, S \cap s) = SumFunctionOnSet(f, S \cap r)
        BY <2>5, <2>6
      <3> QED  BY <2>2, <2>3, <3>1
    <2> QED  BY <2>4, <2>5
  <1> HIDE DEF T
  <1>4. SUBSET U \subseteq T
    BY <1>2, <1>3, SubsetInduction
  <1>5. SumFunctionOnSet(f, S \cap U) <= SumFunctionOnSet(f, U) /\ S \cap U = S
    BY <1>4 DEF T
  <1> QED  BY <1>1, <1>5

(* The same numbers under other names.                                     *)
LEMMA SumRenamed ==
    ASSUME NEW U, IsFiniteSet(U), NEW f, \A x \in U : f[x] \in Nat,
           NEW m, \A x, y \in U : m[x] = m[y] => x = y,
           NEW g, \A x \in U : g[m[x]] = f[x]
    PROVE  SumFunctionOnSet(g, {m[x] : x \in U}) = SumFunctionOnSet(f, U)
  <1> DEFINE Named(s) == {m[x] : x \in s}
             T == {s \in SUBSET U : /\ IsFiniteSet(Named(s))
                                    /\ SumFunctionOnSet(g, Named(s)) = SumFunctionOnSet(f, s)}
  <1>1. {} \in T
    <2>1. Named({}) = {}
      OBVIOUS
    <2> HIDE DEF Named
    <2>2. SumFunctionOnSet(g, {}) = 0 /\ SumFunctionOnSet(f, {}) = 0 /\ IsFiniteSet({})
      BY SumFacts, FS_EmptySet
    <2> QED  BY <2>1, <2>2
  <1>2. ASSUME NEW s \in SUBSET U, s # {}, s \ {Pick(s)} \in T
        PROVE  s \in T
    <2> DEFINE x == Pick(s)
               r == s \ {x}
    <2>1. x \in s
      BY <1>2, PickFacts
    <2> HIDE DEF x
    <2>2. IsFiniteSet(Named(r)) /\ SumFunctionOnSet(g, Named(r)) = SumFunctionOnSet(f, r)
      BY <1>2 DEF x
    <2>3. /\ Named(s) = Named(r) \cup {m[x]} /\ m[x] \notin Named(r)
          /\ \A n \in Named(s) : g[n] \in Nat
          /\ g[m[x]] = f[x]
      BY <2>1
    <2> HIDE DEF Named, r
    <2>4. IsFiniteSet(Named(s)) /\ m[x] \in Named(s) /\ Named(s) \ {m[x]} = Named(r)
      BY <2>2, <2>3, FS_AddElement
    <2>5. SumFunctionOnSet(g, Named(s)) = f[x] + SumFunctionOnSet(g, Named(r))
      <3>1. PICK N : N = Named(s)
        OBVIOUS
      <3>2. IsFiniteSet(N) /\ (\A n \in N : g[n] \in Nat) /\ m[x] \in N /\ N \ {m[x]} = Named(r)
        BY <2>3, <2>4, <3>1
      <3>3. SumFunctionOnSet(g, N) = g[m[x]] + SumFunctionOnSet(g, N \ {m[x]})
        BY ONLY <3>2, SumFacts
      <3> QED  BY <2>3, <3>1, <3>2, <3>3
    <2>6. SumFunctionOnSet(f, s) = f[x] + SumFunctionOnSet(f, r)
      <3>1. IsFiniteSet(s)
        BY FS_Subset
      <3>2. \A y \in s : f[y] \in Nat
        OBVIOUS
      <3> QED  BY <2>1, <3>1, <3>2, SumFacts DEF r
    <2> QED  BY <2>2, <2>4, <2>5, <2>6
  <1> HIDE DEF T
  <1>3. SUBSET U \subseteq T
    BY <1>1, <1>2, SubsetInduction
  <1> QED  BY <1>3 DEF T

-----------------------------------------------------------------------------
(* A finite set in the order of a strict total order                       *)

StrictOrder(R, S) ==
    /\ \A x \in S : <<x, x>> \notin R
    /\ \A x, y, z \in S : <<x, y>> \in R /\ <<y, z>> \in R => <<x, z>> \in R
    /\ \A x, y \in S : x # y => <<x, y>> \in R \/ <<y, x>> \in R

BelowIn(R, S, x) == {y \in S : <<y, x>> \in R}

Ordered(R, S) ==
    [i \in 1..Cardinality(S) |-> CHOOSE x \in S : Cardinality(BelowIn(R, S, x)) = i - 1]

LEMMA BelowFacts ==
    ASSUME NEW S, IsFiniteSet(S), NEW R, StrictOrder(R, S)
    PROVE  /\ \A x \in S : Cardinality(BelowIn(R, S, x)) \in 0..(Cardinality(S) - 1)
           /\ \A x, y \in S : <<x, y>> \in R =>
                 Cardinality(BelowIn(R, S, x)) < Cardinality(BelowIn(R, S, y))
  <1>0. Cardinality(S) \in Nat
    BY FS_CardinalityType
  <1>1. ASSUME NEW x \in S
        PROVE  IsFiniteSet(BelowIn(R, S, x)) /\ x \notin BelowIn(R, S, x)
    <2>1. BelowIn(R, S, x) \in SUBSET S /\ x \notin BelowIn(R, S, x)
      BY DEF BelowIn, StrictOrder
    <2> QED  BY <2>1, FS_Subset
  <1>2. ASSUME NEW x \in S, NEW T, IsFiniteSet(T), BelowIn(R, S, x) \cup {x} \subseteq T
        PROVE  Cardinality(BelowIn(R, S, x)) \in Nat
               /\ Cardinality(BelowIn(R, S, x)) + 1 <= Cardinality(T)
    <2> DEFINE B == BelowIn(R, S, x)
    <2>1. IsFiniteSet(B) /\ x \notin B
      BY <1>1
    <2> HIDE DEF B
    <2>2. Cardinality(B \cup {x}) = Cardinality(B) + 1 /\ Cardinality(B) \in Nat
      BY <2>1, FS_AddElement, FS_CardinalityType
    <2>3. B \cup {x} \in SUBSET T
      BY <1>2 DEF B
    <2>4. Cardinality(B \cup {x}) <= Cardinality(T)
      BY <1>2, <2>3, FS_Subset
    <2> QED  BY <2>2, <2>4 DEF B
  <1>3. ASSUME NEW x \in S
        PROVE  Cardinality(BelowIn(R, S, x)) \in 0..(Cardinality(S) - 1)
    <2>1. BelowIn(R, S, x) \cup {x} \subseteq S
      BY DEF BelowIn
    <2> QED  BY <1>0, <1>2, <2>1
  <1>4. ASSUME NEW x \in S, NEW y \in S, <<x, y>> \in R
        PROVE  Cardinality(BelowIn(R, S, x)) < Cardinality(BelowIn(R, S, y))
    <2>1. BelowIn(R, S, x) \cup {x} \subseteq BelowIn(R, S, y)
      BY <1>4 DEF BelowIn, StrictOrder
    <2>2. IsFiniteSet(BelowIn(R, S, y)) /\ Cardinality(BelowIn(R, S, y)) \in Nat
      BY <1>1, FS_CardinalityType
    <2> QED  BY <1>2, <2>1, <2>2
  <1> QED  BY <1>3, <1>4

(* Every place is taken, by one element.                                   *)
LEMMA OrderedFacts ==
    ASSUME NEW S, IsFiniteSet(S), NEW R, StrictOrder(R, S)
    PROVE  /\ Cardinality(S) \in Nat
           /\ Ordered(R, S) \in Seq(S) /\ Len(Ordered(R, S)) = Cardinality(S)
           /\ ToSet(Ordered(R, S)) = S /\ IsInjective(Ordered(R, S))
           /\ \A i, j \in 1..Cardinality(S) :
                 i < j => <<Ordered(R, S)[i], Ordered(R, S)[j]>> \in R
  <1> DEFINE n == Cardinality(S)
             place(x) == Cardinality(BelowIn(R, S, x))
             o == Ordered(R, S)
             places == [x \in S |-> place(x)]
             T == 0..(n - 1)
  <1>1. n \in Nat
    BY FS_CardinalityType
  <1>2. /\ \A x \in S : place(x) \in T
        /\ \A x, y \in S : <<x, y>> \in R => place(x) < place(y)
    BY BelowFacts
  <1>3. \A x, y \in S : place(x) = place(y) => x = y
    <2>1. \A x \in S : place(x) \in Int
      BY <1>1, <1>2
    <2> HIDE DEF place
    <2> SUFFICES ASSUME NEW x \in S, NEW y \in S, x # y, place(x) = place(y)
                 PROVE  FALSE
      OBVIOUS
    <2>2. <<x, y>> \in R \/ <<y, x>> \in R
      BY DEF StrictOrder
    <2>3. place(x) < place(y) \/ place(y) < place(x)
      BY <1>2, <2>2
    <2>4. place(x) \in Int
      BY <2>1
    <2> QED  BY <2>3, <2>4
  <1>4. IsFiniteSet(T) /\ Cardinality(T) = n
    BY <1>1, FS_Interval
  <1> HIDE DEF place
  <1>5. places \in Injection(S, T)
    BY <1>2, <1>3 DEF Injection, IsInjective
  <1> HIDE DEF places, T
  <1>6. places \in Surjection(S, T)
    BY <1>4, <1>5, FS_Injection
  <1>7. \A i \in T : \E x \in S : place(x) = i
    BY <1>6 DEF Surjection, places
  <1>8. ASSUME NEW i \in 1..n
        PROVE  o[i] \in S /\ place(o[i]) = i - 1
    <2>1. i - 1 \in T
      BY <1>1 DEF T
    <2>2. \E x \in S : place(x) = i - 1
      BY <1>7, <2>1
    <2>3. o[i] = CHOOSE x \in S : place(x) = i - 1
      BY DEF Ordered, place
    <2> HIDE DEF o
    <2> QED  BY <2>2, <2>3
  <1>9. o = [i \in 1..n |-> o[i]]
    BY DEF Ordered
  <1> HIDE DEF o
  <1>10. o \in Seq(S) /\ Len(o) = n /\ DOMAIN o = 1..n
    BY <1>1, <1>8, <1>9
  <1>11. IsInjective(o)
    BY <1>1, <1>8, <1>10 DEF IsInjective
  <1>12. ToSet(o) = S
    <2>1. ASSUME NEW x \in S
          PROVE  x \in ToSet(o)
      <3>1. place(x) + 1 \in 1..n
        BY <1>1, <1>2 DEF T
      <3>2. place(o[place(x) + 1]) = (place(x) + 1) - 1
        BY <1>8, <3>1
      <3>3. place(o[place(x) + 1]) = place(x)
        BY <1>1, <1>2, <3>2 DEF T
      <3>4. o[place(x) + 1] = x
        BY <1>3, <1>8, <3>1, <3>3
      <3> QED  BY <1>10, <3>1, <3>4 DEF ToSet
    <2> QED  BY <1>8, <1>10, <2>1 DEF ToSet
  <1>13. ASSUME NEW i \in 1..n, NEW j \in 1..n, i < j
         PROVE  <<o[i], o[j]>> \in R
    <2>1. o[i] # o[j]
      BY <1>10, <1>11, <1>13 DEF IsInjective
    <2>2. ASSUME <<o[j], o[i]>> \in R
          PROVE  FALSE
      <3>1. place(o[j]) < place(o[i])
        BY <1>2, <1>8, <2>2
      <3> QED  BY <1>1, <1>8, <1>13, <3>1
    <2> QED  BY <1>8, <2>1, <2>2 DEF StrictOrder
  <1> QED  BY <1>1, <1>10, <1>11, <1>12, <1>13 DEF o

=============================================================================
