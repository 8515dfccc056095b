------------------------------ MODULE Ordering ------------------------------
(***************************************************************************)
(* The console's sorting.  The strings it sorts are field keys, field      *)
(* values and span names; TLC cannot compare strings, so a constant lists  *)
(* them in their order.  Vectors are compared as Rust compares them, from  *)
(* the first element that differs, a prefix before what extends it.        *)
(***************************************************************************)
EXTENDS Integers, Sequences, SequencesExt, FiniteSets, FiniteSetsExt

CONSTANT
    Alphabetical  \* the strings of the model, in alphabetical order

AllStrings == ToSet(Alphabetical)

ASSUME OrderingAssumption == Alphabetical \in Seq(AllStrings) /\ IsInjective(Alphabetical)

Rank(string) == CHOOSE i \in DOMAIN Alphabetical : Alphabetical[i] = string
Ranks(strings) == [i \in DOMAIN strings |-> Rank(strings[i])]

(* Vec<T>::cmp for vectors of numbers.                                     *)
Before(left, right) ==
    \E i \in 1..Len(right) :
        /\ \A j \in 1..(i - 1) : j <= Len(left) /\ left[j] = right[j]
        /\ i > Len(left) \/ left[i] < right[i]

(* A finite set in an order that is total on it: each element stands       *)
(* behind those that come before it.                                       *)
InOrder(S, before(_, _)) ==
    [i \in 1..Cardinality(S) |->
        CHOOSE x \in S : Cardinality({y \in S : before(y, x)}) = i - 1]

Alphabetically(strings) == InOrder(strings, LAMBDA m, n : Rank(m) < Rank(n))

(* A vector of (key, value) pairs in the order of its keys; here a         *)
(* function from keys to values, which this flattens for comparison.       *)
Pairs(splits) ==
    LET keys == Alphabetically(DOMAIN splits)
    IN  [i \in 1..(2 * Len(keys)) |->
            LET key == keys[(i + 1) \div 2]
            IN  IF i % 2 = 1 THEN Rank(key) ELSE Rank(splits[key])]

(* sort_by_key: equal elements keep their order.                           *)
StableSort(seq, Key(_)) ==
    LET sooner(i, j) == Key(seq[i]) < Key(seq[j]) \/ (Key(seq[i]) = Key(seq[j]) /\ i < j)
        order == InOrder(DOMAIN seq, sooner)
    IN  [i \in DOMAIN seq |-> seq[order[i]]]

(* Iterator::filter.                                                       *)
Filter(seq, Test(_)) ==
    LET kept == InOrder({i \in DOMAIN seq : Test(seq[i])}, <)
    IN  [i \in DOMAIN kept |-> seq[kept[i]]]

(* The field keys of the spans of a stack that are in the ring.            *)
candidate_split_keys_for(a, stack) ==
    Alphabetically(UNION {DOMAIN a.by_id[id].span.fields :
                            id \in {i \in DOMAIN a.by_id : a.by_id[i].bucket.stack = stack}})

=============================================================================
