------------------------------ MODULE Ancestry ------------------------------
(***************************************************************************)
(* What the buckets and the ring of the aggregator should be, from the     *)
(* tree of the spans alone: a span's line is its ancestors from a root     *)
(* down to the span itself.                                                *)
(***************************************************************************)
EXTENDS Aggregator

(* A span is in a line once, so no line is longer than there are spans.    *)
Descends(line) ==
    /\ line[1].parent_id = NoParent
    /\ \A i \in 2..Len(line) : line[i].parent_id = line[i - 1].id

Lines == UNION {{line \in [1..n -> Spans] : Descends(line)} : n \in 1..Cardinality(Spans)}

(* The value of a key is that of the span with it nearest to the leaf.     *)
With(line, key) == {i \in DOMAIN line : key \in DOMAIN line[i].fields}

BucketOf(line, keys) ==
    [stack |-> [i \in DOMAIN line |-> line[i].name],
     splits |-> [key \in {k \in keys : With(line, k) # {}} |->
                    line[Max(With(line, key))].fields[key]]]

-----------------------------------------------------------------------------
(* Properties                                                              *)

(* An entry stands in the bucket of its full ancestry and of the split     *)
(* values nearest to the leaf, although only its parent's bucket was read, *)
(* its ancestors may be gone, and the keys may have changed in between     *)
(* (state.rs:393-404, 468).                                                *)
BucketIsPath ==
    \A id \in InRing :
        \E line \in Lines :
            /\ Last(line) = agg.by_id[id].span
            /\ agg.by_id[id].bucket = BucketOf(line, agg.split_keys)

Rooted(span) == \E line \in Lines : Last(line) = span /\ ToSet(line) \subseteq received

(* While the budget and the cap suffice for all that came, the order in    *)
(* which spans came does not show: the ring holds every span whose         *)
(* ancestors came, and the others wait (state.rs:213, 300).                *)
ArrivalOrderIrrelevant ==
    AtRest /\ Cardinality(received) <= agg.history_budget
           /\ Cardinality({span \in received : span.parent_id # NoParent}) <= pending_cap(agg)
    => /\ InRing = {span.id : span \in {s \in received : Rooted(s)}}
       /\ Parked = {span \in received : ~Rooted(span)}

=============================================================================
