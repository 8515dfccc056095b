----------------------------- MODULE Aggregator -----------------------------
(***************************************************************************)
(* The console's aggregation: a bounded ring of closed spans, one bucket   *)
(* of statistics per ancestry stack and split values, the time of children *)
(* taken from their parent, and the children that wait for a parent which  *)
(* has not come (children close first, so that is the usual order).        *)
(*                                                                         *)
(* The aggregator is a record, and the functions of the code that mutate   *)
(* it are operators that return the next one.  absorb_resolved calls       *)
(* itself for the children it frees, and rebuild_buckets calls it for the  *)
(* whole ring: `todo` is what is still to be absorbed, in the order of     *)
(* those calls, and a step is one of them.  A field list is a function     *)
(* from keys to values, a span's total its closing time minus its opening. *)
(***************************************************************************)
EXTENDS Integers, Sequences, SequencesExt, FiniteSets, FiniteSetsExt, Bags, TLC

Bag == INSTANCE BagsExt

CONSTANTS
    Spans,    \* the closed spans the hosts may send
    Budgets,  \* history budgets the console may be started with
    Keys      \* fields the user may split by

NoParent == 0   \* parent_id None

(* The spans of one host, whose ids are unique (SpanCache).                *)
ASSUME AggregatorAssumption ==
    /\ IsFiniteSet(Spans)
    /\ \A s, t \in Spans : s.id = t.id => s = t
    /\ \A s \in Spans :
          /\ s.id \in Nat \ {NoParent} /\ s.parent_id \in Nat /\ s.total_ns \in Nat
          /\ DOMAIN s.fields \subseteq Keys
    /\ Budgets \subseteq Nat \ {0}

VARIABLES
    agg,      \* the Aggregator
    todo,     \* calls of absorb_resolved to come
    saved,    \* pending, set aside while rebuild_buckets runs; or Nothing
    received  \* history: the spans that came

aggVars == <<agg, todo, saved, received>>

Nothing == [pending |-> <<>>, pending_len |-> -1]

pending_cap(a) == IF a.history_budget \div 4 > 1 THEN a.history_budget \div 4 ELSE 1

AggInit ==
    /\ \E budget \in Budgets :
          agg = [history_budget |-> budget, order |-> <<>>, by_id |-> <<>>,
                 child_sum |-> <<>>, pending |-> <<>>, pending_len |-> 0,
                 buckets |-> <<>>, split_keys |-> {}]
    /\ todo = <<>>
    /\ saved = Nothing
    /\ received = {}

AtRest == todo = <<>> /\ saved = Nothing

-----------------------------------------------------------------------------
(* Maps and saturating subtraction                                         *)

Without(map, key) == [k \in DOMAIN map \ {key} |-> map[k]]
At(map, key, default) == IF key \in DOMAIN map THEN map[key] ELSE default
Put(map, key, value) == [k \in DOMAIN map \cup {key} |-> IF k = key THEN value ELSE map[k]]
Less(m, n) == IF m > n THEN m - n ELSE 0
Lowest(keys) == CHOOSE k \in keys : \A other \in keys : k <= other

-----------------------------------------------------------------------------
(* Buckets                                                                 *)

BucketState == [count |-> 0, total_sum_ns |-> 0, self_sum_ns |-> 0,
                total_ns_multiset |-> EmptyBag, self_ns_multiset |-> EmptyBag]

add(b, total_ns, self_ns) ==
    [count |-> b.count + 1,
     total_sum_ns |-> b.total_sum_ns + total_ns,
     self_sum_ns |-> b.self_sum_ns + self_ns,
     total_ns_multiset |-> Bag!BagAdd(b.total_ns_multiset, total_ns),
     self_ns_multiset |-> Bag!BagAdd(b.self_ns_multiset, self_ns)]

remove(b, total_ns, self_ns) ==
    [count |-> b.count - 1,
     total_sum_ns |-> b.total_sum_ns - total_ns,
     self_sum_ns |-> b.self_sum_ns - self_ns,
     total_ns_multiset |-> Bag!BagRemove(b.total_ns_multiset, total_ns),
     self_ns_multiset |-> Bag!BagRemove(b.self_ns_multiset, self_ns)]

(* Mutant: an inherited split value wins over the span's own.              *)
SplitsOfParentWin(span, inherited, split_keys) ==
    LET own == DOMAIN span.fields \cap split_keys IN
    [k \in own \cup DOMAIN inherited |->
        IF k \in DOMAIN inherited THEN inherited[k] ELSE span.fields[k]]

collect_splits(span, inherited, split_keys) ==
    LET own == DOMAIN span.fields \cap split_keys IN
    [k \in own \cup DOMAIN inherited |-> IF k \in own THEN span.fields[k] ELSE inherited[k]]

(* resolve_root and resolve_with_parent.                                   *)
resolve(a, span) ==
    LET parent == IF span.parent_id = NoParent
                  THEN [stack |-> <<>>, splits |-> <<>>]
                  ELSE a.by_id[span.parent_id].bucket
    IN  [stack |-> Append(parent.stack, span.name),
         splits |-> collect_splits(span, parent.splits, a.split_keys)]

(* Mutant: the entry is rewritten, its bucket is not.                      *)
BumpEntryOnly(a, id, sum) ==
    [a EXCEPT !.by_id[id].self_ns = Less(a.by_id[id].total_ns, sum)]

(* Rewrite what `id` contributes to its bucket for a new sum of children.  *)
bump_parent_self(a, id, sum) ==
    LET entry == a.by_id[id]
        self_ns == Less(entry.total_ns, sum)
        rewritten == add(remove(a.buckets[entry.bucket], entry.total_ns, entry.self_ns),
                         entry.total_ns, self_ns)
    IN  IF self_ns = entry.self_ns THEN a
        ELSE [a EXCEPT
            !.by_id[id].self_ns = self_ns,
            !.buckets = IF entry.bucket \notin DOMAIN @ THEN @
                        ELSE [@ EXCEPT ![entry.bucket] = rewritten]]

-----------------------------------------------------------------------------
(* Eviction                                                                *)

(* What the child took from its parent's self time goes back to it.  Only  *)
(* reused ids get here: a parent enters the ring, and leaves it, first.    *)
GiveBack(a, entry) ==
    LET parent == entry.span.parent_id
        sum == Less(a.child_sum[parent], entry.total_ns)
    IN  IF parent \in DOMAIN a.by_id /\ parent \in DOMAIN a.child_sum
        THEN bump_parent_self(
                [a EXCEPT !.child_sum = IF sum = 0 THEN Without(@, parent)
                                                   ELSE [@ EXCEPT ![parent] = sum]],
                parent, sum)
        ELSE a

(* Mutant: only the queue forgets the span.                                *)
EvictFromOrder(a) == [a EXCEPT !.order = Tail(@)]

evict_oldest(a) ==
    LET id == Head(a.order)
        popped == [a EXCEPT !.order = Tail(@)]
        entry == a.by_id[id]
        left == remove(a.buckets[entry.bucket], entry.total_ns, entry.self_ns)
    IN  IF id \notin DOMAIN a.by_id THEN popped
        ELSE GiveBack([popped EXCEPT
                !.by_id = Without(@, id),
                !.pending = Without(@, id),
                !.pending_len = @ - Len(At(a.pending, id, <<>>)),
                !.child_sum = Without(@, id),
                !.buckets = IF entry.bucket \notin DOMAIN @ THEN @
                            ELSE IF left.count = 0 THEN Without(@, entry.bucket)
                            ELSE [@ EXCEPT ![entry.bucket] = left]],
             entry)

(* The ring never exceeds its budget, so the loop runs once at most.       *)
MakeRoom(a) == IF Len(a.order) >= a.history_budget THEN evict_oldest(a) ELSE a

-----------------------------------------------------------------------------
(* Absorbing                                                               *)

(* Mutant: the parent is looked up once room was made.                     *)
MissingAfterRoom(a, span) ==
    span.parent_id # NoParent /\ span.parent_id \notin DOMAIN MakeRoom(a).by_id

ParentMissing(a, span) ==
    span.parent_id # NoParent /\ span.parent_id \notin DOMAIN a.by_id

(* Mutant: the dropped spans are still counted.                            *)
ParkCountingDropped(a, span) ==
    LET parent == span.parent_id
        parked == [a EXCEPT
            !.pending = Put(@, parent, Append(At(@, parent, <<>>), span)),
            !.pending_len = @ + 1]
    IN  IF parked.pending_len <= pending_cap(a) THEN parked
        ELSE [parked EXCEPT !.pending = Without(@, Lowest(DOMAIN @))]

(* One span over the cap drops every span of the lowest missing parent;    *)
(* that brings pending_len back to the cap at once.                        *)
park_pending(a, span) ==
    LET parent == span.parent_id
        parked == [a EXCEPT
            !.pending = Put(@, parent, Append(At(@, parent, <<>>), span)),
            !.pending_len = @ + 1]
        lowest == Lowest(DOMAIN parked.pending)
    IN  IF parked.pending_len <= pending_cap(a) THEN parked
        ELSE [parked EXCEPT !.pending = Without(@, lowest),
                            !.pending_len = @ - Len(parked.pending[lowest])]

(* Mutant: the parent only gives time to its latest child.                 *)
TakeForLatestChild(a, span) ==
    LET parent == span.parent_id IN
    IF parent \notin DOMAIN a.by_id THEN a
    ELSE bump_parent_self([a EXCEPT !.child_sum = Put(@, parent, span.total_ns)],
                          parent, span.total_ns)

TakeFromParent(a, span) ==
    LET parent == span.parent_id
        sum == At(a.child_sum, parent, 0) + span.total_ns
    IN  IF parent \notin DOMAIN a.by_id THEN a
        ELSE bump_parent_self([a EXCEPT !.child_sum = Put(@, parent, sum)], parent, sum)

(* Mutant: a parent frees the first of the children that wait for it.      *)
FirstWaiter(a, id) == IF id \in DOMAIN a.pending THEN <<Head(a.pending[id])>> ELSE <<>>

Waiters(a, id) == At(a.pending, id, <<>>)

(* absorb_resolved for a span whose parent is in the ring, or a root.  The *)
(* bucket and self time are settled before room is made, which may evict   *)
(* that parent.                                                            *)
InsertSpan(a, span) ==
    LET bucket == resolve(a, span)
        self_ns == Less(span.total_ns, At(a.child_sum, span.id, 0))
        b == TakeFromParent(MakeRoom(a), span)
    IN  [b EXCEPT
            !.buckets = Put(@, bucket,
                            add(At(@, bucket, BucketState), span.total_ns, self_ns)),
            !.order = Append(@, span.id),
            !.by_id = Put(@, span.id, [span |-> span, bucket |-> bucket,
                                       total_ns |-> span.total_ns, self_ns |-> self_ns]),
            !.pending = Without(@, span.id),
            !.pending_len = @ - Len(Waiters(b, span.id))]

absorb(span) ==
    /\ AtRest
    /\ span \notin received
    /\ todo' = <<span>>
    /\ received' = received \cup {span}
    /\ UNCHANGED <<agg, saved>>

ParkStep ==
    /\ todo # <<>> /\ ParentMissing(agg, Head(todo))
    /\ agg' = park_pending(agg, Head(todo))
    /\ todo' = Tail(todo)
    /\ UNCHANGED <<saved, received>>

InsertStep ==
    /\ todo # <<>> /\ ~ParentMissing(agg, Head(todo))
    /\ agg' = InsertSpan(agg, Head(todo))
    /\ todo' = Waiters(MakeRoom(agg), Head(todo).id) \o Tail(todo)
    /\ UNCHANGED <<saved, received>>

-----------------------------------------------------------------------------
(* Changing the split keys                                                 *)

(* by_id.remove along order: LockStep finds an entry for each.             *)
SpansInOrder(a) == [i \in DOMAIN a.order |-> a.by_id[a.order[i]].span]

set_split_keys(keys) ==
    /\ AtRest
    /\ keys # agg.split_keys
    /\ agg' = [agg EXCEPT !.split_keys = keys, !.buckets = <<>>, !.child_sum = <<>>,
                          !.order = <<>>, !.by_id = <<>>,
                          !.pending = <<>>, !.pending_len = 0]
    /\ todo' = SpansInOrder(agg)
    /\ saved' = [pending |-> agg.pending, pending_len |-> agg.pending_len]
    /\ UNCHANGED received

(* The end of rebuild_buckets; nothing else can happen before it.          *)
RestorePending ==
    /\ todo = <<>> /\ saved # Nothing
    /\ agg' = [agg EXCEPT !.pending = saved.pending, !.pending_len = saved.pending_len]
    /\ saved' = Nothing
    /\ UNCHANGED <<todo, received>>

-----------------------------------------------------------------------------

AggNext ==
    \/ \E span \in Spans : absorb(span)
    \/ ParkStep \/ InsertStep
    \/ \E keys \in SUBSET Keys : set_split_keys(keys)
    \/ RestorePending

AggSpec == AggInit /\ [][AggNext]_aggVars

-----------------------------------------------------------------------------
(* Properties                                                              *)

InRing == DOMAIN agg.by_id
Parked == {span \in Spans : \E p \in DOMAIN agg.pending : Contains(agg.pending[p], span)}

(* The ring keeps its budget, and pending_len counts what is parked and    *)
(* keeps its cap (state.rs:259, 311).                                      *)
TypeOK ==
    /\ agg.history_budget \in Budgets
    /\ agg.split_keys \subseteq Keys
    /\ agg.order \in Seq({s.id : s \in Spans}) /\ Len(agg.order) <= agg.history_budget
    /\ IsInjective(agg.order)
    /\ \A id \in InRing : agg.by_id[id].span \in received /\ agg.by_id[id].self_ns \in Nat
    /\ \A id \in DOMAIN agg.child_sum : agg.child_sum[id] \in Nat
    /\ \A p \in DOMAIN agg.pending :
          agg.pending[p] # <<>> /\ ToSet(agg.pending[p]) \subseteq received
    /\ agg.pending_len = SumFunction([p \in DOMAIN agg.pending |-> Len(agg.pending[p])])
    /\ agg.pending_len <= pending_cap(agg)
    /\ todo \in Seq(received)

(* The comment at state.rs:97-98: every id in order has an entry, and vice *)
(* versa.  Eviction, drained children and a rebuild must keep it so.       *)
LockStep == ToSet(agg.order) = InRing

(* A child never waits for a parent that is in the ring: the parent's own  *)
(* arrival frees it, also when that makes the ring evict, and a child that *)
(* comes after the parent was evicted waits for an absent one (state.rs:   *)
(* 300, 331, 460).  A stranded child would never be shown.                 *)
NoStrandedChild ==
    \A p \in DOMAIN agg.pending :
        /\ p \notin InRing
        /\ \A span \in ToSet(agg.pending[p]) : span.parent_id = p

Contributors(ring, bucket) == {id \in DOMAIN ring : ring[id].bucket = bucket}
Tally(times) == FoldFunction(LAMBDA ns, bag : Bag!BagAdd(bag, ns), EmptyBag, times)

Recount(ring, ids) ==
    LET totals == [id \in ids |-> ring[id].total_ns]
        selves == [id \in ids |-> ring[id].self_ns]
    IN  [count |-> Cardinality(ids),
         total_sum_ns |-> SumFunction(totals), self_sum_ns |-> SumFunction(selves),
         total_ns_multiset |-> Tally(totals), self_ns_multiset |-> Tally(selves)]

(* What the rows show is what the ring holds: every bucket equals a count  *)
(* from scratch over the entries of the ring, after any sequence of        *)
(* arrivals, evictions, bumps of parents and rebuilds (state.rs:37, 343,   *)
(* 387).                                                                   *)
BucketsRecount ==
    agg.buckets = [bucket \in {agg.by_id[id].bucket : id \in InRing} |->
        Recount(agg.by_id, Contributors(agg.by_id, bucket))]

Children(ring, id) == {c \in DOMAIN ring : ring[c].span.parent_id = id}
ChildTime(ring, id) == SumFunction([c \in Children(ring, id) |-> ring[c].total_ns])

(* A span's self time is its total less the totals of its children that    *)
(* are in the ring, each taken once, whatever comes and goes in whatever   *)
(* order, and in a rebuild again (state.rs:274, 446).                      *)
SelfTimeExact ==
    \A id \in InRing :
        agg.by_id[id].self_ns = Less(agg.by_id[id].total_ns, ChildTime(agg.by_id, id))

=============================================================================
