---------------------------- MODULE MCSpanCache ----------------------------
(***************************************************************************)
(* TLC instance of the producer side alone: nobody reads the channels, so  *)
(* they fill up and batches are refused.  Threads are interchangeable.     *)
(***************************************************************************)
EXTENDS SpanCache, TLC

ThreadSymmetry == Permutations(Threads)

(* Every thread may have passed MayOpen before the first of them allocates.*)
IdSpace == 0 .. MaxId + ID_BATCH * Cardinality(Threads)

IdsOf(spans) == [i \in DOMAIN spans |-> spans[i].id]

Feed == INSTANCE SpanFeed WITH
    Ids <- IdSpace,
    PENDING_SPAN <- [t \in Threads |-> IdsOf(PENDING_SPAN[t])],
    span_ch <- [t \in Threads |-> IdsOf(span_ch[t])],
    open <- {entries[k.lane][k.slot].id : k \in Open}

(* Under scoped guards and without clones, slabs, sidecars, stacks and id  *)
(* reservations come to what SpanFeed says: fresh ids that grow along each *)
(* thread, events for open spans only and for the span that was meant, and *)
(* every span closed once (cache.rs:368, 471, 542).                        *)
ImplementsFeed == Feed!FeedSpec

=============================================================================
