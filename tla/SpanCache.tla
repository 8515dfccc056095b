----------------------------- MODULE SpanCache -----------------------------
(***************************************************************************)
(* The producer half of tracing-cache: the `tracing::Subscriber` callbacks *)
(* that many application threads run at once (new_span, enter, exit,       *)
(* event, try_close), the sharded slab of open spans with its lock-free    *)
(* sidecar of actual ids, the per-thread id reservation, and the           *)
(* per-thread PENDING buffers with the flush into the two channels.        *)
(*                                                                         *)
(* A callback is cut into steps where another thread can run between two   *)
(* accesses to shared memory: resolving the parent (sidecar load), taking  *)
(* an id (fetch_add), inserting under the slab lock, publishing in the     *)
(* sidecar, and each of the two sends of a flush.  Thread-local work rides *)
(* on the shared access it belongs to.                                     *)
(***************************************************************************)
EXTENDS Buffers

CONSTANTS
    LaneCount,        \* slab shards (a power of two in the code)
    ShardCapacity,    \* open spans one shard may hold
    ID_BATCH,         \* ids a thread reserves with one fetch_add
    ShardSpan,        \* 2^shard_shift: the encoded ids of one shard
    ScopedGuards,     \* TRUE: enter guards are dropped in LIFO order
    MaxClones,        \* bound: clones of Span handles at a time
    MaxId,            \* bound: no new_span begins once the next id reaches it
    MaxEvents,        \* bound: events emitted
    MaxDepth,         \* bound: entered spans per thread
    MaxThreadKeys     \* bound: thread starts that claim a shard key

ASSUME CacheAssumption ==
    /\ LaneCount \in Nat \ {0}
    /\ ShardCapacity \in Nat
    /\ ID_BATCH \in Nat \ {0}
    /\ ShardSpan \in Nat /\ ShardCapacity + 2 <= ShardSpan
    /\ ScopedGuards \in BOOLEAN
    /\ {MaxClones, MaxId, MaxEvents, MaxDepth, MaxThreadKeys} \subseteq Nat

DISABLED == 1        \* the tracing id of a rejected span
SLAB_OFFSET == 2     \* slab slot 0 encodes as 2
NoParent == 0        \* parent_id None; real ids start at ID_BATCH
Unassigned == -1     \* THREAD_SHARD_KEY not claimed yet
Vacant == [id |-> -1, parent_id |-> -1]  \* an empty slab entry

Lanes == 0 .. LaneCount - 1
Slots == 0 .. ShardCapacity   \* one more than the sidecar can address

SpanRecord == [id : Nat, parent_id : Nat]
EventMessage == [parent_actual_id : Nat, event : Nat]
StackedSpan == [tracing_id : Nat, actual_id : Nat]

(* A `tracing::Span` value the application holds: the tracing id it got,   *)
(* the span it stands for, and which clone of the value it is.  A rejected *)
(* span is always at hand, since the predicate may reject any.             *)
Handle == [tracing_id : Nat, actual_id : Nat, copy : 0 .. MaxClones]
DisabledHandle == [tracing_id |-> DISABLED, actual_id |-> 0, copy |-> 0]

VARIABLES
    id_high_water,     \* SpanCache::id_high_water
    ID_CURSOR,         \* [thread]: thread-local id reservation
    next_thread_key,   \* NEXT_THREAD_KEY
    THREAD_SHARD_KEY,  \* [thread]: thread-local
    entries,           \* [lane][slot]: the slab's entries
    grown,             \* [lane]: how many entries the slab's Vec has
    actual_ids,        \* [lane][slot]: the sidecar
    SPAN_STACK,        \* [thread]: thread-local
    entered,           \* [thread]: handles with a live enter guard, oldest first
    handles,           \* Span values the application holds
    pc, call,          \* [thread]: where its new_span is, and its locals
    issued,            \* history: the spans opened, in order: their ids, their threads
    emitted            \* history: who emitted each event, and for which span

reservation == <<id_high_water, ID_CURSOR, next_thread_key, THREAD_SHARD_KEY>>
slab == <<entries, grown>>
scopes == <<SPAN_STACK, entered>>
calls == <<pc, call>>
history == <<issued, emitted>>
cacheVars == <<bufVars, reservation, slab, actual_ids, scopes, handles, calls, history>>

NoCall == [parent |-> 0, id |-> 0, slot |-> 0]

CacheInit ==
    /\ BuffersInit
    /\ id_high_water = ID_BATCH
    /\ ID_CURSOR = [t \in Threads |-> 0]
    /\ next_thread_key = 0
    /\ THREAD_SHARD_KEY = [t \in Threads |-> Unassigned]
    /\ entries = [l \in Lanes |-> [s \in Slots |-> Vacant]]
    /\ grown = [l \in Lanes |-> 0]
    /\ actual_ids = [l \in Lanes |-> [s \in 0 .. ShardCapacity - 1 |-> 0]]
    /\ SPAN_STACK = [t \in Threads |-> <<>>]
    /\ entered = [t \in Threads |-> <<>>]
    /\ handles = {DisabledHandle}
    /\ pc = [t \in Threads |-> "idle"]
    /\ call = [t \in Threads |-> NoCall]
    /\ issued = <<>>
    /\ emitted = <<>>

(* The thread is in no callback: the application may make the next call.   *)
AtRest(t) == pc[t] = "idle" /\ flushing[t] = "no"

-----------------------------------------------------------------------------
(* Tracing ids: shard in the top bits, slot + SLAB_OFFSET below.           *)

(* Mutant: the shard bits are left out.                                    *)
EncodeSlotOnly(shard, slab_idx) == slab_idx + SLAB_OFFSET
encode_tracing_id(shard, slab_idx) == shard * ShardSpan + slab_idx + SLAB_OFFSET

(* Mutant: slot 0 is taken for a reserved id.                              *)
DecodesButFirst(id) == id # DISABLED /\ (id % ShardSpan) > SLAB_OFFSET
Decodes(id) == id # DISABLED /\ (id % ShardSpan) >= SLAB_OFFSET
ShardOf(id) == (id \div ShardSpan) % LaneCount
SlotOf(id) == (id % ShardSpan) - SLAB_OFFSET

(* Mutant: the sidecar of lane 0 serves every lane.                        *)
LoadFromFirstLane(id) == actual_ids[0][SlotOf(id)]
load_actual_id(id) == actual_ids[ShardOf(id)][SlotOf(id)]

stack_top(t) == Last(SPAN_STACK[t])
(* Mutant: a rejected span on top of the stack counts as an active one.    *)
NoEnteredSpan(t) == SPAN_STACK[t] = <<>>
NoActiveSpan(t) == SPAN_STACK[t] = <<>> \/ stack_top(t).tracing_id = DISABLED

(* The slab crate: insert reuses a vacant entry before the Vec grows.      *)
Occupied(l) == {s \in Slots : entries[l][s] # Vacant}
InsertKeys(l) ==
    LET freed == {s \in Slots : s < grown[l] /\ entries[l][s] = Vacant}
    IN  IF freed # {} THEN freed ELSE {grown[l]}

-----------------------------------------------------------------------------
(* new_span                                                                *)

(* Mutant: a cursor past its reservation goes on.                          *)
NeverReserved(t) == ID_CURSOR[t] = 0

(* The thread's id reservation is used up; true of the initial cursor 0.   *)
Exhausted(t) == (ID_CURSOR[t] % ID_BATCH) = 0

(* The caller gets a DisabledHandle.                                       *)
ReturnDisabled(t) ==
    /\ pc' = [pc EXCEPT ![t] = "idle"]
    /\ call' = [call EXCEPT ![t] = NoCall]

(* Step A found the parent; step B, the predicate, may still say no.       *)
Resolved(t, parent) ==
    \/ /\ pc' = [pc EXCEPT ![t] = "resolved"]
       /\ call' = [call EXCEPT ![t].parent = parent]
    \/ ReturnDisabled(t)

(* Room under the bound for one more id; not part of the code.             *)
MayOpen(t) == (IF Exhausted(t) THEN id_high_water ELSE ID_CURSOR[t]) < MaxId

NewSpanContextual(t) ==
    /\ AtRest(t) /\ MayOpen(t)
    /\ IF NoActiveSpan(t) THEN ReturnDisabled(t)
                          ELSE Resolved(t, stack_top(t).actual_id)
    /\ UNCHANGED <<bufVars, reservation, slab, actual_ids, scopes, handles, history>>

NewSpanRoot(t) ==
    /\ AtRest(t) /\ MayOpen(t)
    /\ IF SPAN_STACK[t] # <<>> THEN ReturnDisabled(t) ELSE Resolved(t, NoParent)
    /\ UNCHANGED <<bufVars, reservation, slab, actual_ids, scopes, handles, history>>

NewSpanExplicit(t, h) ==
    /\ AtRest(t) /\ MayOpen(t)
    /\ IF Decodes(h.tracing_id) THEN Resolved(t, load_actual_id(h.tracing_id))
                                ELSE ReturnDisabled(t)
    /\ UNCHANGED <<bufVars, reservation, slab, actual_ids, scopes, handles, history>>

(* Hand out from this thread's reservation, or reserve ID_BATCH more ids.  *)
allocate_actual_id(t) ==
    LET id == IF Exhausted(t) THEN id_high_water ELSE ID_CURSOR[t] IN
    /\ ID_CURSOR' = [ID_CURSOR EXCEPT ![t] = id + 1]
    /\ id_high_water' = IF Exhausted(t) THEN id_high_water + ID_BATCH ELSE id_high_water
    /\ call' = [call EXCEPT ![t].id = id]

ensure_thread_shard_key(t) ==
    IF THREAD_SHARD_KEY[t] = Unassigned
    THEN /\ THREAD_SHARD_KEY' = [THREAD_SHARD_KEY EXCEPT ![t] = next_thread_key]
         /\ next_thread_key' = next_thread_key + 1
    ELSE UNCHANGED <<THREAD_SHARD_KEY, next_thread_key>>

(* Step C, and the shard key that step D asks for first.                   *)
Allocate(t) ==
    /\ pc[t] = "resolved"
    /\ allocate_actual_id(t)
    /\ ensure_thread_shard_key(t)
    /\ pc' = [pc EXCEPT ![t] = "allocated"]
    /\ UNCHANGED <<bufVars, slab, actual_ids, scopes, handles, history>>

pick_shard(t) == THREAD_SHARD_KEY[t] % LaneCount

(* Mutant: one span too many fits.                                         *)
ShardOverFull(l) == Cardinality(Occupied(l)) > ShardCapacity

(* Step D under the slab lock: the capacity check, then insert.  A full    *)
(* shard disables the span; its id is spent.                               *)
ShardFull(l) == Cardinality(Occupied(l)) >= ShardCapacity

InsertRejected(t) ==
    /\ pc[t] = "allocated"
    /\ ShardFull(pick_shard(t))
    /\ ReturnDisabled(t)
    /\ UNCHANGED <<bufVars, reservation, slab, actual_ids, scopes, handles, history>>

Insert(t) ==
    LET l == pick_shard(t) IN
    /\ pc[t] = "allocated"
    /\ ~ShardFull(l)
    /\ \E s \in InsertKeys(l) :
        /\ entries' = [entries EXCEPT
              ![l][s] = [id |-> call[t].id, parent_id |-> call[t].parent]]
        /\ grown' = [grown EXCEPT ![l] = IF s = @ THEN @ + 1 ELSE @]
        /\ call' = [call EXCEPT ![t].slot = s]
    /\ pc' = [pc EXCEPT ![t] = "inserted"]
    /\ issued' = Append(issued, [by |-> t, id |-> call[t].id])
    /\ UNCHANGED <<bufVars, reservation, actual_ids, scopes, handles, emitted>>

(* The sidecar store, after the lock is gone, then the id is handed out.   *)
Publish(t) ==
    LET l == pick_shard(t)
        s == call[t].slot
    IN
    /\ pc[t] = "inserted"
    /\ actual_ids' = [actual_ids EXCEPT ![l][s] = call[t].id]
    /\ handles' = handles \cup {[tracing_id |-> encode_tracing_id(l, s),
                                 actual_id |-> call[t].id, copy |-> 0]}
    /\ pc' = [pc EXCEPT ![t] = "idle"]
    /\ call' = [call EXCEPT ![t] = NoCall]
    /\ UNCHANGED <<bufVars, reservation, slab, scopes, history>>

-----------------------------------------------------------------------------
(* enter, exit, event, try_close                                           *)

(* A rejected span is pushed too; its actual_id is never read.             *)
Enter(t, h) ==
    /\ AtRest(t) /\ Len(SPAN_STACK[t]) < MaxDepth
    /\ SPAN_STACK' = [SPAN_STACK EXCEPT ![t] = Append(@,
          [tracing_id |-> h.tracing_id,
           actual_id |-> IF Decodes(h.tracing_id) THEN load_actual_id(h.tracing_id) ELSE 0])]
    /\ entered' = [entered EXCEPT ![t] = Append(@, h)]
    /\ UNCHANGED <<bufVars, reservation, slab, actual_ids, handles, calls, history>>

(* The i-th oldest guard on this thread is dropped; exit pops the top.     *)
Exit(t, i) ==
    /\ AtRest(t) /\ i \in DOMAIN entered[t]
    /\ ScopedGuards => i = Len(entered[t])
    /\ entered' = [entered EXCEPT ![t] = RemoveAt(@, i)]
    /\ SPAN_STACK' = [SPAN_STACK EXCEPT ![t] = Front(@)]
    /\ UNCHANGED <<bufVars, reservation, slab, actual_ids, handles, calls, history>>

(* The event is sent to `parent`; the application meant the span of h.     *)
(* Numbering the events is ours.                                           *)
EmitTo(t, parent, h) ==
    /\ PushEvent(t, [parent_actual_id |-> parent, event |-> Len(emitted) + 1])
    /\ emitted' = Append(emitted, [by |-> t, to |-> h.actual_id])
    /\ UNCHANGED <<reservation, slab, actual_ids, scopes, handles, calls, issued>>

EventContextual(t) ==
    /\ AtRest(t) /\ Len(emitted) < MaxEvents
    /\ ~NoActiveSpan(t)
    /\ EmitTo(t, stack_top(t).actual_id, Last(entered[t]))

EventExplicit(t, h) ==
    /\ AtRest(t) /\ Len(emitted) < MaxEvents
    /\ Decodes(h.tracing_id)
    /\ EmitTo(t, load_actual_id(h.tracing_id), h)

(* Dropping a Span value calls try_close, whichever clone of it is left;   *)
(* a guard borrows the value, so an entered one cannot be dropped.         *)
Borrowed(h) == \E u \in Threads : \E i \in DOMAIN entered[u] : entered[u][i] = h

TryClose(t, h) ==
    LET l == ShardOf(h.tracing_id)
        s == SlotOf(h.tracing_id)
    IN
    /\ AtRest(t) /\ ~Borrowed(h)
    /\ handles' = handles \ ({h} \ {DisabledHandle})
    /\ IF Decodes(h.tracing_id) /\ entries[l][s] # Vacant
       THEN /\ entries' = [entries EXCEPT ![l][s] = Vacant]
            /\ PushSpan(t, entries[l][s])
       ELSE UNCHANGED <<entries, bufVars>>
    /\ UNCHANGED <<reservation, grown, actual_ids, scopes, calls, history>>

(* Span::clone: Subscriber::clone_span is not overridden, so the clone     *)
(* carries the same tracing id and nothing is counted.                     *)
CloneSpan(h) ==
    /\ h.tracing_id # DISABLED
    /\ Cardinality({g \in handles : g.copy > 0}) < MaxClones
    /\ \E c \in 1 .. MaxClones :
          /\ [h EXCEPT !.copy = c] \notin handles
          /\ handles' = handles \cup {[h EXCEPT !.copy = c]}
    /\ UNCHANGED <<bufVars, reservation, slab, actual_ids, scopes, calls, history>>

(* flush_pending, called by the application or from event and try_close.   *)
FlushPending(t) ==
    /\ (AtRest(t) /\ flush_pending(t)) \/ FlushEvents(t) \/ FlushSpans(t)
    /\ UNCHANGED <<reservation, slab, actual_ids, scopes, handles, calls, history>>

(* The thread ends and another starts in its place.  The thread-locals die *)
(* with it, both PENDING buffers unsent: nothing flushes them on exit.     *)
ThreadExit(t) ==
    /\ AtRest(t) /\ entered[t] = <<>>
    /\ THREAD_SHARD_KEY[t] # Unassigned => next_thread_key < MaxThreadKeys
    /\ LosePending(t)
    /\ ID_CURSOR' = [ID_CURSOR EXCEPT ![t] = 0]
    /\ THREAD_SHARD_KEY' = [THREAD_SHARD_KEY EXCEPT ![t] = Unassigned]
    /\ SPAN_STACK' = [SPAN_STACK EXCEPT ![t] = <<>>]
    /\ UNCHANGED <<id_high_water, next_thread_key, slab, actual_ids, entered, handles,
                   calls, history>>

-----------------------------------------------------------------------------

ThreadStep(t) ==
    \/ NewSpanContextual(t) \/ NewSpanRoot(t)
    \/ \E h \in handles : NewSpanExplicit(t, h)
    \/ Allocate(t) \/ InsertRejected(t) \/ Insert(t) \/ Publish(t)
    \/ \E h \in handles : Enter(t, h)
    \/ \E i \in 1 .. MaxDepth : Exit(t, i)
    \/ EventContextual(t)
    \/ \E h \in handles : EventExplicit(t, h)
    \/ \E h \in handles : TryClose(t, h)
    \/ FlushPending(t)
    \/ ThreadExit(t)

CacheNext == (\E t \in Threads : ThreadStep(t)) \/ (\E h \in handles : CloneSpan(h))

CacheSpec == CacheInit /\ [][CacheNext]_cacheVars

-----------------------------------------------------------------------------
(* Properties                                                              *)

Entry == [lane : Lanes, slot : Slots]
Open == {k \in Entry : entries[k.lane][k.slot] # Vacant}
Inserting(t, k) == pc[t] = "inserted" /\ k = [lane |-> pick_shard(t), slot |-> call[t].slot]
RefersTo(h, k) == h.tracing_id = encode_tracing_id(k.lane, k.slot)

ReservationType ==
    /\ id_high_water \in Nat
    /\ ID_CURSOR \in [Threads -> Nat]
    /\ next_thread_key \in Nat
    /\ THREAD_SHARD_KEY \in [Threads -> Nat \cup {Unassigned}]
SlabType ==
    /\ entries \in [Lanes -> [Slots -> SpanRecord \cup {Vacant}]]
    /\ grown \in [Lanes -> Nat]
    /\ actual_ids \in [Lanes -> [0 .. ShardCapacity - 1 -> Nat]]
ScopeType ==
    /\ SPAN_STACK \in [Threads -> Seq(StackedSpan)]
    /\ entered \in [Threads -> Seq(Handle)]
    /\ handles \subseteq Handle
CallType ==
    /\ pc \in [Threads -> {"idle", "resolved", "allocated", "inserted"}]
    /\ call \in [Threads -> [parent : Nat, id : Nat, slot : Slots]]
BufferType ==
    /\ PENDING_SPAN \in [Threads -> Seq(SpanRecord)]
    /\ PENDING_EVENT \in [Threads -> Seq(EventMessage)]
    /\ span_ch \in [Threads -> Seq(SpanRecord)]
    /\ event_ch \in [Threads -> Seq(EventMessage)]
    /\ flushing \in [Threads -> {"no", "events", "spans"}]
HistoryType ==
    /\ issued \in Seq([by : Threads, id : Nat])
    /\ emitted \in Seq([by : Threads, to : Nat])
PendingBelowBatch ==
    \A t \in Threads : flushing[t] = "no" =>
        PendingBatch > Len(PENDING_SPAN[t]) \/ PENDING_SPAN[t] = <<>>

(* Every variable has its type, and between flushes a thread keeps fewer   *)
(* than pending_batch closed spans for itself (cache.rs:560).              *)
TypeOK ==
    /\ ReservationType /\ SlabType /\ ScopeType /\ CallType
    /\ BufferType /\ HistoryType /\ PendingBelowBatch

(* Under scoped guards and without clones, a live handle always finds the  *)
(* record of its own span in the slab and that span's id in the sidecar,   *)
(* although the sidecar is written after the slab lock is released and is  *)
(* read without any lock (cache.rs:254, 395, 429, 528).                    *)
OwnRecord ==
    \A h \in handles \ {DisabledHandle} :
        /\ entries[ShardOf(h.tracing_id)][SlotOf(h.tracing_id)].id = h.actual_id
        /\ load_actual_id(h.tracing_id) = h.actual_id

(* No slab entry is left behind: each has a handle that can still close    *)
(* it, or a new_span about to publish it.  A leaked entry would use up     *)
(* shard capacity for good (cache.rs:437).                                 *)
NoLeakedEntry ==
    \A k \in Open :
        (\E h \in handles : RefersTo(h, k)) \/ (\E t \in Threads : Inserting(t, k))

(* A thread's SPAN_STACK lists exactly the spans it has entered and not    *)
(* exited, with their own ids: contextual parents and events go to the     *)
(* innermost entered span (cache.rs:374, 487, thread_state.rs:41).         *)
StackMirrorsScopes ==
    \A t \in Threads :
        /\ Len(SPAN_STACK[t]) = Len(entered[t])
        /\ \A i \in DOMAIN entered[t] :
              SPAN_STACK[t][i] = [tracing_id |-> entered[t][i].tracing_id,
                                  actual_id |-> entered[t][i].actual_id]

(* A slot taken by an insert is not reachable before new_span returns its  *)
(* tracing id, so the sidecar store may follow the unlock (the comment at  *)
(* cache.rs:427-431: "nobody can observe this slot until we return").      *)
SlotHiddenUntilPublished ==
    \A t \in Threads, k \in Entry : Inserting(t, k) => \A h \in handles : ~RefersTo(h, k)

(* Whatever the application does with its handles, no insert gets a slot   *)
(* the sidecar cannot address, so the store of cache.rs:448 is in bounds.  *)
SidecarInBounds ==
    \A l \in Lanes :
        /\ grown[l] <= ShardCapacity
        /\ \A s \in Slots : entries[l][s] # Vacant => s < grown[l]

(* An actual id is the id of one span only, however threads come and go    *)
(* and whichever clone of a handle is dropped, although the shared counter *)
(* is touched once per ID_BATCH spans and a reservation is only a cursor   *)
(* (cache.rs:214, thread_state.rs:87).                                     *)
Opening == {t \in Threads : pc[t] = "allocated"}
UniqueIds ==
    /\ \A i, j \in DOMAIN issued : issued[i].id = issued[j].id => i = j
    /\ \A t \in Opening :
          /\ \A u \in Opening \ {t} : call[t].id # call[u].id
          /\ \A i \in DOMAIN issued : call[t].id # issued[i].id

=============================================================================
