-------------------------- MODULE SpanCacheProofs --------------------------
(***************************************************************************)
(* Proofs about SpanCache for any number of threads, lanes and slots and   *)
(* any bounds.  First, clones of handles included: types, the bounds of    *)
(* the lock-free sidecar, and the uniqueness of actual ids.  Then the      *)
(* cache as applications use it: enter guards are dropped in LIFO order    *)
(* and no Span is cloned.  Every handle then reaches its own record and    *)
(* id, stacks mirror scopes, nothing leaks, and the producers keep what    *)
(* SpanFeed promises the driver.                                           *)
(***************************************************************************)
EXTENDS MCSpanCache, FiniteSetTheorems, SequenceTheorems, TLAPS

(* Which actions change which part of the state (cache.rs:368-567).        *)
LEMMA Frames ==
    ASSUME CacheNext
    PROVE  /\ UNCHANGED reservation \/ \E t \in Threads : Allocate(t) \/ ThreadExit(t)
           /\ UNCHANGED slab \/ \E t \in Threads : Insert(t) \/ \E h \in handles : TryClose(t, h)
           /\ UNCHANGED actual_ids \/ \E t \in Threads : Publish(t)
           /\ UNCHANGED <<SPAN_STACK, entered>> \/ \E t \in Threads :
                 \/ \E h \in handles : Enter(t, h)
                 \/ \E i \in 1 .. MaxDepth : Exit(t, i)
                 \/ ThreadExit(t)
           /\ UNCHANGED handles \/ (\E h \in handles : CloneSpan(h)) \/ \E t \in Threads :
                 Publish(t) \/ \E h \in handles : TryClose(t, h)
           /\ UNCHANGED calls \/ \E t \in Threads :
                 \/ NewSpanContextual(t) \/ NewSpanRoot(t)
                 \/ \E h \in handles : NewSpanExplicit(t, h)
                 \/ Allocate(t) \/ InsertRejected(t) \/ Insert(t) \/ Publish(t)
           /\ UNCHANGED bufVars \/ \E t \in Threads :
                 \/ EventContextual(t) \/ FlushPending(t) \/ ThreadExit(t)
                 \/ \E h \in handles : EventExplicit(t, h) \/ TryClose(t, h)
           /\ UNCHANGED issued \/ \E t \in Threads : Insert(t)
           /\ UNCHANGED emitted \/ \E t \in Threads :
                 EventContextual(t) \/ \E h \in handles : EventExplicit(t, h)
<1>1. CASE \E h \in handles : CloneSpan(h)
  BY <1>1 DEF CloneSpan, reservation, slab, calls, scopes, bufVars, history
<1>2. CASE \E t \in Threads : ThreadStep(t)
  <2>1. PICK t \in Threads : ThreadStep(t)
    BY <1>2
  <2>2. CASE NewSpanContextual(t) \/ NewSpanRoot(t) \/ \E h \in handles : NewSpanExplicit(t, h)
    BY <2>2 DEF NewSpanContextual, NewSpanRoot, NewSpanExplicit,
                reservation, slab, calls, scopes, bufVars, history
  <2>3. CASE Allocate(t) \/ InsertRejected(t) \/ Insert(t) \/ Publish(t)
    BY <2>3 DEF Allocate, InsertRejected, Insert, Publish,
                reservation, slab, calls, scopes, bufVars, history
  <2>4. CASE (\E h \in handles : Enter(t, h)) \/ (\E i \in 1 .. MaxDepth : Exit(t, i))
    BY <2>4 DEF Enter, Exit, reservation, slab, calls, scopes, bufVars, history
  <2>5. CASE EventContextual(t) \/ \E h \in handles : EventExplicit(t, h)
    BY <2>5 DEF EventContextual, EventExplicit, EmitTo,
                reservation, slab, calls, scopes, bufVars, history
  <2>6. CASE \E h \in handles : TryClose(t, h)
    BY <2>6 DEF TryClose, reservation, slab, calls, scopes, bufVars, history
  <2>7. CASE FlushPending(t) \/ ThreadExit(t)
    BY <2>7 DEF FlushPending, ThreadExit, reservation, slab, calls, scopes, bufVars, history
  <2>8. QED BY <2>1, <2>2, <2>3, <2>4, <2>5, <2>6, <2>7 DEF ThreadStep
<1>3. QED BY <1>1, <1>2 DEF CacheNext

-----------------------------------------------------------------------------
(* Addresses.                                                              *)

(* What encode_tracing_id packs, decode_tracing_id unpacks (cache.rs:229). *)
LEMMA RoundTrip ==
    ASSUME NEW l \in Lanes, NEW s \in 0 .. ShardCapacity - 1
    PROVE  LET id == encode_tracing_id(l, s) IN
           /\ id \in Nat /\ id # DISABLED
           /\ Decodes(id) /\ ShardOf(id) = l /\ SlotOf(id) = s
<1> DEFINE r == s + 2
<1>1. /\ LaneCount \in Nat \ {0} /\ ShardSpan \in Nat \ {0} /\ l \in Nat /\ l < LaneCount
      /\ r \in Nat /\ r < ShardSpan /\ r >= 2
  BY CacheAssumption DEF Lanes
<1>2. (l * ShardSpan + r) \div ShardSpan = l /\ (l * ShardSpan + r) % ShardSpan = r
  BY <1>1
<1>3. l % LaneCount = l
  BY <1>1
<1>4. encode_tracing_id(l, s) = l * ShardSpan + r
  BY <1>1 DEF encode_tracing_id, SLAB_OFFSET, Lanes
<1>5. l * ShardSpan + r \in Nat /\ l * ShardSpan + r >= 2
  BY <1>1
<1> QED BY <1>1, <1>2, <1>3, <1>4, <1>5 DEF Decodes, ShardOf, SlotOf, DISABLED, SLAB_OFFSET

(* Every span a handle stands for was given a slot the sidecar has.        *)
Addressed(id) ==
    \E l \in Lanes, s \in 0 .. ShardCapacity - 1 : id = encode_tracing_id(l, s)

LEMMA DecodesAddressed ==
    ASSUME NEW id, id = DISABLED \/ Addressed(id), Decodes(id)
    PROVE  ShardOf(id) \in Lanes /\ SlotOf(id) \in 0 .. ShardCapacity - 1
BY RoundTrip DEF Addressed, Decodes

-----------------------------------------------------------------------------
(* The inductive invariant behind TypeOK and SidecarInBounds.              *)

Addresses == \A h \in handles : h.tracing_id = DISABLED \/ Addressed(h.tracing_id)

ShardPicked ==
    \A t \in Threads : pc[t] \in {"allocated", "inserted"} => THREAD_SHARD_KEY[t] \in Nat

SlotHasSidecar ==
    \A t \in Threads : pc[t] = "inserted" => call[t].slot \in 0 .. ShardCapacity - 1

StackDepths == \A t \in Threads : Len(SPAN_STACK[t]) = Len(entered[t])

Inv == TypeOK /\ SidecarInBounds /\ Addresses /\ ShardPicked /\ SlotHasSidecar /\ StackDepths

LEMMA LaneSlotFacts ==
    /\ LaneCount \in Nat \ {0} /\ ShardCapacity \in Nat
    /\ \A k \in Nat : k % LaneCount \in Lanes
    /\ 0 \in Slots /\ 0 .. ShardCapacity - 1 \subseteq Slots /\ Slots \subseteq Nat
BY CacheAssumption DEF Lanes, Slots

LEMMA InitInv == CacheInit => Inv
<1> SUFFICES ASSUME CacheInit PROVE Inv
  OBVIOUS
<1>1. TypeOK
  <2>1. ReservationType /\ SlabType
    BY LaneSlotFacts, CacheAssumption DEF CacheInit, ReservationType, SlabType, Unassigned
  <2>2. ScopeType
    BY CacheAssumption DEF CacheInit, ScopeType, Handle, DisabledHandle, DISABLED
  <2>3. CallType
    BY LaneSlotFacts DEF CacheInit, CallType, NoCall
  <2>4. BufferType /\ HistoryType /\ PendingBelowBatch
    BY DEF CacheInit, BuffersInit, BufferType, HistoryType, PendingBelowBatch
  <2> QED BY <2>1, <2>2, <2>3, <2>4 DEF TypeOK
<1>2. SidecarInBounds
  BY LaneSlotFacts DEF CacheInit, SidecarInBounds
<1>3. Addresses /\ ShardPicked /\ SlotHasSidecar /\ StackDepths
  BY DEF CacheInit, Addresses, ShardPicked, SlotHasSidecar, StackDepths, DisabledHandle
<1> QED BY <1>1, <1>2, <1>3 DEF Inv

-----------------------------------------------------------------------------
(* Steps, one part of the invariant at a time.                             *)

LEMMA ReservationStep ==
    ASSUME TypeOK, CacheNext
    PROVE  ReservationType'
<1> USE DEF TypeOK
<1>1. CASE UNCHANGED reservation
  BY <1>1 DEF reservation, ReservationType
<1>2. ASSUME NEW t \in Threads, Allocate(t)
      PROVE  ReservationType'
  BY <1>2, CacheAssumption DEF Allocate, allocate_actual_id, ensure_thread_shard_key,
                               Exhausted, ReservationType
<1>3. ASSUME NEW t \in Threads, ThreadExit(t)
      PROVE  ReservationType'
  BY <1>3 DEF ThreadExit, ReservationType
<1> QED BY <1>1, <1>2, <1>3, Frames

(* The slot an insert gets is one the sidecar has: if no slot was freed,   *)
(* the slab is dense, and its length is below capacity (cache.rs:437-448). *)
LEMMA InsertFits ==
    ASSUME TypeOK, SidecarInBounds, NEW l \in Lanes, ~ShardFull(l), NEW s \in InsertKeys(l)
    PROVE  s \in 0 .. ShardCapacity - 1 /\ s <= grown[l]
<1> DEFINE freed == {slot \in Slots : slot < grown[l] /\ entries[l][slot] = Vacant}
<1>1. grown[l] \in Nat /\ grown[l] <= ShardCapacity /\ ShardCapacity \in Nat
  BY LaneSlotFacts DEF TypeOK, SlabType, SidecarInBounds
<1>2. CASE freed # {}
  <2>1. s \in Slots /\ s < grown[l]
    BY <1>2 DEF InsertKeys
  <2> QED BY <1>1, <2>1, LaneSlotFacts
<1>3. CASE freed = {}
  <2>1. s = grown[l]
    BY <1>3 DEF InsertKeys
  <2>2. 0 .. grown[l] - 1 \subseteq Occupied(l)
    BY <1>1, <1>3 DEF Occupied, Slots
  <2>3. IsFiniteSet(Occupied(l))
    <3>1. IsFiniteSet(Slots)
      BY <1>1, FS_Interval DEF Slots
    <3> QED BY <3>1, FS_Subset DEF Occupied
  <2>4. Cardinality(0 .. grown[l] - 1) = grown[l]
    <3>1. /\ 0 \in Int /\ grown[l] - 1 \in Int
          /\ (IF 0 > grown[l] - 1 THEN 0 ELSE grown[l] - 1 - 0 + 1) = grown[l]
      BY <1>1
    <3>2. Cardinality(0 .. grown[l] - 1) =
             IF 0 > grown[l] - 1 THEN 0 ELSE grown[l] - 1 - 0 + 1
      BY <3>1, FS_Interval
    <3> QED BY <3>1, <3>2
  <2>5. grown[l] <= Cardinality(Occupied(l)) /\ Cardinality(Occupied(l)) \in Nat
    BY <2>2, <2>3, <2>4, FS_Subset, FS_CardinalityType
  <2>6. Cardinality(Occupied(l)) < ShardCapacity
    BY <1>1, <2>5 DEF ShardFull
  <2> QED BY <1>1, <2>1, <2>5, <2>6
<1> QED BY <1>2, <1>3

LEMMA PickedLane ==
    ASSUME TypeOK, ShardPicked, NEW t \in Threads, pc[t] \in {"allocated", "inserted"}
    PROVE  pick_shard(t) \in Lanes
BY LaneSlotFacts DEF ShardPicked, pick_shard

LEMMA SlabStep ==
    ASSUME Inv, CacheNext
    PROVE  SlabType' /\ SidecarInBounds'
<1> USE DEF Inv
<1>0. SlabType /\ CallType
  BY DEF TypeOK
<1>1. /\ entries' \in [Lanes -> [Slots -> SpanRecord \cup {Vacant}]]
      /\ grown' \in [Lanes -> Nat]
      /\ SidecarInBounds'
  <2>1. CASE UNCHANGED slab
    BY <1>0, <2>1 DEF slab, SlabType, SidecarInBounds
  <2>2. ASSUME NEW t \in Threads, Insert(t)
        PROVE  <1>1!1 /\ <1>1!2 /\ <1>1!3
    <3> DEFINE l == pick_shard(t)
               record == [id |-> call[t].id, parent_id |-> call[t].parent]
    <3>1. l \in Lanes
      BY <2>2, PickedLane DEF Insert
    <3>2. PICK s \in InsertKeys(l) :
             /\ entries' = [entries EXCEPT ![l][s] = record]
             /\ grown' = [grown EXCEPT ![l] = IF s = @ THEN @ + 1 ELSE @]
      BY <2>2 DEF Insert
    <3>3. s \in 0 .. ShardCapacity - 1 /\ s <= grown[l] /\ s \in Slots
      BY <2>2, <3>1, InsertFits, LaneSlotFacts DEF Insert
    <3>4. record \in SpanRecord
      BY <1>0 DEF CallType, SpanRecord
    <3>5. entries' \in [Lanes -> [Slots -> SpanRecord \cup {Vacant}]]
      BY <1>0, <3>1, <3>2, <3>3, <3>4 DEF SlabType
    <3>6. grown' \in [Lanes -> Nat]
      BY <1>0, <3>1, <3>2 DEF SlabType
    <3>7. SidecarInBounds'
      <4> SUFFICES ASSUME NEW k \in Lanes
                   PROVE  /\ grown'[k] <= ShardCapacity
                          /\ \A slot \in Slots : entries'[k][slot] # Vacant => slot < grown'[k]
        BY DEF SidecarInBounds
      <4>1. CASE k # l
        BY <1>0, <3>1, <3>2, <4>1 DEF SlabType, SidecarInBounds
      <4>2. CASE k = l
        <5>1. grown[l] \in Nat /\ grown[l] <= ShardCapacity
          BY <1>0, <3>1 DEF SlabType, SidecarInBounds
        <5>2. grown'[l] = IF s = grown[l] THEN grown[l] + 1 ELSE grown[l]
          BY <1>0, <3>1, <3>2 DEF SlabType
        <5>3. grown'[l] <= ShardCapacity /\ s < grown'[l] /\ grown[l] <= grown'[l]
          BY <3>3, <5>1, <5>2, LaneSlotFacts
        <5>4. \A slot \in Slots \ {s} : entries'[l][slot] = entries[l][slot]
          BY <1>0, <3>1, <3>2 DEF SlabType
        <5>5. grown'[l] \in Nat
          BY <3>1, <3>6
        <5>6. ASSUME NEW slot \in Slots, entries'[l][slot] # Vacant
              PROVE  slot < grown'[l]
          <6>1. CASE slot = s
            BY <5>3, <6>1
          <6>2. CASE slot # s
            <7>1. slot < grown[l]
              BY <3>1, <5>4, <5>6, <6>2 DEF SidecarInBounds
            <7> QED BY <5>1, <5>3, <5>5, <7>1, LaneSlotFacts
          <6> QED BY <6>1, <6>2
        <5> QED BY <4>2, <5>3, <5>6
      <4> QED BY <4>1, <4>2
    <3> QED BY <3>5, <3>6, <3>7
  <2>3. ASSUME NEW t \in Threads, NEW h \in handles, TryClose(t, h)
        PROVE  <1>1!1 /\ <1>1!2 /\ <1>1!3
    <3> DEFINE l == ShardOf(h.tracing_id)
               s == SlotOf(h.tracing_id)
    <3>1. grown' = grown
      BY <2>3 DEF TryClose
    <3>2. entries' = entries \/ entries' = [entries EXCEPT ![l][s] = Vacant]
      BY <2>3 DEF TryClose
    <3>3. CASE entries' = entries
      BY <1>0, <3>1, <3>3 DEF SlabType, SidecarInBounds
    <3>4. CASE entries' = [entries EXCEPT ![l][s] = Vacant]
      <4>1. entries' \in [Lanes -> [Slots -> SpanRecord \cup {Vacant}]]
        BY <1>0, <3>4 DEF SlabType
      <4>2. \A k \in Lanes, slot \in Slots :
               entries'[k][slot] = entries[k][slot] \/ entries'[k][slot] = Vacant
        BY <1>0, <3>4 DEF SlabType
      <4> QED BY <1>0, <3>1, <4>1, <4>2 DEF SlabType, SidecarInBounds
    <3> QED BY <3>2, <3>3, <3>4
  <2> QED BY <2>1, <2>2, <2>3, Frames
<1>2. actual_ids' \in [Lanes -> [0 .. ShardCapacity - 1 -> Nat]]
  <2>1. CASE UNCHANGED actual_ids
    BY <1>0, <2>1 DEF SlabType
  <2>2. ASSUME NEW t \in Threads, Publish(t)
        PROVE  actual_ids' \in [Lanes -> [0 .. ShardCapacity - 1 -> Nat]]
    <3>1. call[t].id \in Nat
      BY <1>0 DEF CallType
    <3>2. PICK l, s : actual_ids' = [actual_ids EXCEPT ![l][s] = call[t].id]
      BY <2>2 DEF Publish
    <3> QED BY <1>0, <3>1, <3>2 DEF SlabType
  <2> QED BY <2>1, <2>2, Frames
<1> QED BY <1>1, <1>2 DEF SlabType

(* The lock-free load finds its sidecar slot, however old the handle       *)
(* (cache.rs:254).                                                         *)
LEMMA LoadInBounds ==
    ASSUME TypeOK, Addresses, NEW h \in handles, Decodes(h.tracing_id)
    PROVE  load_actual_id(h.tracing_id) \in Nat
<1>1. ShardOf(h.tracing_id) \in Lanes /\ SlotOf(h.tracing_id) \in 0 .. ShardCapacity - 1
  BY DecodesAddressed DEF Addresses
<1> QED BY <1>1 DEF load_actual_id, TypeOK, SlabType

LEMMA ScopeStep ==
    ASSUME Inv, CacheNext
    PROVE  ScopeType' /\ StackDepths'
<1> USE DEF Inv
<1>0. ScopeType /\ CallType
  BY DEF TypeOK
<1>1. /\ SPAN_STACK' \in [Threads -> Seq(StackedSpan)]
      /\ entered' \in [Threads -> Seq(Handle)]
      /\ StackDepths'
  <2>1. CASE UNCHANGED <<SPAN_STACK, entered>>
    BY <1>0, <2>1 DEF ScopeType, StackDepths
  <2>2. ASSUME NEW t \in Threads, NEW h \in handles, Enter(t, h)
        PROVE  <1>1!1 /\ <1>1!2 /\ <1>1!3
    <3> DEFINE top == [tracing_id |-> h.tracing_id,
                       actual_id |-> IF Decodes(h.tracing_id)
                                     THEN load_actual_id(h.tracing_id) ELSE 0]
    <3>1. h \in Handle
      BY <1>0 DEF ScopeType
    <3>2. top \in StackedSpan
      BY <3>1, LoadInBounds DEF StackedSpan, Handle
    <3>3. /\ SPAN_STACK' = [SPAN_STACK EXCEPT ![t] = Append(@, top)]
          /\ entered' = [entered EXCEPT ![t] = Append(@, h)]
      BY <2>2 DEF Enter
    <3> QED BY <1>0, <3>1, <3>2, <3>3 DEF ScopeType, StackDepths
  <2>3. ASSUME NEW t \in Threads, NEW i \in 1 .. MaxDepth, Exit(t, i)
        PROVE  <1>1!1 /\ <1>1!2 /\ <1>1!3
    <3> DEFINE stack == SPAN_STACK[t]
               guards == entered[t]
    <3>1. /\ stack \in Seq(StackedSpan) /\ guards \in Seq(Handle)
          /\ Len(stack) = Len(guards) /\ i \in 1 .. Len(guards)
      BY <1>0, <2>3 DEF Exit, ScopeType, StackDepths
    <3>2. Front(stack) \in Seq(StackedSpan) /\ Len(Front(stack)) = Len(stack) - 1
      BY <3>1 DEF Front
    <3>3. RemoveAt(guards, i) \in Seq(Handle) /\ Len(RemoveAt(guards, i)) = Len(guards) - 1
      <4>1. /\ SubSeq(guards, 1, i - 1) \in Seq(Handle) /\ Len(SubSeq(guards, 1, i - 1)) = i - 1
            /\ SubSeq(guards, i + 1, Len(guards)) \in Seq(Handle)
            /\ Len(SubSeq(guards, i + 1, Len(guards))) = Len(guards) - i
        BY <3>1
      <4>2. \A a, b \in Seq(Handle) : a \o b \in Seq(Handle) /\ Len(a \o b) = Len(a) + Len(b)
        OBVIOUS
      <4>3. /\ RemoveAt(guards, i) \in Seq(Handle)
            /\ Len(RemoveAt(guards, i)) = (i - 1) + (Len(guards) - i)
        BY <4>1, <4>2 DEF RemoveAt
      <4> QED BY <3>1, <4>3
    <3>4. /\ SPAN_STACK' = [SPAN_STACK EXCEPT ![t] = Front(@)]
          /\ entered' = [entered EXCEPT ![t] = RemoveAt(@, i)]
      BY <2>3 DEF Exit
    <3> QED BY <1>0, <3>1, <3>2, <3>3, <3>4 DEF ScopeType, StackDepths
  <2>4. ASSUME NEW t \in Threads, ThreadExit(t)
        PROVE  <1>1!1 /\ <1>1!2 /\ <1>1!3
    BY <1>0, <2>4 DEF ThreadExit, ScopeType, StackDepths
  <2> QED BY <2>1, <2>2, <2>3, <2>4, Frames
<1>2. handles' \subseteq Handle
  <2>1. CASE UNCHANGED handles
    BY <1>0, <2>1 DEF ScopeType
  <2>2. ASSUME NEW h \in handles, CloneSpan(h)
        PROVE  handles' \subseteq Handle
    <3>1. h \in Handle
      BY <1>0 DEF ScopeType
    <3>2. \A c \in 1 .. MaxClones : [h EXCEPT !.copy = c] \in Handle
      BY <3>1, CacheAssumption DEF Handle
    <3> QED BY <1>0, <2>2, <3>2 DEF CloneSpan, ScopeType
  <2>3. ASSUME NEW t \in Threads, Publish(t)
        PROVE  handles' \subseteq Handle
    <3> DEFINE l == pick_shard(t)
               s == call[t].slot
               h == [tracing_id |-> encode_tracing_id(l, s), actual_id |-> call[t].id,
                     copy |-> 0]
    <3>1. l \in Lanes /\ s \in 0 .. ShardCapacity - 1
      BY <2>3, PickedLane DEF Publish, SlotHasSidecar
    <3>2. h \in Handle
      BY <1>0, <3>1, RoundTrip, CacheAssumption DEF CallType, Handle
    <3> QED BY <1>0, <2>3, <3>2 DEF Publish, ScopeType
  <2>4. ASSUME NEW t \in Threads, NEW h \in handles, TryClose(t, h)
        PROVE  handles' \subseteq Handle
    BY <1>0, <2>4 DEF TryClose, ScopeType
  <2> QED BY <2>1, <2>2, <2>3, <2>4, Frames
<1> QED BY <1>1, <1>2 DEF ScopeType

LEMMA TopIsTyped ==
    ASSUME TypeOK, NEW t \in Threads, ~NoActiveSpan(t)
    PROVE  SPAN_STACK[t] # <<>> /\ stack_top(t).actual_id \in Nat
<1>1. SPAN_STACK[t] \in Seq(StackedSpan) /\ SPAN_STACK[t] # <<>>
  BY DEF TypeOK, ScopeType, NoActiveSpan
<1>2. SPAN_STACK[t][Len(SPAN_STACK[t])] \in StackedSpan
  BY <1>1
<1> QED BY <1>1, <1>2 DEF stack_top, Last, StackedSpan

LEMMA CallStep ==
    ASSUME Inv, CacheNext
    PROVE  CallType'
<1> USE DEF Inv
<1>0. CallType /\ ScopeType
  BY DEF TypeOK
<1> DEFINE Call == [parent : Nat, id : Nat, slot : Slots]
<1>1. CASE UNCHANGED calls
  BY <1>0, <1>1 DEF calls, CallType
<1>2. ASSUME NEW t \in Threads, ReturnDisabled(t)
      PROVE  CallType'
  <2>1. NoCall \in Call
    BY LaneSlotFacts DEF NoCall
  <2> QED BY <1>0, <1>2, <2>1 DEF ReturnDisabled, CallType
<1>3. ASSUME NEW t \in Threads, NEW parent \in Nat, Resolved(t, parent)
      PROVE  CallType'
  <2>1. [call[t] EXCEPT !.parent = parent] \in Call
    BY <1>0 DEF CallType
  <2> QED BY <1>0, <1>2, <1>3, <2>1 DEF Resolved, CallType
<1>4. ASSUME NEW t \in Threads, NewSpanContextual(t)
      PROVE  CallType'
  <2>1. CASE ~NoActiveSpan(t)
    <3>1. stack_top(t).actual_id \in Nat
      BY TopIsTyped, <2>1
    <3> QED BY <1>3, <1>4, <2>1, <3>1 DEF NewSpanContextual
  <2> QED BY <1>2, <1>4, <2>1 DEF NewSpanContextual
<1>5. ASSUME NEW t \in Threads, NewSpanRoot(t)
      PROVE  CallType'
  BY <1>2, <1>3, <1>5 DEF NewSpanRoot, NoParent
<1>6. ASSUME NEW t \in Threads, NEW h \in handles, NewSpanExplicit(t, h)
      PROVE  CallType'
  BY <1>2, <1>3, <1>6, LoadInBounds DEF NewSpanExplicit
<1>7. ASSUME NEW t \in Threads, Allocate(t)
      PROVE  CallType'
  <2> DEFINE id == IF Exhausted(t) THEN id_high_water ELSE ID_CURSOR[t]
  <2>1. id \in Nat
    BY DEF TypeOK, ReservationType
  <2>2. [call[t] EXCEPT !.id = id] \in Call
    BY <1>0, <2>1 DEF CallType
  <2> QED BY <1>0, <1>7, <2>2 DEF Allocate, allocate_actual_id, CallType
<1>8. ASSUME NEW t \in Threads, Insert(t)
      PROVE  CallType'
  <2>1. pick_shard(t) \in Lanes /\ ~ShardFull(pick_shard(t))
    BY <1>8, PickedLane DEF Insert
  <2>2. PICK s \in InsertKeys(pick_shard(t)) : call' = [call EXCEPT ![t].slot = s]
    BY <1>8 DEF Insert
  <2>3. s \in Slots
    BY <2>1, InsertFits, LaneSlotFacts
  <2>4. [call[t] EXCEPT !.slot = s] \in Call
    BY <1>0, <2>3 DEF CallType
  <2> QED BY <1>0, <1>8, <2>2, <2>4 DEF Insert, CallType
<1>9. ASSUME NEW t \in Threads, InsertRejected(t) \/ Publish(t)
      PROVE  CallType'
  <2>1. NoCall \in Call
    BY LaneSlotFacts DEF NoCall
  <2> QED BY <1>0, <1>2, <1>9, <2>1 DEF InsertRejected, Publish, CallType
<1> QED BY <1>1, <1>4, <1>5, <1>6, <1>7, <1>8, <1>9, Frames

(* A thread between id allocation and publication keeps the shard it       *)
(* picked, and only an insert puts it in charge of a slot.                 *)
LEMMA ShardStep ==
    ASSUME Inv, CacheNext
    PROVE  ShardPicked' /\ SlotHasSidecar'
<1> USE DEF Inv
<1>0. CallType /\ ReservationType
  BY DEF TypeOK
<1>1. ShardPicked'
  <2>1. CASE UNCHANGED <<reservation, calls>>
    BY <2>1 DEF reservation, calls, ShardPicked
  <2>2. ASSUME NEW t \in Threads, Allocate(t)
        PROVE  ShardPicked'
    BY <1>0, <2>2 DEF Allocate, ensure_thread_shard_key, ShardPicked, CallType, ReservationType
  <2>3. ASSUME NEW t \in Threads, ThreadExit(t)
        PROVE  ShardPicked'
    BY <1>0, <2>3 DEF ThreadExit, AtRest, calls, ShardPicked, CallType, ReservationType
  <2>4. ASSUME UNCHANGED reservation, NEW t \in Threads,
               pc'[t] \in {"idle", "resolved"} \/ pc[t] \in {"allocated", "inserted"},
               \A u \in Threads \ {t} : pc'[u] = pc[u]
        PROVE  ShardPicked'
    BY <2>4 DEF reservation, ShardPicked
  <2>5. ASSUME NEW t \in Threads, NewSpanContextual(t) \/ NewSpanRoot(t)
                                  \/ \E h \in handles : NewSpanExplicit(t, h)
        PROVE  ShardPicked'
    <3>1. UNCHANGED reservation
      BY <2>5 DEF NewSpanContextual, NewSpanRoot, NewSpanExplicit
    <3>2. pc' = [pc EXCEPT ![t] = "idle"] \/ pc' = [pc EXCEPT ![t] = "resolved"]
      BY <2>5 DEF NewSpanContextual, NewSpanRoot, NewSpanExplicit, Resolved, ReturnDisabled
    <3> QED BY <1>0, <2>4, <3>1, <3>2 DEF CallType
  <2>6. ASSUME NEW t \in Threads, InsertRejected(t) \/ Insert(t) \/ Publish(t)
        PROVE  ShardPicked'
    <3>1. UNCHANGED reservation /\ pc[t] \in {"allocated", "inserted"}
      BY <2>6 DEF InsertRejected, Insert, Publish
    <3>2. \A u \in Threads \ {t} : pc'[u] = pc[u]
      BY <1>0, <2>6 DEF InsertRejected, ReturnDisabled, Insert, Publish, CallType
    <3> QED BY <2>4, <3>1, <3>2
  <2> QED BY <2>1, <2>2, <2>3, <2>5, <2>6, Frames
<1>2. SlotHasSidecar'
  <2>1. CASE UNCHANGED calls
    BY <2>1 DEF calls, SlotHasSidecar
  <2>2. ASSUME NEW t \in Threads, pc'[t] # "inserted",
               \A u \in Threads \ {t} : pc'[u] = pc[u] /\ call'[u] = call[u]
        PROVE  SlotHasSidecar'
    BY <2>2 DEF SlotHasSidecar
  <2>3. ASSUME NEW t \in Threads, Insert(t)
        PROVE  SlotHasSidecar'
    <3>1. pick_shard(t) \in Lanes /\ ~ShardFull(pick_shard(t))
      BY <2>3, PickedLane DEF Insert
    <3>2. PICK s \in InsertKeys(pick_shard(t)) : call' = [call EXCEPT ![t].slot = s]
      BY <2>3 DEF Insert
    <3>3. s \in 0 .. ShardCapacity - 1
      BY <3>1, InsertFits
    <3>4. call'[t].slot = s /\ \A u \in Threads \ {t} : pc'[u] = pc[u] /\ call'[u] = call[u]
      BY <1>0, <2>3, <3>2 DEF Insert, CallType
    <3> QED BY <3>3, <3>4 DEF SlotHasSidecar
  <2>4. ASSUME NEW t \in Threads,
               \/ NewSpanContextual(t) \/ NewSpanRoot(t)
               \/ \E h \in handles : NewSpanExplicit(t, h)
               \/ Allocate(t) \/ InsertRejected(t) \/ Publish(t)
        PROVE  SlotHasSidecar'
    <3>1. /\ pc'[t] # "inserted"
          /\ \A u \in Threads \ {t} : pc'[u] = pc[u] /\ call'[u] = call[u]
      BY <1>0, <2>4 DEF NewSpanContextual, NewSpanRoot, NewSpanExplicit, Resolved,
                        ReturnDisabled, Allocate, allocate_actual_id, InsertRejected,
                        Publish, CallType
    <3> QED BY <2>2, <3>1
  <2> QED BY <2>1, <2>3, <2>4, Frames
<1> QED BY <1>1, <1>2

LEMMA AddressStep ==
    ASSUME Inv, CacheNext
    PROVE  Addresses'
<1> USE DEF Inv
<1>1. CASE UNCHANGED handles
  BY <1>1 DEF Addresses
<1>2. ASSUME NEW h \in handles, CloneSpan(h)
      PROVE  Addresses'
  <2>1. h \in Handle
    BY DEF TypeOK, ScopeType
  <2>2. \A c \in 1 .. MaxClones : [h EXCEPT !.copy = c].tracing_id = h.tracing_id
    BY <2>1 DEF Handle
  <2> QED BY <1>2, <2>2 DEF CloneSpan, Addresses
<1>3. ASSUME NEW t \in Threads, Publish(t)
      PROVE  Addresses'
  <2>1. pick_shard(t) \in Lanes /\ call[t].slot \in 0 .. ShardCapacity - 1
    BY <1>3, PickedLane DEF Publish, SlotHasSidecar
  <2> QED BY <1>3, <2>1 DEF Publish, Addresses, Addressed
<1>4. ASSUME NEW t \in Threads, NEW h \in handles, TryClose(t, h)
      PROVE  Addresses'
  BY <1>4 DEF TryClose, Addresses
<1> QED BY <1>1, <1>2, <1>3, <1>4, Frames

(* The buffers, whatever is flushed, refused or lost (cache.rs:298).       *)
LEMMA BufferStep ==
    ASSUME Inv, CacheNext
    PROVE  BufferType' /\ PendingBelowBatch'
<1> USE DEF Inv
<1>0. BufferType /\ ScopeType /\ SlabType /\ HistoryType /\ PendingBelowBatch
  BY DEF TypeOK
<1>1. CASE UNCHANGED bufVars
  BY <1>0, <1>1 DEF bufVars, BufferType, PendingBelowBatch
<1>2. ASSUME NEW t \in Threads, NEW span \in SpanRecord, PushSpan(t, span)
      PROVE  BufferType' /\ PendingBelowBatch'
  <2>1. PENDING_SPAN'[t] = Append(PENDING_SPAN[t], span)
    BY <1>0, <1>2 DEF PushSpan, BufferType
  <2>2. Len(PENDING_SPAN'[t]) = Len(PENDING_SPAN[t]) + 1 /\ Len(PENDING_SPAN[t]) \in Nat
    BY <1>0, <2>1 DEF BufferType
  <2>3. BufferType'
    BY <1>0, <1>2 DEF PushSpan, FlushIfFull, BufferType
  <2>4. \A u \in Threads \ {t} :
           PENDING_SPAN'[u] = PENDING_SPAN[u] /\ flushing'[u] = flushing[u]
    BY <1>0, <1>2 DEF PushSpan, FlushIfFull, BufferType
  <2>5. flushing'[t] = "no" => PendingBatch > Len(PENDING_SPAN'[t])
    BY <1>0, <1>2, <2>2, BuffersAssumption DEF PushSpan, FlushIfFull, BufferType
  <2> QED BY <1>0, <2>3, <2>4, <2>5 DEF PendingBelowBatch
<1>3. ASSUME NEW t \in Threads, NEW msg \in EventMessage, PushEvent(t, msg),
             flushing[t] = "no"
      PROVE  BufferType' /\ PendingBelowBatch'
  BY <1>0, <1>3 DEF PushEvent, FlushIfFull, BufferType, PendingBelowBatch
<1>4. ASSUME NEW t \in Threads, NEW h \in handles, TryClose(t, h)
      PROVE  BufferType' /\ PendingBelowBatch'
  <2> DEFINE l == ShardOf(h.tracing_id)
             s == SlotOf(h.tracing_id)
  <2>1. CASE Decodes(h.tracing_id) /\ entries[l][s] # Vacant
    <3>1. l \in Lanes /\ s \in Slots
      BY <2>1, DecodesAddressed, LaneSlotFacts DEF Addresses
    <3>2. entries[l][s] \in SpanRecord
      BY <1>0, <2>1, <3>1 DEF SlabType
    <3> QED BY <1>2, <1>4, <2>1, <3>2 DEF TryClose
  <2>2. CASE ~(Decodes(h.tracing_id) /\ entries[l][s] # Vacant)
    BY <1>1, <1>4, <2>2 DEF TryClose
  <2> QED BY <2>1, <2>2
<1>5. ASSUME NEW t \in Threads, NEW parent \in Nat, NEW h, EmitTo(t, parent, h), AtRest(t)
      PROVE  BufferType' /\ PendingBelowBatch'
  <2>1. [parent_actual_id |-> parent, event |-> Len(emitted) + 1] \in EventMessage
    BY <1>0 DEF EventMessage, HistoryType
  <2> QED BY <1>3, <1>5, <2>1 DEF EmitTo, AtRest
<1>6. ASSUME NEW t \in Threads, EventContextual(t)
      PROVE  BufferType' /\ PendingBelowBatch'
  BY <1>5, <1>6, TopIsTyped DEF EventContextual
<1>7. ASSUME NEW t \in Threads, NEW h \in handles, EventExplicit(t, h)
      PROVE  BufferType' /\ PendingBelowBatch'
  BY <1>5, <1>7, LoadInBounds DEF EventExplicit
<1>8. ASSUME NEW t \in Threads, FlushPending(t)
      PROVE  BufferType' /\ PendingBelowBatch'
  <2>1. CASE flush_pending(t)
    BY <1>0, <2>1 DEF flush_pending, BufferType, PendingBelowBatch
  <2>2. CASE FlushEvents(t)
    <3>1. PENDING_EVENT[t] \in Seq(EventMessage) /\ event_ch \in [Threads -> Seq(EventMessage)]
      BY <1>0 DEF BufferType
    <3>2. event_ch' \in [Threads -> Seq(EventMessage)]
      <4>1. event_ch' = [event_ch EXCEPT ![t] = @ \o PENDING_EVENT[t]] \/ event_ch' = event_ch
        BY <2>2 DEF FlushEvents, SendMany, Send, Refused
      <4>2. event_ch[t] \o PENDING_EVENT[t] \in Seq(EventMessage)
        BY <3>1
      <4> QED BY <3>1, <4>1, <4>2
    <3>3. PENDING_EVENT' = [PENDING_EVENT EXCEPT ![t] = <<>>]
          /\ flushing' = [flushing EXCEPT ![t] = "spans"] /\ UNCHANGED <<PENDING_SPAN, span_ch>>
      BY <2>2 DEF FlushEvents
    <3>4. BufferType'
      BY <1>0, <3>2, <3>3 DEF BufferType
    <3> QED BY <1>0, <3>3, <3>4 DEF BufferType, PendingBelowBatch
  <2>3. CASE FlushSpans(t)
    <3>1. PENDING_SPAN[t] \in Seq(SpanRecord) /\ span_ch \in [Threads -> Seq(SpanRecord)]
      BY <1>0 DEF BufferType
    <3>2. span_ch' \in [Threads -> Seq(SpanRecord)]
      <4>1. span_ch' = [span_ch EXCEPT ![t] = @ \o PENDING_SPAN[t]] \/ span_ch' = span_ch
        BY <2>3 DEF FlushSpans, SendMany, Send, Refused
      <4>2. span_ch[t] \o PENDING_SPAN[t] \in Seq(SpanRecord)
        BY <3>1
      <4> QED BY <3>1, <4>1, <4>2
    <3>3. PENDING_SPAN' = [PENDING_SPAN EXCEPT ![t] = <<>>]
          /\ flushing' = [flushing EXCEPT ![t] = "no"] /\ UNCHANGED <<PENDING_EVENT, event_ch>>
      BY <2>3 DEF FlushSpans
    <3>4. BufferType'
      BY <1>0, <3>2, <3>3 DEF BufferType
    <3>5. PENDING_SPAN'[t] = <<>> /\ \A u \in Threads \ {t} :
             PENDING_SPAN'[u] = PENDING_SPAN[u] /\ flushing'[u] = flushing[u]
      BY <1>0, <3>3 DEF BufferType
    <3> QED BY <1>0, <3>4, <3>5 DEF PendingBelowBatch
  <2> QED BY <1>8, <2>1, <2>2, <2>3 DEF FlushPending
<1>9. ASSUME NEW t \in Threads, ThreadExit(t)
      PROVE  BufferType' /\ PendingBelowBatch'
  BY <1>0, <1>9 DEF ThreadExit, LosePending, BufferType, PendingBelowBatch
<1> QED BY <1>1, <1>4, <1>6, <1>7, <1>8, <1>9, Frames

LEMMA HistoryStep ==
    ASSUME Inv, CacheNext
    PROVE  HistoryType'
<1> USE DEF Inv
<1>0. HistoryType /\ CallType /\ ScopeType
  BY DEF TypeOK
<1>1. issued' \in Seq([by : Threads, id : Nat])
  <2>1. CASE UNCHANGED issued
    BY <1>0, <2>1 DEF HistoryType
  <2>2. ASSUME NEW t \in Threads, Insert(t)
        PROVE  issued' \in Seq([by : Threads, id : Nat])
    <3>1. [by |-> t, id |-> call[t].id] \in [by : Threads, id : Nat]
      BY <1>0 DEF CallType
    <3> QED BY <1>0, <2>2, <3>1 DEF Insert, HistoryType
  <2> QED BY <2>1, <2>2, Frames
<1>2. emitted' \in Seq([by : Threads, to : Nat])
  <2>1. CASE UNCHANGED emitted
    BY <1>0, <2>1 DEF HistoryType
  <2>2. ASSUME NEW t \in Threads, NEW parent, NEW h \in Handle, EmitTo(t, parent, h)
        PROVE  emitted' \in Seq([by : Threads, to : Nat])
    <3>1. [by |-> t, to |-> h.actual_id] \in [by : Threads, to : Nat]
      BY DEF Handle
    <3> QED BY <1>0, <2>2, <3>1 DEF EmitTo, HistoryType
  <2>3. ASSUME NEW t \in Threads, EventContextual(t)
        PROVE  emitted' \in Seq([by : Threads, to : Nat])
    <3>1. entered[t] \in Seq(Handle) /\ Len(entered[t]) = Len(SPAN_STACK[t])
      BY <1>0 DEF ScopeType, StackDepths
    <3>2. SPAN_STACK[t] # <<>> /\ SPAN_STACK[t] \in Seq(StackedSpan)
      BY <1>0, <2>3, TopIsTyped DEF EventContextual, ScopeType
    <3>3. Last(entered[t]) \in Handle
      BY <3>1, <3>2 DEF Last
    <3> QED BY <2>2, <2>3, <3>3 DEF EventContextual
  <2>4. ASSUME NEW t \in Threads, NEW h \in handles, EventExplicit(t, h)
        PROVE  emitted' \in Seq([by : Threads, to : Nat])
    BY <1>0, <2>2, <2>4 DEF EventExplicit, ScopeType
  <2> QED BY <2>1, <2>3, <2>4, Frames
<1> QED BY <1>1, <1>2 DEF HistoryType

-----------------------------------------------------------------------------

LEMMA InvStep == Inv /\ [CacheNext]_cacheVars => Inv'
<1>1. Inv /\ CacheNext => Inv'
  BY ReservationStep, SlabStep, ScopeStep, CallStep, ShardStep, AddressStep, BufferStep,
     HistoryStep DEF Inv, TypeOK
<1>2. Inv /\ UNCHANGED cacheVars => Inv'
  <2> SUFFICES ASSUME Inv, UNCHANGED cacheVars PROVE Inv'
    OBVIOUS
  <2> USE DEF cacheVars, bufVars, reservation, slab, scopes, calls, history
  <2>1. TypeOK'
    BY DEF Inv, TypeOK, ReservationType, SlabType, ScopeType, CallType, BufferType,
           HistoryType, PendingBelowBatch
  <2>2. SidecarInBounds' /\ Addresses' /\ ShardPicked' /\ SlotHasSidecar' /\ StackDepths'
    BY DEF Inv, SidecarInBounds, Addresses, ShardPicked, SlotHasSidecar, StackDepths
  <2> QED BY <2>1, <2>2 DEF Inv
<1> QED BY <1>1, <1>2

(* Every variable keeps its type, whatever the application does with its   *)
(* handles, for any number of threads, lanes and slots (cache.rs:73-105).  *)
THEOREM TypeCorrect == CacheSpec => []TypeOK
<1>1. CacheSpec => []Inv
  BY InitInv, InvStep, PTL DEF CacheSpec
<1>2. Inv => TypeOK
  BY DEF Inv
<1> QED BY <1>1, <1>2, PTL

(* The sidecar is never indexed out of bounds: an insert into a slab below *)
(* capacity gets a slot below capacity (cache.rs:437-448).                 *)
THEOREM SidecarBounded == CacheSpec => []SidecarInBounds
<1>1. CacheSpec => []Inv
  BY InitInv, InvStep, PTL DEF CacheSpec
<1>2. Inv => SidecarInBounds
  BY DEF Inv
<1> QED BY <1>1, <1>2, PTL

-----------------------------------------------------------------------------
(* Uniqueness of ids.  An id below id_high_water belongs to the ID_BATCH   *)
(* block of one fetch_add; the block a thread is using is its own, and the *)
(* ids of that block from its cursor on have not been used.                *)

Block(id) == id \div ID_BATCH
Used == {issued[i].id : i \in DOMAIN issued} \cup {call[t].id : t \in Opening}

ReservationsDisjoint ==
    /\ id_high_water % ID_BATCH = 0
    /\ \A t \in Threads : ~Exhausted(t) =>
          /\ ID_CURSOR[t] < id_high_water
          /\ \A u \in Threads \ {t} : ~Exhausted(u) => Block(ID_CURSOR[t]) # Block(ID_CURSOR[u])

CursorsAhead ==
    /\ \A id \in Used : id \in Nat /\ id < id_high_water
    /\ \A t \in Threads, id \in Used :
          ~Exhausted(t) /\ Block(id) = Block(ID_CURSOR[t]) => id < ID_CURSOR[t]

IdInv == ReservationsDisjoint /\ CursorsAhead /\ UniqueIds

LEMMA BlockFacts ==
    /\ ID_BATCH \in Nat \ {0}
    /\ \A id \in Nat : Block(id) \in Nat
    /\ \A id \in Nat : (id + 1) % ID_BATCH # 0 => Block(id + 1) = Block(id)
    /\ \A id, top \in Nat : top % ID_BATCH = 0 /\ id < top => Block(id) < Block(top)
    /\ \A id, top \in Nat : top % ID_BATCH = 0 /\ top <= id /\ id < top + ID_BATCH
                            => Block(id) = Block(top)
    /\ \A top \in Nat : top % ID_BATCH = 0 => (top + ID_BATCH) % ID_BATCH = 0
<1>0. ID_BATCH \in Nat \ {0}
  BY CacheAssumption
<1>1. \A id \in Nat : \E q \in Nat, r \in 0 .. ID_BATCH - 1 :
         id = q * ID_BATCH + r /\ Block(id) = q /\ id % ID_BATCH = r
  <2> TAKE id \in Nat
  <2>1. PICK q \in Int : q = id \div ID_BATCH
    BY <1>0
  <2>2. PICK r \in Int : r = id % ID_BATCH
    BY <1>0
  <2>3. q \in Nat /\ r \in 0 .. ID_BATCH - 1
    BY <1>0, <2>1, <2>2
  <2>4. q * ID_BATCH + r = id
    BY <1>0, <2>1, <2>2
  <2> QED BY <2>1, <2>2, <2>3, <2>4 DEF Block
<1>2. \A q \in Nat, r \in 0 .. ID_BATCH - 1 :
         Block(q * ID_BATCH + r) = q /\ (q * ID_BATCH + r) % ID_BATCH = r
  BY <1>0 DEF Block
<1>3. \A top \in Nat : top % ID_BATCH = 0 =>
         \E p \in Nat : top = p * ID_BATCH /\ Block(top) = p
  <2> SUFFICES ASSUME NEW top \in Nat, top % ID_BATCH = 0
               PROVE  \E p \in Nat : top = p * ID_BATCH /\ Block(top) = p
    OBVIOUS
  <2>1. PICK p \in Nat, r \in 0 .. ID_BATCH - 1 :
           top = p * ID_BATCH + r /\ Block(top) = p /\ top % ID_BATCH = r
    BY <1>1
  <2>2. p * ID_BATCH + 0 = p * ID_BATCH
    BY <1>0
  <2> QED BY <2>1, <2>2
<1>4. \A id \in Nat : Block(id) \in Nat
  BY <1>1
<1>5. \A id \in Nat : (id + 1) % ID_BATCH # 0 => Block(id + 1) = Block(id)
  <2> SUFFICES ASSUME NEW id \in Nat, (id + 1) % ID_BATCH # 0
               PROVE  Block(id + 1) = Block(id)
    OBVIOUS
  <2>1. PICK q \in Nat, r \in 0 .. ID_BATCH - 1 : id = q * ID_BATCH + r /\ Block(id) = q
    BY <1>1
  <2>2. CASE r + 1 = ID_BATCH
    <3>1. id + 1 = (q + 1) * ID_BATCH + 0
      BY <1>0, <2>1, <2>2
    <3>2. (id + 1) % ID_BATCH = 0
      <4>1. 0 \in 0 .. ID_BATCH - 1 /\ q + 1 \in Nat
        BY <1>0
      <4>2. ((q + 1) * ID_BATCH + 0) % ID_BATCH = 0
        BY <1>2, <4>1
      <4> QED BY <3>1, <4>2
    <3> QED BY <3>2
  <2>3. CASE r + 1 # ID_BATCH
    <3>1. id + 1 = q * ID_BATCH + (r + 1) /\ r + 1 \in 0 .. ID_BATCH - 1
      BY <1>0, <2>1, <2>3
    <3>2. Block(q * ID_BATCH + (r + 1)) = q
      BY <1>2, <3>1
    <3> QED BY <2>1, <3>1, <3>2
  <2> QED BY <2>2, <2>3
<1>6. \A id, top \in Nat : top % ID_BATCH = 0 /\ id < top => Block(id) < Block(top)
  <2> SUFFICES ASSUME NEW id \in Nat, NEW top \in Nat, top % ID_BATCH = 0, id < top
               PROVE  Block(id) < Block(top)
    OBVIOUS
  <2>1. PICK q \in Nat, r \in 0 .. ID_BATCH - 1 : id = q * ID_BATCH + r /\ Block(id) = q
    BY <1>1
  <2>2. PICK p \in Nat : top = p * ID_BATCH /\ Block(top) = p
    BY <1>3
  <2>3. ASSUME p <= q PROVE FALSE
    <3>1. p * ID_BATCH <= q * ID_BATCH
      BY <1>0, <2>3
    <3> QED BY <1>0, <2>1, <2>2, <3>1
  <2> QED BY <2>1, <2>2, <2>3
<1>7. \A id, top \in Nat : top % ID_BATCH = 0 /\ top <= id /\ id < top + ID_BATCH
                           => Block(id) = Block(top)
  <2> SUFFICES ASSUME NEW id \in Nat, NEW top \in Nat,
                      top % ID_BATCH = 0, top <= id, id < top + ID_BATCH
               PROVE  Block(id) = Block(top)
    OBVIOUS
  <2>1. PICK p \in Nat : top = p * ID_BATCH /\ Block(top) = p
    BY <1>3
  <2>2. id = p * ID_BATCH + (id - top) /\ id - top \in 0 .. ID_BATCH - 1
    BY <1>0, <2>1
  <2>3. Block(p * ID_BATCH + (id - top)) = p
    BY <1>2, <2>2
  <2> QED BY <2>1, <2>2, <2>3
<1>8. \A top \in Nat : top % ID_BATCH = 0 => (top + ID_BATCH) % ID_BATCH = 0
  <2> SUFFICES ASSUME NEW top \in Nat, top % ID_BATCH = 0
               PROVE  (top + ID_BATCH) % ID_BATCH = 0
    OBVIOUS
  <2>1. PICK p \in Nat : top = p * ID_BATCH
    BY <1>3
  <2>2. top + ID_BATCH = (p + 1) * ID_BATCH + 0 /\ p + 1 \in Nat /\ 0 \in 0 .. ID_BATCH - 1
    BY <1>0, <2>1
  <2> QED BY <1>2, <2>2
<1> QED BY <1>0, <1>4, <1>5, <1>6, <1>7, <1>8

(* What allocate_actual_id hands out has not been used, and leaves every   *)
(* thread its own block (cache.rs:214-226).                                *)
LEMMA AllocateFresh ==
    ASSUME TypeOK, IdInv, NEW t \in Threads, allocate_actual_id(t)
    PROVE  LET id == call'[t].id IN
           /\ id \notin Used /\ id \in Nat /\ id < id_high_water'
           /\ ReservationsDisjoint'
           /\ \A u \in Threads, other \in Used \cup {id} :
                 ~Exhausted(u)' /\ Block(other) = Block(ID_CURSOR'[u]) => other < ID_CURSOR'[u]
<1> DEFINE id == IF Exhausted(t) THEN id_high_water ELSE ID_CURSOR[t]
<1>0. /\ id_high_water \in Nat /\ ID_CURSOR \in [Threads -> Nat] /\ id \in Nat
      /\ id_high_water % ID_BATCH = 0
      /\ \A other \in Used : other \in Nat /\ other < id_high_water
  BY DEF TypeOK, ReservationType, IdInv, ReservationsDisjoint, CursorsAhead
<1>1. /\ ID_CURSOR' = [ID_CURSOR EXCEPT ![t] = id + 1]
      /\ call'[t].id = id
      /\ id_high_water' = IF Exhausted(t) THEN id_high_water + ID_BATCH ELSE id_high_water
  BY DEF allocate_actual_id, TypeOK, CallType
<1>2. /\ ID_CURSOR'[t] = id + 1
      /\ \A u \in Threads \ {t} : ID_CURSOR'[u] = ID_CURSOR[u]
                                  /\ (Exhausted(u)' <=> Exhausted(u))
  BY <1>0, <1>1 DEF Exhausted
<1>3. CASE Exhausted(t)
  <2>1. id = id_high_water /\ id_high_water' = id_high_water + ID_BATCH
    BY <1>1, <1>3
  <2>2. id \notin Used /\ id < id_high_water'
    BY <1>0, <2>1, BlockFacts
  <2>3. \A other \in Used : Block(other) < Block(id)
    BY <1>0, <2>1, BlockFacts
  <2>4. \A u \in Threads \ {t} : ~Exhausted(u) =>
           ID_CURSOR[u] < id_high_water /\ Block(ID_CURSOR[u]) < Block(id)
    BY <1>0, <2>1, BlockFacts DEF IdInv, ReservationsDisjoint
  <2>5. ~Exhausted(t)' => ID_CURSOR'[t] < id_high_water' /\ Block(ID_CURSOR'[t]) = Block(id)
    <3> SUFFICES ASSUME ~Exhausted(t)'
                 PROVE  ID_CURSOR'[t] < id_high_water' /\ Block(ID_CURSOR'[t]) = Block(id)
      OBVIOUS
    <3>1. (id + 1) % ID_BATCH # 0
      BY <1>2 DEF Exhausted
    <3>2. id + 1 <= id + ID_BATCH /\ (id + ID_BATCH) % ID_BATCH = 0
      <4>1. (id_high_water + ID_BATCH) % ID_BATCH = 0
        BY <1>0, BlockFacts
      <4>2. id + 1 <= id + ID_BATCH
        BY <1>0, BlockFacts
      <4> QED BY <2>1, <4>1, <4>2
    <3>3. id + 1 < id + ID_BATCH
      BY <1>0, <3>1, <3>2, BlockFacts
    <3> QED BY <1>0, <1>2, <2>1, <3>1, <3>3, BlockFacts
  <2>6. Block(id) \in Nat /\ \A other \in Used : Block(other) \in Nat
    BY <1>0, BlockFacts
  <2>7. \A u \in Threads \ {t} : Block(ID_CURSOR[u]) \in Nat /\ ID_CURSOR[u] \in Nat
    BY <1>0, BlockFacts
  <2>8. ReservationsDisjoint'
    <3>1. id_high_water' % ID_BATCH = 0
      BY <1>0, <2>1, BlockFacts
    <3>2. \A u \in Threads : ~Exhausted(u)' => ID_CURSOR'[u] < id_high_water'
      BY <1>0, <1>2, <2>1, <2>4, <2>5, <2>7, BlockFacts
    <3>3. \A u, v \in Threads : u # v /\ ~Exhausted(u)' /\ ~Exhausted(v)'
                                => Block(ID_CURSOR'[u]) # Block(ID_CURSOR'[v])
      BY <1>2, <2>4, <2>5, <2>6, <2>7 DEF IdInv, ReservationsDisjoint
    <3> QED BY <3>1, <3>2, <3>3 DEF ReservationsDisjoint
  <2>9. \A u \in Threads, other \in Used \cup {id} :
           ~Exhausted(u)' /\ Block(other) = Block(ID_CURSOR'[u]) => other < ID_CURSOR'[u]
    <3> SUFFICES ASSUME NEW u \in Threads, NEW other \in Used \cup {id},
                        ~Exhausted(u)', Block(other) = Block(ID_CURSOR'[u])
                 PROVE  other < ID_CURSOR'[u]
      OBVIOUS
    <3>1. CASE u = t
      BY <1>0, <1>2, <2>3, <2>5, <2>6, <3>1
    <3>2. CASE u # t
      BY <1>2, <2>4, <2>6, <2>7, <3>2 DEF IdInv, CursorsAhead
    <3> QED BY <3>1, <3>2
  <2> QED BY <1>0, <1>1, <2>2, <2>8, <2>9
<1>4. CASE ~Exhausted(t)
  <2>1. id = ID_CURSOR[t] /\ id_high_water' = id_high_water /\ id < id_high_water
    BY <1>0, <1>1, <1>4 DEF IdInv, ReservationsDisjoint
  <2>2. \A other \in Used : Block(other) = Block(id) => other < id
    BY <1>4, <2>1 DEF IdInv, CursorsAhead
  <2>3. id \notin Used
    BY <1>0, <2>2
  <2>4. \A u \in Threads \ {t} : ~Exhausted(u) => Block(ID_CURSOR[u]) # Block(id)
    BY <1>4, <2>1 DEF IdInv, ReservationsDisjoint
  <2>5. ~Exhausted(t)' => ID_CURSOR'[t] < id_high_water /\ Block(ID_CURSOR'[t]) = Block(id)
    <3> SUFFICES ASSUME ~Exhausted(t)'
                 PROVE  ID_CURSOR'[t] < id_high_water /\ Block(ID_CURSOR'[t]) = Block(id)
      OBVIOUS
    <3>1. (id + 1) % ID_BATCH # 0
      BY <1>2 DEF Exhausted
    <3>2. id + 1 # id_high_water
      BY <1>0, <3>1
    <3> QED BY <1>0, <1>2, <2>1, <3>1, <3>2, BlockFacts
  <2>6. ReservationsDisjoint'
    <3>1. \A u \in Threads : ~Exhausted(u)' => ID_CURSOR'[u] < id_high_water'
      BY <1>2, <2>1, <2>5 DEF IdInv, ReservationsDisjoint
    <3>2. \A u, v \in Threads : u # v /\ ~Exhausted(u)' /\ ~Exhausted(v)'
                                => Block(ID_CURSOR'[u]) # Block(ID_CURSOR'[v])
      BY <1>2, <2>4, <2>5 DEF IdInv, ReservationsDisjoint
    <3> QED BY <1>0, <2>1, <3>1, <3>2 DEF ReservationsDisjoint
  <2>7. \A u \in Threads, other \in Used \cup {id} :
           ~Exhausted(u)' /\ Block(other) = Block(ID_CURSOR'[u]) => other < ID_CURSOR'[u]
    <3> SUFFICES ASSUME NEW u \in Threads, NEW other \in Used \cup {id},
                        ~Exhausted(u)', Block(other) = Block(ID_CURSOR'[u])
                 PROVE  other < ID_CURSOR'[u]
      OBVIOUS
    <3>1. CASE u = t
      BY <1>0, <1>2, <2>2, <2>5, <3>1
    <3>2. CASE u # t
      BY <1>2, <2>4, <3>2 DEF IdInv, CursorsAhead
    <3> QED BY <3>1, <3>2
  <2> QED BY <1>0, <1>1, <2>1, <2>3, <2>6, <2>7
<1> QED BY <1>3, <1>4

LEMMA InitIds == CacheInit => IdInv
<1> SUFFICES ASSUME CacheInit PROVE IdInv
  OBVIOUS
<1>1. ID_BATCH % ID_BATCH = 0 /\ 0 % ID_BATCH = 0
  BY CacheAssumption
<1>2. \A t \in Threads : Exhausted(t)
  BY <1>1 DEF CacheInit, Exhausted
<1>3. Used = {} /\ Opening = {} /\ DOMAIN issued = {}
  BY DEF CacheInit, Used, Opening
<1> QED BY <1>1, <1>2, <1>3 DEF CacheInit, IdInv, ReservationsDisjoint, CursorsAhead, UniqueIds

(* A step that uses no new id and touches no reservation.                  *)
LEMMA NoNewId ==
    ASSUME IdInv, UNCHANGED <<id_high_water, ID_CURSOR>>, Used' \subseteq Used
    PROVE  ReservationsDisjoint' /\ CursorsAhead'
BY DEF IdInv, ReservationsDisjoint, CursorsAhead, Exhausted

LEMMA AllocateIds ==
    ASSUME Inv, IdInv, NEW t \in Threads, Allocate(t)
    PROVE  IdInv'
<1> DEFINE id == call'[t].id
<1>1. /\ id \notin Used /\ id \in Nat /\ id < id_high_water'
      /\ ReservationsDisjoint'
      /\ \A u \in Threads, other \in Used \cup {id} :
            ~Exhausted(u)' /\ Block(other) = Block(ID_CURSOR'[u]) => other < ID_CURSOR'[u]
  BY AllocateFresh DEF Allocate, Inv
<1>2. /\ UNCHANGED issued /\ t \notin Opening /\ Opening' = Opening \cup {t}
      /\ \A u \in Threads \ {t} : call'[u] = call[u]
  BY DEF Allocate, allocate_actual_id, history, Opening, Inv, TypeOK, CallType
<1>3. Used' = Used \cup {id}
  <2>1. {call'[u].id : u \in Opening'} = {call[u].id : u \in Opening} \cup {id}
    BY <1>2 DEF Opening
  <2> QED BY <1>2, <2>1 DEF Used
<1>4. CursorsAhead'
  <2>1. \A other \in Used : other \in Nat /\ other < id_high_water'
    <3>1. id_high_water \in Nat /\ id_high_water <= id_high_water'
      BY CacheAssumption DEF Allocate, allocate_actual_id, Inv, TypeOK, ReservationType
    <3>2. id_high_water' \in Nat
      BY CacheAssumption DEF Allocate, allocate_actual_id, Inv, TypeOK, ReservationType
    <3> QED BY <3>1, <3>2 DEF IdInv, CursorsAhead
  <2> QED BY <1>1, <1>3, <2>1 DEF CursorsAhead
<1>5. UniqueIds'
  <2>1. \A i \in DOMAIN issued : id # issued[i].id
    BY <1>1 DEF Used
  <2>2. \A u \in Opening : id # call[u].id
    BY <1>1 DEF Used
  <2>3. \A u \in Opening' \ {t} : u \in Opening /\ call'[u] = call[u]
    BY <1>2 DEF Opening
  <2>4. ASSUME NEW u \in Opening'
        PROVE  /\ \A v \in Opening' \ {u} : call'[u].id # call'[v].id
               /\ \A i \in DOMAIN issued : call'[u].id # issued[i].id
    <3>1. CASE u = t
      BY <2>1, <2>2, <2>3, <3>1
    <3>2. CASE u # t
      BY <2>2, <2>3, <3>2 DEF IdInv, UniqueIds
    <3> QED BY <3>1, <3>2
  <2>5. \A i, j \in DOMAIN issued : issued[i].id = issued[j].id => i = j
    BY DEF IdInv, UniqueIds
  <2> QED BY <1>2, <2>4, <2>5 DEF UniqueIds
<1> QED BY <1>1, <1>4, <1>5 DEF IdInv

LEMMA InsertIds ==
    ASSUME Inv, IdInv, NEW t \in Threads, Insert(t)
    PROVE  IdInv'
<1> DEFINE id == call[t].id
           n == Len(issued) + 1
<1>1. /\ Opening' = Opening \ {t} /\ t \in Opening
      /\ \A u \in Threads : call'[u].id = call[u].id
      /\ UNCHANGED <<id_high_water, ID_CURSOR>>
  BY DEF Insert, reservation, Opening, Inv, TypeOK, CallType
<1>2. issued' = Append(issued, [by |-> t, id |-> id]) /\ issued \in Seq([by : Threads, id : Nat])
  BY DEF Insert, Inv, TypeOK, HistoryType
<1>3. /\ DOMAIN issued' = DOMAIN issued \cup {n} /\ n \notin DOMAIN issued
      /\ issued'[n].id = id
      /\ \A i \in DOMAIN issued : issued'[i] = issued[i]
  BY <1>2
<1>4. Used' \subseteq Used
  <2>1. \A i \in DOMAIN issued' : issued'[i].id \in Used
    BY <1>1, <1>3 DEF Used
  <2>2. \A u \in Opening' : call'[u].id \in Used
    BY <1>1 DEF Used, Opening
  <2> QED BY <2>1, <2>2 DEF Used
<1>5. \A i \in DOMAIN issued : id # issued[i].id
  BY <1>1 DEF IdInv, UniqueIds
<1>6. UniqueIds'
  <2>1. \A i, j \in DOMAIN issued' : issued'[i].id = issued'[j].id => i = j
    BY <1>3, <1>5 DEF IdInv, UniqueIds
  <2>2. ASSUME NEW u \in Opening'
        PROVE  /\ \A v \in Opening' \ {u} : call'[u].id # call'[v].id
               /\ \A i \in DOMAIN issued' : call'[u].id # issued'[i].id
    <3>1. u \in Opening /\ u # t /\ u \in Threads
      BY <1>1 DEF Opening
    <3>2. \A v \in Opening' \ {u} : call'[u].id # call'[v].id
      BY <1>1, <3>1 DEF IdInv, UniqueIds, Opening
    <3>3. call[u].id # id /\ \A i \in DOMAIN issued : call[u].id # issued[i].id
      BY <1>1, <3>1 DEF IdInv, UniqueIds
    <3> QED BY <1>1, <1>3, <3>1, <3>2, <3>3
  <2> QED BY <2>1, <2>2 DEF UniqueIds
<1> QED BY <1>1, <1>4, <1>6, NoNewId DEF IdInv

(* A call that gives its id up, or has none.                               *)
LEMMA OtherCallIds ==
    ASSUME Inv, IdInv, NEW t \in Threads,
           UNCHANGED <<id_high_water, ID_CURSOR, issued>>,
           pc'[t] # "allocated",
           \A u \in Threads \ {t} : pc'[u] = pc[u] /\ call'[u] = call[u]
    PROVE  IdInv'
<1>1. \A u \in Opening' : u \in Opening /\ call'[u] = call[u]
  BY DEF Opening
<1>2. Used' \subseteq Used
  BY <1>1 DEF Used
<1>3. UniqueIds'
  BY <1>1 DEF IdInv, UniqueIds
<1> QED BY <1>2, <1>3, NoNewId DEF IdInv

LEMMA IdStep == Inv /\ IdInv /\ [CacheNext]_cacheVars => IdInv'
<1>1. ASSUME IdInv, UNCHANGED <<reservation, calls, issued>>
      PROVE  IdInv'
  BY <1>1 DEF reservation, calls, IdInv, ReservationsDisjoint, CursorsAhead, UniqueIds, Used,
              Opening, Exhausted
<1>2. ASSUME Inv, IdInv, NEW t \in Threads, ThreadExit(t)
      PROVE  IdInv'
  <2>1. /\ ID_CURSOR' = [ID_CURSOR EXCEPT ![t] = 0] /\ ID_CURSOR \in [Threads -> Nat]
        /\ UNCHANGED <<id_high_water, pc, call, issued>>
    BY <1>2 DEF ThreadExit, calls, history, Inv, TypeOK, ReservationType
  <2>2. Used' = Used /\ UniqueIds' /\ 0 % ID_BATCH = 0
    BY <1>2, <2>1, CacheAssumption DEF Used, Opening, IdInv, UniqueIds
  <2>3. \A u \in Threads : ~Exhausted(u)' => ~Exhausted(u) /\ ID_CURSOR'[u] = ID_CURSOR[u]
    BY <2>1, <2>2 DEF Exhausted
  <2> QED BY <1>2, <2>1, <2>2, <2>3 DEF IdInv, ReservationsDisjoint, CursorsAhead
<1>3. ASSUME Inv, IdInv, NEW t \in Threads,
             \/ NewSpanContextual(t) \/ NewSpanRoot(t)
             \/ \E h \in handles : NewSpanExplicit(t, h)
             \/ InsertRejected(t) \/ Publish(t)
      PROVE  IdInv'
  <2>1. UNCHANGED <<id_high_water, ID_CURSOR, issued>>
    BY <1>3 DEF NewSpanContextual, NewSpanRoot, NewSpanExplicit, InsertRejected, Publish,
                reservation, history
  <2>2. /\ pc'[t] # "allocated"
        /\ \A u \in Threads \ {t} : pc'[u] = pc[u] /\ call'[u] = call[u]
    BY <1>3 DEF NewSpanContextual, NewSpanRoot, NewSpanExplicit, Resolved, ReturnDisabled,
                InsertRejected, Publish, Inv, TypeOK, CallType
  <2> QED BY <1>3, <2>1, <2>2, OtherCallIds
<1>4. ASSUME Inv, IdInv, CacheNext
      PROVE  IdInv'
  BY <1>1, <1>2, <1>3, <1>4, Frames, AllocateIds, InsertIds
<1>5. ASSUME IdInv, UNCHANGED cacheVars
      PROVE  IdInv'
  BY <1>1, <1>5 DEF cacheVars, history
<1> QED BY <1>4, <1>5

(* However threads come and go and whichever clones are dropped, no two    *)
(* spans get the same actual id, although a thread's reservation is only a *)
(* cursor and the end of it only a mask check (cache.rs:214-226,           *)
(* thread_state.rs:87-101).                                                *)
THEOREM IdsUnique == CacheSpec => []UniqueIds
<1>1. CacheSpec => [](Inv /\ IdInv)
  BY InitInv, InitIds, InvStep, IdStep, PTL DEF CacheSpec
<1>2. Inv /\ IdInv => UniqueIds
  BY DEF IdInv
<1> QED BY <1>1, <1>2, PTL

-----------------------------------------------------------------------------
(* The cache as applications use it                                        *)

Scoped == ScopedGuards /\ MaxClones = 0

-----------------------------------------------------------------------------
(* The inductive invariant: the slots taken are those of the live handles  *)
(* and of the inserting threads, one each.                                 *)

Live == handles \ {DisabledHandle}
KeyOf(id) == [lane |-> ShardOf(id), slot |-> SlotOf(id)]
RecordAt(k) == entries[k.lane][k.slot]
Inserters == {t \in Threads : pc[t] = "inserted"}
InsertKey(t) == [lane |-> pick_shard(t), slot |-> call[t].slot]

HandlesNamed ==
    \A h \in handles : h.copy = 0 /\ (h.tracing_id = DISABLED => h = DisabledHandle)

OwnSlots ==
    \A t \in Inserters :
        /\ RecordAt(InsertKey(t)).id = call[t].id
        /\ \A h \in Live : KeyOf(h.tracing_id) # InsertKey(t)
        /\ \A u \in Inserters \ {t} : InsertKey(u) # InsertKey(t)

(* A guard borrows its handle.                                             *)
GuardsHeld == \A t \in Threads : \A i \in DOMAIN entered[t] : entered[t][i] \in handles

ScopedInv ==
    /\ HandlesNamed /\ OwnRecord /\ OwnSlots /\ NoLeakedEntry
    /\ GuardsHeld /\ StackMirrorsScopes

(* What ties the ids in the slab and the cursors to the history.           *)
NextId(t) == IF Exhausted(t) THEN id_high_water ELSE ID_CURSOR[t]
OpenIssued ==
    \A k \in Open :
        /\ \E i \in DOMAIN issued : issued[i].id = RecordAt(k).id
        /\ \A j \in Open : RecordAt(j).id = RecordAt(k).id => j = k

IdsGrow ==
    /\ \A i \in DOMAIN issued :
        LET t == issued[i].by IN
        /\ issued[i].id < NextId(t)
        /\ t \in Opening => issued[i].id < call[t].id
    /\ \A t \in Opening : call[t].id < NextId(t)

(* A thread past MayOpen that needs a new reservation.                     *)
Reserving == {t \in Threads : pc[t] = "resolved" /\ Exhausted(t)}
IdsBounded ==
    /\ Reserving # {} =>
          id_high_water + ID_BATCH * Cardinality(Reserving)
             <= MaxId + ID_BATCH * Cardinality(Threads)
    /\ \A t \in Threads : pc[t] = "resolved" /\ ~Exhausted(t) => ID_CURSOR[t] < MaxId
    /\ \A id \in Used : id \in IdSpace

FeedInv == OpenIssued /\ IdsGrow /\ IdsBounded

-----------------------------------------------------------------------------
(* Slots and who has them                                                  *)

LEMMA LiveFacts ==
    ASSUME Inv, HandlesNamed, OwnRecord, NEW h \in Live
    PROVE  /\ KeyOf(h.tracing_id) \in Entry
           /\ KeyOf(h.tracing_id).slot \in 0 .. ShardCapacity - 1
           /\ RecordAt(KeyOf(h.tracing_id)).id = h.actual_id
           /\ RecordAt(KeyOf(h.tracing_id)) # Vacant
           /\ Decodes(h.tracing_id) /\ RefersTo(h, KeyOf(h.tracing_id))
           /\ load_actual_id(h.tracing_id) = h.actual_id
           /\ h.actual_id \in Nat /\ h \in Handle
  <1> DEFINE id == h.tracing_id
  <1>1. h \in handles /\ h \in Handle /\ h.actual_id \in Nat
    BY DEF Live, Inv, TypeOK, ScopeType, Handle
  <1>2. Addressed(id)
    BY <1>1 DEF Inv, Addresses, HandlesNamed, Live
  <1>3. PICK l \in Lanes, s \in 0 .. ShardCapacity - 1 : id = encode_tracing_id(l, s)
    BY <1>2 DEF Addressed
  <1>4. Decodes(id) /\ ShardOf(id) = l /\ SlotOf(id) = s
    BY <1>3, RoundTrip
  <1>5. KeyOf(id) = [lane |-> l, slot |-> s] /\ KeyOf(id).lane = l /\ KeyOf(id).slot = s
    BY <1>4 DEF KeyOf
  <1>6. KeyOf(id) \in Entry
    BY <1>5, LaneSlotFacts DEF Entry
  <1>7. RecordAt(KeyOf(id)).id = h.actual_id /\ load_actual_id(id) = h.actual_id
    BY <1>4, <1>5 DEF OwnRecord, RecordAt, Live
  <1>8. RecordAt(KeyOf(id)) # Vacant
    BY <1>1, <1>7 DEF Vacant
  <1> QED  BY <1>1, <1>3, <1>4, <1>5, <1>6, <1>7, <1>8 DEF RefersTo

LEMMA OneHandle ==
    ASSUME Inv, HandlesNamed, OwnRecord, NEW g \in Live, NEW h \in Live,
           KeyOf(g.tracing_id) = KeyOf(h.tracing_id)
    PROVE  g = h
  <1>1. /\ g.actual_id = h.actual_id
        /\ g.tracing_id = h.tracing_id
    BY LiveFacts DEF RefersTo
  <1>2. g.copy = 0 /\ h.copy = 0 /\ g \in Handle /\ h \in Handle
    BY LiveFacts DEF HandlesNamed, Live
  <1> QED  BY <1>1, <1>2 DEF Handle

LEMMA InserterFacts ==
    ASSUME Inv, OwnSlots, NEW t \in Inserters
    PROVE  /\ t \in Threads /\ pick_shard(t) \in Lanes /\ InsertKey(t) \in Entry
           /\ call[t].slot \in 0 .. ShardCapacity - 1
           /\ call[t].id \in Nat
           /\ RecordAt(InsertKey(t)) # Vacant
           /\ InsertKey(t).lane = pick_shard(t) /\ InsertKey(t).slot = call[t].slot
  <1>1. t \in Threads /\ pc[t] = "inserted"
    BY DEF Inserters
  <1>2. pick_shard(t) \in Lanes
    BY <1>1, PickedLane DEF Inv
  <1>3. call[t].slot \in 0 .. ShardCapacity - 1 /\ call[t].id \in Nat
    BY <1>1 DEF Inv, SlotHasSidecar, TypeOK, CallType
  <1>4. InsertKey(t) \in Entry
    BY <1>2, <1>3, LaneSlotFacts DEF InsertKey, Entry
  <1>5. RecordAt(InsertKey(t)) # Vacant
    BY <1>3 DEF OwnSlots, Vacant
  <1> QED  BY <1>1, <1>2, <1>3, <1>4, <1>5 DEF InsertKey

-----------------------------------------------------------------------------
(* Steps                                                                   *)

LEMMA ScopedInit ==
    ASSUME Scoped, CacheInit
    PROVE  ScopedInv
  <1>1. handles = {DisabledHandle} /\ Inserters = {} /\ Live = {}
    BY DEF CacheInit, Inserters, Live
  <1>2. HandlesNamed /\ OwnRecord /\ OwnSlots
    BY <1>1 DEF HandlesNamed, OwnRecord, OwnSlots, DisabledHandle, Live
  <1>3. Open = {}
    BY DEF CacheInit, Open, Entry
  <1>4. NoLeakedEntry
    BY <1>3 DEF NoLeakedEntry
  <1>5. GuardsHeld /\ StackMirrorsScopes
    BY DEF CacheInit, GuardsHeld, StackMirrorsScopes
  <1> QED  BY <1>2, <1>4, <1>5 DEF ScopedInv

(* A step that touches neither slab, sidecar, handles nor inserters.       *)
LEMMA QuietStep ==
    ASSUME ScopedInv, UNCHANGED <<entries, actual_ids, handles>>, Inserters' = Inserters,
           \A t \in Inserters : /\ call'[t] = call[t]
                                /\ THREAD_SHARD_KEY'[t] = THREAD_SHARD_KEY[t]
    PROVE  HandlesNamed' /\ OwnRecord' /\ OwnSlots' /\ NoLeakedEntry'
  <1>1. \A t \in Inserters : InsertKey(t)' = InsertKey(t) /\ call'[t] = call[t]
    BY DEF InsertKey, pick_shard
  <1>2. HandlesNamed' /\ OwnRecord'
    BY DEF ScopedInv, HandlesNamed, OwnRecord, load_actual_id
  <1>3. OwnSlots'
    BY <1>1 DEF ScopedInv, OwnSlots, RecordAt, Live
  <1>4. \A t \in Threads : \A k : Inserting(t, k) => Inserting(t, k)'
    BY DEF Inserting, Inserters, pick_shard
  <1>5. NoLeakedEntry'
    BY <1>4 DEF ScopedInv, NoLeakedEntry, Open
  <1> QED  BY <1>2, <1>3, <1>5

(* An insert fills one vacant slot, which the sidecar has (cache.rs:437).  *)
LEMMA InsertEffect ==
    ASSUME Inv, NEW t \in Threads, Insert(t)
    PROVE  \E key \in Entry :
              /\ key = [lane |-> pick_shard(t), slot |-> call'[t].slot]
              /\ RecordAt(key) = Vacant
              /\ \A k \in Entry : RecordAt(k)' =
                    IF k = key THEN [id |-> call[t].id, parent_id |-> call[t].parent]
                               ELSE RecordAt(k)
              /\ call'[t].id = call[t].id
              /\ \A u \in Threads \ {t} : call'[u] = call[u]
  <1> DEFINE l == pick_shard(t)
             new == [id |-> call[t].id, parent_id |-> call[t].parent]
  <1>0. SlabType /\ CallType
    BY DEF Inv, TypeOK
  <1>1. pc[t] = "allocated" /\ l \in Lanes /\ ~ShardFull(l)
    BY PickedLane DEF Insert, Inv
  <1>2. PICK s \in InsertKeys(l) :
           /\ entries' = [entries EXCEPT ![l][s] = new]
           /\ call' = [call EXCEPT ![t].slot = s]
    BY DEF Insert
  <1>3. s \in 0 .. ShardCapacity - 1 /\ s \in Slots
    BY <1>1, InsertFits, LaneSlotFacts DEF Inv
  <1>4. entries[l][s] = Vacant
    <2>1. grown[l] \in Nat
      BY <1>0, <1>1 DEF SlabType
    <2>2. entries[l][s] # Vacant => s < grown[l]
      BY <1>1, <1>3 DEF Inv, SidecarInBounds
    <2> DEFINE freed == {slot \in Slots : slot < grown[l] /\ entries[l][slot] = Vacant}
    <2>3. CASE freed # {}
      BY <1>2, <2>3 DEF InsertKeys
    <2>4. CASE freed = {}
      <3>1. s = grown[l]
        BY <1>2, <2>4 DEF InsertKeys
      <3> QED  BY <2>1, <2>2, <3>1
    <2> QED  BY <2>3, <2>4
  <1>5. PICK key : key = [lane |-> l, slot |-> s]
    OBVIOUS
  <1>6. /\ call'[t].slot = s /\ call'[t].id = call[t].id
        /\ \A u \in Threads \ {t} : call'[u] = call[u]
    BY <1>0, <1>2 DEF CallType
  <1>7. \A k \in Entry : RecordAt(k)' = IF k = key THEN new ELSE RecordAt(k)
    BY <1>0, <1>1, <1>2, <1>3, <1>5 DEF RecordAt, Entry, SlabType
  <1>8. key \in Entry /\ RecordAt(key) = Vacant
    BY <1>1, <1>3, <1>4, <1>5 DEF Entry, RecordAt
  <1> QED  BY <1>5, <1>6, <1>7, <1>8

(* The slot an insert takes was vacant, so nobody has it (cache.rs:437).   *)
LEMMA InsertScoped ==
    ASSUME Inv, ScopedInv, NEW t \in Threads, Insert(t)
    PROVE  HandlesNamed' /\ OwnRecord' /\ OwnSlots' /\ NoLeakedEntry'
  <1> DEFINE l == pick_shard(t)
             new == [id |-> call[t].id, parent_id |-> call[t].parent]
  <1>0. /\ HandlesNamed /\ OwnRecord /\ OwnSlots /\ NoLeakedEntry
        /\ SlabType /\ CallType
    BY DEF ScopedInv, Inv, TypeOK
  <1>1. pc[t] = "allocated"
    BY DEF Insert
  <1>2. PICK key \in Entry :
           /\ key = [lane |-> l, slot |-> call'[t].slot]
           /\ RecordAt(key) = Vacant
           /\ \A k \in Entry : RecordAt(k)' = IF k = key THEN new ELSE RecordAt(k)
           /\ call'[t].id = call[t].id
           /\ \A u \in Threads \ {t} : call'[u] = call[u]
    BY InsertEffect
  <1>5. /\ UNCHANGED <<actual_ids, handles, THREAD_SHARD_KEY>>
        /\ pc' = [pc EXCEPT ![t] = "inserted"]
    BY DEF Insert, reservation
  <1>6. /\ Inserters' = Inserters \cup {t} /\ t \notin Inserters
        /\ Live' = Live /\ \A u : pick_shard(u)' = pick_shard(u)
    BY <1>0, <1>1, <1>5 DEF Inserters, CallType, Live, pick_shard
  <1>8. /\ \A u \in Inserters : InsertKey(u)' = InsertKey(u) /\ call'[u] = call[u]
        /\ InsertKey(t)' = key
    BY <1>2, <1>6 DEF InsertKey, Inserters
  <1>11. \A h \in Live : KeyOf(h.tracing_id) # key
    BY <1>0, <1>2, LiveFacts
  <1>12. \A u \in Inserters : InsertKey(u) # key
    BY <1>0, <1>2, InserterFacts
  <1>13. HandlesNamed'
    BY <1>0, <1>5 DEF HandlesNamed
  <1>14. OwnRecord'
    <2> SUFFICES ASSUME NEW h \in Live
                 PROVE  /\ entries'[ShardOf(h.tracing_id)][SlotOf(h.tracing_id)].id = h.actual_id
                        /\ load_actual_id(h.tracing_id)' = h.actual_id
      BY <1>6 DEF OwnRecord, Live
    <2>1. RecordAt(KeyOf(h.tracing_id))' = RecordAt(KeyOf(h.tracing_id))
      BY <1>0, <1>2, <1>11, LiveFacts
    <2>2. RecordAt(KeyOf(h.tracing_id)).id = h.actual_id /\ load_actual_id(h.tracing_id) = h.actual_id
      BY <1>0, LiveFacts
    <2> QED  BY <1>5, <2>1, <2>2 DEF RecordAt, KeyOf, load_actual_id
  <1>15. OwnSlots'
    <2>1. ASSUME NEW u \in Inserters'
          PROVE  /\ RecordAt(InsertKey(u))'.id = call'[u].id
                 /\ \A h \in Live : KeyOf(h.tracing_id) # InsertKey(u)'
                 /\ \A v \in Inserters' \ {u} : InsertKey(v)' # InsertKey(u)'
      <3>1. CASE u = t
        <4>1. RecordAt(key)'.id = call[t].id
          BY <1>2
        <4>2. RecordAt(InsertKey(u))' = RecordAt(key)'
          BY <1>8, <3>1 DEF RecordAt
        <4> QED  BY <1>2, <1>6, <1>8, <1>11, <1>12, <3>1, <4>1, <4>2
      <3>2. CASE u # t
        <4>1. u \in Inserters /\ InsertKey(u)' = InsertKey(u) /\ call'[u] = call[u]
          BY <1>6, <1>8, <3>2
        <4>2. InsertKey(u) \in Entry /\ InsertKey(u) # key
          BY <1>0, <1>12, <4>1, InserterFacts
        <4>3. RecordAt(InsertKey(u))' = RecordAt(InsertKey(u))
          BY <1>2, <4>1, <4>2 DEF RecordAt
        <4>4. /\ RecordAt(InsertKey(u)).id = call[u].id
              /\ \A h \in Live : KeyOf(h.tracing_id) # InsertKey(u)
              /\ \A v \in Inserters \ {u} : InsertKey(v) # InsertKey(u)
          BY <1>0, <4>1 DEF OwnSlots
        <4> QED  BY <1>6, <1>8, <4>1, <4>2, <4>3, <4>4
      <3> QED  BY <3>1, <3>2
    <2> QED  BY <1>6, <2>1 DEF OwnSlots
  <1>16. NoLeakedEntry'
    <2> SUFFICES ASSUME NEW k \in Open'
                 PROVE  (\E h \in handles : RefersTo(h, k)) \/ (\E u \in Threads : Inserting(u, k)')
      BY <1>5 DEF NoLeakedEntry
    <2>1. k \in Entry /\ RecordAt(k)' # Vacant
      BY DEF Open, RecordAt
    <2>2. CASE k = key
      BY <1>0, <1>2, <1>5, <1>6, <2>2 DEF Inserting, CallType
    <2>3. CASE k # key
      <3>1. k \in Open
        BY <1>2, <2>1, <2>3 DEF Open, RecordAt
      <3>2. \A u \in Threads : Inserting(u, k) => Inserting(u, k)'
        BY <1>6, <1>8 DEF Inserting, Inserters, InsertKey
      <3> QED  BY <1>0, <3>1, <3>2 DEF NoLeakedEntry
    <2> QED  BY <2>2, <2>3
  <1> QED  BY <1>13, <1>14, <1>15, <1>16

(* Nobody can reach a slot before new_span returns its id, so the sidecar  *)
(* may be written after the unlock (cache.rs:427-448).                     *)
LEMMA PublishScoped ==
    ASSUME Scoped, Inv, ScopedInv, NEW t \in Threads, Publish(t)
    PROVE  HandlesNamed' /\ OwnRecord' /\ OwnSlots' /\ NoLeakedEntry'
  <1> DEFINE l == pick_shard(t)
             s == call[t].slot
             new == [tracing_id |-> encode_tracing_id(l, s), actual_id |-> call[t].id, copy |-> 0]
  <1>0. /\ HandlesNamed /\ OwnRecord /\ OwnSlots /\ NoLeakedEntry
        /\ SlabType /\ CallType
    BY DEF ScopedInv, Inv, TypeOK
  <1>1. t \in Inserters
    BY DEF Publish, Inserters
  <1>2. /\ l \in Lanes /\ s \in 0 .. ShardCapacity - 1 /\ InsertKey(t) \in Entry
        /\ call[t].id \in Nat /\ InsertKey(t).lane = l /\ InsertKey(t).slot = s
    BY <1>0, <1>1, InserterFacts
  <1>3. /\ encode_tracing_id(l, s) # DISABLED /\ Decodes(encode_tracing_id(l, s))
        /\ ShardOf(encode_tracing_id(l, s)) = l /\ SlotOf(encode_tracing_id(l, s)) = s
    BY <1>2, RoundTrip
  <1>4. KeyOf(new.tracing_id) = InsertKey(t)
    BY <1>3 DEF KeyOf, InsertKey
  <1>5. /\ actual_ids' = [actual_ids EXCEPT ![l][s] = call[t].id]
        /\ handles' = handles \cup {new}
        /\ pc' = [pc EXCEPT ![t] = "idle"] /\ call' = [call EXCEPT ![t] = NoCall]
        /\ UNCHANGED <<entries, THREAD_SHARD_KEY>>
    BY DEF Publish, reservation, slab
  <1>6. Inserters' = Inserters \ {t}
    BY <1>0, <1>5 DEF Inserters, CallType
  <1>7. \A u \in Inserters \ {t} : InsertKey(u)' = InsertKey(u) /\ call'[u] = call[u]
    BY <1>0, <1>5 DEF InsertKey, CallType, pick_shard, Inserters
  <1>8. Live' \subseteq Live \cup {new}
    BY <1>5 DEF Live
  <1>9. HandlesNamed'
    BY <1>0, <1>3, <1>5 DEF HandlesNamed
  <1>10. OwnRecord'
    <2> SUFFICES ASSUME NEW h \in Live'
                 PROVE  /\ RecordAt(KeyOf(h.tracing_id)).id = h.actual_id
                        /\ load_actual_id(h.tracing_id)' = h.actual_id
      BY <1>5 DEF OwnRecord, Live, RecordAt, KeyOf
    <2>1. CASE h = new
      <3>1. RecordAt(KeyOf(h.tracing_id)).id = call[t].id
        BY <1>0, <1>1, <1>4, <2>1 DEF OwnSlots
      <3>2. load_actual_id(h.tracing_id)' = call[t].id
        BY <1>0, <1>2, <1>3, <1>5, <2>1 DEF load_actual_id, SlabType
      <3> QED  BY <2>1, <3>1, <3>2
    <2>2. CASE h \in Live
      <3>1. /\ KeyOf(h.tracing_id) # InsertKey(t) /\ KeyOf(h.tracing_id) \in Entry
            /\ KeyOf(h.tracing_id).slot \in 0 .. ShardCapacity - 1
        BY <1>0, <1>1, <2>2, LiveFacts DEF OwnSlots
      <3>2. ShardOf(h.tracing_id) # l \/ SlotOf(h.tracing_id) # s
        BY <3>1 DEF KeyOf, InsertKey
      <3>3. load_actual_id(h.tracing_id)' = load_actual_id(h.tracing_id)
        BY <1>0, <1>2, <1>5, <3>1, <3>2 DEF load_actual_id, SlabType, KeyOf, Entry
      <3> QED  BY <1>0, <2>2, <3>3, LiveFacts
    <2> QED  BY <1>8, <2>1, <2>2
  <1>11. OwnSlots'
    <2> SUFFICES ASSUME NEW u \in Inserters \ {t}
                 PROVE  /\ RecordAt(InsertKey(u)).id = call[u].id
                        /\ \A h \in Live' : KeyOf(h.tracing_id) # InsertKey(u)
                        /\ \A v \in Inserters \ {t, u} : InsertKey(v) # InsertKey(u)
      BY <1>5, <1>6, <1>7 DEF OwnSlots, RecordAt
    <2> QED  BY <1>0, <1>1, <1>4, <1>8 DEF OwnSlots
  <1>12. NoLeakedEntry'
    <2> SUFFICES ASSUME NEW k \in Open
                 PROVE  (\E h \in handles' : RefersTo(h, k)) \/ (\E u \in Threads : Inserting(u, k)')
      BY <1>5 DEF NoLeakedEntry, Open
    <2>1. CASE k = InsertKey(t)
      <3>1. RefersTo(new, k) /\ new \in handles'
        BY <1>2, <1>5, <2>1 DEF RefersTo
      <3> QED  BY <3>1
    <2>2. CASE k # InsertKey(t)
      <3>1. \A u \in Threads : Inserting(u, k) => u \in Inserters \ {t} /\ k = InsertKey(u)
        BY <2>2 DEF Inserting, Inserters, InsertKey
      <3>2. \A u \in Inserters \ {t} : u \in Inserters' /\ InsertKey(u)' = InsertKey(u)
        BY <1>6, <1>7
      <3>3. \A u \in Threads : Inserting(u, k) => Inserting(u, k)'
        BY <3>1, <3>2 DEF Inserting, Inserters, InsertKey
      <3> QED  BY <1>0, <1>5, <3>3 DEF NoLeakedEntry
    <2> QED  BY <2>1, <2>2
  <1> QED  BY <1>9, <1>10, <1>11, <1>12

(* An open entry is addressed by one tracing id.                           *)
LEMMA SlotCoded ==
    ASSUME Inv, NEW k \in Entry, RecordAt(k) # Vacant
    PROVE  LET id == encode_tracing_id(k.lane, k.slot) IN
           k.slot \in 0 .. ShardCapacity - 1 /\ KeyOf(id) = k
  <1>1. k.lane \in Lanes /\ k.slot \in Slots /\ k = [lane |-> k.lane, slot |-> k.slot]
    BY DEF Entry
  <1>2. k.slot \in 0 .. ShardCapacity - 1
    <2>1. /\ k.slot < grown[k.lane] /\ grown[k.lane] <= ShardCapacity
          /\ grown[k.lane] \in Nat
      BY <1>1 DEF Inv, SidecarInBounds, RecordAt, TypeOK, SlabType
    <2>2. k.slot \in Nat /\ ShardCapacity \in Nat
      BY <1>1, LaneSlotFacts
    <2> QED  BY <2>1, <2>2
  <1> QED  BY <1>1, <1>2, RoundTrip DEF KeyOf

(* A close empties the slot of the handle it drops and no other            *)
(* (cache.rs:542-556).                                                     *)
LEMMA CloseScoped ==
    ASSUME Inv, ScopedInv, NEW t \in Threads, NEW g \in handles, TryClose(t, g)
    PROVE  HandlesNamed' /\ OwnRecord' /\ OwnSlots' /\ NoLeakedEntry'
  <1>0. /\ HandlesNamed /\ OwnRecord /\ OwnSlots /\ NoLeakedEntry /\ SlabType
    BY DEF ScopedInv, Inv, TypeOK
  <1>1. UNCHANGED <<actual_ids, pc, call, THREAD_SHARD_KEY>>
    BY DEF TryClose, reservation, calls
  <1>2. CASE g = DisabledHandle
    <2>1. ~Decodes(g.tracing_id)
      BY <1>2 DEF Decodes, DisabledHandle
    <2>2. entries' = entries /\ handles' = handles
      BY <1>2, <2>1 DEF TryClose
    <2> QED  BY <1>1, <2>2, QuietStep DEF Inserters
  <1>3. CASE g # DisabledHandle
    <2>1. g \in Live
      BY <1>3 DEF Live
    <2>2. PICK key : key = KeyOf(g.tracing_id)
      OBVIOUS
    <2>3. key \in Entry /\ Decodes(g.tracing_id) /\ RecordAt(key) # Vacant
      BY <1>0, <2>1, <2>2, LiveFacts
    <2>4. entries' = [entries EXCEPT ![key.lane][key.slot] = Vacant]
      BY <2>2, <2>3 DEF TryClose, KeyOf, RecordAt
    <2>5. handles' = handles \ {g} /\ Live' = Live \ {g}
      BY <1>3 DEF TryClose, Live
    <2>6. \A k \in Entry : RecordAt(k)' = IF k = key THEN Vacant ELSE RecordAt(k)
      BY <1>0, <2>3, <2>4 DEF RecordAt, Entry, SlabType
    <2>7. Inserters' = Inserters /\ \A u \in Threads : InsertKey(u)' = InsertKey(u)
      BY <1>1 DEF Inserters, InsertKey, pick_shard
    <2>8. HandlesNamed'
      BY <1>0, <2>5 DEF HandlesNamed
    <2>9. OwnRecord'
      <3> SUFFICES ASSUME NEW h \in Live \ {g}
                   PROVE  /\ RecordAt(KeyOf(h.tracing_id))'.id = h.actual_id
                          /\ load_actual_id(h.tracing_id)' = h.actual_id
        BY <2>5 DEF OwnRecord, Live, RecordAt, KeyOf
      <3>1. KeyOf(h.tracing_id) # key
        <4>1. KeyOf(h.tracing_id) = KeyOf(g.tracing_id) => h = g
          BY <1>0, <2>1, OneHandle
        <4> QED  BY <2>2, <4>1
      <3>2. KeyOf(h.tracing_id) \in Entry /\ RecordAt(KeyOf(h.tracing_id)).id = h.actual_id
        BY <1>0, LiveFacts
      <3>3. load_actual_id(h.tracing_id)' = load_actual_id(h.tracing_id)
        BY <1>1 DEF load_actual_id
      <3> QED  BY <1>0, <2>6, <3>1, <3>2, <3>3, LiveFacts
    <2>10. OwnSlots'
      <3> SUFFICES ASSUME NEW u \in Inserters
                   PROVE  /\ RecordAt(InsertKey(u))'.id = call[u].id
                          /\ \A h \in Live' : KeyOf(h.tracing_id) # InsertKey(u)
                          /\ \A v \in Inserters \ {u} : InsertKey(v) # InsertKey(u)
        <4> SUFFICES ASSUME NEW u \in Inserters
                     PROVE  /\ RecordAt(InsertKey(u))'.id = call'[u].id
                            /\ \A h \in Live' : KeyOf(h.tracing_id) # InsertKey(u)'
                            /\ \A v \in Inserters \ {u} : InsertKey(v)' # InsertKey(u)'
          BY <2>7 DEF OwnSlots
        <4> QED  BY <1>1, <2>7 DEF Inserters, RecordAt
      <3>1. InsertKey(u) # key /\ InsertKey(u) \in Entry
        BY <1>0, <2>1, <2>2, InserterFacts DEF OwnSlots
      <3>2. PICK k \in Entry : k = InsertKey(u)
        BY <3>1
      <3>3. RecordAt(k)' = RecordAt(k)
        BY <2>6, <3>1, <3>2
      <3>4. RecordAt(InsertKey(u))' = RecordAt(InsertKey(u))
        BY <2>7, <3>2, <3>3 DEF RecordAt, Inserters
      <3> QED  BY <1>0, <2>5, <3>4 DEF OwnSlots
    <2>11. NoLeakedEntry'
      <3> SUFFICES ASSUME NEW k \in Open'
                   PROVE  (\E h \in handles' : RefersTo(h, k)) \/ (\E u \in Threads : Inserting(u, k)')
        BY DEF NoLeakedEntry
      <3>1. k \in Entry /\ k # key /\ k \in Open
        BY <2>6 DEF Open, RecordAt
      <3>2. \A u \in Threads : Inserting(u, k) => Inserting(u, k)'
        BY <1>1 DEF Inserting, pick_shard
      <3>3. ~ RefersTo(g, k)
        <4> SUFFICES ASSUME RefersTo(g, k) PROVE FALSE
          OBVIOUS
        <4>1. k.lane \in Lanes /\ k.slot \in Slots /\ k = [lane |-> k.lane, slot |-> k.slot]
          BY <3>1 DEF Entry
        <4>2. RecordAt(k) # Vacant
          BY <3>1 DEF Open, RecordAt
        <4> QED  BY <1>0, <2>2, <3>1, <4>1, <4>2, SlotCoded DEF RefersTo, KeyOf
      <3> QED  BY <1>0, <2>5, <3>1, <3>2, <3>3 DEF NoLeakedEntry
    <2> QED  BY <2>8, <2>9, <2>10, <2>11
  <1> QED  BY <1>2, <1>3

Mirrors(stack, guards) ==
    /\ Len(stack) = Len(guards)
    /\ \A i \in DOMAIN guards :
          stack[i] = [tracing_id |-> guards[i].tracing_id, actual_id |-> guards[i].actual_id]

LEMMA MirrorsStep ==
    ASSUME StackMirrorsScopes, NEW t, NEW stack, NEW guards, Mirrors(stack, guards),
           SPAN_STACK'[t] = stack, entered'[t] = guards,
           \A u \in Threads \ {t} : SPAN_STACK'[u] = SPAN_STACK[u] /\ entered'[u] = entered[u]
    PROVE  StackMirrorsScopes'
  <1>1. \A u \in Threads : Mirrors(SPAN_STACK[u], entered[u])
    BY DEF StackMirrorsScopes, Mirrors
  <1>2. \A u \in Threads : Mirrors(SPAN_STACK'[u], entered'[u])
    BY <1>1
  <1> QED  BY <1>2 DEF StackMirrorsScopes, Mirrors

(* A guard borrows its handle, and the stack has what the guard entered    *)
(* (cache.rs:528, 538).                                                    *)
LEMMA ScopesStep ==
    ASSUME Scoped, Inv, ScopedInv, CacheNext
    PROVE  GuardsHeld' /\ StackMirrorsScopes'
  <1>0. /\ HandlesNamed /\ OwnRecord /\ GuardsHeld /\ StackMirrorsScopes
        /\ ScopeType
    BY DEF ScopedInv, Inv, TypeOK
  <1> DEFINE Stacked(h) == [tracing_id |-> h.tracing_id, actual_id |-> h.actual_id]
  <1>1. StackMirrorsScopes'
    <2>1. CASE UNCHANGED <<SPAN_STACK, entered>>
      BY <1>0, <2>1 DEF StackMirrorsScopes
    <2>2. ASSUME NEW t \in Threads, NEW h \in handles, Enter(t, h)
          PROVE  StackMirrorsScopes'
      <3>1. (IF Decodes(h.tracing_id) THEN load_actual_id(h.tracing_id) ELSE 0) = h.actual_id
        <4>1. CASE h = DisabledHandle
          BY <4>1 DEF DisabledHandle, Decodes
        <4>2. CASE h # DisabledHandle
          <5>1. h \in Live
            BY <4>2 DEF Live
          <5> QED  BY <1>0, <5>1, LiveFacts
        <4> QED  BY <4>1, <4>2
      <3>2. /\ SPAN_STACK' = [SPAN_STACK EXCEPT ![t] = Append(@, Stacked(h))]
            /\ entered' = [entered EXCEPT ![t] = Append(@, h)]
        BY <2>2, <3>1 DEF Enter
      <3> DEFINE stack == SPAN_STACK[t]
                 guards == entered[t]
      <3>3. /\ stack \in Seq(StackedSpan) /\ guards \in Seq(Handle)
            /\ Len(stack) = Len(guards)
            /\ \A i \in 1 .. Len(guards) : stack[i] = Stacked(guards[i])
        BY <1>0 DEF ScopeType, StackMirrorsScopes
      <3> HIDE DEF stack, guards
      <3>4. Mirrors(Append(stack, Stacked(h)), Append(guards, h))
        BY <3>3 DEF Mirrors
      <3>5. /\ SPAN_STACK'[t] = Append(stack, Stacked(h)) /\ entered'[t] = Append(guards, h)
            /\ \A u \in Threads \ {t} : SPAN_STACK'[u] = SPAN_STACK[u] /\ entered'[u] = entered[u]
        BY <1>0, <3>2 DEF ScopeType, stack, guards
      <3> QED  BY <1>0, <3>4, <3>5, MirrorsStep
    <2>3. ASSUME NEW t \in Threads, NEW i \in 1 .. MaxDepth, Exit(t, i)
          PROVE  StackMirrorsScopes'
      <3> DEFINE stack == SPAN_STACK[t]
                 guards == entered[t]
      <3>1. /\ stack \in Seq(StackedSpan) /\ guards \in Seq(Handle)
            /\ Len(stack) = Len(guards) /\ Len(guards) \in Nat \ {0} /\ i = Len(guards)
            /\ \A j \in 1 .. Len(guards) : stack[j] = Stacked(guards[j])
        BY <1>0, <2>3 DEF Exit, ScopeType, StackMirrorsScopes, Scoped
      <3>2. /\ SPAN_STACK' = [SPAN_STACK EXCEPT ![t] = Front(stack)]
            /\ entered' = [entered EXCEPT ![t] = RemoveAt(guards, i)]
        BY <2>3 DEF Exit
      <3> HIDE DEF stack, guards
      <3>3. RemoveAt(guards, i) = Front(guards)
        <4>1. /\ SubSeq(guards, 1, i - 1) \in Seq(Handle)
              /\ SubSeq(guards, i + 1, Len(guards)) = <<>>
          BY <3>1
        <4> QED  BY <3>1, <4>1 DEF RemoveAt, Front
      <3>4. Mirrors(Front(stack), Front(guards))
        BY <3>1 DEF Front, Mirrors
      <3>5. /\ SPAN_STACK'[t] = Front(stack) /\ entered'[t] = Front(guards)
            /\ \A u \in Threads \ {t} : SPAN_STACK'[u] = SPAN_STACK[u] /\ entered'[u] = entered[u]
        BY <1>0, <3>2, <3>3 DEF ScopeType
      <3> QED  BY <1>0, <3>4, <3>5, MirrorsStep
    <2>4. ASSUME NEW t \in Threads, ThreadExit(t)
          PROVE  StackMirrorsScopes'
      <3>1. /\ SPAN_STACK' = [SPAN_STACK EXCEPT ![t] = <<>>]
            /\ entered[t] = <<>> /\ entered' = entered
        BY <2>4 DEF ThreadExit
      <3>2. /\ SPAN_STACK'[t] = <<>> /\ entered'[t] = <<>>
            /\ \A u \in Threads \ {t} : SPAN_STACK'[u] = SPAN_STACK[u] /\ entered'[u] = entered[u]
        BY <1>0, <3>1 DEF ScopeType
      <3>3. Mirrors(<<>>, <<>>)
        BY DEF Mirrors
      <3> QED  BY <1>0, <3>2, <3>3, MirrorsStep
    <2> QED  BY <2>1, <2>2, <2>3, <2>4, Frames
  <1>2. GuardsHeld'
    <2>1. ASSUME NEW t \in Threads, NEW h \in handles, TryClose(t, h)
          PROVE  GuardsHeld'
      <3>1. ~Borrowed(h) /\ handles \ {h} \subseteq handles' /\ UNCHANGED entered
        BY <2>1 DEF TryClose, scopes
      <3> QED  BY <1>0, <3>1 DEF GuardsHeld, Borrowed
    <2>2. CASE handles \subseteq handles' /\ UNCHANGED entered
      BY <1>0, <2>2 DEF GuardsHeld
    <2>3. ASSUME NEW t \in Threads, NEW h \in handles, Enter(t, h)
          PROVE  GuardsHeld'
      <3>1. entered' = [entered EXCEPT ![t] = Append(@, h)] /\ handles' = handles
        BY <2>3 DEF Enter
      <3>2. entered[t] \in Seq(Handle) /\ h \in Handle
        BY <1>0 DEF ScopeType
      <3>3. ASSUME NEW j \in DOMAIN Append(entered[t], h)
            PROVE  Append(entered[t], h)[j] \in handles
        BY <1>0, <3>2 DEF GuardsHeld
      <3> QED  BY <1>0, <3>1, <3>3 DEF GuardsHeld, ScopeType
    <2>4. ASSUME NEW t \in Threads, NEW i \in 1 .. MaxDepth, Exit(t, i)
          PROVE  GuardsHeld'
      <3>1. /\ entered' = [entered EXCEPT ![t] = RemoveAt(@, i)] /\ handles' = handles
            /\ entered[t] \in Seq(Handle) /\ i = Len(entered[t]) /\ i \in DOMAIN entered[t]
        BY <1>0, <2>4 DEF Exit, ScopeType, Scoped
      <3> DEFINE guards == entered[t]
      <3>2. RemoveAt(guards, i) = Front(guards)
        <4> HIDE DEF guards
        <4>1. guards \in Seq(Handle) /\ i = Len(guards) /\ i \in Nat
          BY <3>1 DEF guards
        <4>2. /\ SubSeq(guards, 1, i - 1) \in Seq(Handle)
              /\ SubSeq(guards, i + 1, Len(guards)) = <<>>
          BY <4>1
        <4> QED  BY <4>1, <4>2 DEF RemoveAt, Front
      <3>3. \A j \in DOMAIN Front(guards) : j \in DOMAIN guards /\ Front(guards)[j] = guards[j]
        BY <3>1 DEF Front
      <3> QED  BY <1>0, <3>1, <3>2, <3>3 DEF GuardsHeld, ScopeType
    <2>5. \/ handles \subseteq handles' /\ UNCHANGED entered
          \/ \E t \in Threads :
                \/ \E h \in handles : TryClose(t, h) \/ Enter(t, h)
                \/ \E i \in 1 .. MaxDepth : Exit(t, i)
      <3>1. \A t \in Threads : ThreadExit(t) => UNCHANGED <<entered, handles>>
        BY DEF ThreadExit
      <3>2. \A t \in Threads : Publish(t) => handles \subseteq handles' /\ UNCHANGED entered
        BY DEF Publish, scopes
      <3>3. \A h \in handles : CloneSpan(h) => handles \subseteq handles' /\ UNCHANGED entered
        BY DEF CloneSpan, scopes
      <3> QED  BY <3>1, <3>2, <3>3, Frames
    <2> QED  BY <2>1, <2>2, <2>3, <2>4, <2>5
  <1> QED  BY <1>1, <1>2

LEMMA ScopedStep ==
    ASSUME Scoped, Inv, ScopedInv, [CacheNext]_cacheVars
    PROVE  ScopedInv'
  <1>1. CASE UNCHANGED cacheVars
    <2>1. /\ UNCHANGED <<entries, actual_ids, handles, pc, call, THREAD_SHARD_KEY>>
          /\ UNCHANGED <<SPAN_STACK, entered>>
      BY <1>1 DEF cacheVars, reservation, slab, scopes, calls
    <2>2. GuardsHeld' /\ StackMirrorsScopes'
      BY <2>1 DEF ScopedInv, GuardsHeld, StackMirrorsScopes
    <2> QED  BY <2>1, <2>2, QuietStep DEF Inserters, ScopedInv
  <1>2. CASE CacheNext
    <2>1. GuardsHeld' /\ StackMirrorsScopes'
      BY <1>2, ScopesStep
    <2>2. CASE \E t \in Threads : Insert(t) \/ Publish(t) \/ \E h \in handles : TryClose(t, h)
      BY <2>1, <2>2, InsertScoped, PublishScoped, CloseScoped DEF ScopedInv
    <2>3. CASE ~ \E t \in Threads : Insert(t) \/ Publish(t) \/ \E h \in handles : TryClose(t, h)
      <3>1. \A h \in handles : ~CloneSpan(h)
        BY DEF CloneSpan, Scoped
      <3>2. UNCHANGED <<entries, actual_ids, handles>>
        BY <1>2, <2>3, <3>1, Frames DEF slab
      <3>3. Inserters' = Inserters /\ \A t \in Inserters : call'[t] = call[t]
        <4>1. CASE UNCHANGED calls
          BY <4>1 DEF calls, Inserters
        <4>2. ASSUME NEW t \in Threads,
                     \/ NewSpanContextual(t) \/ NewSpanRoot(t)
                     \/ \E h \in handles : NewSpanExplicit(t, h)
                     \/ Allocate(t) \/ InsertRejected(t)
              PROVE  Inserters' = Inserters /\ \A u \in Inserters : call'[u] = call[u]
          <5>0. CallType
            BY DEF Inv, TypeOK
          <5>1. pc[t] # "inserted"
            BY <4>2 DEF NewSpanContextual, NewSpanRoot, NewSpanExplicit, Allocate,
                        InsertRejected, AtRest
          <5>2. /\ pc' = [pc EXCEPT ![t] = pc'[t]] /\ pc'[t] # "inserted"
                /\ \A u \in Threads \ {t} : call'[u] = call[u]
            BY <4>2, <5>0 DEF NewSpanContextual, NewSpanRoot, NewSpanExplicit, Allocate, Resolved,
                        ReturnDisabled, allocate_actual_id, InsertRejected, CallType
          <5> QED  BY <5>0, <5>1, <5>2 DEF Inserters, CallType
        <4> QED  BY <1>2, <2>3, <4>1, <4>2, Frames
      <3>4. \A t \in Inserters : THREAD_SHARD_KEY'[t] = THREAD_SHARD_KEY[t]
        <4>1. CASE UNCHANGED reservation
          BY <4>1 DEF reservation
        <4>2. ASSUME NEW t \in Threads, Allocate(t) \/ ThreadExit(t)
              PROVE  \A u \in Inserters : THREAD_SHARD_KEY'[u] = THREAD_SHARD_KEY[u]
          <5>1. pc[t] # "inserted"
            BY <4>2 DEF Allocate, ThreadExit, AtRest
          <5>2. \A u \in Threads \ {t} : THREAD_SHARD_KEY'[u] = THREAD_SHARD_KEY[u]
            BY <4>2 DEF Allocate, ThreadExit, ensure_thread_shard_key, Inv, TypeOK, ReservationType
          <5> QED  BY <5>1, <5>2 DEF Inserters
        <4> QED  BY <1>2, <4>1, <4>2, Frames
      <3> QED  BY <2>1, <3>2, <3>3, <3>4, QuietStep DEF ScopedInv
    <2> QED  BY <2>2, <2>3
  <1> QED  BY <1>1, <1>2

LEMMA ScopedHolds == Scoped => (CacheSpec => [](Inv /\ ScopedInv))
  <1> SUFFICES ASSUME Scoped
               PROVE  CacheSpec => [](Inv /\ ScopedInv)
    OBVIOUS
  <1>1. CacheInit => Inv /\ ScopedInv
    BY InitInv, ScopedInit
  <1>2. Inv /\ ScopedInv /\ [CacheNext]_cacheVars => (Inv /\ ScopedInv)'
    BY InvStep, ScopedStep
  <1> QED  BY <1>1, <1>2, PTL DEF CacheSpec

(* Without clones and with guards in LIFO order, a live handle finds its   *)
(* own record in the slab and its own id in the lock-free sidecar, however *)
(* often slots are reused (cache.rs:254, 395, 429, 528).                   *)
THEOREM HandlesReachOwnSpan == Scoped => (CacheSpec => []OwnRecord)
  <1>1. ScopedInv => OwnRecord
    BY DEF ScopedInv
  <1> QED  BY <1>1, ScopedHolds, PTL

(* Under the same use no slab entry is left without a handle that can      *)
(* close it (cache.rs:437).                                                *)
THEOREM NothingLeaks == Scoped => (CacheSpec => []NoLeakedEntry)
  <1>1. ScopedInv => NoLeakedEntry
    BY DEF ScopedInv
  <1> QED  BY <1>1, ScopedHolds, PTL

(* Contextual parents and events go to the innermost entered span          *)
(* (cache.rs:374, 487, thread_state.rs:41).                                *)
THEOREM StacksMirrorScopes == Scoped => (CacheSpec => []StackMirrorsScopes)
  <1>1. ScopedInv => StackMirrorsScopes
    BY DEF ScopedInv
  <1> QED  BY <1>1, ScopedHolds, PTL

(* What the comment at cache.rs:427-431 says is true where no Span is      *)
(* cloned: nobody reaches a slot before new_span returns its id.           *)
THEOREM HiddenUntilPublished == Scoped => (CacheSpec => []SlotHiddenUntilPublished)
  <1>1. Inv /\ ScopedInv => SlotHiddenUntilPublished
    <2> SUFFICES ASSUME Inv, ScopedInv, NEW t \in Threads, NEW k \in Entry, Inserting(t, k),
                        NEW h \in handles, RefersTo(h, k)
                 PROVE  FALSE
      BY DEF SlotHiddenUntilPublished
    <2>0. HandlesNamed /\ OwnRecord /\ OwnSlots
      BY DEF ScopedInv
    <2>1. t \in Inserters /\ k = InsertKey(t)
      BY DEF Inserting, Inserters, InsertKey
    <2>2. RecordAt(k) # Vacant
      BY <2>0, <2>1, InserterFacts
    <2>3. KeyOf(h.tracing_id) = k /\ Addressed(h.tracing_id)
      BY <2>2, SlotCoded DEF RefersTo, Addressed, Entry
    <2>4. h # DisabledHandle
      <3>1. h.tracing_id # DISABLED
        BY <2>3, RoundTrip DEF Addressed
      <3> QED  BY <3>1 DEF DisabledHandle
    <2> QED  BY <2>0, <2>1, <2>3, <2>4 DEF OwnSlots, Live
  <1> QED  BY <1>1, ScopedHolds, PTL

-----------------------------------------------------------------------------
(* What the feed's ids rely on                                             *)

LEMMA FeedInit ==
    ASSUME CacheInit
    PROVE  FeedInv
  <1>1. Open = {} /\ DOMAIN issued = {} /\ Opening = {} /\ Used = {}
    BY DEF CacheInit, Open, Entry, Opening, Used
  <1>2. \A t \in Threads : pc[t] # "resolved"
    BY DEF CacheInit
  <1> QED  BY <1>1, <1>2 DEF FeedInv, OpenIssued, IdsGrow, IdsBounded, Reserving

LEMMA CloseEffect ==
    ASSUME Inv, NEW t \in Threads, NEW h \in handles, TryClose(t, h)
    PROVE  \A k \in Entry : RecordAt(k)' = RecordAt(k) \/ RecordAt(k)' = Vacant
  <1>0. SlabType
    BY DEF Inv, TypeOK
  <1>1. CASE UNCHANGED entries
    BY <1>1 DEF RecordAt
  <1>2. CASE entries' = [entries EXCEPT ![ShardOf(h.tracing_id)][SlotOf(h.tracing_id)] = Vacant]
    BY <1>0, <1>2 DEF RecordAt, Entry, SlabType
  <1> QED  BY <1>1, <1>2 DEF TryClose

(* The ids of open entries are issued ones, each in one slot.              *)
LEMMA OpenIssuedStep ==
    ASSUME Scoped, Inv, ScopedInv, UniqueIds, OpenIssued, CacheNext
    PROVE  OpenIssued'
  <1>0. HistoryType /\ CallType
    BY DEF Inv, TypeOK
  <1>1. ASSUME NEW t \in Threads, Insert(t)
        PROVE  OpenIssued'
    <2> DEFINE new == [id |-> call[t].id, parent_id |-> call[t].parent]
               n == Len(issued) + 1
    <2>1. PICK key \in Entry :
             /\ RecordAt(key) = Vacant
             /\ \A k \in Entry : RecordAt(k)' = IF k = key THEN new ELSE RecordAt(k)
      BY <1>1, InsertEffect
    <2>2. \A i \in DOMAIN issued : issued[i].id # call[t].id
      BY <1>1 DEF UniqueIds, Opening, Insert
    <2>3. /\ issued' = Append(issued, [by |-> t, id |-> call[t].id])
          /\ issued \in Seq([by : Threads, id : Nat])
      BY <1>0, <1>1 DEF Insert, HistoryType
    <2>4. /\ \A i \in DOMAIN issued : i \in DOMAIN issued' /\ issued'[i] = issued[i]
          /\ n \in DOMAIN issued' /\ issued'[n].id = call[t].id
      BY <2>3
    <2>5. \A k \in Open' : k \in Entry /\ (k # key => k \in Open /\ RecordAt(k)' = RecordAt(k))
      BY <2>1 DEF Open, RecordAt
    <2>6. RecordAt(key)'.id = call[t].id
      BY <2>1
    <2>7. \A k \in Open : \E i \in DOMAIN issued : issued[i].id = RecordAt(k).id
      BY DEF OpenIssued
    <2>8. ASSUME NEW k \in Open'
          PROVE  /\ \E i \in DOMAIN issued' : issued'[i].id = RecordAt(k)'.id
                 /\ \A j \in Open' : RecordAt(j)'.id = RecordAt(k)'.id => j = k
      <3>1. CASE k = key
        <4>1. \A j \in Open' : j # key => RecordAt(j)'.id # call[t].id
          BY <2>2, <2>5, <2>7
        <4> QED  BY <2>4, <2>6, <3>1, <4>1
      <3>2. CASE k # key
        <4>1. k \in Open /\ RecordAt(k)' = RecordAt(k)
          BY <2>5, <3>2
        <4>2. RecordAt(k)'.id # call[t].id
          BY <2>2, <2>7, <4>1
        <4>3. \E i \in DOMAIN issued' : issued'[i].id = RecordAt(k)'.id
          BY <2>4, <2>7, <4>1
        <4>4. ASSUME NEW j \in Open', RecordAt(j)'.id = RecordAt(k)'.id
              PROVE  j = k
          <5>1. j # key
            BY <2>6, <4>2, <4>4
          <5>2. j \in Open /\ RecordAt(j)' = RecordAt(j)
            BY <2>5, <5>1
          <5> QED  BY <4>1, <4>4, <5>2 DEF OpenIssued
        <4> QED  BY <4>3, <4>4
      <3> QED  BY <3>1, <3>2
    <2> QED  BY <2>8 DEF OpenIssued
  <1>2. ASSUME NEW t \in Threads, NEW h \in handles, TryClose(t, h)
        PROVE  OpenIssued'
    <2>1. UNCHANGED issued
      BY <1>2 DEF TryClose, history
    <2>2. \A k \in Entry : RecordAt(k)' = RecordAt(k) \/ RecordAt(k)' = Vacant
      BY <1>2, CloseEffect
    <2>3. \A k \in Open' : k \in Open /\ RecordAt(k)' = RecordAt(k)
      BY <2>2 DEF Open, RecordAt
    <2> QED  BY <2>1, <2>3 DEF OpenIssued
  <1>3. CASE UNCHANGED <<slab, issued>>
    BY <1>3 DEF slab, OpenIssued, Open, RecordAt
  <1>4. UNCHANGED <<slab, issued>> \/ \E t \in Threads : Insert(t) \/ \E h \in handles : TryClose(t, h)
    BY Frames
  <1> QED  BY <1>1, <1>2, <1>3, <1>4

(* How a step may touch reservations and calls.                            *)
Calling(t) ==
    /\ AtRest(t) /\ MayOpen(t) /\ pc'[t] \in {"idle", "resolved"}
    /\ UNCHANGED <<reservation, issued>>

Leaving(t) ==
    /\ pc[t] \in {"allocated", "inserted"} /\ pc'[t] = "idle"
    /\ UNCHANGED <<reservation, issued>>

LEMMA CallFrames ==
    ASSUME Inv, CacheNext
    PROVE  \/ UNCHANGED <<reservation, calls, issued>>
           \/ \E t \in Threads :
                 /\ \A u \in Threads \ {t} : pc'[u] = pc[u] /\ call'[u] = call[u]
                 /\ Allocate(t) \/ Insert(t) \/ ThreadExit(t) \/ Calling(t) \/ Leaving(t)
  <1>0. CallType
    BY DEF Inv, TypeOK
  <1>1. ASSUME NEW t \in Threads,
               \/ NewSpanContextual(t) \/ NewSpanRoot(t) \/ \E h \in handles : NewSpanExplicit(t, h)
        PROVE  /\ \A u \in Threads \ {t} : pc'[u] = pc[u] /\ call'[u] = call[u]
               /\ Calling(t)
    <2>1. AtRest(t) /\ MayOpen(t) /\ UNCHANGED <<reservation, issued>>
      BY <1>1 DEF NewSpanContextual, NewSpanRoot, NewSpanExplicit, reservation, history
    <2>2. ReturnDisabled(t) \/ \E parent : Resolved(t, parent)
      BY <1>1 DEF NewSpanContextual, NewSpanRoot, NewSpanExplicit
    <2> QED  BY <1>0, <2>1, <2>2 DEF Calling, Resolved, ReturnDisabled, CallType
  <1>2. ASSUME NEW t \in Threads, InsertRejected(t) \/ Publish(t)
        PROVE  /\ \A u \in Threads \ {t} : pc'[u] = pc[u] /\ call'[u] = call[u]
               /\ Leaving(t)
    BY <1>0, <1>2 DEF InsertRejected, Publish, ReturnDisabled, Leaving, reservation, history, CallType
  <1>3. ASSUME NEW t \in Threads, Allocate(t) \/ Insert(t) \/ ThreadExit(t)
        PROVE  \A u \in Threads \ {t} : pc'[u] = pc[u] /\ call'[u] = call[u]
    BY <1>0, <1>3 DEF Allocate, allocate_actual_id, Insert, ThreadExit, calls, CallType
  <1> QED  BY <1>1, <1>2, <1>3, Frames

(* The next id of a thread never gets smaller, and never that of a span    *)
(* opened by it (thread_state.rs:87).                                      *)
LEMMA IdsGrowStep ==
    ASSUME Inv, IdInv, IdsGrow, CacheNext
    PROVE  IdsGrow'
  <1>0. ReservationType /\ CallType /\ HistoryType
    BY DEF Inv, TypeOK
  <1>1. \A i \in DOMAIN issued : issued[i].by \in Threads /\ issued[i].id \in Nat
    <2> DEFINE E == [by : Threads, id : Nat]
    <2>1. issued \in Seq(E)
      BY <1>0 DEF HistoryType
    <2> HIDE DEF E
    <2>2. \A i \in DOMAIN issued : issued[i] \in E
      BY <2>1
    <2> QED  BY <2>2 DEF E
  <1>2. /\ id_high_water \in Nat /\ ID_CURSOR \in [Threads -> Nat]
        /\ \A t \in Threads : NextId(t) \in Nat
    BY <1>0 DEF ReservationType, NextId
  <1>3. ASSUME UNCHANGED <<reservation, issued>>,
               \A t \in Opening' : t \in Opening /\ call'[t] = call[t]
        PROVE  IdsGrow'
    BY <1>3 DEF IdsGrow, NextId, Exhausted, reservation
  <1>4. ASSUME NEW t \in Threads, Allocate(t)
        PROVE  IdsGrow'
    <2>1. /\ call'[t].id \notin Used /\ call'[t].id \in Nat /\ call'[t].id < id_high_water'
      BY <1>4, AllocateFresh DEF Allocate, Inv
    <2>2. /\ call'[t].id = NextId(t)
          /\ ID_CURSOR' = [ID_CURSOR EXCEPT ![t] = NextId(t) + 1]
          /\ id_high_water' = IF Exhausted(t) THEN id_high_water + ID_BATCH ELSE id_high_water
          /\ issued' = issued
      BY <1>0, <1>4 DEF Allocate, allocate_actual_id, NextId, CallType, history
    <2>3. id_high_water' \in Nat /\ id_high_water <= id_high_water'
      BY <1>2, <2>2, CacheAssumption
    <2>4. ID_CURSOR'[t] = NextId(t) + 1 /\ \A u \in Threads \ {t} : ID_CURSOR'[u] = ID_CURSOR[u]
      BY <1>2, <2>2
    <2>5. NextId(t) < NextId(t)' /\ NextId(t)' \in Nat
      BY <1>2, <2>1, <2>2, <2>3, <2>4 DEF NextId
    <2>6. \A u \in Threads \ {t} : NextId(u) <= NextId(u)' /\ NextId(u)' \in Nat
      BY <1>2, <2>3, <2>4 DEF NextId, Exhausted
    <2>7. /\ Opening' = Opening \cup {t}
          /\ \A u \in Threads \ {t} : call'[u] = call[u]
      BY <1>0, <1>4 DEF Allocate, allocate_actual_id, Opening, CallType
    <2>8. \A i \in DOMAIN issued : issued[i].id < NextId(issued[i].by)
      BY DEF IdsGrow
    <2>9. \A i \in DOMAIN issued :
             /\ issued[i].id < NextId(issued[i].by)'
             /\ issued[i].by \in Opening' => issued[i].id < call'[issued[i].by].id
      <3> SUFFICES ASSUME NEW i \in DOMAIN issued
                   PROVE  /\ issued[i].id < NextId(issued[i].by)'
                          /\ issued[i].by \in Opening' => issued[i].id < call'[issued[i].by].id
        OBVIOUS
      <3>1. PICK u \in Threads : u = issued[i].by
        BY <1>1
      <3>2. issued[i].id \in Nat /\ issued[i].id < NextId(u)
        BY <1>1, <2>8, <3>1
      <3>3. issued[i].id < NextId(u)'
        BY <1>2, <2>5, <2>6, <3>2
      <3>4. u \in Opening' => issued[i].id < call'[u].id
        BY <2>2, <2>7, <3>1, <3>2 DEF IdsGrow
      <3>5. NextId(issued[i].by)' = NextId(u)'
        BY <2>2, <3>1 DEF NextId, Exhausted
      <3> QED  BY <3>1, <3>3, <3>4, <3>5
    <2>10. ASSUME NEW u \in Opening'
           PROVE  call'[u].id < NextId(u)'
      <3>1. CASE u = t
        <4>1. NextId(u)' = NextId(t)'
          BY <3>1
        <4> QED  BY <2>2, <2>5, <3>1, <4>1
      <3>2. CASE u # t
        <4>1. u \in Opening /\ u \in Threads /\ call'[u] = call[u] /\ call[u].id < NextId(u)
          BY <2>7, <3>2 DEF IdsGrow, Opening
        <4>2. call[u].id \in Nat
          BY <1>0, <4>1 DEF CallType
        <4> QED  BY <1>2, <2>6, <3>2, <4>1, <4>2
      <3> QED  BY <3>1, <3>2
    <2> QED  BY <2>2, <2>9, <2>10 DEF IdsGrow
  <1>5. ASSUME NEW t \in Threads, Insert(t)
        PROVE  IdsGrow'
    <2>1. /\ Opening' = Opening \ {t} /\ t \in Opening
          /\ \A u \in Threads : call'[u].id = call[u].id
          /\ UNCHANGED <<id_high_water, ID_CURSOR>>
      BY <1>0, <1>5 DEF Insert, reservation, Opening, CallType
    <2>2. \A u : NextId(u)' = NextId(u)
      BY <2>1 DEF NextId, Exhausted
    <2>3. issued' = Append(issued, [by |-> t, id |-> call[t].id]) /\ issued \in Seq([by : Threads, id : Nat])
      BY <1>0, <1>5 DEF Insert, HistoryType
    <2>4. \A i \in DOMAIN issued' :
             \/ i \in DOMAIN issued /\ issued'[i] = issued[i]
             \/ issued'[i] = [by |-> t, id |-> call[t].id]
      BY <2>3
    <2>5. \A i \in DOMAIN issued' :
             /\ issued'[i].id < NextId(issued'[i].by)
             /\ issued'[i].by \in Opening' => issued'[i].id < call'[issued'[i].by].id
      <3> SUFFICES ASSUME NEW i \in DOMAIN issued'
                   PROVE  /\ issued'[i].id < NextId(issued'[i].by)
                          /\ issued'[i].by \in Opening' => issued'[i].id < call'[issued'[i].by].id
        OBVIOUS
      <3>1. CASE i \in DOMAIN issued /\ issued'[i] = issued[i]
        BY <1>1, <2>1, <3>1 DEF IdsGrow
      <3>2. CASE issued'[i] = [by |-> t, id |-> call[t].id]
        <4>1. issued'[i].by = t /\ issued'[i].id = call[t].id
          BY <3>2
        <4>2. call[t].id < NextId(t)
          BY <2>1 DEF IdsGrow
        <4> QED  BY <2>1, <4>1, <4>2
      <3> QED  BY <2>4, <3>1, <3>2
    <2>6. \A u \in Opening' : call'[u].id < NextId(u)
      BY <2>1 DEF IdsGrow, Opening
    <2> QED  BY <2>2, <2>5, <2>6 DEF IdsGrow
  <1>6. ASSUME NEW t \in Threads, ThreadExit(t)
        PROVE  IdsGrow'
    <2>1. /\ ID_CURSOR' = [ID_CURSOR EXCEPT ![t] = 0]
          /\ UNCHANGED <<id_high_water, pc, call, issued>> /\ t \notin Opening
      BY <1>6 DEF ThreadExit, calls, history, AtRest, Opening
    <2>2. /\ \A u \in Threads \ {t} : NextId(u)' = NextId(u)
          /\ NextId(t)' = id_high_water
      BY <1>2, <2>1, CacheAssumption DEF NextId, Exhausted
    <2>3. \A i \in DOMAIN issued : issued[i].id < id_high_water
      BY DEF IdInv, CursorsAhead, Used
    <2>4. \A i \in DOMAIN issued :
             /\ issued[i].id < NextId(issued[i].by)'
             /\ issued[i].by \in Opening => issued[i].id < call[issued[i].by].id
      <3> SUFFICES ASSUME NEW i \in DOMAIN issued
                   PROVE  issued[i].id < NextId(issued[i].by)'
        BY DEF IdsGrow
      <3>1. PICK u \in Threads : u = issued[i].by
        BY <1>1
      <3>2. NextId(issued[i].by)' = NextId(u)'
        BY <2>1, <3>1 DEF NextId, Exhausted
      <3> QED  BY <2>2, <2>3, <3>1, <3>2 DEF IdsGrow
    <2>5. \A u \in Opening : call[u].id < NextId(u)'
      BY <2>1, <2>2 DEF IdsGrow, Opening
    <2> QED  BY <2>1, <2>4, <2>5 DEF IdsGrow, Opening
  <1>7. ASSUME NEW t \in Threads, Calling(t) \/ Leaving(t),
               \A u \in Threads \ {t} : pc'[u] = pc[u] /\ call'[u] = call[u]
        PROVE  IdsGrow'
    <2>1. \A u \in Opening' : u \in Opening /\ call'[u] = call[u]
      BY <1>7 DEF Opening, Calling, Leaving
    <2> QED  BY <1>3, <1>7, <2>1 DEF Calling, Leaving
  <1>8. CASE UNCHANGED <<reservation, calls, issued>>
    BY <1>3, <1>8 DEF calls, Opening
  <1> QED  BY <1>4, <1>5, <1>6, <1>7, <1>8, CallFrames

LEMMA ThreadCounts ==
    /\ Cardinality(Threads) \in Nat
    /\ \A S \in SUBSET Threads :
          /\ IsFiniteSet(S) /\ Cardinality(S) \in Nat
          /\ ID_BATCH * Cardinality(S) \in Nat
          /\ ID_BATCH * Cardinality(S) <= ID_BATCH * Cardinality(Threads)
          /\ \A t \in S : ID_BATCH * Cardinality(S \ {t}) + ID_BATCH = ID_BATCH * Cardinality(S)
  <1>1. IsFiniteSet(Threads) /\ Cardinality(Threads) \in Nat
    BY BuffersAssumption, FS_CardinalityType
  <1>2. ID_BATCH \in Nat
    BY CacheAssumption
  <1>3. \A a, b \in Nat : a <= b => ID_BATCH * a \in Nat /\ ID_BATCH * a <= ID_BATCH * b
    BY ONLY <1>2
  <1>4. \A a \in Nat : ID_BATCH * a + ID_BATCH = ID_BATCH * (a + 1)
    BY ONLY <1>2
  <1>5. \A a \in Nat : a >= 1 => a - 1 \in Nat /\ (a - 1) + 1 = a
    OBVIOUS
  <1>6. ASSUME NEW S \in SUBSET Threads
        PROVE  /\ IsFiniteSet(S) /\ Cardinality(S) \in Nat
               /\ ID_BATCH * Cardinality(S) \in Nat
               /\ ID_BATCH * Cardinality(S) <= ID_BATCH * Cardinality(Threads)
               /\ \A t \in S : ID_BATCH * Cardinality(S \ {t}) + ID_BATCH = ID_BATCH * Cardinality(S)
    <2>1. IsFiniteSet(S) /\ Cardinality(S) \in Nat /\ Cardinality(S) <= Cardinality(Threads)
      BY <1>1, FS_Subset, FS_CardinalityType
    <2>2. ASSUME NEW t \in S
          PROVE  ID_BATCH * Cardinality(S \ {t}) + ID_BATCH = ID_BATCH * Cardinality(S)
      <3>1. Cardinality(S \ {t}) = Cardinality(S) - 1
        BY <2>1, FS_RemoveElement
      <3>2. IsFiniteSet(S \ {t}) /\ Cardinality(S \ {t}) \in Nat
        BY <2>1, FS_RemoveElement, FS_CardinalityType
      <3>3. Cardinality(S \ {t}) + 1 = Cardinality(S)
        BY <2>1, <3>1
      <3> QED  BY <1>4, <3>2, <3>3
    <2> QED  BY <1>1, <1>3, <2>1, <2>2
  <1> QED  BY <1>1, <1>6

(* No id goes further beyond MaxId than one reservation for each thread    *)
(* that was let in before the counter reached it.                          *)
LEMMA IdsBoundedStep ==
    ASSUME Inv, IdInv, IdsBounded, CacheNext
    PROVE  IdsBounded'
  <1> DEFINE room == MaxId + ID_BATCH * Cardinality(Threads)
  <1>0. ReservationType /\ CallType /\ HistoryType
    BY DEF Inv, TypeOK
  <1>1. /\ MaxId \in Nat /\ ID_BATCH \in Nat \ {0} /\ room \in Nat /\ MaxId <= room
        /\ ID_BATCH * Cardinality(Threads) \in Nat
        /\ id_high_water \in Nat /\ ID_CURSOR \in [Threads -> Nat]
    <2>1. MaxId \in Nat /\ ID_BATCH \in Nat \ {0}
      BY CacheAssumption
    <2>2. ID_BATCH * Cardinality(Threads) \in Nat
      BY ThreadCounts
    <2> QED  BY <1>0, <2>1, <2>2 DEF ReservationType
  <1>2. IdSpace = 0 .. room
    BY DEF IdSpace
  <1>3. ASSUME UNCHANGED <<id_high_water, ID_CURSOR>>, Used' \subseteq Used,
               \A t \in Threads : pc'[t] = "resolved" => pc[t] = "resolved",
               Reserving' = Reserving
        PROVE  IdsBounded'
    <2>1. \A t \in Threads : Exhausted(t)' <=> Exhausted(t)
      BY <1>3 DEF Exhausted
    <2> QED  BY <1>3, <2>1 DEF IdsBounded, IdSpace
  <1>4. ASSUME NEW t \in Threads, Allocate(t)
        PROVE  IdsBounded'
    <2> HIDE DEF room
    <2>1. /\ call'[t].id = NextId(t)
          /\ ID_CURSOR' = [ID_CURSOR EXCEPT ![t] = NextId(t) + 1]
          /\ id_high_water' = IF Exhausted(t) THEN id_high_water + ID_BATCH ELSE id_high_water
          /\ issued' = issued /\ pc[t] = "resolved" /\ pc' = [pc EXCEPT ![t] = "allocated"]
          /\ \A u \in Threads \ {t} : call'[u] = call[u]
      BY <1>0, <1>4 DEF Allocate, allocate_actual_id, NextId, CallType, history
    <2>2. /\ \A u \in Threads \ {t} : ID_CURSOR'[u] = ID_CURSOR[u] /\ pc'[u] = pc[u]
          /\ pc'[t] = "allocated"
      BY <1>0, <1>1, <2>1 DEF CallType
    <2>3. Reserving' = Reserving \ {t} /\ Reserving \subseteq Threads
      BY <2>2 DEF Reserving, Exhausted
    <2>4. Used' \subseteq Used \cup {NextId(t)}
      BY <2>1, <2>2 DEF Used, Opening
    <2>5. CASE Exhausted(t)
      <3>1. t \in Reserving
        BY <2>1, <2>5 DEF Reserving
      <3>2. id_high_water + ID_BATCH * Cardinality(Reserving) <= room
        BY <3>1 DEF IdsBounded, room
      <3>3. /\ ID_BATCH * Cardinality(Reserving \ {t}) + ID_BATCH = ID_BATCH * Cardinality(Reserving)
            /\ ID_BATCH * Cardinality(Reserving \ {t}) \in Nat /\ ID_BATCH * Cardinality(Reserving) \in Nat
        BY <2>3, <3>1, ThreadCounts
      <3>4. id_high_water' = id_high_water + ID_BATCH
        BY <2>1, <2>5
      <3>5. id_high_water' + ID_BATCH * Cardinality(Reserving \ {t}) <= room
        BY <1>1, <3>2, <3>3, <3>4
      <3>6. id_high_water \in 0 .. room
        BY <1>1, <3>2, <3>3
      <3>7. \A id \in Used' : id \in IdSpace
        BY <1>2, <2>4, <2>5, <3>6 DEF NextId, IdsBounded
      <3>8. \A u \in Threads : pc'[u] = "resolved" /\ ~Exhausted(u)' => ID_CURSOR'[u] < MaxId
        BY <2>2 DEF IdsBounded, Exhausted
      <3> QED  BY <2>3, <3>5, <3>7, <3>8 DEF IdsBounded, IdSpace, room
    <2>6. CASE ~Exhausted(t)
      <3>1. NextId(t) = ID_CURSOR[t] /\ ID_CURSOR[t] < MaxId /\ ID_CURSOR[t] \in Nat
        BY <1>1, <2>1, <2>6 DEF NextId, IdsBounded
      <3>2. NextId(t) \in IdSpace
        BY <1>1, <1>2, <3>1
      <3>3. \A id \in Used' : id \in IdSpace
        BY <2>4, <3>2 DEF IdsBounded
      <3>4. Reserving' = Reserving /\ id_high_water' = id_high_water
        BY <2>1, <2>3, <2>6 DEF Reserving
      <3>5. \A u \in Threads : pc'[u] = "resolved" /\ ~Exhausted(u)' => ID_CURSOR'[u] < MaxId
        BY <2>2 DEF IdsBounded, Exhausted
      <3> QED  BY <3>3, <3>4, <3>5 DEF IdsBounded, IdSpace
    <2> QED  BY <2>5, <2>6
  <1>5. ASSUME NEW t \in Threads, Insert(t)
        PROVE  IdsBounded'
    <2>1. /\ Opening' = Opening \ {t} /\ t \in Opening
          /\ \A u \in Threads : call'[u].id = call[u].id
          /\ UNCHANGED <<id_high_water, ID_CURSOR>>
      BY <1>0, <1>5 DEF Insert, reservation, Opening, CallType
    <2>2. issued' = Append(issued, [by |-> t, id |-> call[t].id]) /\ issued \in Seq([by : Threads, id : Nat])
      BY <1>0, <1>5 DEF Insert, HistoryType
    <2>3. \A i \in DOMAIN issued' :
             \/ i \in DOMAIN issued /\ issued'[i] = issued[i]
             \/ issued'[i] = [by |-> t, id |-> call[t].id]
      BY <2>2
    <2>4. \A i \in DOMAIN issued' : issued'[i].id \in Used
      BY <2>1, <2>3 DEF Used
    <2>5. Used' \subseteq Used
      BY <2>1, <2>4 DEF Used, Opening
    <2>6. /\ \A u \in Threads : pc'[u] = "resolved" <=> pc[u] = "resolved"
          /\ Reserving' = Reserving
      BY <1>0, <1>5, <2>1 DEF Insert, Reserving, Exhausted, CallType
    <2> QED  BY <1>3, <2>1, <2>5, <2>6
  <1>6. ASSUME NEW t \in Threads, ThreadExit(t)
        PROVE  IdsBounded'
    <2>1. /\ ID_CURSOR' = [ID_CURSOR EXCEPT ![t] = 0]
          /\ UNCHANGED <<id_high_water, pc, call, issued>> /\ pc[t] = "idle"
      BY <1>6 DEF ThreadExit, calls, history, AtRest
    <2>2. \A u \in Threads : pc[u] = "resolved" => ID_CURSOR'[u] = ID_CURSOR[u]
      BY <1>1, <2>1
    <2>3. Used' = Used /\ Reserving' = Reserving
      BY <2>1, <2>2 DEF Used, Opening, Reserving, Exhausted
    <2>4. \A u \in Threads : pc'[u] = "resolved" /\ ~Exhausted(u)' => ID_CURSOR'[u] < MaxId
      BY <2>1, <2>2 DEF IdsBounded, Exhausted
    <2> QED  BY <2>1, <2>3, <2>4 DEF IdsBounded, IdSpace
  <1>7. ASSUME NEW t \in Threads, Leaving(t),
               \A u \in Threads \ {t} : pc'[u] = pc[u] /\ call'[u] = call[u]
        PROVE  IdsBounded'
    <2>1. UNCHANGED <<id_high_water, ID_CURSOR, issued>>
      BY <1>7 DEF Leaving, reservation
    <2>2. Used' \subseteq Used /\ Reserving' = Reserving
      BY <1>7, <2>1 DEF Leaving, Used, Opening, Reserving, Exhausted
    <2> QED  BY <1>3, <1>7, <2>1, <2>2 DEF Leaving
  <1>8. ASSUME NEW t \in Threads, Calling(t),
               \A u \in Threads \ {t} : pc'[u] = pc[u] /\ call'[u] = call[u]
        PROVE  IdsBounded'
    <2> HIDE DEF room
    <2>1. /\ UNCHANGED <<id_high_water, ID_CURSOR, issued>>
          /\ pc'[t] \in {"idle", "resolved"} /\ pc[t] = "idle" /\ NextId(t) < MaxId
      BY <1>8 DEF Calling, reservation, MayOpen, NextId, AtRest
    <2>2. Used' \subseteq Used /\ (\A u \in Threads : Exhausted(u)' <=> Exhausted(u))
      BY <1>8, <2>1 DEF Used, Opening, Exhausted
    <2>3. Reserving' \subseteq Reserving \cup {t} /\ Reserving \subseteq Reserving'
      BY <1>8, <2>1, <2>2 DEF Reserving
    <2>4. CASE Reserving' = Reserving
      <3>1. \A u \in Threads : pc'[u] = "resolved" /\ ~Exhausted(u)' => ID_CURSOR'[u] < MaxId
        BY <1>8, <2>1, <2>2 DEF IdsBounded, NextId
      <3> QED  BY <2>1, <2>2, <2>4, <3>1 DEF IdsBounded, IdSpace
    <2>5. CASE Reserving' # Reserving
      <3>1. Exhausted(t) /\ id_high_water < MaxId
        BY <2>1, <2>2, <2>3, <2>5 DEF Reserving, NextId
      <3>2. \A u \in Threads : pc'[u] = "resolved" /\ ~Exhausted(u)' => ID_CURSOR'[u] < MaxId
        BY <1>8, <2>1, <2>2 DEF IdsBounded, NextId
      <3>3. /\ ID_BATCH * Cardinality(Reserving') \in Nat
            /\ ID_BATCH * Cardinality(Reserving') <= ID_BATCH * Cardinality(Threads)
        <4>1. Reserving' \in SUBSET Threads
          BY DEF Reserving
        <4> QED  BY <4>1, ThreadCounts
      <3>4. id_high_water' + ID_BATCH * Cardinality(Reserving') <= room
        BY <1>1, <2>1, <3>1, <3>3 DEF room
      <3> QED  BY <2>2, <3>2, <3>4 DEF IdsBounded, IdSpace, room
    <2> QED  BY <2>4, <2>5
  <1>9. CASE UNCHANGED <<reservation, calls, issued>>
    BY <1>3, <1>9 DEF reservation, calls, Used, Opening, Reserving, Exhausted
  <1> QED  BY <1>4, <1>5, <1>6, <1>7, <1>8, <1>9, CallFrames

-----------------------------------------------------------------------------
(* The producers implement SpanFeed                                        *)

LEMMA IdsOfFacts ==
    ASSUME NEW S, \A r \in S : r.id \in Nat, NEW s \in Seq(S)
    PROVE  /\ IdsOf(s) \in Seq(Nat) /\ Len(IdsOf(s)) = Len(s)
           /\ IdsOf(s) = <<>> <=> s = <<>>
           /\ \A r \in S : IdsOf(Append(s, r)) = Append(IdsOf(s), r.id)
           /\ \A u \in Seq(S) : IdsOf(s \o u) = IdsOf(s) \o IdsOf(u)
  <1>1. ASSUME NEW u \in Seq(S)
        PROVE  /\ IdsOf(u) \in Seq(Nat) /\ Len(IdsOf(u)) = Len(u)
               /\ \A i \in 1 .. Len(u) : IdsOf(u)[i] = u[i].id
    <2>1. Len(u) \in Nat /\ DOMAIN u = 1 .. Len(u) /\ \A i \in 1 .. Len(u) : u[i] \in S
      OBVIOUS
    <2>2. IdsOf(u) = [i \in 1 .. Len(u) |-> u[i].id]
      BY <2>1 DEF IdsOf
    <2>3. IdsOf(u) \in [1 .. Len(u) -> Nat]
      BY <2>1, <2>2
    <2> QED  BY <2>1, <2>2, <2>3
  <1>2. IdsOf(s) = <<>> <=> s = <<>>
    BY <1>1, EmptySeq
  <1>3. ASSUME NEW r \in S
        PROVE  IdsOf(Append(s, r)) = Append(IdsOf(s), r.id)
    <2> DEFINE a == IdsOf(Append(s, r))
               b == Append(IdsOf(s), r.id)
    <2>1. /\ Append(s, r) \in Seq(S) /\ Len(Append(s, r)) = Len(s) + 1
          /\ \A i \in 1 .. Len(s) : Append(s, r)[i] = s[i]
          /\ Append(s, r)[Len(s) + 1] = r
      BY AppendProperties
    <2>2. a \in Seq(Nat) /\ Len(a) = Len(s) + 1 /\ \A i \in 1 .. Len(s) + 1 : a[i] = Append(s, r)[i].id
      BY <1>1, <2>1
    <2>3. IdsOf(s) \in Seq(Nat) /\ Len(IdsOf(s)) = Len(s) /\ r.id \in Nat
          /\ \A i \in 1 .. Len(s) : IdsOf(s)[i] = s[i].id
      BY <1>1
    <2>4. /\ b \in Seq(Nat) /\ Len(b) = Len(s) + 1
          /\ \A i \in 1 .. Len(s) : b[i] = s[i].id
          /\ b[Len(s) + 1] = r.id
      BY <2>3, AppendProperties
    <2>5. Len(s) \in Nat
      OBVIOUS
    <2> HIDE DEF a, b
    <2>6. ASSUME NEW i \in 1 .. Len(s) + 1
          PROVE  a[i] = b[i]
      <3>1. CASE i = Len(s) + 1
        BY <2>1, <2>2, <2>4, <3>1
      <3>2. CASE i \in 1 .. Len(s)
        BY <2>1, <2>2, <2>4, <3>2
      <3> QED  BY <2>5, <3>1, <3>2
    <2>7. a = b
      BY <2>2, <2>4, <2>6, SeqEqual
    <2> QED  BY <2>7 DEF a, b
  <1>4. ASSUME NEW u \in Seq(S)
        PROVE  IdsOf(s \o u) = IdsOf(s) \o IdsOf(u)
    <2> DEFINE a == IdsOf(s \o u)
               b == IdsOf(s) \o IdsOf(u)
    <2>1. /\ s \o u \in Seq(S) /\ Len(s \o u) = Len(s) + Len(u)
          /\ \A i \in 1 .. Len(s) + Len(u) :
                (s \o u)[i] = IF i <= Len(s) THEN s[i] ELSE u[i - Len(s)]
      BY ConcatProperties
    <2>2. /\ a \in Seq(Nat) /\ Len(a) = Len(s) + Len(u)
          /\ \A i \in 1 .. Len(s) + Len(u) : a[i] = (s \o u)[i].id
      BY <1>1, <2>1
    <2>3. /\ IdsOf(s) \in Seq(Nat) /\ Len(IdsOf(s)) = Len(s)
          /\ IdsOf(u) \in Seq(Nat) /\ Len(IdsOf(u)) = Len(u)
          /\ \A i \in 1 .. Len(s) : IdsOf(s)[i] = s[i].id
          /\ \A i \in 1 .. Len(u) : IdsOf(u)[i] = u[i].id
      BY <1>1
    <2>4. /\ b \in Seq(Nat) /\ Len(b) = Len(s) + Len(u)
          /\ \A i \in 1 .. Len(s) + Len(u) :
                b[i] = IF i <= Len(s) THEN IdsOf(s)[i] ELSE IdsOf(u)[i - Len(s)]
      BY <2>3, ConcatProperties
    <2>5. Len(s) \in Nat /\ Len(u) \in Nat
      OBVIOUS
    <2> HIDE DEF a, b
    <2>6. ASSUME NEW i \in 1 .. Len(s) + Len(u)
          PROVE  a[i] = b[i]
      <3>1. CASE i <= Len(s)
        <4>1. i \in 1 .. Len(s)
          BY <2>5, <3>1
        <4> QED  BY <2>1, <2>2, <2>3, <2>4, <3>1, <4>1
      <3>2. CASE ~(i <= Len(s))
        <4>1. i - Len(s) \in 1 .. Len(u)
          BY <2>5, <3>2
        <4> QED  BY <2>1, <2>2, <2>3, <2>4, <3>2, <4>1
      <3> QED  BY <3>1, <3>2
    <2>7. a = b
      BY <2>2, <2>4, <2>6, SeqEqual
    <2> QED  BY <2>7 DEF a, b
  <1> QED  BY <1>1, <1>2, <1>3, <1>4

LEMMA EmptyIds == IdsOf(<<>>) = <<>>
  <1>1. <<>> \in Seq({}) /\ \A r \in {} : r.id \in Nat
    BY EmptySeq
  <1> QED  BY <1>1, IdsOfFacts

(* How full a channel is depends on the lengths alone.                     *)
AddStep(len, s, f) ==
    IF s = {} THEN 0
    ELSE f[s \ {CHOOSE x \in s : TRUE}] + len[CHOOSE x \in s : TRUE]
AddUp(len) == (CHOOSE f : f = [s \in SUBSET Threads |-> AddStep(len, s, f)])[Threads]

LEMMA QueuedByLength ==
    ASSUME NEW ch
    PROVE  Queued(ch) = AddUp([t \in Threads |-> Len(ch[t])])
  <1> DEFINE lens == [t \in Threads |-> Len(ch[t])]
             Fold(f) == [s \in SUBSET Threads |->
                           IF s = {} THEN 0 ELSE f[s \ {CHOOSE x \in s : TRUE}]
                                                 + Len(ch[CHOOSE x \in s : TRUE])]
             Add(f) == [s \in SUBSET Threads |-> AddStep(lens, s, f)]
  <1>1. ASSUME NEW f
        PROVE  Fold(f) = Add(f)
    <2>1. ASSUME NEW s \in SUBSET Threads
          PROVE  (IF s = {} THEN 0 ELSE f[s \ {CHOOSE x \in s : TRUE}]
                                        + Len(ch[CHOOSE x \in s : TRUE])) = AddStep(lens, s, f)
      <3>1. CASE s = {}
        BY <3>1 DEF AddStep
      <3>2. CASE s # {}
        <4>1. PICK t \in Threads : t = CHOOSE x \in s : TRUE
          BY <3>2
        <4>2. Len(ch[CHOOSE x \in s : TRUE]) = lens[CHOOSE x \in s : TRUE]
          BY <4>1
        <4> QED  BY <3>2, <4>2, Zenon DEF AddStep
      <3> QED  BY <3>1, <3>2
    <2> QED  BY <2>1, Zenon
  <1> HIDE DEF Fold, Add
  <1>2. (CHOOSE f : f = Fold(f)) = (CHOOSE f : f = Add(f))
    <2>1. \A f : (f = Fold(f)) <=> (f = Add(f))
      BY <1>1
    <2> QED  BY <2>1, Zenon
  <1> QED  BY <1>2, Zenon DEF Queued, FoldFunctionOnSet, MapThenFoldSet, AddUp, Fold, Add, AddStep

LEMMA QueuedMapped ==
    ASSUME NEW a, NEW b, \A t \in Threads : Len(a[t]) = Len(b[t])
    PROVE  Feed!Queued(a) = Queued(b)
  <1>1. Feed!Queued(a) = Queued(a)
    BY Zenon DEF Feed!Queued, Queued, Feed!FoldFunctionOnSet, FoldFunctionOnSet,
                 Feed!MapThenFoldSet, MapThenFoldSet
  <1>2. [t \in Threads |-> Len(a[t])] = [t \in Threads |-> Len(b[t])]
    OBVIOUS
  <1> QED  BY <1>1, <1>2, QueuedByLength

LEMMA RecordIds ==
    ASSUME BufferType
    PROVE  /\ \A r \in SpanRecord : r.id \in Nat
           /\ PENDING_SPAN \in [Threads -> Seq(SpanRecord)] /\ span_ch \in [Threads -> Seq(SpanRecord)]
           /\ PENDING_EVENT \in [Threads -> Seq(EventMessage)] /\ event_ch \in [Threads -> Seq(EventMessage)]
           /\ flushing \in [Threads -> {"no", "events", "spans"}]
           /\ \A t \in Threads : PENDING_SPAN[t] \in Seq(SpanRecord) /\ span_ch[t] \in Seq(SpanRecord)
  BY DEF BufferType, SpanRecord

LEMMA EmptiedMapped ==
    ASSUME BufferType, NEW t \in Threads, PENDING_SPAN' = [PENDING_SPAN EXCEPT ![t] = <<>>]
    PROVE  [u \in Threads |-> IdsOf(PENDING_SPAN[u])]'
             = [[u \in Threads |-> IdsOf(PENDING_SPAN[u])] EXCEPT ![t] = <<>>]
  <1>1. IdsOf(<<>>) = <<>>
    BY EmptyIds
  <1>2. \A u \in Threads : IdsOf(PENDING_SPAN'[u]) = IF u = t THEN <<>> ELSE IdsOf(PENDING_SPAN[u])
    BY <1>1, RecordIds
  <1> QED  BY <1>2

LEMMA PushMapped ==
    ASSUME BufferType, NEW t \in Threads, NEW r, r \in SpanRecord, PushSpan(t, r), NEW id, id = r.id
    PROVE  Feed!PushSpan(t, id)
  <1> DEFINE ids == [u \in Threads |-> IdsOf(PENDING_SPAN[u])]
             sent == [u \in Threads |-> IdsOf(span_ch[u])]
  <1>1. /\ PENDING_SPAN' = [PENDING_SPAN EXCEPT ![t] = Append(@, r)]
        /\ flushing' = [flushing EXCEPT ![t] =
              IF Len(PENDING_SPAN[t]) + 1 >= PendingBatch THEN "events" ELSE "no"]
        /\ UNCHANGED <<PENDING_EVENT, span_ch, event_ch>>
    BY DEF PushSpan, FlushIfFull
  <1>2. IdsOf(Append(PENDING_SPAN[t], r)) = Append(IdsOf(PENDING_SPAN[t]), id)
        /\ Len(IdsOf(PENDING_SPAN[t])) = Len(PENDING_SPAN[t])
    <2>1. PENDING_SPAN[t] \in Seq(SpanRecord) /\ \A q \in SpanRecord : q.id \in Nat
      BY RecordIds
    <2> QED  BY <2>1, IdsOfFacts
  <1>3. ids' = [ids EXCEPT ![t] = Append(@, id)]
    <2>1. \A u \in Threads : IdsOf(PENDING_SPAN'[u]) =
             IF u = t THEN Append(IdsOf(PENDING_SPAN[t]), id) ELSE IdsOf(PENDING_SPAN[u])
      BY <1>1, <1>2, RecordIds
    <2>2. ids' = [u \in Threads |-> IdsOf(PENDING_SPAN'[u])]
      OBVIOUS
    <2> QED  BY <2>1, <2>2
  <1>4. UNCHANGED <<PENDING_EVENT, sent, event_ch>>
    BY <1>1
  <1>5. Len(ids[t]) = Len(PENDING_SPAN[t])
    BY <1>2
  <1> QED  BY <1>1, <1>3, <1>4, <1>5 DEF Feed!PushSpan, Feed!FlushIfFull

LEMMA BatchMapped ==
    ASSUME BufferType, NEW t \in Threads, SendMany(span_ch, t, PENDING_SPAN[t])
    PROVE  Feed!SendMany([u \in Threads |-> IdsOf(span_ch[u])], t,
                         [u \in Threads |-> IdsOf(PENDING_SPAN[u])][t])
  <1> DEFINE sent == [u \in Threads |-> IdsOf(span_ch[u])]
             batch == PENDING_SPAN[t]
  <1>1. /\ batch \in Seq(SpanRecord) /\ IdsOf(batch) = <<>> <=> batch = <<>>
        /\ Len(IdsOf(batch)) = Len(batch)
    BY RecordIds, IdsOfFacts
  <1>2. Feed!Queued(sent) = Queued(span_ch)
    <2>1. \A u \in Threads : Len(sent[u]) = Len(span_ch[u])
      BY RecordIds, IdsOfFacts
    <2> HIDE DEF sent
    <2> QED  BY <2>1, QueuedMapped
  <1>3. CASE Send(span_ch, t, batch)
    <2>1. batch # <<>> /\ Queued(span_ch) < ChannelCapacity /\ span_ch' = [span_ch EXCEPT ![t] = @ \o batch]
      BY <1>3 DEF Send
    <2>2. IdsOf(span_ch[t] \o batch) = IdsOf(span_ch[t]) \o IdsOf(batch)
      BY RecordIds, IdsOfFacts
    <2>3. sent' = [sent EXCEPT ![t] = @ \o IdsOf(batch)]
      <3>1. \A u \in Threads : IdsOf(span_ch'[u]) =
               IF u = t THEN IdsOf(span_ch[t]) \o IdsOf(batch) ELSE IdsOf(span_ch[u])
        BY <2>1, <2>2, RecordIds
      <3>2. sent' = [u \in Threads |-> IdsOf(span_ch'[u])]
        OBVIOUS
      <3> QED  BY <3>1, <3>2
    <2> QED  BY <1>1, <1>2, <2>1, <2>3 DEF Feed!SendMany, Feed!Send
  <1>4. CASE Refused(span_ch, batch)
    <2>1. batch # <<>> /\ Queued(span_ch) + Len(batch) > ChannelCapacity /\ sent' = sent
      BY <1>4 DEF Refused
    <2> QED  BY <1>1, <1>2, <2>1 DEF Feed!SendMany, Feed!Refused
  <1>5. CASE batch = <<>> /\ UNCHANGED span_ch
    BY <1>1, <1>5 DEF Feed!SendMany
  <1> QED  BY <1>3, <1>4, <1>5 DEF SendMany

LEMMA EventBatchMapped ==
    ASSUME NEW t \in Threads, SendMany(event_ch, t, PENDING_EVENT[t])
    PROVE  Feed!SendMany(event_ch, t, PENDING_EVENT[t])
  <1>1. Feed!Queued(event_ch) = Queued(event_ch)
    BY QueuedMapped
  <1> QED  BY <1>1 DEF SendMany, Send, Refused, Feed!SendMany, Feed!Send, Feed!Refused

LEMMA FlushMapped ==
    ASSUME BufferType, NEW t \in Threads, flush_pending(t) \/ FlushEvents(t) \/ FlushSpans(t)
    PROVE  Feed!flush_pending(t) \/ Feed!FlushEvents(t) \/ Feed!FlushSpans(t)
  <1>1. IdsOf(PENDING_SPAN[t]) = <<>> <=> PENDING_SPAN[t] = <<>>
    BY RecordIds, IdsOfFacts
  <1>2. CASE flush_pending(t)
    BY <1>1, <1>2 DEF flush_pending, Feed!flush_pending
  <1>3. CASE FlushEvents(t)
    <2>1. Feed!SendMany(event_ch, t, PENDING_EVENT[t])
      BY <1>3, EventBatchMapped DEF FlushEvents
    <2> QED  BY <1>3, <2>1 DEF FlushEvents, Feed!FlushEvents
  <1>4. CASE FlushSpans(t)
    <2> DEFINE ids == [u \in Threads |-> IdsOf(PENDING_SPAN[u])]
    <2>1. Feed!SendMany([u \in Threads |-> IdsOf(span_ch[u])], t,
                        [u \in Threads |-> IdsOf(PENDING_SPAN[u])][t])
      BY <1>4, BatchMapped DEF FlushSpans
    <2>2. ids' = [ids EXCEPT ![t] = <<>>]
      BY <1>4, EmptiedMapped DEF FlushSpans
    <2>3. /\ flushing[t] = "spans" /\ flushing' = [flushing EXCEPT ![t] = "no"]
          /\ UNCHANGED <<PENDING_EVENT, event_ch>>
      BY <1>4 DEF FlushSpans
    <2> HIDE DEF ids
    <2>4. Feed!FlushSpans(t)
      BY <2>1, <2>2, <2>3 DEF Feed!FlushSpans, Feed!SendMany, Feed!Send, Feed!Refused, ids
    <2> QED  BY <2>4
  <1> QED  BY <1>2, <1>3, <1>4

LEMMA LoseMapped ==
    ASSUME BufferType, NEW t \in Threads, LosePending(t)
    PROVE  Feed!LosePending(t)
  BY EmptiedMapped DEF LosePending, Feed!LosePending

(* The step each callback makes in the feed                                *)

LEMMA FeedStart ==
    ASSUME CacheInit
    PROVE  Feed!FeedInit
  <1>1. Open = {}
    BY DEF CacheInit, Open, Entry
  <1>2. \A t \in Threads : PENDING_SPAN[t] = <<>> /\ span_ch[t] = <<>>
    BY DEF CacheInit, BuffersInit
  <1>3. IdsOf(<<>>) = <<>>
    BY EmptyIds
  <1> QED  BY <1>1, <1>2, <1>3 DEF CacheInit, BuffersInit, Feed!FeedInit, Feed!BuffersInit

LEMMA FeedStutter ==
    ASSUME UNCHANGED <<bufVars, entries, issued, emitted>>
    PROVE  UNCHANGED Feed!feedVars
  BY DEF bufVars, Open, Feed!feedVars, Feed!bufVars

LEMMA InsertMapped ==
    ASSUME Inv, IdInv, FeedInv, NEW t \in Threads, Insert(t)
    PROVE  Feed!FeedNext
  <1> DEFINE new == [id |-> call[t].id, parent_id |-> call[t].parent]
             open == {entries[k.lane][k.slot].id : k \in Open}
  <1>0. t \in Opening /\ call[t].id \in Used
    BY DEF Insert, Opening, Used
  <1>1. PICK id \in IdSpace : id = call[t].id
    BY <1>0 DEF FeedInv, IdsBounded
  <1>2. \A i \in DOMAIN issued : issued[i].id # id /\ (issued[i].by = t => issued[i].id < id)
    BY <1>0, <1>1 DEF IdInv, UniqueIds, FeedInv, IdsGrow
  <1>3. PICK key \in Entry :
           /\ RecordAt(key) = Vacant
           /\ \A k \in Entry : RecordAt(k)' = IF k = key THEN new ELSE RecordAt(k)
    BY InsertEffect
  <1>4. id \in Nat /\ Vacant.id = -1
    BY <1>1 DEF Inv, TypeOK, CallType, Vacant
  <1>5. open' = open \cup {id}
    <2>1. open' = {RecordAt(k)' .id : k \in Open'} /\ open = {RecordAt(k).id : k \in Open}
      BY DEF RecordAt
    <2>2. /\ Open' = Open \cup {key} /\ key \notin Open
          /\ \A k \in Open : RecordAt(k)' = RecordAt(k)
          /\ RecordAt(key)'.id = id
      <3>1. new # Vacant
        BY <1>1, <1>4
      <3> QED  BY <1>1, <1>3, <3>1 DEF Open, RecordAt
    <2> HIDE DEF open
    <2> QED  BY <2>1, <2>2
  <1>6. issued' = Append(issued, [by |-> t, id |-> id]) /\ UNCHANGED <<bufVars, emitted>>
    BY <1>1 DEF Insert
  <1>7. Feed!Open(t, id)
    BY <1>2, <1>5, <1>6 DEF Feed!Open, Feed!bufVars, bufVars
  <1> QED  BY <1>7 DEF Feed!FeedNext

LEMMA LiveOpen ==
    ASSUME Inv, ScopedInv, FeedInv, NEW h \in Live
    PROVE  /\ KeyOf(h.tracing_id) \in Open /\ RecordAt(KeyOf(h.tracing_id)).id = h.actual_id
           /\ h.actual_id \in IdSpace
           /\ h.actual_id \in {entries[k.lane][k.slot].id : k \in Open}
  <1>0. HandlesNamed /\ OwnRecord
    BY DEF ScopedInv
  <1>1. KeyOf(h.tracing_id) \in Open /\ RecordAt(KeyOf(h.tracing_id)).id = h.actual_id
    BY <1>0, LiveFacts DEF Open, RecordAt
  <1>2. h.actual_id \in Used
    BY <1>1 DEF FeedInv, OpenIssued, Used
  <1> QED  BY <1>1, <1>2 DEF FeedInv, IdsBounded, RecordAt

LEMMA EmitMapped ==
    ASSUME Inv, ScopedInv, FeedInv, NEW t \in Threads, NEW h \in Live, AtRest(t),
           Len(emitted) < MaxEvents, EmitTo(t, h.actual_id, h)
    PROVE  Feed!FeedNext
  <1> DEFINE open == {entries[k.lane][k.slot].id : k \in Open}
             msg == [parent_actual_id |-> h.actual_id, event |-> Len(emitted) + 1]
  <1>1. h.actual_id \in IdSpace /\ h.actual_id \in open
    BY LiveOpen
  <1>2. /\ PENDING_EVENT' = [PENDING_EVENT EXCEPT ![t] = Append(@, msg)]
        /\ flushing' = [flushing EXCEPT ![t] =
              IF Len(PENDING_EVENT[t]) + 1 >= PendingBatch THEN "events" ELSE "no"]
        /\ UNCHANGED <<PENDING_SPAN, span_ch, event_ch, entries, issued>>
        /\ emitted' = Append(emitted, [by |-> t, to |-> h.actual_id])
    BY DEF EmitTo, PushEvent, FlushIfFull, slab
  <1>3. open' = open
    BY <1>2 DEF Open
  <1>4. Feed!Emit(t, h.actual_id)
    <2>1. Feed!PushEvent(t, msg)
      BY <1>2 DEF Feed!PushEvent, Feed!FlushIfFull
    <2> QED  BY <1>1, <1>2, <1>3, <2>1 DEF Feed!Emit, AtRest
  <1>5. PICK n \in IdSpace : n = h.actual_id
    BY <1>1
  <1>6. Feed!Emit(t, n)
    BY <1>4, <1>5
  <1> QED  BY <1>6 DEF Feed!FeedNext

(* The contextual span is the one the top guard stands for.                *)
LEMMA ContextMapped ==
    ASSUME Inv, ScopedInv, NEW t \in Threads, ~NoActiveSpan(t)
    PROVE  /\ Last(entered[t]) \in Live
           /\ stack_top(t).actual_id = Last(entered[t]).actual_id
  <1>1. /\ GuardsHeld /\ StackMirrorsScopes /\ HandlesNamed /\ ScopeType
    BY DEF ScopedInv, Inv, TypeOK
  <1> DEFINE stack == SPAN_STACK[t]
             guards == entered[t]
  <1>2. /\ stack \in Seq(StackedSpan) /\ guards \in Seq(Handle) /\ Len(stack) = Len(guards)
        /\ stack # <<>> /\ stack[Len(stack)].tracing_id # DISABLED
    BY <1>1 DEF NoActiveSpan, stack_top, Last, ScopeType, StackMirrorsScopes
  <1>3. Len(guards) \in DOMAIN guards
    <2> HIDE DEF stack, guards
    <2> QED  BY <1>2
  <1>4. stack[Len(guards)] = [tracing_id |-> guards[Len(guards)].tracing_id,
                              actual_id |-> guards[Len(guards)].actual_id]
    BY <1>1, <1>3 DEF StackMirrorsScopes
  <1>5. guards[Len(guards)] \in handles
    BY <1>1, <1>3 DEF GuardsHeld
  <1>6. guards[Len(guards)].tracing_id # DISABLED
    BY <1>2, <1>4
  <1> QED  BY <1>2, <1>4, <1>5, <1>6 DEF Live, Last, stack_top, DisabledHandle

LEMMA CloseMapped ==
    ASSUME Inv, ScopedInv, FeedInv, NEW t \in Threads, NEW h \in handles, TryClose(t, h)
    PROVE  Feed!FeedNext \/ UNCHANGED Feed!feedVars
  <1> DEFINE open == {entries[k.lane][k.slot].id : k \in Open}
  <1>0. HandlesNamed /\ OwnRecord /\ SlabType /\ BufferType
    BY DEF ScopedInv, Inv, TypeOK
  <1>1. CASE h = DisabledHandle
    <2>1. ~Decodes(h.tracing_id)
      BY <1>1 DEF Decodes, DisabledHandle
    <2>2. UNCHANGED <<bufVars, entries, issued, emitted>>
      BY <2>1 DEF TryClose, history
    <2> QED  BY <2>2, FeedStutter
  <1>2. CASE h # DisabledHandle
    <2>1. h \in Live
      BY <1>2 DEF Live
    <2>2. PICK key \in Open : key = KeyOf(h.tracing_id)
      BY <2>1, LiveOpen
    <2>3. /\ RecordAt(key).id = h.actual_id /\ h.actual_id \in IdSpace /\ h.actual_id \in open
      BY <2>1, <2>2, LiveOpen
    <2>4. key \in Entry /\ RecordAt(key) # Vacant /\ Decodes(h.tracing_id)
      BY <1>0, <2>1, <2>2, LiveFacts
    <2>5. RecordAt(key) = entries[ShardOf(h.tracing_id)][SlotOf(h.tracing_id)]
      BY <2>2 DEF RecordAt, KeyOf
    <2>6. RecordAt(key) \in SpanRecord
      BY <1>0, <2>4 DEF SlabType, RecordAt, Entry
    <2>7. /\ entries' = [entries EXCEPT ![key.lane][key.slot] = Vacant]
          /\ PushSpan(t, RecordAt(key))
      BY <2>2, <2>4, <2>5 DEF TryClose, KeyOf
    <2>9. open' = open \ {h.actual_id}
      <3>1. \A k \in Entry : RecordAt(k)' = IF k = key THEN Vacant ELSE RecordAt(k)
        BY <1>0, <2>4, <2>7 DEF RecordAt, Entry, SlabType
      <3>2. Open' = Open \ {key} /\ \A k \in Open' : RecordAt(k)' = RecordAt(k)
        BY <3>1 DEF Open, RecordAt
      <3>3. \A k \in Open : RecordAt(k).id = RecordAt(key).id => k = key
        BY DEF FeedInv, OpenIssued
      <3>4. open' = {RecordAt(k)'.id : k \in Open'} /\ open = {RecordAt(k).id : k \in Open}
        BY DEF RecordAt
      <3> HIDE DEF open
      <3> QED  BY <2>3, <3>2, <3>3, <3>4
    <2>10. flushing[t] = "no" /\ UNCHANGED <<issued, emitted>>
      BY DEF TryClose, AtRest, history
    <2>11. PICK n \in IdSpace : n = RecordAt(key).id
      BY <2>3
    <2>12. Feed!PushSpan(t, n)
      BY <1>0, <2>6, <2>7, <2>11, PushMapped
    <2>13. Feed!Close(t, n)
      BY <2>3, <2>9, <2>10, <2>11, <2>12 DEF Feed!Close
    <2> QED  BY <2>13 DEF Feed!FeedNext
  <1> QED  BY <1>1, <1>2

LEMMA EventMapped ==
    ASSUME Inv, ScopedInv, FeedInv, NEW t \in Threads,
           EventContextual(t) \/ \E h \in handles : EventExplicit(t, h)
    PROVE  Feed!FeedNext
  <1>1. ASSUME EventContextual(t)
        PROVE  Feed!FeedNext
    <2>1. ~NoActiveSpan(t) /\ AtRest(t) /\ Len(emitted) < MaxEvents
      BY <1>1 DEF EventContextual
    <2>2. PICK h \in Live : h = Last(entered[t])
      BY <2>1, ContextMapped
    <2>3. stack_top(t).actual_id = h.actual_id
      BY <2>1, <2>2, ContextMapped
    <2>4. EmitTo(t, h.actual_id, h)
      BY <1>1, <2>2, <2>3 DEF EventContextual, EmitTo
    <2> QED  BY <2>1, <2>4, EmitMapped
  <1>2. ASSUME NEW h \in handles, EventExplicit(t, h)
        PROVE  Feed!FeedNext
    <2>1. Decodes(h.tracing_id) /\ AtRest(t) /\ Len(emitted) < MaxEvents
      BY <1>2 DEF EventExplicit
    <2>2. h \in Live
      BY <2>1 DEF Live, Decodes, DisabledHandle
    <2>3. load_actual_id(h.tracing_id) = h.actual_id
      BY <2>2, LiveFacts DEF ScopedInv
    <2>4. EmitTo(t, h.actual_id, h)
      BY <1>2, <2>3 DEF EventExplicit, EmitTo
    <2> QED  BY <2>1, <2>2, <2>4, EmitMapped
  <1> QED  BY <1>1, <1>2

(* What a thread sends or loses, it sends or loses in the feed.            *)
LEMMA BuffersMapped ==
    ASSUME Inv, NEW t \in Threads, FlushPending(t) \/ ThreadExit(t)
    PROVE  Feed!FeedNext
  <1>0. BufferType
    BY DEF Inv, TypeOK
  <1>1. UNCHANGED <<entries, issued, emitted>>
    BY DEF FlushPending, ThreadExit, slab, history
  <1>2. UNCHANGED {entries[k.lane][k.slot].id : k \in Open}
    BY <1>1 DEF Open
  <1>3. CASE FlushPending(t)
    <2>1. Feed!flush_pending(t) \/ Feed!FlushEvents(t) \/ Feed!FlushSpans(t)
      BY <1>0, <1>3, FlushMapped DEF FlushPending
    <2>2. Feed!Flush(t)
      BY <1>1, <1>2, <2>1 DEF Feed!Flush
    <2> QED  BY <2>2 DEF Feed!FeedNext
  <1>4. CASE ThreadExit(t)
    <2>1. Feed!LosePending(t)
      BY <1>0, <1>4, LoseMapped DEF ThreadExit
    <2>2. Feed!Exit(t)
      BY <1>1, <1>2, <2>1 DEF Feed!Exit
    <2> QED  BY <2>2 DEF Feed!FeedNext
  <1> QED  BY <1>3, <1>4

LEMMA StepMapped ==
    ASSUME Scoped, Inv, IdInv, ScopedInv, FeedInv, [CacheNext]_cacheVars
    PROVE  [Feed!FeedNext]_Feed!feedVars
  <1>1. CASE UNCHANGED cacheVars
    BY <1>1, FeedStutter DEF cacheVars, slab, history
  <1>2. ASSUME NEW t \in Threads, Insert(t)
        PROVE  Feed!FeedNext
    BY <1>2, InsertMapped
  <1>3. ASSUME NEW t \in Threads, NEW h \in handles, TryClose(t, h)
        PROVE  [Feed!FeedNext]_Feed!feedVars
    BY <1>3, CloseMapped
  <1>4. ASSUME NEW t \in Threads, EventContextual(t) \/ \E h \in handles : EventExplicit(t, h)
        PROVE  Feed!FeedNext
    BY <1>4, EventMapped
  <1>5. ASSUME NEW t \in Threads, FlushPending(t) \/ ThreadExit(t)
        PROVE  Feed!FeedNext
    BY <1>5, BuffersMapped
  <1>6. ASSUME CacheNext,
               ~ \E t \in Threads :
                   \/ Insert(t) \/ EventContextual(t) \/ FlushPending(t) \/ ThreadExit(t)
                   \/ \E h \in handles : EventExplicit(t, h) \/ TryClose(t, h)
        PROVE  UNCHANGED Feed!feedVars
    <2>1. UNCHANGED slab /\ UNCHANGED bufVars /\ UNCHANGED issued /\ UNCHANGED emitted
      BY <1>6, Frames
    <2> QED  BY <2>1, FeedStutter DEF slab
  <1> QED  BY <1>1, <1>2, <1>3, <1>4, <1>5, <1>6

LEMMA FeedStep ==
    ASSUME Scoped, Inv, IdInv, ScopedInv, FeedInv, [CacheNext]_cacheVars
    PROVE  FeedInv'
  <1>1. CASE CacheNext
    BY <1>1, OpenIssuedStep, IdsGrowStep, IdsBoundedStep DEF FeedInv, IdInv
  <1>2. CASE UNCHANGED cacheVars
    <2>1. UNCHANGED <<entries, issued, pc, call, id_high_water, ID_CURSOR>>
      BY <1>2 DEF cacheVars, slab, history, calls, reservation
    <2>2. Open' = Open /\ Opening' = Opening /\ Used' = Used /\ Reserving' = Reserving
      BY <2>1 DEF Open, Opening, Used, Reserving, Exhausted
    <2>3. OpenIssued'
      BY <2>1, <2>2 DEF FeedInv, OpenIssued, RecordAt
    <2>4. IdsGrow'
      BY <2>1, <2>2 DEF FeedInv, IdsGrow, NextId, Exhausted
    <2>5. IdsBounded'
      BY <2>1, <2>2 DEF FeedInv, IdsBounded, Exhausted
    <2> QED  BY <2>3, <2>4, <2>5 DEF FeedInv
  <1> QED  BY <1>1, <1>2

(* With scoped guards and without clones, what the producers do is what    *)
(* SpanFeed says, step by step: a span opens at its insert under an id     *)
(* larger than its thread's earlier ones, events go to open spans, the     *)
(* ones they were meant for, and each span is buffered once when it closes *)
(* (cache.rs:368, 471, 542).                                               *)
THEOREM ProducersImplementFeed == Scoped => (CacheSpec => ImplementsFeed)
  <1> SUFFICES ASSUME Scoped
               PROVE  CacheSpec => ImplementsFeed
    OBVIOUS
  <1> DEFINE All == Inv /\ IdInv /\ ScopedInv /\ FeedInv
  <1>1. CacheInit => All /\ Feed!FeedInit
    BY InitInv, InitIds, ScopedInit, FeedInit, FeedStart
  <1>2. All /\ [CacheNext]_cacheVars => All'
    BY InvStep, IdStep, ScopedStep, FeedStep
  <1>3. All /\ [CacheNext]_cacheVars => [Feed!FeedNext]_Feed!feedVars
    BY StepMapped
  <1> HIDE DEF All
  <1> QED  BY <1>1, <1>2, <1>3, PTL DEF CacheSpec, ImplementsFeed, Feed!FeedSpec

=============================================================================
