------------------------------- MODULE Driver -------------------------------
(***************************************************************************)
(* The consumer half of tracing-cache: the Driver task that takes batches  *)
(* from the event channel and the span channel, parks the events of spans  *)
(* that have not arrived yet, attaches them to the span when it does, and  *)
(* fans each span batch out to every subscriber.                           *)
(*                                                                         *)
(* It runs against SpanFeed, what the producers promise, which SpanCache   *)
(* is shown to keep.  A closed span is its actual id here.                 *)
(*                                                                         *)
(* The loop is a biased select: it polls the event channel and, if nothing *)
(* is there, the span channel.  Producers run between the two polls.       *)
(***************************************************************************)
EXTENDS SpanFeed

CONSTANTS
    Subscribers,     \* who may subscribe, each once
    DriverCapacity,  \* Driver::capacity: parked parents
    StreamCapacity   \* subscribe(capacity)

ASSUME DriverAssumption ==
    /\ IsFiniteSet(Subscribers)
    /\ {DriverCapacity, StreamCapacity, MaxEvents} \subseteq Nat
    /\ Ids \subseteq Nat

VARIABLES
    side_events,   \* Driver::side_events: parent id -> numbers of the parked events
    poll,          \* the channel the select polls next
    subscription,  \* [subscriber]: is its sender in SpanCache::subscribers?
    stream,        \* [subscriber]: every record its sender accepted
    read           \* [subscriber]: how many of those it has received

consumerVars == <<subscription, stream, read>>
driverVars == <<feedVars, side_events, poll, consumerVars>>

DriverInit ==
    /\ FeedInit
    /\ side_events = <<>>
    /\ poll = "events"
    /\ subscription = [s \in Subscribers |-> "none"]
    /\ stream = [s \in Subscribers |-> <<>>]
    /\ read = [s \in Subscribers |-> 0]

-----------------------------------------------------------------------------
(* Events                                                                  *)

Smallest(ids) == CHOOSE id \in ids : \A other \in ids : id <= other
Without(side, ids) == [id \in DOMAIN side \ ids |-> side[id]]

(* Mutant: a full buffer takes one bucket more.                            *)
MakeRoomLate(side) ==
    IF Cardinality(DOMAIN side) > DriverCapacity /\ DOMAIN side # {}
    THEN Without(side, {Smallest(DOMAIN side)})
    ELSE side

(* BTreeMap::pop_first at capacity.                                        *)
MakeRoom(side) ==
    IF Cardinality(DOMAIN side) >= DriverCapacity /\ DOMAIN side # {}
    THEN Without(side, {Smallest(DOMAIN side)})
    ELSE side

(* The bucket of a parent that has none.                                   *)
Put(side, id, events) ==
    [other \in DOMAIN side \cup {id} |-> IF other = id THEN events ELSE side[other]]

(* Mutant: a later event goes in front.                                    *)
ParkInFront(side, msg) ==
    LET id == msg.parent_actual_id IN
    IF id \in DOMAIN side
    THEN [side EXCEPT ![id] = <<msg.event>> \o @]
    ELSE Put(MakeRoom(side), id, <<msg.event>>)

Park(side, msg) ==
    LET id == msg.parent_actual_id IN
    IF id \in DOMAIN side
    THEN [side EXCEPT ![id] = Append(@, msg.event)]
    ELSE Put(MakeRoom(side), id, <<msg.event>>)

(* The side buffer after each message of the batch.                        *)
Parking(side, batch) ==
    LET after[i \in 0 .. Len(batch)] ==
            IF i = 0 THEN side ELSE Park(after[i - 1], batch[i])
    IN  after

flush_event_batch(side, batch) == Parking(side, batch)[Len(batch)]

(* next_batch takes what one sender clone holds.                           *)
PollEvents ==
    /\ poll = "events"
    /\ \/ /\ Queued(event_ch) = 0
          /\ poll' = "spans"
          /\ UNCHANGED <<side_events, event_ch>>
       \/ \E t \in Threads :
            /\ event_ch[t] # <<>>
            /\ side_events' = flush_event_batch(side_events, event_ch[t])
            /\ event_ch' = [event_ch EXCEPT ![t] = <<>>]
            /\ UNCHANGED poll
    /\ UNCHANGED <<PENDING_SPAN, PENDING_EVENT, span_ch, flushing, open, issued,
                   emitted, consumerVars>>

-----------------------------------------------------------------------------
(* Spans                                                                   *)

Attach(side, id) ==
    [id |-> id, events |-> IF id \in DOMAIN side THEN side[id] ELSE <<>>]

Unread(s) == Len(stream[s]) - read[s]
Full(s) == Unread(s) >= StreamCapacity
MayRefuse(s, batch) == Unread(s) + Len(batch) > StreamCapacity

(* Mutant: the first subscriber gets the events, the others bare spans.    *)
FanoutMovesEvents(prepared) ==
    LET live == {s \in Subscribers : subscription[s] = "live" /\ ~Full(s)}
        bare == [i \in DOMAIN prepared |-> [prepared[i] EXCEPT !.events = <<>>]]
    IN
    /\ stream' = [s \in Subscribers |->
          IF s \notin live THEN stream[s]
          ELSE stream[s] \o (IF s = CHOOSE u \in live : TRUE THEN prepared ELSE bare)]
    /\ subscription' = [s \in Subscribers |->
          IF subscription[s] = "dropped" THEN "pruned" ELSE subscription[s]]

(* Mutant: a receiver that is short of room gets the part that fits.       *)
FanoutWhatFits(prepared) ==
    /\ stream' = [s \in Subscribers |->
          IF subscription[s] = "live" /\ ~Full(s)
          THEN stream[s] \o (IF MayRefuse(s, prepared)
                             THEN SubSeq(prepared, 1, StreamCapacity - Unread(s))
                             ELSE prepared)
          ELSE stream[s]]
    /\ subscription' = [s \in Subscribers |->
          IF subscription[s] = "dropped" THEN "pruned" ELSE subscription[s]]

(* Mutant: the driver waits for a full receiver.                           *)
FanoutWaits(prepared) ==
    /\ \A s \in Subscribers : subscription[s] = "live" => ~Full(s)
    /\ stream' = [s \in Subscribers |->
          IF subscription[s] = "live" THEN stream[s] \o prepared ELSE stream[s]]
    /\ subscription' = [s \in Subscribers |->
          IF subscription[s] = "dropped" THEN "pruned" ELSE subscription[s]]

(* A full receiver loses the whole batch; a dropped one loses its sender.  *)
fanout_under_lock(prepared) ==
    \E refusing \in SUBSET {s \in Subscribers : MayRefuse(s, prepared)} :
        /\ {s \in Subscribers : Full(s)} \subseteq refusing
        /\ stream' = [s \in Subscribers |->
              IF subscription[s] = "live" /\ s \notin refusing
              THEN stream[s] \o prepared ELSE stream[s]]
        /\ subscription' = [s \in Subscribers |->
              IF subscription[s] = "dropped" THEN "pruned" ELSE subscription[s]]

(* Mutant: the parked events are copied to the span and stay parked.       *)
FlushKeepingParked(batch) ==
    /\ fanout_under_lock([i \in DOMAIN batch |-> Attach(side_events, batch[i])])
    /\ UNCHANGED side_events

flush_span_batch(batch) ==
    /\ fanout_under_lock([i \in DOMAIN batch |-> Attach(side_events, batch[i])])
    /\ side_events' = Without(side_events, ToSet(batch))

PollSpans ==
    /\ poll = "spans"
    /\ poll' = "events"
    /\ \/ Queued(span_ch) = 0 /\ UNCHANGED <<span_ch, side_events, subscription, stream>>
       \/ \E t \in Threads :
            /\ span_ch[t] # <<>>
            /\ flush_span_batch(span_ch[t])
            /\ span_ch' = [span_ch EXCEPT ![t] = <<>>]
    /\ UNCHANGED <<PENDING_SPAN, PENDING_EVENT, event_ch, flushing, open, issued,
                   emitted, read>>

-----------------------------------------------------------------------------
(* Subscribers                                                             *)

subscribe(s) ==
    /\ subscription[s] = "none"
    /\ subscription' = [subscription EXCEPT ![s] = "live"]
    /\ UNCHANGED <<feedVars, side_events, poll, stream, read>>

(* next_batch takes all there is.                                          *)
Receive(s) ==
    /\ subscription[s] = "live" /\ Unread(s) > 0
    /\ read' = [read EXCEPT ![s] = Len(stream[s])]
    /\ UNCHANGED <<feedVars, side_events, poll, subscription, stream>>

DropReceiver(s) ==
    /\ subscription[s] = "live"
    /\ subscription' = [subscription EXCEPT ![s] = "dropped"]
    /\ UNCHANGED <<feedVars, side_events, poll, stream, read>>

-----------------------------------------------------------------------------

Producers == FeedNext /\ UNCHANGED <<side_events, poll, consumerVars>>

DriverNext ==
    \/ Producers
    \/ PollEvents \/ PollSpans
    \/ \E s \in Subscribers : subscribe(s) \/ Receive(s) \/ DropReceiver(s)

(* The runtime keeps polling the driver's task.                            *)
DriverSpec ==
    DriverInit /\ [][DriverNext]_driverVars /\ WF_driverVars(PollEvents \/ PollSpans)

-----------------------------------------------------------------------------
(* Properties                                                              *)

Record == [id : Ids, events : Seq(1 .. MaxEvents)]

(* Every variable has its type, and the side buffer keeps its bound, which *)
(* at capacity 0 is one bucket (driver.rs:160).                            *)
TypeOK ==
    /\ PENDING_SPAN \in [Threads -> Seq(Ids)] /\ span_ch \in [Threads -> Seq(Ids)]
    /\ \A ch \in {PENDING_EVENT, event_ch} :
          ch \in [Threads -> Seq([parent_actual_id : Ids, event : 1 .. MaxEvents])]
    /\ flushing \in [Threads -> {"no", "events", "spans"}]
    /\ open \subseteq Ids
    /\ issued \in Seq([by : Threads, id : Ids])
    /\ emitted \in Seq([by : Threads, to : Ids])
    /\ DOMAIN side_events \subseteq Ids
    /\ \A id \in DOMAIN side_events : side_events[id] \in Seq(1 .. MaxEvents)
    /\ Cardinality(DOMAIN side_events) <= IF DriverCapacity = 0 THEN 1 ELSE DriverCapacity
    /\ poll \in {"events", "spans"}
    /\ subscription \in [Subscribers -> {"none", "live", "dropped", "pruned"}]
    /\ stream \in [Subscribers -> Seq(Record)]
    /\ \A s \in Subscribers : read[s] \in 0 .. Len(stream[s])

Occurs(n, s) == \E i \in DOMAIN stream[s] : n \in ToSet(stream[s][i].events)
Parked(n) == \E id \in DOMAIN side_events : n \in ToSet(side_events[id])

(* Through parking, eviction, attachment and a parent that arrives before, *)
(* between or after its events, an event is only ever attached to the span *)
(* it was emitted for, and never delivered twice (driver.rs:128, 151).     *)
EventsReachOwnSpan ==
    /\ \A id \in DOMAIN side_events : \A n \in ToSet(side_events[id]) : emitted[n].to = id
    /\ \A s \in Subscribers : \A i \in DOMAIN stream[s] :
          LET record == stream[s][i] IN
          /\ IsInjective(record.events)
          /\ \A n \in ToSet(record.events) : emitted[n].to = record.id /\ ~Parked(n)
          /\ \A j \in DOMAIN stream[s] \ {i} :
                ToSet(record.events) \cap ToSet(stream[s][j].events) = {}

(* On a delivered span, the events of one thread stand in the order the    *)
(* thread emitted them, whatever else was interleaved, refused or evicted  *)
(* on the way (driver.rs:129, 152, cache.rs:316).                          *)
ThreadOrderKept ==
    \A s \in Subscribers : \A i \in DOMAIN stream[s] :
        LET events == stream[s][i].events IN
        \A j, k \in DOMAIN events :
            j < k /\ emitted[events[j]].by = emitted[events[k]].by => events[j] < events[k]

(* Two subscribers that both got a span got the same record of it, and got *)
(* any two such spans in the same order, although each may have missed     *)
(* batches of its own (driver.rs:175, the order promised at cache.rs:267). *)
SubscribersAgree ==
    \A s, u \in Subscribers :
        \A i, j \in DOMAIN stream[s], k, l \in DOMAIN stream[u] :
            /\ stream[s][i].id = stream[u][k].id => stream[s][i] = stream[u][k]
            /\ i < j /\ stream[s][i].id = stream[u][k].id
                     /\ stream[s][j].id = stream[u][l].id => k < l

(* What was sent on a channel does not stay there: the biased select, the  *)
(* full subscribers and the dropped ones never wedge the driver, as long   *)
(* as events do not come forever (driver.rs:64).                           *)
ChannelsDrain ==
    \A t \in Threads : (span_ch[t] # <<>> \/ event_ch[t] # <<>>) ~>
                       (span_ch[t] = <<>> /\ event_ch[t] = <<>>)

-----------------------------------------------------------------------------
(* What a subscriber may rely on.                                          *)

OnItsWay == UNION {ToSet(PENDING_SPAN[t]) \cup ToSet(span_ch[t]) : t \in Threads}

Phase(id) ==
    CASE id \in open -> "open"
      [] id \in OnItsWay -> "closed"
      [] \E i \in DOMAIN issued : issued[i].id = id /\ id \notin open \cup OnItsWay -> "gone"
      [] OTHER -> "unopened"

Abstract == INSTANCE SpanStream WITH
    phase <- [id \in Ids |-> Phase(id)],
    seen <- [s \in Subscribers |-> [i \in DOMAIN stream[s] |-> stream[s][i].id]]

(* With its buffers, channels, refusals and polls, the pipeline delivers   *)
(* as SpanStream says (driver.rs:115, 175, cache.rs:267).                  *)
ImplementsStream == Abstract!StreamSpec

=============================================================================
