---------------------------- MODULE DriverProofs ----------------------------
(***************************************************************************)
(* Theorems of DriverSpec, for any threads, subscribers, ids, capacities   *)
(* and numbers of events.                                                  *)
(***************************************************************************)
EXTENDS Driver, DataLemmas, FiniteSetTheorems

-----------------------------------------------------------------------------
(* Parking a batch of events                                               *)

Message == [parent_actual_id : Ids, event : 1 .. MaxEvents]

EventsOf(side, id) == IF id \in DOMAIN side THEN side[id] ELSE <<>>

SideTyped(side) ==
    /\ DOMAIN side \subseteq Ids /\ IsFiniteSet(DOMAIN side)
    /\ Cardinality(DOMAIN side) <= IF DriverCapacity = 0 THEN 1 ELSE DriverCapacity
    /\ \A id \in DOMAIN side : side[id] \in Seq(1 .. MaxEvents)

LEMMA RoomMade ==
    ASSUME DriverAssumption, NEW side, SideTyped(side)
    PROVE  /\ SideTyped(MakeRoom(side))
           /\ Cardinality(DOMAIN MakeRoom(side)) < IF DriverCapacity = 0 THEN 1 ELSE DriverCapacity
           /\ DOMAIN MakeRoom(side) \subseteq DOMAIN side
           /\ \A id \in DOMAIN MakeRoom(side) : MakeRoom(side)[id] = side[id]
  <1> DEFINE ids == DOMAIN side
             least == Smallest(ids)
             new == Without(side, {least})
  <1>1. Cardinality(ids) \in Nat /\ (ids = {} <=> Cardinality(ids) = 0)
    BY FS_CardinalityType, FS_EmptySet DEF SideTyped
  <1>2. CASE Cardinality(ids) >= DriverCapacity /\ ids # {}
    <2>1. ids # {}
      BY <1>2
    <2>2. least \in ids
      <3>1. ids \subseteq Nat
        BY DEF SideTyped, DriverAssumption
      <3>2. \E n \in ids : \A m \in ids : n <= m
        BY <2>1, <3>1, LeastNatural
      <3> QED  BY <3>2 DEF Smallest
    <2>3. IsFiniteSet(ids \ {least}) /\ Cardinality(ids \ {least}) = Cardinality(ids) - 1
      BY <2>2, FS_RemoveElement DEF SideTyped
    <2>4. DOMAIN new = ids \ {least} /\ \A id \in DOMAIN new : new[id] = side[id]
      BY DEF Without
    <2>5. MakeRoom(side) = new
      BY <1>2 DEF MakeRoom
    <2> HIDE DEF new, least
    <2>6. /\ ids \subseteq Ids
          /\ Cardinality(ids) <= IF DriverCapacity = 0 THEN 1 ELSE DriverCapacity
          /\ \A id \in ids : side[id] \in Seq(1 .. MaxEvents)
      BY DEF SideTyped
    <2>7. /\ Cardinality(DOMAIN new) = Cardinality(ids) - 1
          /\ Cardinality(DOMAIN new) < IF DriverCapacity = 0 THEN 1 ELSE DriverCapacity
      BY ONLY <1>1, <2>3, <2>4, <2>6, DriverAssumption DEF DriverAssumption
    <2>8. SideTyped(new)
      BY ONLY <1>1, <2>3, <2>4, <2>6, <2>7, DriverAssumption DEF SideTyped, DriverAssumption
    <2> QED  BY ONLY <2>4, <2>5, <2>7, <2>8
  <1>3. CASE ~(Cardinality(ids) >= DriverCapacity /\ ids # {})
    <2>1. MakeRoom(side) = side
      BY <1>3 DEF MakeRoom
    <2> HIDE DEF ids
    <2>2. Cardinality(ids) < IF DriverCapacity = 0 THEN 1 ELSE DriverCapacity
      BY ONLY <1>1, <1>3, DriverAssumption DEF DriverAssumption
    <2> QED  BY <2>1, <2>2 DEF ids
  <1> QED  BY <1>2, <1>3

(* One message: its bucket grows at the end, another may go.               *)
LEMMA OneParked ==
    ASSUME DriverAssumption, NEW side, SideTyped(side), NEW msg \in Message
    PROVE  LET new == Park(side, msg)
               at == msg.parent_actual_id
           IN  /\ SideTyped(new)
               /\ at \in DOMAIN new
               /\ new[at] = Append(EventsOf(side, at), msg.event)
               /\ \A id \in DOMAIN new \ {at} : id \in DOMAIN side /\ new[id] = side[id]
  <1> DEFINE at == msg.parent_actual_id
             new == Park(side, msg)
  <1>1. at \in Ids /\ msg.event \in 1 .. MaxEvents
    BY DEF Message
  <1>2. CASE at \in DOMAIN side
    <2>1. new = [side EXCEPT ![at] = Append(side[at], msg.event)]
      BY <1>2 DEF Park
    <2>2. Append(side[at], msg.event) \in Seq(1 .. MaxEvents)
      BY <1>1, <1>2 DEF SideTyped
    <2>3. /\ DOMAIN new = DOMAIN side /\ new[at] = Append(side[at], msg.event)
          /\ \A id \in DOMAIN new \ {at} : new[id] = side[id]
      BY <1>2, <2>1
    <2> HIDE DEF new
    <2>4. SideTyped(new)
      BY <2>2, <2>3 DEF SideTyped
    <2> QED  BY <1>2, <2>3, <2>4 DEF EventsOf, new
  <1>3. CASE at \notin DOMAIN side
    <2> DEFINE room == MakeRoom(side)
    <2>1. new = [id \in DOMAIN room \cup {at} |->
                    IF id = at THEN <<msg.event>> ELSE room[id]]
      BY <1>3 DEF Park, Put
    <2>2. /\ SideTyped(room) /\ at \notin DOMAIN room
          /\ Cardinality(DOMAIN room) < IF DriverCapacity = 0 THEN 1 ELSE DriverCapacity
          /\ \A id \in DOMAIN room : id \in DOMAIN side /\ room[id] = side[id]
      BY <1>3, RoomMade
    <2> HIDE DEF room, new
    <2>3. /\ DOMAIN new = DOMAIN room \cup {at}
          /\ new[at] = <<msg.event>>
          /\ \A id \in DOMAIN room : new[id] = room[id]
      BY <2>1, <2>2
    <2>4. DOMAIN room \subseteq Ids /\ IsFiniteSet(DOMAIN room)
      BY <2>2 DEF SideTyped
    <2>5. Cardinality(DOMAIN room) \in Nat
      BY <2>4, FS_CardinalityType
    <2>6. /\ IsFiniteSet(DOMAIN room \cup {at})
          /\ Cardinality(DOMAIN room \cup {at}) = Cardinality(DOMAIN room) + 1
      BY ONLY <2>2, <2>4, FS_AddElement
    <2>7. SideTyped(new)
      <3>1. \A id \in DOMAIN room : room[id] \in Seq(1 .. MaxEvents)
        BY <2>2 DEF SideTyped
      <3>2. <<msg.event>> \in Seq(1 .. MaxEvents)
        BY <1>1
      <3>3. \A id \in DOMAIN new : new[id] \in Seq(1 .. MaxEvents)
        BY ONLY <2>3, <3>1, <3>2
      <3>4. Cardinality(DOMAIN new) <= IF DriverCapacity = 0 THEN 1 ELSE DriverCapacity
        BY ONLY <2>2, <2>3, <2>5, <2>6, DriverAssumption DEF DriverAssumption
      <3> QED  BY <1>1, <2>3, <2>4, <2>6, <3>3, <3>4 DEF SideTyped
    <2>8. new[at] = Append(EventsOf(side, at), msg.event)
      BY <1>3, <2>3 DEF EventsOf
    <2> QED  BY <2>2, <2>3, <2>7, <2>8 DEF new
  <1> QED  BY <1>2, <1>3

(* Parking is what its equation says.                                      *)
IsParking(f, side, batch, n) ==
    f = [i \in 0 .. n |-> IF i = 0 THEN side ELSE Park(f[i - 1], batch[i])]

LEMMA ParkingExists ==
    ASSUME NEW side, NEW batch, NEW len \in Nat
    PROVE  \E f : IsParking(f, side, batch, len)
  <1> DEFINE T == {n \in Nat : \E f : IsParking(f, side, batch, n)}
  <1>1. 0 \in T
    <2> DEFINE f == [i \in 0 .. 0 |-> side]
    <2>1. f = [i \in 0 .. 0 |-> IF i = 0 THEN side ELSE Park(f[i - 1], batch[i])]
      OBVIOUS
    <2> QED  BY <2>1 DEF IsParking
  <1>2. ASSUME NEW n \in Nat, n \in T
        PROVE  n + 1 \in T
    <2>1. PICK f : IsParking(f, side, batch, n)
      BY <1>2
    <2>2. \A i \in 0 .. n : f[i] = IF i = 0 THEN side ELSE Park(f[i - 1], batch[i])
      BY <2>1 DEF IsParking
    <2> DEFINE g == [i \in 0 .. n + 1 |->
                        IF i = n + 1 THEN Park(f[n], batch[n + 1]) ELSE f[i]]
    <2>3. ASSUME NEW i \in 0 .. n + 1
          PROVE  g[i] = IF i = 0 THEN side ELSE Park(g[i - 1], batch[i])
      <3>1. CASE i = n + 1
        <4>1. i - 1 \in 0 .. n + 1 /\ i - 1 = n /\ i # 0 /\ n # n + 1
          BY <3>1
        <4>2. g[i - 1] = f[n]
          BY <4>1
        <4> QED  BY <3>1, <4>1, <4>2
      <3>2. CASE i # n + 1
        <4>1. g[i] = f[i] /\ i \in 0 .. n
          BY <3>2
        <4>2. i # 0 => g[i - 1] = f[i - 1]
          BY <3>2
        <4> QED  BY <2>2, <4>1, <4>2
      <3> QED  BY <3>1, <3>2
    <2>4. g = [i \in 0 .. n + 1 |-> g[i]]
      OBVIOUS
    <2> HIDE DEF g
    <2>5. IsParking(g, side, batch, n + 1)
      BY <2>3, <2>4 DEF IsParking
    <2> QED  BY <2>5
  <1> HIDE DEF T
  <1>3. len \in T
    BY <1>1, <1>2, Induction
  <1> QED  BY <1>3 DEF T

LEMMA ParkingEquation ==
    ASSUME NEW side, NEW batch, Len(batch) \in Nat
    PROVE  /\ Parking(side, batch)[0] = side
           /\ \A i \in 1 .. Len(batch) :
                 Parking(side, batch)[i] = Park(Parking(side, batch)[i - 1], batch[i])
  <1> DEFINE p == Parking(side, batch)
  <1>1. PICK f : IsParking(f, side, batch, Len(batch))
    BY ParkingExists
  <1>2. p = [i \in 0 .. Len(batch) |-> IF i = 0 THEN side ELSE Park(p[i - 1], batch[i])]
    BY <1>1 DEF Parking, IsParking
  <1> QED  BY <1>2

-----------------------------------------------------------------------------
(* The inductive invariant: events                                         *)

Log == Seq([by : Threads, to : Ids])

(* The messages of each thread that the driver has not taken yet.          *)
Road == [t \in Threads |-> ToSet(event_ch[t]) \cup ToSet(PENDING_EVENT[t])]

Written(log, t, msg) ==
    /\ msg.event \in 1 .. Len(log)
    /\ log[msg.event].by = t /\ log[msg.event].to = msg.parent_actual_id

Increasing(batch) == \A i, j \in DOMAIN batch : i < j => batch[i].event < batch[j].event

InOrder(log, events) ==
    \A j, k \in DOMAIN events :
        j < k /\ log[events[j]].by = log[events[k]].by => events[j] < events[k]

(* Events emitted for that span, each thread's in order, and before all    *)
(* those of the same thread that are still to come.                        *)
Own(id, events, log, road) ==
    /\ \A n \in ToSet(events) :
          /\ n \in 1 .. Len(log) /\ log[n].to = id
          /\ \A m \in road[log[n].by] : n < m.event
    /\ InOrder(log, events)

Behind(early, late, log) ==
    \A n \in ToSet(early), p \in ToSet(late) : log[n].by = log[p].by => n < p

Records == UNION {ToSet(stream[s]) : s \in Subscribers}

(* A thread sends what it emitted, in the order it emitted it.             *)
ThreadRoad(t, sent, pending, log) ==
    /\ \A m \in ToSet(sent) \cup ToSet(pending) : Written(log, t, m)
    /\ Increasing(sent) /\ Increasing(pending)
    /\ \A m \in ToSet(sent), n \in ToSet(pending) : m.event < n.event

RoadInv == \A t \in Threads : ThreadRoad(t, event_ch[t], PENDING_EVENT[t], emitted)

(* What is parked and what was delivered, with what is parked by now for   *)
(* the same span behind it.                                                *)
EventsPlaced(side, records, log, road) ==
    /\ \A id \in DOMAIN side : Own(id, side[id], log, road)
    /\ \A r \in records : /\ Own(r.id, r.events, log, road)
                          /\ Behind(r.events, EventsOf(side, r.id), log)

EventInv == EventsPlaced(side_events, Records, emitted, Road)

-----------------------------------------------------------------------------
(* The inductive invariant: spans                                          *)

Buffered(t) == ToSet(PENDING_SPAN[t]) \cup ToSet(span_ch[t])
IssuedIds == {issued[i].id : i \in DOMAIN issued}

OneCopy(pending, sent) ==
    IsInjective(pending) /\ IsInjective(sent) /\ ToSet(pending) \cap ToSet(sent) = {}

(* A span is in one place: open, in one buffer once, or delivered, at most *)
(* once to each subscriber.                                                *)
BufferedInv ==
    /\ open \subseteq IssuedIds
    /\ \A t \in Threads :
          /\ Buffered(t) \subseteq IssuedIds \ open
          /\ OneCopy(PENDING_SPAN[t], span_ch[t])
          /\ \A u \in Threads \ {t} : Buffered(t) \cap Buffered(u) = {}

OnceEach(records) == \A i, j \in DOMAIN records : records[i].id = records[j].id => i = j

DeliveredInv ==
    /\ \A r \in Records : r.id \in IssuedIds \ open /\ \A t \in Threads : r.id \notin Buffered(t)
    /\ \A s \in Subscribers : OnceEach(stream[s])

SpanInv == BufferedInv /\ DeliveredInv

BufferTypes ==
    /\ PENDING_SPAN \in [Threads -> Seq(Ids)] /\ span_ch \in [Threads -> Seq(Ids)]
    /\ PENDING_EVENT \in [Threads -> Seq(Message)] /\ event_ch \in [Threads -> Seq(Message)]
    /\ flushing \in [Threads -> {"no", "events", "spans"}]

FeedTypes ==
    /\ open \subseteq Ids
    /\ issued \in Seq([by : Threads, id : Ids])
    /\ emitted \in Log

ReaderTypes ==
    /\ poll \in {"events", "spans"}
    /\ subscription \in [Subscribers -> {"none", "live", "dropped", "pruned"}]
    /\ stream \in [Subscribers -> Seq(Record)]
    /\ read \in [Subscribers -> Nat]
    /\ \A s \in Subscribers : read[s] <= Len(stream[s])

TypeInv == BufferTypes /\ FeedTypes /\ ReaderTypes /\ SideTyped(side_events)

DriverInv == TypeInv /\ RoadInv /\ EventInv /\ SpanInv /\ SubscribersAgree

-----------------------------------------------------------------------------
(* What one message does to the events of a span                           *)

LEMMA LogEntries ==
    ASSUME NEW log \in Log
    PROVE  \A n \in 1 .. Len(log) : log[n].by \in Threads /\ log[n].to \in Ids
  <1> DEFINE E == [by : Threads, to : Ids]
  <1>1. log \in Seq(E)
    BY DEF Log
  <1> HIDE DEF E
  <1>2. \A n \in 1 .. Len(log) : log[n] \in E
    BY <1>1
  <1> QED  BY <1>2 DEF E

LEMMA OwnKept ==
    ASSUME NEW id, NEW events, NEW log, NEW road, NEW road2,
           Own(id, events, log, road),
           \A n \in 1 .. Len(log) : road2[log[n].by] \subseteq road[log[n].by]
    PROVE  Own(id, events, log, road2)
  BY DEF Own

LEMMA OwnLogged ==
    ASSUME NEW id, NEW events, NEW log \in Log, NEW entry \in [by : Threads, to : Ids],
           NEW road, NEW road2, Own(id, events, log, road),
           \A n \in 1 .. Len(log) : \A m \in road2[log[n].by] :
              m \in road[log[n].by] \/ m.event = Len(log) + 1
    PROVE  Own(id, events, Append(log, entry), road2)
  <1> DEFINE log2 == Append(log, entry)
  <1>1. /\ Len(log) \in Nat /\ Len(log2) = Len(log) + 1
        /\ \A n \in 1 .. Len(log) : log2[n] = log[n]
    BY DEF Log
  <1> HIDE DEF log2
  <1>2. \A j \in DOMAIN events : events[j] \in 1 .. Len(log)
    BY DEF Own, ToSet
  <1>3. InOrder(log2, events)
    BY <1>1, <1>2 DEF Own, InOrder
  <1>4. ASSUME NEW n \in ToSet(events)
        PROVE  n \in 1 .. Len(log2) /\ log2[n].to = id /\ \A m \in road2[log2[n].by] : n < m.event
    <2>1. n \in 1 .. Len(log) /\ log[n].to = id /\ \A m \in road[log[n].by] : n < m.event
      BY <1>4 DEF Own
    <2>2. log2[n] = log[n] /\ n < Len(log) + 1 /\ n \in 1 .. Len(log2)
      BY <1>1, <2>1
    <2> QED  BY <2>1, <2>2
  <1>5. Own(id, events, log2, road2)
    BY <1>3, <1>4 DEF Own
  <1> QED  BY <1>5 DEF log2

LEMMA OwnParked ==
    ASSUME NEW id, NEW events \in Seq(1 .. MaxEvents), NEW log, NEW road, NEW road2,
           NEW t, NEW msg \in Message,
           Own(id, events, log, road), Written(log, t, msg), msg.parent_actual_id = id,
           msg \in road[t],
           \A n \in 1 .. Len(log) : road2[log[n].by] \subseteq road[log[n].by],
           \A m \in road2[t] : msg.event < m.event
    PROVE  Own(id, Append(events, msg.event), log, road2)
  <1> DEFINE new == Append(events, msg.event)
  <1>1. /\ Len(events) \in Nat /\ DOMAIN events = 1 .. Len(events)
        /\ DOMAIN new = 1 .. Len(events) + 1 /\ new[Len(events) + 1] = msg.event
        /\ \A j \in 1 .. Len(events) : new[j] = events[j] /\ events[j] \in ToSet(events)
    BY DEF ToSet, Message
  <1>2. ToSet(new) = ToSet(events) \cup {msg.event}
    <2> DEFINE E == 1 .. MaxEvents
               e == msg.event
    <2>1. events \in Seq(E) /\ e \in E
      BY DEF Message
    <2> HIDE DEF E, e
    <2>2. ToSet(Append(events, e)) = ToSet(events) \cup {e}
      BY <2>1, AppendFacts
    <2> QED  BY <2>2 DEF e
  <1> HIDE DEF new
  <1>3. ASSUME NEW j \in DOMAIN new, NEW k \in DOMAIN new,
               j < k, log[new[j]].by = log[new[k]].by
        PROVE  new[j] < new[k]
    <2>1. j \in 1 .. Len(events) /\ j \in Int /\ k \in Int
      BY <1>1, <1>3
    <2>2. CASE k \in 1 .. Len(events)
      BY <1>1, <1>3, <2>1, <2>2 DEF Own, InOrder
    <2>3. CASE k = Len(events) + 1
      BY <1>1, <1>3, <2>1, <2>3 DEF Own, Written
    <2> QED  BY <1>1, <2>2, <2>3
  <1>4. ASSUME NEW n \in ToSet(new)
        PROVE  n \in 1 .. Len(log) /\ log[n].to = id /\ \A m \in road2[log[n].by] : n < m.event
    BY <1>2, <1>4 DEF Own, Written
  <1>5. Own(id, new, log, road2)
    BY <1>3, <1>4 DEF Own, InOrder
  <1> QED  BY <1>5 DEF new

LEMMA BehindParked ==
    ASSUME NEW id, NEW early, NEW events \in Seq(1 .. MaxEvents), NEW log, NEW road,
           NEW t, NEW msg \in Message,
           Own(id, early, log, road), Behind(early, events, log),
           Written(log, t, msg), msg \in road[t]
    PROVE  Behind(early, Append(events, msg.event), log)
  <1>1. ToSet(Append(events, msg.event)) = ToSet(events) \cup {msg.event}
    <2> DEFINE E == 1 .. MaxEvents
               e == msg.event
    <2>1. events \in Seq(E) /\ e \in E
      BY DEF Message
    <2> HIDE DEF E, e
    <2>2. ToSet(Append(events, e)) = ToSet(events) \cup {e}
      BY <2>1, AppendFacts
    <2> QED  BY <2>2 DEF e
  <1> QED  BY <1>1 DEF Behind, Own, Written

LEMMA MessageParked ==
    ASSUME DriverAssumption, NEW side, SideTyped(side), NEW records, NEW log, NEW road, NEW road2,
           EventsPlaced(side, records, log, road),
           NEW t, NEW msg \in Message, Written(log, t, msg), msg \in road[t],
           \A n \in 1 .. Len(log) : road2[log[n].by] \subseteq road[log[n].by],
           \A m \in road2[t] : msg.event < m.event
    PROVE  /\ SideTyped(Park(side, msg))
           /\ EventsPlaced(Park(side, msg), records, log, road2)
  <1> DEFINE new == Park(side, msg)
             at == msg.parent_actual_id
  <1>1. /\ SideTyped(new) /\ at \in DOMAIN new
        /\ new[at] = Append(EventsOf(side, at), msg.event)
        /\ \A id \in DOMAIN new \ {at} : id \in DOMAIN side /\ new[id] = side[id]
    BY OneParked
  <1> HIDE DEF new
  <1> DEFINE parked == EventsOf(side, at)
  <1>2. parked \in Seq(1 .. MaxEvents) /\ Own(at, parked, log, road)
    <2>1. CASE at \in DOMAIN side
      BY <2>1 DEF EventsOf, SideTyped, EventsPlaced
    <2>2. CASE at \notin DOMAIN side
      <3>1. parked = <<>>
        BY <2>2 DEF EventsOf
      <3> HIDE DEF parked
      <3>2. ToSet(parked) = {} /\ DOMAIN parked = {} /\ parked \in Seq(1 .. MaxEvents)
        BY <3>1 DEF ToSet
      <3> QED  BY <3>2 DEF Own, InOrder
    <2> QED  BY <2>1, <2>2
  <1>3. \A r \in records : Own(r.id, r.events, log, road) /\ Behind(r.events, EventsOf(side, r.id), log)
    BY DEF EventsPlaced
  <1>4. ASSUME NEW id \in DOMAIN new
        PROVE  Own(id, new[id], log, road2)
    <2>1. CASE id = at
      <3> HIDE DEF at, parked
      <3>1. Own(at, Append(parked, msg.event), log, road2)
        BY <1>2, OwnParked DEF at
      <3> QED  BY <1>1, <2>1, <3>1 DEF parked
    <2>2. CASE id # at
      <3>1. Own(id, new[id], log, road)
        BY <1>1, <2>2 DEF EventsPlaced
      <3> QED  BY <3>1, OwnKept
    <2> QED  BY <2>1, <2>2
  <1>5. ASSUME NEW r \in records
        PROVE  Own(r.id, r.events, log, road2) /\ Behind(r.events, EventsOf(new, r.id), log)
    <2>1. Own(r.id, r.events, log, road2)
      BY <1>3, OwnKept
    <2>2. CASE r.id = at
      <3>1. Behind(r.events, parked, log)
        BY <1>3, <2>2
      <3> HIDE DEF at, parked
      <3>2. Behind(r.events, Append(parked, msg.event), log)
        BY <1>2, <1>3, <3>1, BehindParked
      <3>3. EventsOf(new, r.id) = Append(parked, msg.event)
        BY <1>1, <2>2 DEF EventsOf, parked
      <3> QED  BY <2>1, <3>2, <3>3
    <2>3. CASE r.id # at
      <3>1. CASE r.id \in DOMAIN new
        BY <1>1, <1>3, <2>1, <2>3, <3>1 DEF EventsOf
      <3>2. CASE r.id \notin DOMAIN new
        <4>1. EventsOf(new, r.id) = <<>> /\ ToSet(<<>>) = {}
          BY <3>2 DEF EventsOf, ToSet
        <4> QED  BY <2>1, <4>1 DEF Behind
      <3> QED  BY <3>1, <3>2
    <2> QED  BY <2>2, <2>3
  <1>6. EventsPlaced(new, records, log, road2)
    BY <1>4, <1>5 DEF EventsPlaced
  <1> QED  BY <1>1, <1>6 DEF new

(* A batch: what comes after its first n messages, and after all of it.    *)
Ahead(batch, n) == {batch[j] : j \in n + 1 .. Len(batch)}

LEMMA BatchParked ==
    ASSUME DriverAssumption, NEW side, SideTyped(side), NEW records, NEW log \in Log, NEW road,
           EventsPlaced(side, records, log, road),
           NEW t \in Threads, NEW batch \in Seq(Message), NEW waiting,
           road = [u \in Threads |-> road[u]],
           road[t] = ToSet(batch) \cup waiting,
           \A m \in road[t] : Written(log, t, m),
           Increasing(batch),
           \A m \in ToSet(batch), n \in waiting : m.event < n.event
    PROVE  LET new == flush_event_batch(side, batch)
               road2 == [road EXCEPT ![t] = waiting]
           IN  SideTyped(new) /\ EventsPlaced(new, records, log, road2)
  <1> DEFINE p == Parking(side, batch)
             roadAt(n) == [road EXCEPT ![t] = Ahead(batch, n) \cup waiting]
             T == {n \in Nat : n <= Len(batch) =>
                      SideTyped(p[n]) /\ EventsPlaced(p[n], records, log, roadAt(n))}
  <1>1. /\ Len(batch) \in Nat /\ DOMAIN batch = 1 .. Len(batch)
        /\ \A j \in 1 .. Len(batch) : batch[j] \in Message /\ batch[j] \in ToSet(batch)
    BY DEF ToSet
  <1>2. /\ p[0] = side
        /\ \A i \in 1 .. Len(batch) : p[i] = Park(p[i - 1], batch[i])
    BY <1>1, ParkingEquation
  <1> HIDE DEF p
  <1>3. Ahead(batch, 0) = ToSet(batch)
    BY <1>1 DEF Ahead, ToSet
  <1>4. Ahead(batch, Len(batch)) = {}
    BY <1>1 DEF Ahead
  <1>5. 0 \in T
    <2>1. roadAt(0) = road
      BY <1>3
    <2> QED  BY <1>2, <2>1
  <1>6. ASSUME NEW n \in Nat, n \in T
        PROVE  n + 1 \in T
    <2> SUFFICES ASSUME n + 1 <= Len(batch)
                 PROVE  SideTyped(p[n + 1]) /\ EventsPlaced(p[n + 1], records, log, roadAt(n + 1))
      OBVIOUS
    <2> DEFINE msg == batch[n + 1]
    <2>1. /\ n <= Len(batch) /\ n + 1 \in 1 .. Len(batch) /\ (n + 1) - 1 = n
          /\ n + 1 \in n + 1 .. Len(batch)
      BY <1>1
    <2>2. SideTyped(p[n]) /\ EventsPlaced(p[n], records, log, roadAt(n))
      BY <1>6, <2>1
    <2>3. msg \in Message /\ msg \in ToSet(batch) /\ Written(log, t, msg)
      BY <1>1, <2>1
    <2>4. p[n + 1] = Park(p[n], msg)
      BY <1>2, <2>1
    <2>5. msg \in Ahead(batch, n) /\ Ahead(batch, n + 1) \subseteq Ahead(batch, n)
      BY <1>1, <2>1 DEF Ahead
    <2>6. \A m \in Ahead(batch, n + 1) : msg.event < m.event
      BY <1>1, <2>1 DEF Ahead, Increasing
    <2> DEFINE before == roadAt(n)
               after == roadAt(n + 1)
               side1 == p[n]
    <2>7. before[t] = Ahead(batch, n) \cup waiting /\ after[t] = Ahead(batch, n + 1) \cup waiting
      OBVIOUS
    <2>8. \A u \in Threads \ {t} : before[u] = road[u] /\ after[u] = road[u]
      OBVIOUS
    <2>9. \A i \in 1 .. Len(log) : log[i].by \in Threads
      BY LogEntries
    <2>10. EventsPlaced(side1, records, log, before) /\ SideTyped(side1)
      BY <2>2
    <2> HIDE DEF msg, before, after, side1
    <2>11. \A i \in 1 .. Len(log) : after[log[i].by] \subseteq before[log[i].by]
      BY <2>5, <2>7, <2>8, <2>9
    <2>12. msg \in before[t] /\ \A m \in after[t] : msg.event < m.event
      BY <2>3, <2>5, <2>6, <2>7
    <2>13. SideTyped(Park(side1, msg)) /\ EventsPlaced(Park(side1, msg), records, log, after)
      BY <2>3, <2>10, <2>11, <2>12, MessageParked
    <2> QED  BY <2>4, <2>13 DEF side1, after
  <1> HIDE DEF T
  <1>7. Len(batch) \in T
    BY <1>1, <1>5, <1>6, Induction
  <1>8. roadAt(Len(batch)) = [road EXCEPT ![t] = waiting]
    BY <1>4
  <1> QED  BY <1>1, <1>7, <1>8 DEF T, flush_event_batch, p

-----------------------------------------------------------------------------
(* Types                                                                   *)

LEMMA TypesImply == ASSUME TypeInv PROVE TypeOK
  <1>1. ASSUME NEW s \in Subscribers
        PROVE  read[s] \in 0 .. Len(stream[s])
    <2>1. stream[s] \in Seq(Record) /\ read[s] \in Nat /\ read[s] <= Len(stream[s])
      BY DEF TypeInv, ReaderTypes
    <2>2. Len(stream[s]) \in Nat
      BY <2>1
    <2> QED  BY ONLY <2>1, <2>2
  <1>2. \A ch \in {PENDING_EVENT, event_ch} :
          ch \in [Threads -> Seq([parent_actual_id : Ids, event : 1 .. MaxEvents])]
    BY DEF TypeInv, BufferTypes, Message
  <1> QED
    BY <1>1, <1>2 DEF TypeInv, TypeOK, BufferTypes, FeedTypes, ReaderTypes, SideTyped, Log

LEMMA RecordsPrepared ==
    ASSUME DriverAssumption, NEW side, SideTyped(side), NEW batch \in Seq(Ids)
    PROVE  LET prepared == [i \in DOMAIN batch |-> Attach(side, batch[i])]
           IN  /\ prepared \in Seq(Record) /\ Len(prepared) = Len(batch)
               /\ \A i \in 1 .. Len(batch) : /\ prepared[i].id = batch[i]
                                            /\ prepared[i].events = EventsOf(side, batch[i])
  <1> DEFINE prepared == [i \in DOMAIN batch |-> Attach(side, batch[i])]
  <1>1. Len(batch) \in Nat /\ DOMAIN batch = 1 .. Len(batch) /\ \A i \in 1 .. Len(batch) : batch[i] \in Ids
    OBVIOUS
  <1>2. \A id \in Ids : Attach(side, id) = [id |-> id, events |-> EventsOf(side, id)]
    BY DEF Attach, EventsOf
  <1>3. \A id \in Ids : EventsOf(side, id) \in Seq(1 .. MaxEvents)
    <2>1. <<>> \in Seq(1 .. MaxEvents)
      OBVIOUS
    <2>2. \A id \in DOMAIN side : side[id] \in Seq(1 .. MaxEvents)
      BY DEF SideTyped
    <2> QED  BY ONLY <2>1, <2>2 DEF EventsOf
  <1>4. \A id \in Ids : /\ Attach(side, id) \in Record
                       /\ Attach(side, id).id = id /\ Attach(side, id).events = EventsOf(side, id)
    <2> TAKE id \in Ids
    <2> DEFINE events == EventsOf(side, id)
    <2>1. events \in Seq(1 .. MaxEvents) /\ Attach(side, id) = [id |-> id, events |-> events]
      BY <1>2, <1>3
    <2> HIDE DEF events
    <2> QED  BY <2>1 DEF Record, events
  <1>5. \A i \in 1 .. Len(batch) : prepared[i] = Attach(side, batch[i])
    BY <1>1
  <1>6. prepared \in Seq(Record) /\ Len(prepared) = Len(batch)
    <2>1. prepared \in [1 .. Len(batch) -> Record]
      BY <1>1, <1>4
    <2> QED  BY <1>1, <2>1
  <1> QED  BY <1>1, <1>4, <1>5, <1>6

LEMMA InitTypes == ASSUME DriverAssumption, DriverInit PROVE TypeInv
  <1>1. BufferTypes
    BY DEF DriverInit, FeedInit, BuffersInit, BufferTypes
  <1>2. FeedTypes
    BY DEF DriverInit, FeedInit, FeedTypes, Log
  <1>3. ReaderTypes
    BY DEF DriverInit, ReaderTypes
  <1>4. SideTyped(side_events)
    <2>1. side_events = <<>> /\ DOMAIN <<>> = {}
      BY DEF DriverInit
    <2>2. IsFiniteSet({}) /\ Cardinality({}) = 0
      BY FS_EmptySet
    <2> QED  BY <2>1, <2>2 DEF SideTyped, DriverAssumption
  <1> QED  BY <1>1, <1>2, <1>3, <1>4 DEF TypeInv

LEMMA FeedTypeStep ==
    ASSUME DriverAssumption, BufferTypes, FeedTypes, FeedNext
    PROVE  BufferTypes' /\ FeedTypes'
  <1> PICK t \in Threads : \/ \E id \in Ids : Open(t, id) \/ Emit(t, id) \/ Close(t, id)
                          \/ Flush(t) \/ Exit(t)
    BY DEF FeedNext
  <1> USE DEF BufferTypes, FeedTypes
  <1>1. ASSUME NEW id \in Ids, Open(t, id)
        PROVE  BufferTypes' /\ FeedTypes'
    <2> DEFINE E == [by : Threads, id : Ids]
               entry == [by |-> t, id |-> id]
    <2>1. issued \in Seq(E) /\ entry \in E /\ issued' = Append(issued, entry)
      BY <1>1 DEF Open
    <2> HIDE DEF E, entry
    <2>2. issued' \in Seq(E)
      BY <2>1
    <2> QED  BY <1>1, <2>2 DEF Open, bufVars, E
  <1>2. ASSUME NEW id \in Ids, Emit(t, id)
        PROVE  BufferTypes' /\ FeedTypes'
    <2> DEFINE msg == [parent_actual_id |-> id, event |-> Len(emitted) + 1]
    <2>1. Len(emitted) \in Nat /\ MaxEvents \in Nat
      BY DEF Log, DriverAssumption
    <2>2. Len(emitted) + 1 \in 1 .. MaxEvents
      BY <1>2, <2>1 DEF Emit
    <2>3. msg \in Message
      BY <2>2 DEF Message
    <2>4. PENDING_EVENT' = [PENDING_EVENT EXCEPT ![t] = Append(PENDING_EVENT[t], msg)]
      BY <1>2 DEF Emit, PushEvent
    <2> HIDE DEF msg
    <2>5. PENDING_EVENT' \in [Threads -> Seq(Message)]
      BY <2>3, <2>4
    <2>6. emitted' \in Log
      <3> DEFINE entry == [by |-> t, to |-> id]
      <3>1. entry \in [by : Threads, to : Ids]
        OBVIOUS
      <3>2. emitted' = Append(emitted, entry)
        BY <1>2 DEF Emit
      <3> HIDE DEF entry
      <3> QED  BY <3>1, <3>2 DEF Log
    <2> QED  BY <1>2, <2>5, <2>6 DEF Emit, PushEvent, FlushIfFull
  <1>3. ASSUME NEW id \in Ids, Close(t, id)
        PROVE  BufferTypes' /\ FeedTypes'
    BY <1>3 DEF Close, PushSpan, FlushIfFull
  <1>4. CASE Flush(t)
    <2>1. CASE flush_pending(t)
      BY <1>4, <2>1 DEF Flush, flush_pending
    <2>2. CASE FlushEvents(t)
      <3>1. event_ch' = event_ch \/ event_ch' = [event_ch EXCEPT ![t] = event_ch[t] \o PENDING_EVENT[t]]
        BY <2>2 DEF FlushEvents, SendMany, Send, Refused
      <3> DEFINE sent == event_ch[t] \o PENDING_EVENT[t]
      <3>0. sent \in Seq(Message)
        OBVIOUS
      <3> HIDE DEF sent
      <3>2. event_ch' \in [Threads -> Seq(Message)]
        BY <3>0, <3>1 DEF sent
      <3>3. PENDING_EVENT' = [PENDING_EVENT EXCEPT ![t] = <<>>]
        BY <2>2 DEF FlushEvents
      <3>4. PENDING_EVENT' \in [Threads -> Seq(Message)]
        <4>1. <<>> \in Seq(Message)
          OBVIOUS
        <4> QED  BY <3>3, <4>1
      <3>5. flushing' \in [Threads -> {"no", "events", "spans"}]
        BY <2>2 DEF FlushEvents
      <3>6. UNCHANGED <<PENDING_SPAN, span_ch, open, issued, emitted>>
        BY <1>4, <2>2 DEF Flush, FlushEvents
      <3> QED  BY <3>2, <3>4, <3>5, <3>6
    <2>3. CASE FlushSpans(t)
      <3>1. span_ch' = span_ch \/ span_ch' = [span_ch EXCEPT ![t] = span_ch[t] \o PENDING_SPAN[t]]
        BY <2>3 DEF FlushSpans, SendMany, Send, Refused
      <3> DEFINE sent == span_ch[t] \o PENDING_SPAN[t]
      <3>0. sent \in Seq(Ids)
        OBVIOUS
      <3> HIDE DEF sent
      <3>2. span_ch' \in [Threads -> Seq(Ids)]
        BY <3>0, <3>1 DEF sent
      <3>3. PENDING_SPAN' = [PENDING_SPAN EXCEPT ![t] = <<>>]
        BY <2>3 DEF FlushSpans
      <3>4. PENDING_SPAN' \in [Threads -> Seq(Ids)]
        <4>1. <<>> \in Seq(Ids)
          OBVIOUS
        <4> QED  BY <3>3, <4>1
      <3>5. flushing' \in [Threads -> {"no", "events", "spans"}]
        BY <2>3 DEF FlushSpans
      <3>6. UNCHANGED <<PENDING_EVENT, event_ch, open, issued, emitted>>
        BY <1>4, <2>3 DEF Flush, FlushSpans
      <3> QED  BY <3>2, <3>4, <3>5, <3>6
    <2> QED  BY <1>4, <2>1, <2>2, <2>3 DEF Flush
  <1>5. CASE Exit(t)
    BY <1>5 DEF Exit, LosePending
  <1> QED  BY <1>1, <1>2, <1>3, <1>4, <1>5

LEMMA FanoutTypes ==
    ASSUME ReaderTypes, NEW prepared \in Seq(Record), fanout_under_lock(prepared),
           poll' \in {"events", "spans"}, UNCHANGED read
    PROVE  ReaderTypes'
  <1>1. PICK refusing \in SUBSET {s \in Subscribers : MayRefuse(s, prepared)} :
          stream' = [s \in Subscribers |->
                       IF subscription[s] = "live" /\ s \notin refusing
                       THEN stream[s] \o prepared ELSE stream[s]]
    BY DEF fanout_under_lock
  <1>2. \A s \in Subscribers : /\ stream[s] \in Seq(Record) /\ Len(stream[s]) \in Nat
                              /\ stream[s] \o prepared \in Seq(Record)
                              /\ Len(stream[s] \o prepared) >= Len(stream[s])
    BY DEF ReaderTypes
  <1>3. stream' \in [Subscribers -> Seq(Record)]
    BY <1>1, <1>2
  <1>4. ASSUME NEW s \in Subscribers
        PROVE  read'[s] <= Len(stream'[s])
    <2>1. stream'[s] = stream[s] \/ stream'[s] = stream[s] \o prepared
      BY <1>1
    <2>2. Len(stream'[s]) >= Len(stream[s]) /\ Len(stream'[s]) \in Nat
      BY <1>2, <1>3, <2>1
    <2> QED  BY <1>2, <2>2 DEF ReaderTypes
  <1>5. subscription' \in [Subscribers -> {"none", "live", "dropped", "pruned"}]
    BY DEF fanout_under_lock, ReaderTypes
  <1> QED  BY <1>3, <1>4, <1>5 DEF ReaderTypes

LEMMA WithoutTyped ==
    ASSUME NEW side, NEW ids, SideTyped(side), DriverAssumption
    PROVE  SideTyped(Without(side, ids))
  <1> DEFINE new == Without(side, ids)
  <1>1. DOMAIN new = DOMAIN side \ ids /\ \A id \in DOMAIN new : new[id] = side[id]
    BY DEF Without
  <1> HIDE DEF new
  <1>2. /\ IsFiniteSet(DOMAIN new)
        /\ Cardinality(DOMAIN new) \in Nat /\ Cardinality(DOMAIN side) \in Nat
        /\ Cardinality(DOMAIN new) <= Cardinality(DOMAIN side)
    <2>1. IsFiniteSet(DOMAIN side) /\ DOMAIN new \subseteq DOMAIN side
      BY <1>1 DEF SideTyped
    <2> QED  BY <2>1, FS_Subset, FS_CardinalityType
  <1> QED  BY <1>1, <1>2 DEF SideTyped, DriverAssumption, new

-----------------------------------------------------------------------------
(* The messages of a thread on their way                                   *)

LEMMA NothingSent ==
    /\ ToSet(<<>>) = {} /\ Increasing(<<>>) /\ IsInjective(<<>>)
    /\ \A S : <<>> \in Seq(S)
  <1>1. DOMAIN <<>> = {}
    OBVIOUS
  <1>2. ToSet(<<>>) = {}
    BY <1>1 DEF ToSet
  <1> QED  BY <1>1, <1>2 DEF Increasing, IsInjective

LEMMA RoadLogged ==
    ASSUME NEW t, NEW sent, NEW pending, NEW log \in Log, NEW entry \in [by : Threads, to : Ids],
           ThreadRoad(t, sent, pending, log)
    PROVE  ThreadRoad(t, sent, pending, Append(log, entry))
  <1> DEFINE log2 == Append(log, entry)
  <1>1. Len(log) \in Nat /\ Len(log2) = Len(log) + 1 /\ \A n \in 1 .. Len(log) : log2[n] = log[n]
    BY DEF Log
  <1> HIDE DEF log2
  <1>2. \A m \in ToSet(sent) \cup ToSet(pending) : Written(log2, t, m)
    BY <1>1 DEF ThreadRoad, Written
  <1>3. ThreadRoad(t, sent, pending, log2)
    BY <1>2 DEF ThreadRoad
  <1> QED  BY <1>3 DEF log2

LEMMA IncreasingAppend ==
    ASSUME NEW batch \in Seq(Message), NEW msg \in Message, Increasing(batch),
           \A m \in ToSet(batch) : m.event < msg.event
    PROVE  Increasing(Append(batch, msg)) /\ ToSet(Append(batch, msg)) = ToSet(batch) \cup {msg}
  <1> DEFINE new == Append(batch, msg)
  <1>1. /\ Len(batch) \in Nat /\ DOMAIN batch = 1 .. Len(batch)
        /\ DOMAIN new = 1 .. Len(batch) + 1 /\ new[Len(batch) + 1] = msg
        /\ \A i \in 1 .. Len(batch) : new[i] = batch[i] /\ batch[i] \in ToSet(batch)
    BY DEF ToSet
  <1>2. ToSet(new) = ToSet(batch) \cup {msg}
    BY AppendFacts
  <1> HIDE DEF new
  <1>3. ASSUME NEW i \in DOMAIN new, NEW j \in DOMAIN new, i < j
        PROVE  new[i].event < new[j].event
    <2>1. i \in 1 .. Len(batch) /\ (j \in 1 .. Len(batch) \/ j = Len(batch) + 1)
      BY <1>1, <1>3
    <2> QED  BY <1>1, <1>3, <2>1 DEF Increasing
  <1> QED  BY <1>2, <1>3 DEF Increasing, new

LEMMA IncreasingConcat ==
    ASSUME NEW sent \in Seq(Message), NEW pending \in Seq(Message),
           Increasing(sent), Increasing(pending),
           \A m \in ToSet(sent), n \in ToSet(pending) : m.event < n.event
    PROVE  Increasing(sent \o pending)
  <1> DEFINE new == sent \o pending
  <1>1. /\ Len(sent) \in Nat /\ DOMAIN sent = 1 .. Len(sent)
        /\ Len(pending) \in Nat /\ DOMAIN pending = 1 .. Len(pending)
        /\ DOMAIN new = 1 .. Len(sent) + Len(pending)
        /\ \A i \in 1 .. Len(sent) : new[i] = sent[i] /\ sent[i] \in ToSet(sent)
    BY DEF ToSet
  <1>2. \A i \in Len(sent) + 1 .. Len(sent) + Len(pending) :
           new[i] = pending[i - Len(sent)] /\ i - Len(sent) \in 1 .. Len(pending)
    BY <1>1
  <1>3. \A i \in 1 .. Len(pending) : pending[i] \in ToSet(pending)
    BY <1>1 DEF ToSet
  <1> HIDE DEF new
  <1>4. ASSUME NEW i \in DOMAIN new, NEW j \in DOMAIN new, i < j
        PROVE  new[i].event < new[j].event
    <2> DEFINE late == Len(sent) + 1 .. Len(sent) + Len(pending)
    <2>1. /\ i \in 1 .. Len(sent) \/ i \in late
          /\ j \in 1 .. Len(sent) \/ j \in late
          /\ i \in Int /\ j \in Int
      BY <1>1
    <2>2. CASE j \in 1 .. Len(sent)
      <3>1. i \in 1 .. Len(sent)
        BY <1>1, <1>4, <2>1, <2>2
      <3> QED  BY <1>1, <1>4, <2>2, <3>1 DEF Increasing
    <2>3. CASE j \in late /\ i \in 1 .. Len(sent)
      BY <1>1, <1>2, <1>3, <2>3
    <2>4. CASE j \in late /\ i \in late
      <3>1. i - Len(sent) < j - Len(sent)
        BY <1>1, <1>4, <2>1
      <3> QED  BY <1>1, <1>2, <2>4, <3>1 DEF Increasing
    <2> QED  BY <2>1, <2>2, <2>3, <2>4
  <1> QED  BY <1>4 DEF Increasing, new

LEMMA RoadPushed ==
    ASSUME NEW t, NEW sent, NEW pending \in Seq(Message), NEW log \in Log,
           NEW msg \in Message, NEW entry \in [by : Threads, to : Ids],
           ThreadRoad(t, sent, pending, log), msg.event = Len(log) + 1,
           entry.by = t, entry.to = msg.parent_actual_id
    PROVE  /\ ThreadRoad(t, sent, Append(pending, msg), Append(log, entry))
           /\ ToSet(Append(pending, msg)) = ToSet(pending) \cup {msg}
  <1> DEFINE log2 == Append(log, entry)
  <1>1. ThreadRoad(t, sent, pending, log2)
    BY RoadLogged
  <1>2. Written(log2, t, msg)
    <2>1. Len(log) \in Nat /\ Len(log2) = Len(log) + 1 /\ log2[Len(log) + 1] = entry
      BY DEF Log
    <2> HIDE DEF log2
    <2> QED  BY <2>1 DEF Written
  <1>3. \A m \in ToSet(sent) \cup ToSet(pending) : m.event < msg.event
    <2>1. Len(log) \in Nat
      BY DEF Log
    <2> QED  BY <2>1 DEF ThreadRoad, Written
  <1> HIDE DEF log2
  <1>4. Increasing(Append(pending, msg)) /\ ToSet(Append(pending, msg)) = ToSet(pending) \cup {msg}
    BY <1>3, IncreasingAppend DEF ThreadRoad
  <1>5. ThreadRoad(t, sent, Append(pending, msg), log2)
    BY <1>1, <1>2, <1>3, <1>4 DEF ThreadRoad
  <1> QED  BY <1>4, <1>5 DEF log2

LEMMA RoadSent ==
    ASSUME NEW t, NEW sent \in Seq(Message), NEW pending \in Seq(Message), NEW log,
           ThreadRoad(t, sent, pending, log)
    PROVE  /\ ThreadRoad(t, sent \o pending, <<>>, log)
           /\ ThreadRoad(t, sent, <<>>, log)
           /\ ThreadRoad(t, <<>>, pending, log)
           /\ ToSet(sent \o pending) = ToSet(sent) \cup ToSet(pending)
  <1>1. ToSet(sent \o pending) = ToSet(sent) \cup ToSet(pending)
    BY ConcatSet
  <1>2. Increasing(sent \o pending)
    BY IncreasingConcat DEF ThreadRoad
  <1> QED  BY <1>1, <1>2, NothingSent DEF ThreadRoad

-----------------------------------------------------------------------------
(* What the producers do to the events                                     *)

RoadShrinks == emitted' = emitted /\ \A t \in Threads : Road'[t] \subseteq Road[t]

RoadGrows ==
    \E entry \in [by : Threads, to : Ids] :
        /\ emitted' = Append(emitted, entry)
        /\ \A t \in Threads : \A m \in Road'[t] : m \in Road[t] \/ m.event = Len(emitted) + 1

LEMMA FeedRoadStep ==
    ASSUME DriverAssumption, BufferTypes, FeedTypes, RoadInv, FeedNext
    PROVE  RoadInv' /\ (RoadShrinks \/ RoadGrows)
  <1> PICK t \in Threads : \/ \E id \in Ids : Open(t, id) \/ Emit(t, id) \/ Close(t, id)
                          \/ Flush(t) \/ Exit(t)
    BY DEF FeedNext
  <1>a. /\ emitted \in Log
        /\ \A u \in Threads : event_ch[u] \in Seq(Message) /\ PENDING_EVENT[u] \in Seq(Message)
    BY DEF BufferTypes, FeedTypes
  <1>b. \A u \in Threads : ThreadRoad(u, event_ch[u], PENDING_EVENT[u], emitted)
    BY DEF RoadInv
  <1>c. \A u \in Threads :
          /\ ThreadRoad(u, event_ch[u] \o PENDING_EVENT[u], <<>>, emitted)
          /\ ThreadRoad(u, event_ch[u], <<>>, emitted)
          /\ ToSet(event_ch[u] \o PENDING_EVENT[u]) = ToSet(event_ch[u]) \cup ToSet(PENDING_EVENT[u])
    <2> TAKE u \in Threads
    <2> DEFINE sent == event_ch[u]
               pending == PENDING_EVENT[u]
    <2>1. sent \in Seq(Message) /\ pending \in Seq(Message) /\ ThreadRoad(u, sent, pending, emitted)
      BY <1>a, <1>b
    <2> HIDE DEF sent, pending
    <2>2. /\ ThreadRoad(u, sent \o pending, <<>>, emitted)
          /\ ThreadRoad(u, sent, <<>>, emitted)
          /\ ToSet(sent \o pending) = ToSet(sent) \cup ToSet(pending)
      BY <2>1, RoadSent
    <2> QED  BY <2>2 DEF sent, pending
  <1>0. CASE UNCHANGED <<PENDING_EVENT, event_ch, emitted>>
    BY <1>0 DEF RoadInv, RoadShrinks, Road
  <1>1. ASSUME NEW id \in Ids, Emit(t, id)
        PROVE  RoadInv' /\ RoadGrows
    <2> DEFINE msg == [parent_actual_id |-> id, event |-> Len(emitted) + 1]
               entry == [by |-> t, to |-> id]
               grown == Append(PENDING_EVENT[t], msg)
    <2>1. Len(emitted) + 1 \in 1 .. MaxEvents
      <3>1. Len(emitted) \in Nat /\ MaxEvents \in Nat /\ Len(emitted) < MaxEvents
        BY <1>1, <1>a DEF Log, DriverAssumption, Emit
      <3> QED  BY <3>1
    <2>2. /\ entry \in [by : Threads, to : Ids]
          /\ ThreadRoad(t, event_ch[t], grown, Append(emitted, entry))
          /\ ToSet(grown) = ToSet(PENDING_EVENT[t]) \cup {msg}
      <3> DEFINE sent == event_ch[t]
                 pending == PENDING_EVENT[t]
      <3>1. pending \in Seq(Message) /\ ThreadRoad(t, sent, pending, emitted)
        BY <1>a, <1>b
      <3> HIDE DEF sent, pending
      <3>2. msg \in Message /\ entry \in [by : Threads, to : Ids]
        BY <2>1 DEF Message
      <3>3. msg.event = Len(emitted) + 1 /\ entry.by = t /\ entry.to = msg.parent_actual_id
        OBVIOUS
      <3> HIDE DEF msg, entry
      <3>4. /\ ThreadRoad(t, sent, Append(pending, msg), Append(emitted, entry))
            /\ ToSet(Append(pending, msg)) = ToSet(pending) \cup {msg}
        <4>1. emitted \in Log
          BY <1>a
        <4> DEFINE log == emitted
        <4> HIDE DEF log
        <4>2. log \in Log /\ ThreadRoad(t, sent, pending, log) /\ msg.event = Len(log) + 1
          BY <4>1, <3>1, <3>3 DEF log
        <4>3. /\ ThreadRoad(t, sent, Append(pending, msg), Append(log, entry))
              /\ ToSet(Append(pending, msg)) = ToSet(pending) \cup {msg}
          BY ONLY <4>2, <3>1, <3>2, <3>3, RoadPushed
        <4> QED  BY <4>3 DEF log
      <3> QED  BY <3>2, <3>4 DEF sent, pending
    <2>3. /\ PENDING_EVENT' = [PENDING_EVENT EXCEPT ![t] = grown]
          /\ event_ch' = event_ch /\ emitted' = Append(emitted, entry)
      BY <1>1 DEF Emit, PushEvent
    <2>4. msg.event = Len(emitted) + 1
      OBVIOUS
    <2> HIDE DEF entry, grown, msg
    <2>5. /\ PENDING_EVENT'[t] = grown
          /\ \A u \in Threads \ {t} : PENDING_EVENT'[u] = PENDING_EVENT[u]
      BY <2>3 DEF BufferTypes
    <2>6. ASSUME NEW u \in Threads
          PROVE  ThreadRoad(u, event_ch'[u], PENDING_EVENT'[u], emitted')
      <3>1. CASE u = t
        BY <2>2, <2>3, <2>5, <3>1
      <3>2. CASE u # t
        BY <1>a, <1>b, <2>2, <2>3, <2>5, <3>2, RoadLogged
      <3> QED  BY <3>1, <3>2
    <2>7. \A u \in Threads : \A m \in Road'[u] : m \in Road[u] \/ m.event = Len(emitted) + 1
      <3> TAKE u \in Threads
      <3>1. Road'[u] = ToSet(event_ch'[u]) \cup ToSet(PENDING_EVENT'[u])
        BY DEF Road
      <3>2. Road[u] = ToSet(event_ch[u]) \cup ToSet(PENDING_EVENT[u])
        BY DEF Road
      <3>3. CASE u = t
        BY <2>2, <2>3, <2>4, <2>5, <3>1, <3>2, <3>3
      <3>4. CASE u # t
        BY <2>3, <2>5, <3>1, <3>2, <3>4
      <3> QED  BY <3>3, <3>4
    <2> QED  BY <2>2, <2>3, <2>6, <2>7 DEF RoadInv, RoadGrows
  <1>2. CASE FlushEvents(t) /\ UNCHANGED emitted
    <2>1. /\ PENDING_EVENT' = [PENDING_EVENT EXCEPT ![t] = <<>>]
          /\ event_ch' = event_ch \/ event_ch' = [event_ch EXCEPT ![t] = event_ch[t] \o PENDING_EVENT[t]]
      BY <1>2 DEF FlushEvents, SendMany, Send, Refused
    <2>2. /\ PENDING_EVENT'[t] = <<>>
          /\ event_ch'[t] = event_ch[t] \/ event_ch'[t] = event_ch[t] \o PENDING_EVENT[t]
          /\ \A u \in Threads \ {t} : PENDING_EVENT'[u] = PENDING_EVENT[u] /\ event_ch'[u] = event_ch[u]
      BY <2>1 DEF BufferTypes
    <2>3. \A u \in Threads : ThreadRoad(u, event_ch'[u], PENDING_EVENT'[u], emitted')
      BY <1>2, <1>b, <1>c, <2>2
    <2>4. \A u \in Threads : Road'[u] \subseteq Road[u]
      BY <1>c, <2>2, NothingSent DEF Road
    <2> QED  BY <1>2, <2>3, <2>4 DEF RoadInv, RoadShrinks
  <1>3. CASE Exit(t)
    <2>1. /\ PENDING_EVENT' = [PENDING_EVENT EXCEPT ![t] = <<>>]
          /\ event_ch' = event_ch /\ emitted' = emitted
      BY <1>3 DEF Exit, LosePending
    <2>2. /\ PENDING_EVENT'[t] = <<>>
          /\ \A u \in Threads \ {t} : PENDING_EVENT'[u] = PENDING_EVENT[u]
      BY <2>1 DEF BufferTypes
    <2>3. \A u \in Threads : ThreadRoad(u, event_ch'[u], PENDING_EVENT'[u], emitted')
      BY <1>b, <1>c, <2>1, <2>2
    <2>4. \A u \in Threads : Road'[u] \subseteq Road[u]
      BY <2>1, <2>2, NothingSent DEF Road
    <2> QED  BY <2>1, <2>3, <2>4 DEF RoadInv, RoadShrinks
  <1>4. \/ UNCHANGED <<PENDING_EVENT, event_ch, emitted>>
        \/ \E id \in Ids : Emit(t, id)
        \/ FlushEvents(t) /\ UNCHANGED emitted
        \/ Exit(t)
    BY DEF Open, bufVars, Close, PushSpan, Flush, flush_pending, FlushSpans
  <1> QED  BY <1>0, <1>1, <1>2, <1>3, <1>4

LEMMA FeedEventStep ==
    ASSUME FeedTypes, EventInv, RoadShrinks \/ RoadGrows, UNCHANGED <<side_events, stream>>
    PROVE  EventInv'
  <1>1. Records' = Records /\ side_events' = side_events /\ emitted \in Log
    BY DEF Records, FeedTypes
  <1>2. \A n \in 1 .. Len(emitted) : emitted[n].by \in Threads
    BY <1>1, LogEntries
  <1>3. CASE RoadShrinks
    <2> DEFINE road == Road
               road2 == Road'
    <2>1. \A n \in 1 .. Len(emitted) : road2[emitted[n].by] \subseteq road[emitted[n].by]
      BY <1>2, <1>3 DEF RoadShrinks
    <2>2. EventsPlaced(side_events, Records, emitted, road)
      BY DEF EventInv
    <2> HIDE DEF road, road2
    <2>3. EventsPlaced(side_events, Records, emitted, road2)
      BY <2>1, <2>2, OwnKept DEF EventsPlaced
    <2> QED  BY <1>1, <1>3, <2>3 DEF EventInv, RoadShrinks, road2
  <1>4. CASE RoadGrows
    <2>1. PICK entry \in [by : Threads, to : Ids] :
            /\ emitted' = Append(emitted, entry)
            /\ \A t \in Threads : \A m \in Road'[t] : m \in Road[t] \/ m.event = Len(emitted) + 1
      BY <1>4 DEF RoadGrows
    <2> DEFINE road == Road
               road2 == Road'
               log == emitted
               log2 == Append(emitted, entry)
    <2>2. \A n \in 1 .. Len(log) : \A m \in road2[log[n].by] :
             m \in road[log[n].by] \/ m.event = Len(log) + 1
      BY <1>2, <2>1
    <2>3. EventsPlaced(side_events, Records, log, road)
      BY DEF EventInv
    <2>4. \A n \in 1 .. Len(log) : log2[n] = log[n]
      BY <1>1 DEF Log
    <2> HIDE DEF road, road2
    <2>5. \A id \in DOMAIN side_events : Own(id, side_events[id], log2, road2)
      BY <1>1, <2>2, <2>3, OwnLogged DEF EventsPlaced
    <2>6. ASSUME NEW r \in Records
          PROVE  Own(r.id, r.events, log2, road2) /\ Behind(r.events, EventsOf(side_events, r.id), log2)
      <3>1. Own(r.id, r.events, log, road) /\ Behind(r.events, EventsOf(side_events, r.id), log)
        BY <2>3 DEF EventsPlaced
      <3>2. Own(r.id, r.events, log2, road2)
        BY <1>1, <2>2, <3>1, OwnLogged
      <3>3. \A n \in ToSet(EventsOf(side_events, r.id)) : n \in 1 .. Len(log)
        BY <2>3, NothingSent DEF EventsPlaced, EventsOf, Own
      <3>4. \A n \in ToSet(r.events) : n \in 1 .. Len(log)
        BY <3>1 DEF Own
      <3> HIDE DEF log, log2
      <3> QED  BY <2>4, <3>1, <3>2, <3>3, <3>4 DEF Behind
    <2>7. EventsPlaced(side_events, Records, log2, road2)
      BY <2>5, <2>6 DEF EventsPlaced
    <2> QED  BY <1>1, <2>1, <2>7 DEF EventInv, road2
  <1> QED  BY <1>3, <1>4

-----------------------------------------------------------------------------
(* What the driver does to the events                                      *)

LEMMA PollEventsStep ==
    ASSUME DriverAssumption, TypeInv, RoadInv, EventInv, PollEvents
    PROVE  TypeInv' /\ RoadInv' /\ EventInv'
  <1>a. /\ BufferTypes /\ FeedTypes /\ ReaderTypes /\ SideTyped(side_events) /\ emitted \in Log
        /\ poll' \in {"events", "spans"}
        /\ UNCHANGED <<PENDING_SPAN, PENDING_EVENT, span_ch, flushing, open, issued,
                       emitted, subscription, stream, read>>
    BY DEF TypeInv, FeedTypes, ReaderTypes, PollEvents, consumerVars
  <1>b. FeedTypes' /\ ReaderTypes' /\ Records' = Records
    BY <1>a DEF FeedTypes, ReaderTypes, Records
  <1>1. CASE UNCHANGED <<side_events, event_ch>>
    <2>1. BufferTypes' /\ SideTyped(side_events')
      BY <1>1, <1>a DEF BufferTypes
    <2>2. Road' = Road /\ RoadInv'
      BY <1>1, <1>a DEF Road, RoadInv
    <2>3. EventInv'
      BY <1>1, <1>a, <1>b, <2>2 DEF EventInv
    <2> QED  BY <1>b, <2>1, <2>2, <2>3 DEF TypeInv
  <1>2. ASSUME NEW t \in Threads,
               side_events' = flush_event_batch(side_events, event_ch[t]),
               event_ch' = [event_ch EXCEPT ![t] = <<>>]
        PROVE  TypeInv' /\ RoadInv' /\ EventInv'
    <2> DEFINE batch == event_ch[t]
               waiting == ToSet(PENDING_EVENT[t])
               road == Road
               road2 == [road EXCEPT ![t] = waiting]
    <2>1. /\ event_ch'[t] = <<>> /\ \A u \in Threads \ {t} : event_ch'[u] = event_ch[u]
          /\ \A u \in Threads : PENDING_EVENT'[u] = PENDING_EVENT[u]
          /\ batch \in Seq(Message) /\ PENDING_EVENT[t] \in Seq(Message)
      BY <1>2, <1>a DEF BufferTypes
    <2>2. BufferTypes'
      <3>1. <<>> \in Seq(Message)
        BY NothingSent
      <3>2. event_ch' \in [Threads -> Seq(Message)]
        BY <1>2, <1>a, <3>1 DEF BufferTypes
      <3> QED  BY <1>a, <3>2 DEF BufferTypes
    <2>3. \A u \in Threads : ThreadRoad(u, event_ch[u], PENDING_EVENT[u], emitted)
      BY DEF RoadInv
    <2>4. RoadInv'
      <3>1. ThreadRoad(t, <<>>, PENDING_EVENT[t], emitted)
        BY <2>1, <2>3, RoadSent
      <3> QED  BY <1>a, <2>1, <2>3, <3>1 DEF RoadInv
    <2>5. /\ road = [u \in Threads |-> road[u]]
          /\ road[t] = ToSet(batch) \cup waiting
          /\ \A m \in road[t] : Written(emitted, t, m)
          /\ Increasing(batch)
          /\ \A m \in ToSet(batch), n \in waiting : m.event < n.event
      BY <2>3 DEF Road, ThreadRoad
    <2>6. EventsPlaced(side_events, Records, emitted, road)
      BY DEF EventInv
    <2>7. Road' = road2
      <3>1. \A u \in Threads : Road'[u] = road2[u]
        BY <2>1, NothingSent DEF Road
      <3>2. Road' = [u \in Threads |-> Road'[u]] /\ road2 = [u \in Threads |-> road2[u]]
        BY DEF Road
      <3> QED  BY ONLY <3>1, <3>2
    <2> DEFINE new == flush_event_batch(side_events, batch)
    <2>8. SideTyped(new) /\ EventsPlaced(new, Records, emitted, road2)
      <3> DEFINE side == side_events
                 records == Records
                 log == emitted
      <3>1. /\ SideTyped(side) /\ log \in Log /\ EventsPlaced(side, records, log, road)
            /\ batch \in Seq(Message) /\ \A m \in road[t] : Written(log, t, m)
        BY <1>a, <2>1, <2>5, <2>6
      <3> HIDE DEF side, records, log, batch, waiting, road
      <3>2. /\ SideTyped(flush_event_batch(side, batch))
            /\ EventsPlaced(flush_event_batch(side, batch), records, log, [road EXCEPT ![t] = waiting])
        BY ONLY <2>5, <3>1, t \in Threads, DriverAssumption, BatchParked
      <3> QED  BY <3>2 DEF side, records, log
    <2> HIDE DEF road2
    <2>9. EventInv' /\ SideTyped(side_events')
      BY <1>2, <1>a, <1>b, <2>7, <2>8 DEF EventInv
    <2> QED  BY <1>b, <2>2, <2>4, <2>9 DEF TypeInv
  <1> QED  BY <1>1, <1>2 DEF PollEvents

LEMMA FanoutRecords ==
    ASSUME ReaderTypes, NEW prepared \in Seq(Record), fanout_under_lock(prepared)
    PROVE  /\ \A s \in Subscribers : stream'[s] = stream[s] \/ stream'[s] = stream[s] \o prepared
           /\ Records' \subseteq Records \cup ToSet(prepared)
  <1>1. \A s \in Subscribers : stream'[s] = stream[s] \/ stream'[s] = stream[s] \o prepared
    BY DEF fanout_under_lock
  <1>2. ASSUME NEW s \in Subscribers
        PROVE  ToSet(stream'[s]) \subseteq ToSet(stream[s]) \cup ToSet(prepared)
    <2> DEFINE old == stream[s]
    <2>1. old \in Seq(Record)
      BY DEF ReaderTypes
    <2> HIDE DEF old
    <2>2. ToSet(old \o prepared) = ToSet(old) \cup ToSet(prepared)
      BY <2>1, ConcatSet
    <2> QED  BY <1>1, <2>2 DEF old
  <1> QED  BY <1>1, <1>2 DEF Records

LEMMA EventsDelivered ==
    ASSUME NEW side, SideTyped(side), NEW batch \in Seq(Ids), DriverAssumption,
           NEW records, NEW records2, NEW log, NEW road, EventsPlaced(side, records, log, road),
           records2 \subseteq records \cup ToSet([i \in DOMAIN batch |-> Attach(side, batch[i])])
    PROVE  EventsPlaced(Without(side, ToSet(batch)), records2, log, road)
  <1> DEFINE prepared == [i \in DOMAIN batch |-> Attach(side, batch[i])]
             new == Without(side, ToSet(batch))
  <1>1. /\ DOMAIN new = DOMAIN side \ ToSet(batch)
        /\ \A id \in DOMAIN new : new[id] = side[id]
    BY DEF Without
  <1>2. ASSUME NEW r \in ToSet(prepared)
        PROVE  r.id \in ToSet(batch) /\ r.events = EventsOf(side, r.id)
    <2>1. PICK i \in DOMAIN batch : r = Attach(side, batch[i])
      BY DEF ToSet
    <2>2. r.id = batch[i] /\ r.events = EventsOf(side, batch[i])
      BY <2>1 DEF Attach, EventsOf
    <2> QED  BY <2>2 DEF ToSet
  <1> HIDE DEF prepared, new
  <1>3. \A id \in DOMAIN new : Own(id, new[id], log, road)
    BY <1>1 DEF EventsPlaced
  <1>4. ASSUME NEW r \in records2
        PROVE  Own(r.id, r.events, log, road) /\ Behind(r.events, EventsOf(new, r.id), log)
    <2>1. CASE r \in records
      <3>1. Own(r.id, r.events, log, road) /\ Behind(r.events, EventsOf(side, r.id), log)
        BY <2>1 DEF EventsPlaced
      <3>2. EventsOf(new, r.id) = EventsOf(side, r.id) \/ EventsOf(new, r.id) = <<>>
        BY <1>1 DEF EventsOf
      <3> QED  BY <3>1, <3>2, NothingSent DEF Behind
    <2>2. CASE r \in ToSet(prepared)
      <3>1. r.id \in ToSet(batch) /\ r.events = EventsOf(side, r.id)
        BY <1>2, <2>2
      <3>2. EventsOf(new, r.id) = <<>>
        BY <1>1, <3>1 DEF EventsOf
      <3>3. CASE r.id \in DOMAIN side
        BY <3>1, <3>2, <3>3, NothingSent DEF EventsPlaced, EventsOf, Behind
      <3>4. CASE r.id \notin DOMAIN side
        <4>1. r.events = <<>> /\ DOMAIN <<>> = {}
          BY <3>1, <3>4 DEF EventsOf
        <4> QED  BY <3>2, <4>1, NothingSent DEF Own, InOrder, Behind
      <3> QED  BY <3>3, <3>4
    <2> QED  BY <2>1, <2>2 DEF prepared
  <1> QED  BY <1>3, <1>4 DEF EventsPlaced, new

-----------------------------------------------------------------------------
(* What the producers do to the spans                                      *)

SpansShrink ==
    /\ UNCHANGED <<open, issued>>
    /\ \A t \in Threads : /\ Buffered(t)' \subseteq Buffered(t)
                          /\ OneCopy(PENDING_SPAN'[t], span_ch'[t])

LEMMA ShrinkStep ==
    ASSUME BufferedInv, SpansShrink
    PROVE  BufferedInv'
  <1>1. IssuedIds' = IssuedIds /\ open' = open
    BY DEF SpansShrink, IssuedIds
  <1>2. ASSUME NEW t \in Threads, NEW u \in Threads \ {t}
        PROVE  Buffered(t)' \cap Buffered(u)' = {}
    <2>1. Buffered(t) \cap Buffered(u) = {}
      BY DEF BufferedInv
    <2>2. Buffered(t)' \subseteq Buffered(t) /\ Buffered(u)' \subseteq Buffered(u)
      BY DEF SpansShrink
    <2> QED  BY <2>1, <2>2
  <1>3. \A t \in Threads : Buffered(t)' \subseteq IssuedIds' \ open'
    BY <1>1 DEF BufferedInv, SpansShrink
  <1> QED  BY <1>1, <1>2, <1>3 DEF BufferedInv, SpansShrink

SpanOpens(id) ==
    /\ id \notin IssuedIds /\ open' = open \cup {id} /\ IssuedIds' = IssuedIds \cup {id}
    /\ UNCHANGED <<PENDING_SPAN, span_ch>>

SpanCloses(t, id) ==
    /\ id \in open /\ open' = open \ {id} /\ issued' = issued
    /\ Buffered(t)' = Buffered(t) \cup {id}
    /\ \A u \in Threads \ {t} : Buffered(u)' = Buffered(u)
    /\ \A u \in Threads : OneCopy(PENDING_SPAN'[u], span_ch'[u])

LEMMA FeedSpanEffect ==
    ASSUME BufferTypes, FeedTypes, BufferedInv, FeedNext
    PROVE  \/ SpansShrink
           \/ \E id \in Ids : SpanOpens(id)
           \/ \E t \in Threads, id \in Ids : SpanCloses(t, id)
  <1> PICK t \in Threads : \/ \E id \in Ids : Open(t, id) \/ Emit(t, id) \/ Close(t, id)
                          \/ Flush(t) \/ Exit(t)
    BY DEF FeedNext
  <1>b. \A u \in Threads : /\ PENDING_SPAN[u] \in Seq(Ids) /\ span_ch[u] \in Seq(Ids)
                          /\ OneCopy(PENDING_SPAN[u], span_ch[u])
                          /\ OneCopy(<<>>, span_ch[u])
    BY NothingSent DEF BufferTypes, BufferedInv, OneCopy
  <1>1. CASE UNCHANGED <<PENDING_SPAN, span_ch, open, issued>>
    BY <1>1, <1>b DEF SpansShrink, Buffered
  <1>2. ASSUME NEW id \in Ids, Open(t, id)
        PROVE  SpanOpens(id)
    <2>1. /\ \A i \in DOMAIN issued : issued[i].id # id
          /\ open' = open \cup {id}
          /\ issued' = Append(issued, [by |-> t, id |-> id])
          /\ UNCHANGED <<PENDING_SPAN, span_ch>>
      BY <1>2 DEF Open, bufVars
    <2>2. id \notin IssuedIds
      BY <2>1 DEF IssuedIds
    <2>3. IssuedIds' = IssuedIds \cup {id}
      <3> DEFINE entry == [by |-> t, id |-> id]
                 log == issued
                 log2 == Append(log, entry)
      <3>1. log \in Seq([by : Threads, id : Ids]) /\ entry.id = id
        BY DEF FeedTypes
      <3> HIDE DEF entry, log
      <3>2. /\ Len(log) \in Nat /\ DOMAIN log = 1 .. Len(log) /\ DOMAIN log2 = 1 .. Len(log) + 1
            /\ \A i \in 1 .. Len(log) : log2[i] = log[i]
            /\ log2[Len(log) + 1] = entry
        BY <3>1
      <3> HIDE DEF log2
      <3>3. {log2[i].id : i \in DOMAIN log2} = {log[i].id : i \in DOMAIN log} \cup {id}
        <4>1. ASSUME NEW x \in {log2[i].id : i \in DOMAIN log2}
              PROVE  x \in {log[i].id : i \in DOMAIN log} \cup {id}
          BY <3>1, <3>2
        <4>2. ASSUME NEW x \in {log[i].id : i \in DOMAIN log}
              PROVE  x \in {log2[i].id : i \in DOMAIN log2}
          BY <3>2
        <4>3. id \in {log2[i].id : i \in DOMAIN log2}
          <5>1. Len(log) + 1 \in DOMAIN log2 /\ log2[Len(log) + 1].id = id
            BY <3>1, <3>2
          <5> QED  BY <5>1
        <4> QED  BY <4>1, <4>2, <4>3
      <3> QED  BY <2>1, <3>3 DEF IssuedIds, log, log2, entry
    <2> QED  BY <2>1, <2>2, <2>3 DEF SpanOpens
  <1>3. ASSUME NEW id \in Ids, Close(t, id)
        PROVE  SpanCloses(t, id)
    <2> DEFINE old == PENDING_SPAN[t]
               new == Append(old, id)
    <2>1. /\ id \in open /\ open' = open \ {id} /\ issued' = issued
          /\ span_ch' = span_ch /\ PENDING_SPAN' = [PENDING_SPAN EXCEPT ![t] = new]
      BY <1>3 DEF Close, PushSpan
    <2>2. \A u \in Threads : id \notin Buffered(u)
      BY <2>1 DEF BufferedInv
    <2>3. old \in Seq(Ids) /\ IsInjective(old) /\ id \notin ToSet(old)
      BY <1>b, <2>2 DEF OneCopy, Buffered
    <2> HIDE DEF old
    <2>4. IsInjective(new) /\ ToSet(new) = ToSet(old) \cup {id}
      BY <2>3, AppendFacts
    <2> HIDE DEF new
    <2>5. PENDING_SPAN'[t] = new /\ \A u \in Threads \ {t} : PENDING_SPAN'[u] = PENDING_SPAN[u]
      BY <2>1 DEF BufferTypes
    <2>6. Buffered(t)' = Buffered(t) \cup {id} /\ \A u \in Threads \ {t} : Buffered(u)' = Buffered(u)
      BY <2>1, <2>4, <2>5 DEF Buffered, old
    <2>7. \A u \in Threads : OneCopy(PENDING_SPAN'[u], span_ch'[u])
      BY <1>b, <2>1, <2>2, <2>4, <2>5 DEF OneCopy, Buffered, old
    <2> QED  BY <2>1, <2>6, <2>7 DEF SpanCloses
  <1>4. CASE FlushSpans(t) /\ UNCHANGED <<open, issued>>
    <2> DEFINE pending == PENDING_SPAN[t]
               sent == span_ch[t]
    <2>1. /\ PENDING_SPAN' = [PENDING_SPAN EXCEPT ![t] = <<>>]
          /\ span_ch' = span_ch \/ span_ch' = [span_ch EXCEPT ![t] = sent \o pending]
      BY <1>4 DEF FlushSpans, SendMany, Send, Refused
    <2>2. /\ PENDING_SPAN'[t] = <<>>
          /\ span_ch'[t] = sent \/ span_ch'[t] = sent \o pending
          /\ \A u \in Threads \ {t} : PENDING_SPAN'[u] = PENDING_SPAN[u] /\ span_ch'[u] = span_ch[u]
      BY <2>1 DEF BufferTypes
    <2>3. pending \in Seq(Ids) /\ sent \in Seq(Ids) /\ OneCopy(pending, sent)
      BY <1>b
    <2> HIDE DEF pending, sent
    <2>4. IsInjective(sent \o pending) /\ ToSet(sent \o pending) = ToSet(sent) \cup ToSet(pending)
      BY <2>3, ConcatFacts DEF OneCopy
    <2>5. OneCopy(<<>>, sent) /\ OneCopy(<<>>, sent \o pending)
      BY <2>3, <2>4, NothingSent DEF OneCopy
    <2>6. SpansShrink
      <3>1. \A u \in Threads : OneCopy(PENDING_SPAN'[u], span_ch'[u])
        BY <1>b, <2>2, <2>5
      <3>2. \A u \in Threads : Buffered(u)' \subseteq Buffered(u)
        BY <2>2, <2>4, NothingSent DEF Buffered, pending, sent
      <3> QED  BY <1>4, <3>1, <3>2 DEF SpansShrink
    <2> QED  BY <2>6
  <1>5. CASE Exit(t)
    <2>1. /\ PENDING_SPAN' = [PENDING_SPAN EXCEPT ![t] = <<>>]
          /\ UNCHANGED <<span_ch, open, issued>>
      BY <1>5 DEF Exit, LosePending
    <2>2. PENDING_SPAN'[t] = <<>> /\ \A u \in Threads \ {t} : PENDING_SPAN'[u] = PENDING_SPAN[u]
      BY <2>1 DEF BufferTypes
    <2>3. SpansShrink
      <3>1. \A u \in Threads : OneCopy(PENDING_SPAN'[u], span_ch'[u])
        BY <1>b, <2>1, <2>2
      <3>2. \A u \in Threads : Buffered(u)' \subseteq Buffered(u)
        BY <2>1, <2>2, NothingSent DEF Buffered
      <3> QED  BY <2>1, <3>1, <3>2 DEF SpansShrink
    <2> QED  BY <2>3
  <1>6. \/ UNCHANGED <<PENDING_SPAN, span_ch, open, issued>>
        \/ \E id \in Ids : Open(t, id) \/ Close(t, id)
        \/ FlushSpans(t) /\ UNCHANGED <<open, issued>>
        \/ Exit(t)
    BY DEF Emit, PushEvent, Flush, flush_pending, FlushEvents
  <1> QED  BY <1>1, <1>2, <1>3, <1>4, <1>5, <1>6

LEMMA FeedSpanStep ==
    ASSUME BufferTypes, FeedTypes, SpanInv, FeedNext, UNCHANGED stream
    PROVE  SpanInv'
  <1>a. Records' = Records /\ stream' = stream /\ BufferedInv /\ DeliveredInv
    BY DEF Records, SpanInv
  <1>0. CASE SpansShrink
    <2>1. BufferedInv' /\ IssuedIds' = IssuedIds /\ open' = open
      BY <1>0, <1>a, ShrinkStep DEF SpansShrink, IssuedIds
    <2>2. DeliveredInv'
      BY <1>0, <1>a, <2>1 DEF DeliveredInv, SpansShrink
    <2> QED  BY <2>1, <2>2 DEF SpanInv
  <1>1. ASSUME NEW id \in Ids, SpanOpens(id)
        PROVE  SpanInv'
    <2>1. \A u \in Threads : Buffered(u)' = Buffered(u)
      BY <1>1 DEF SpanOpens, Buffered
    <2>2. BufferedInv'
      BY <1>1, <1>a, <2>1 DEF BufferedInv, SpanOpens
    <2>3. DeliveredInv'
      BY <1>1, <1>a, <2>1 DEF DeliveredInv, SpanOpens
    <2> QED  BY <2>2, <2>3 DEF SpanInv
  <1>2. ASSUME NEW t \in Threads, NEW id \in Ids, SpanCloses(t, id)
        PROVE  SpanInv'
    <2>1. IssuedIds' = IssuedIds /\ \A u \in Threads : id \notin Buffered(u)
      BY <1>2, <1>a DEF SpanCloses, IssuedIds, BufferedInv
    <2>2. BufferedInv'
      BY <1>2, <1>a, <2>1 DEF BufferedInv, SpanCloses
    <2>3. DeliveredInv'
      BY <1>2, <1>a, <2>1 DEF DeliveredInv, SpanCloses
    <2> QED  BY <2>2, <2>3 DEF SpanInv
  <1> QED  BY <1>0, <1>1, <1>2, <1>a, FeedSpanEffect

-----------------------------------------------------------------------------
(* What a fan-out does to the streams                                      *)

(* A stream to which the batch was appended, or not.                       *)
Extends(new, old, batch) ==
    \A i \in DOMAIN new :
        \/ i \in 1 .. Len(old) /\ new[i] = old[i]
        \/ /\ i \in Nat /\ i > Len(old) /\ i - Len(old) \in 1 .. Len(batch)
           /\ new[i] = batch[i - Len(old)]

LEMMA ConcatExtends ==
    ASSUME NEW S, NEW old \in Seq(S), NEW batch \in Seq(S)
    PROVE  Extends(old \o batch, old, batch) /\ Extends(old, old, batch)
  <1> DEFINE new == old \o batch
  <1>1. /\ Len(old) \in Nat /\ DOMAIN old = 1 .. Len(old) /\ Len(batch) \in Nat
        /\ DOMAIN new = 1 .. Len(old) + Len(batch)
        /\ \A i \in 1 .. Len(old) : new[i] = old[i]
        /\ \A i \in Len(old) + 1 .. Len(old) + Len(batch) : new[i] = batch[i - Len(old)]
    OBVIOUS
  <1> HIDE DEF new
  <1>2. ASSUME NEW i \in DOMAIN new, i \notin 1 .. Len(old)
        PROVE  /\ i \in Nat /\ i > Len(old) /\ i - Len(old) \in 1 .. Len(batch)
               /\ new[i] = batch[i - Len(old)]
    <2>1. i \in Len(old) + 1 .. Len(old) + Len(batch)
      BY <1>1, <1>2
    <2> QED  BY <1>1, <2>1
  <1>3. Extends(new, old, batch)
    BY <1>1, <1>2 DEF Extends
  <1>4. Extends(old, old, batch)
    BY <1>1 DEF Extends
  <1> QED  BY <1>3, <1>4 DEF new

(* The ids of the batch are new to the stream, and each is there once.     *)
Fresh(old, batch) ==
    /\ DOMAIN old = 1 .. Len(old) /\ Len(old) \in Nat /\ Len(batch) \in Nat
    /\ \A i \in DOMAIN old, n \in 1 .. Len(batch) : old[i].id # batch[n].id
    /\ \A m, n \in 1 .. Len(batch) : batch[m].id = batch[n].id => m = n

LEMMA OnceExtended ==
    ASSUME NEW new, NEW old, NEW batch, Extends(new, old, batch), Fresh(old, batch), OnceEach(old)
    PROVE  OnceEach(new)
  <1> SUFFICES ASSUME NEW i \in DOMAIN new, NEW j \in DOMAIN new, new[i].id = new[j].id
               PROVE  i = j
    BY DEF OnceEach
  <1> DEFINE Old(k) == k \in 1 .. Len(old) /\ new[k] = old[k]
             New(k) == /\ k \in Nat /\ k > Len(old) /\ k - Len(old) \in 1 .. Len(batch)
                       /\ new[k] = batch[k - Len(old)]
  <1>1. (Old(i) \/ New(i)) /\ (Old(j) \/ New(j))
    BY DEF Extends
  <1>2. CASE Old(i) /\ Old(j)
    BY <1>2 DEF OnceEach, Fresh
  <1>3. CASE New(i) /\ New(j)
    <2>1. i - Len(old) = j - Len(old)
      BY <1>3 DEF Fresh
    <2> QED  BY <1>3, <2>1 DEF Fresh
  <1>4. CASE Old(i) /\ New(j)
    BY <1>4 DEF Fresh
  <1>5. CASE New(i) /\ Old(j)
    BY <1>5 DEF Fresh
  <1> QED  BY <1>1, <1>2, <1>3, <1>4, <1>5

Agree(left, right) ==
    \A i, j \in DOMAIN left, k, l \in DOMAIN right :
        /\ left[i].id = right[k].id => left[i] = right[k]
        /\ i < j /\ left[i].id = right[k].id /\ left[j].id = right[l].id => k < l

LEMMA AgreeExtended ==
    ASSUME NEW left, NEW right, NEW left2, NEW right2, NEW batch, Agree(left, right),
           Extends(left2, left, batch), Fresh(left, batch),
           Extends(right2, right, batch), Fresh(right, batch)
    PROVE  Agree(left2, right2)
  <1> DEFINE Old(new, old, k) == k \in 1 .. Len(old) /\ new[k] = old[k]
             New(new, old, k) == /\ k \in Nat /\ k > Len(old) /\ k - Len(old) \in 1 .. Len(batch)
                                 /\ new[k] = batch[k - Len(old)]
  <1>1. \A i \in DOMAIN left2 : Old(left2, left, i) \/ New(left2, left, i)
    BY DEF Extends
  <1>2. \A k \in DOMAIN right2 : Old(right2, right, k) \/ New(right2, right, k)
    BY DEF Extends
  <1>3. ASSUME NEW i \in DOMAIN left2, NEW k \in DOMAIN right2, left2[i].id = right2[k].id
        PROVE  /\ left2[i] = right2[k]
               /\ \/ Old(left2, left, i) /\ Old(right2, right, k) /\ left[i].id = right[k].id
                  \/ /\ New(left2, left, i) /\ New(right2, right, k)
                     /\ i - Len(left) = k - Len(right)
    <2>1. CASE Old(left2, left, i) /\ Old(right2, right, k)
      BY <1>3, <2>1 DEF Agree, Fresh
    <2>2. CASE New(left2, left, i) /\ New(right2, right, k)
      <3>1. batch[i - Len(left)].id = batch[k - Len(right)].id
        BY <1>3, <2>2
      <3>2. i - Len(left) = k - Len(right)
        BY <2>2, <3>1 DEF Fresh
      <3> QED  BY <2>2, <3>2
    <2>3. CASE Old(left2, left, i) /\ New(right2, right, k)
      BY <1>3, <2>3 DEF Fresh
    <2>4. CASE New(left2, left, i) /\ Old(right2, right, k)
      BY <1>3, <2>4 DEF Fresh
    <2> QED  BY <1>1, <1>2, <2>1, <2>2, <2>3, <2>4
  <1>4. ASSUME NEW i \in DOMAIN left2, NEW j \in DOMAIN left2,
               NEW k \in DOMAIN right2, NEW l \in DOMAIN right2,
               i < j, left2[i].id = right2[k].id, left2[j].id = right2[l].id
        PROVE  k < l
    <2> DEFINE OldPair(x, y) == /\ Old(left2, left, x) /\ Old(right2, right, y)
                                /\ left[x].id = right[y].id
               NewPair(x, y) == /\ New(left2, left, x) /\ New(right2, right, y)
                                /\ x - Len(left) = y - Len(right)
    <2>1. (OldPair(i, k) \/ NewPair(i, k)) /\ (OldPair(j, l) \/ NewPair(j, l))
      BY <1>3, <1>4
    <2>2. CASE OldPair(i, k) /\ OldPair(j, l)
      BY <1>4, <2>2 DEF Agree, Fresh
    <2>3. CASE OldPair(i, k) /\ NewPair(j, l)
      BY <2>3 DEF Fresh
    <2>4. CASE NewPair(i, k) /\ OldPair(j, l)
      BY <1>4, <2>4 DEF Fresh
    <2>5. CASE NewPair(i, k) /\ NewPair(j, l)
      BY <1>4, <2>5 DEF Fresh
    <2> QED  BY <2>1, <2>2, <2>3, <2>4, <2>5
  <1> QED  BY <1>3, <1>4 DEF Agree

-----------------------------------------------------------------------------
(* What the driver does to the spans                                       *)

LEMMA SpanBatchStep ==
    ASSUME DriverAssumption, DriverInv, NEW t \in Threads, flush_span_batch(span_ch[t]),
           span_ch' = [span_ch EXCEPT ![t] = <<>>], poll' \in {"events", "spans"},
           UNCHANGED <<PENDING_SPAN, PENDING_EVENT, event_ch, flushing, open, issued, emitted, read>>
    PROVE  DriverInv'
  <1> DEFINE batch == span_ch[t]
             prepared == [i \in DOMAIN batch |-> Attach(side_events, batch[i])]
  <1>a. /\ BufferTypes /\ FeedTypes /\ ReaderTypes /\ SideTyped(side_events)
        /\ RoadInv /\ EventInv /\ BufferedInv /\ DeliveredInv /\ SubscribersAgree
    BY DEF DriverInv, TypeInv, SpanInv
  <1>b. batch \in Seq(Ids)
    BY <1>a DEF BufferTypes
  <1>c. /\ prepared \in Seq(Record) /\ Len(prepared) = Len(batch)
        /\ \A i \in 1 .. Len(batch) : prepared[i].id = batch[i]
    <2> DEFINE side == side_events
    <2> HIDE DEF side, batch
    <2>1. LET p == [i \in DOMAIN batch |-> Attach(side, batch[i])]
          IN  /\ p \in Seq(Record) /\ Len(p) = Len(batch)
              /\ \A i \in 1 .. Len(batch) : p[i].id = batch[i]
      BY <1>a, <1>b, RecordsPrepared DEF side
    <2> QED  BY <2>1 DEF side
  <1>d. fanout_under_lock(prepared) /\ side_events' = Without(side_events, ToSet(batch))
    BY DEF flush_span_batch
  <1>e. /\ span_ch'[t] = <<>> /\ \A u \in Threads \ {t} : span_ch'[u] = span_ch[u]
        /\ PENDING_SPAN' = PENDING_SPAN
    BY <1>a DEF BufferTypes
  <1>f. DOMAIN batch = 1 .. Len(batch) /\ Len(batch) \in Nat
    BY <1>b
  <1> HIDE DEF prepared
  <1>g. /\ \A s \in Subscribers : stream'[s] = stream[s] \/ stream'[s] = stream[s] \o prepared
        /\ Records' \subseteq Records \cup ToSet(prepared)
    BY <1>a, <1>c, <1>d, FanoutRecords
  <1>1. TypeInv'
    <2>1. BufferTypes'
      <3>1. <<>> \in Seq(Ids)
        BY NothingSent
      <3>2. span_ch' \in [Threads -> Seq(Ids)]
        BY <1>a, <3>1 DEF BufferTypes
      <3> QED  BY <1>a, <3>2 DEF BufferTypes
    <2>2. FeedTypes'
      BY <1>a DEF FeedTypes
    <2>3. ReaderTypes'
      BY <1>a, <1>c, <1>d, FanoutTypes
    <2>4. SideTyped(side_events')
      BY <1>a, <1>d, WithoutTyped
    <2> QED  BY <2>1, <2>2, <2>3, <2>4 DEF TypeInv
  <1>2. Road' = Road /\ RoadInv'
    BY <1>a DEF Road, RoadInv
  <1>3. EventInv'
    <2> DEFINE side == side_events
               records == Records
               records2 == Records'
               road == Road
    <2>1. /\ SideTyped(side) /\ EventsPlaced(side, records, emitted, road)
          /\ records2 \subseteq records \cup ToSet([i \in DOMAIN batch |-> Attach(side, batch[i])])
      BY <1>a, <1>g DEF EventInv, prepared
    <2> HIDE DEF side, records, records2, road, batch
    <2>2. EventsPlaced(Without(side, ToSet(batch)), records2, emitted, road)
      BY <1>b, <2>1, EventsDelivered
    <2> QED  BY <1>2, <1>d, <2>2 DEF EventInv, side, records2, road, batch
  <1>4. SpansShrink /\ Buffered(t)' \cap ToSet(batch) = {} /\ IsInjective(batch)
    <2>1. \A u \in Threads : OneCopy(PENDING_SPAN[u], span_ch[u])
      BY <1>a DEF BufferedInv
    <2>2. \A u \in Threads : OneCopy(PENDING_SPAN'[u], span_ch'[u])
      BY <1>e, <2>1, NothingSent DEF OneCopy
    <2>3. \A u \in Threads : Buffered(u)' \subseteq Buffered(u)
      BY <1>e, NothingSent DEF Buffered
    <2>4. Buffered(t)' = ToSet(PENDING_SPAN[t])
      BY <1>e, NothingSent DEF Buffered
    <2>5. IsInjective(batch) /\ ToSet(PENDING_SPAN[t]) \cap ToSet(batch) = {}
      BY <2>1 DEF OneCopy
    <2> QED  BY <2>2, <2>3, <2>4, <2>5 DEF SpansShrink
  <1>5. BufferedInv' /\ IssuedIds' = IssuedIds /\ open' = open
    BY <1>4, <1>a, ShrinkStep DEF IssuedIds
  <1>6. \A id \in ToSet(batch) :
           id \in IssuedIds \ open /\ \A u \in Threads : id \notin Buffered(u)'
    <2> TAKE id \in ToSet(batch)
    <2>1. id \in Buffered(t)
      BY DEF Buffered
    <2>2. id \in IssuedIds \ open /\ \A u \in Threads \ {t} : id \notin Buffered(u)
      BY <1>a, <2>1 DEF BufferedInv
    <2>3. \A u \in Threads : Buffered(u)' \subseteq Buffered(u)
      BY <1>4 DEF SpansShrink
    <2> QED  BY <1>4, <2>2, <2>3
  <1>7. \A r \in ToSet(prepared) : r.id \in ToSet(batch)
    <2> TAKE r \in ToSet(prepared)
    <2>1. PICK i \in DOMAIN prepared : r = prepared[i]
      BY DEF ToSet
    <2>2. i \in 1 .. Len(batch) /\ i \in DOMAIN batch
      BY <1>c, <1>f, <2>1
    <2> QED  BY <1>c, <2>1, <2>2 DEF ToSet
  <1>8. \A r \in Records' : r.id \in IssuedIds' \ open' /\ \A u \in Threads : r.id \notin Buffered(u)'
    <2> TAKE r \in Records'
    <2>1. CASE r \in Records
      BY <1>4, <1>5, <1>a, <2>1 DEF DeliveredInv, SpansShrink
    <2>2. CASE r \in ToSet(prepared)
      BY <1>5, <1>6, <1>7, <2>2
    <2> QED  BY <1>g, <2>1, <2>2
  <1>9. ASSUME NEW s \in Subscribers
        PROVE  Fresh(stream[s], prepared) /\ Extends(stream'[s], stream[s], prepared)
    <2> DEFINE old == stream[s]
    <2>1. old \in Seq(Record)
      BY <1>a DEF ReaderTypes
    <2>2. \A i \in DOMAIN old : old[i] \in Records
      BY DEF Records, ToSet
    <2> HIDE DEF old
    <2>3. DOMAIN old = 1 .. Len(old) /\ Len(old) \in Nat /\ Len(prepared) \in Nat
      BY <1>c, <1>f, <2>1
    <2>4. \A i \in DOMAIN old, n \in 1 .. Len(prepared) : old[i].id # prepared[n].id
      <3> TAKE i \in DOMAIN old, n \in 1 .. Len(prepared)
      <3>1. prepared[n].id = batch[n] /\ batch[n] \in ToSet(batch)
        BY <1>c, <1>f DEF ToSet
      <3>2. prepared[n].id \in Buffered(t)
        BY <3>1 DEF Buffered
      <3>3. old[i].id \notin Buffered(t)
        BY <1>a, <2>2 DEF DeliveredInv
      <3> QED  BY <3>2, <3>3
    <2>5. \A m, n \in 1 .. Len(prepared) : prepared[m].id = prepared[n].id => m = n
      BY <1>4, <1>c, <1>f DEF IsInjective
    <2>6. Extends(old \o prepared, old, prepared) /\ Extends(old, old, prepared)
      BY <1>c, <2>1, ConcatExtends
    <2>7. Fresh(old, prepared)
      BY <2>3, <2>4, <2>5 DEF Fresh
    <2> QED  BY <1>g, <2>6, <2>7 DEF old
  <1>10. \A s \in Subscribers : OnceEach(stream'[s])
    BY <1>9, <1>a, OnceExtended DEF DeliveredInv
  <1>11. SubscribersAgree'
    <2>1. \A s, u \in Subscribers : Agree(stream[s], stream[u])
      BY <1>a DEF SubscribersAgree, Agree
    <2>2. \A s, u \in Subscribers : Agree(stream'[s], stream'[u])
      BY <1>9, <2>1, AgreeExtended
    <2> QED  BY <2>2 DEF SubscribersAgree, Agree
  <1> QED  BY <1>1, <1>2, <1>3, <1>5, <1>8, <1>10, <1>11 DEF DriverInv, SpanInv, DeliveredInv

-----------------------------------------------------------------------------
(* The invariant holds                                                     *)

LEMMA DriverInvHolds == ASSUME DriverInit PROVE DriverInv
  <1>1. TypeInv
    BY InitTypes, DriverAssumption
  <1>2. /\ \A t \in Threads : PENDING_EVENT[t] = <<>> /\ event_ch[t] = <<>>
        /\ \A t \in Threads : PENDING_SPAN[t] = <<>> /\ span_ch[t] = <<>>
        /\ \A s \in Subscribers : stream[s] = <<>>
        /\ open = {} /\ side_events = <<>> /\ DOMAIN <<>> = {}
    BY DEF DriverInit, FeedInit, BuffersInit
  <1>3. Records = {}
    BY <1>2, NothingSent DEF Records
  <1>4. RoadInv
    BY <1>2, NothingSent DEF RoadInv, ThreadRoad
  <1>5. EventInv
    BY <1>2, <1>3 DEF EventInv, EventsPlaced
  <1>6. BufferedInv
    BY <1>2, NothingSent DEF BufferedInv, Buffered, OneCopy
  <1>7. DeliveredInv
    BY <1>2, <1>3 DEF DeliveredInv, OnceEach
  <1>8. SubscribersAgree
    BY <1>2 DEF SubscribersAgree
  <1> QED  BY <1>1, <1>4, <1>5, <1>6, <1>7, <1>8 DEF DriverInv, SpanInv

LEMMA Unmoved ==
    ASSUME DriverInv, UNCHANGED <<feedVars, side_events, stream>>
    PROVE  /\ BufferTypes' /\ FeedTypes' /\ SideTyped(side_events')
           /\ RoadInv' /\ EventInv' /\ SpanInv' /\ SubscribersAgree'
  <1>a. UNCHANGED <<PENDING_SPAN, PENDING_EVENT, span_ch, event_ch, flushing, open, issued,
                    emitted, side_events, stream>>
    BY DEF feedVars, bufVars
  <1>1. BufferTypes' /\ FeedTypes' /\ SideTyped(side_events')
    BY <1>a DEF DriverInv, TypeInv, BufferTypes, FeedTypes
  <1>2. Road' = Road /\ Records' = Records /\ RoadInv'
    BY <1>a DEF DriverInv, Road, Records, RoadInv
  <1>3. EventInv'
    BY <1>a, <1>2 DEF DriverInv, EventInv
  <1>4. IssuedIds' = IssuedIds /\ \A t \in Threads : Buffered(t)' = Buffered(t)
    BY <1>a DEF IssuedIds, Buffered
  <1>5. SpanInv'
    BY <1>a, <1>2, <1>4 DEF DriverInv, SpanInv, BufferedInv, DeliveredInv
  <1>6. SubscribersAgree'
    BY <1>a DEF DriverInv, SubscribersAgree
  <1> QED  BY <1>1, <1>2, <1>3, <1>5, <1>6

LEMMA DriverInvStep == ASSUME DriverInv, [DriverNext]_driverVars PROVE DriverInv'
  <1>a. BufferTypes /\ FeedTypes /\ ReaderTypes /\ SideTyped(side_events) /\ DriverAssumption
    BY DriverAssumption DEF DriverInv, TypeInv
  <1>1. CASE Producers
    <2>1. FeedNext /\ UNCHANGED <<side_events, poll, subscription, stream, read>>
      BY <1>1 DEF Producers, consumerVars
    <2>2. BufferTypes' /\ FeedTypes'
      BY <1>a, <2>1, FeedTypeStep
    <2>3. ReaderTypes' /\ SideTyped(side_events')
      BY <1>a, <2>1 DEF ReaderTypes
    <2>4. RoadInv' /\ EventInv'
      BY <1>a, <2>1, FeedRoadStep, FeedEventStep DEF DriverInv
    <2>5. SpanInv'
      BY <1>a, <2>1, FeedSpanStep DEF DriverInv
    <2>6. SubscribersAgree'
      BY <2>1 DEF DriverInv, SubscribersAgree
    <2> QED  BY <2>2, <2>3, <2>4, <2>5, <2>6 DEF DriverInv, TypeInv
  <1>2. CASE PollEvents
    <2>1. TypeInv' /\ RoadInv' /\ EventInv'
      BY <1>2, <1>a, PollEventsStep DEF DriverInv
    <2>2. UNCHANGED <<PENDING_SPAN, span_ch, open, issued, stream>>
      BY <1>2 DEF PollEvents, consumerVars
    <2>3. IssuedIds' = IssuedIds /\ Records' = Records /\ \A t \in Threads : Buffered(t)' = Buffered(t)
      BY <2>2 DEF IssuedIds, Records, Buffered
    <2>4. SpanInv' /\ SubscribersAgree'
      BY <2>2, <2>3 DEF DriverInv, SpanInv, BufferedInv, DeliveredInv, SubscribersAgree
    <2> QED  BY <2>1, <2>4 DEF DriverInv
  <1>3. CASE PollSpans
    <2>a. /\ poll' \in {"events", "spans"}
          /\ UNCHANGED <<PENDING_SPAN, PENDING_EVENT, event_ch, flushing, open, issued, emitted, read>>
      BY <1>3 DEF PollSpans
    <2>1. CASE UNCHANGED <<span_ch, side_events, subscription, stream>>
      <3>1. UNCHANGED <<feedVars, side_events, stream>>
        BY <2>1, <2>a DEF feedVars, bufVars
      <3>2. ReaderTypes'
        BY <1>a, <2>1, <2>a DEF ReaderTypes
      <3> QED  BY <3>1, <3>2, Unmoved DEF DriverInv, TypeInv
    <2>2. ASSUME NEW t \in Threads, flush_span_batch(span_ch[t]),
                 span_ch' = [span_ch EXCEPT ![t] = <<>>]
          PROVE  DriverInv'
      BY <1>a, <2>2, <2>a, SpanBatchStep
    <2> QED  BY <1>3, <2>1, <2>2 DEF PollSpans
  <1>4. ASSUME NEW s \in Subscribers, subscribe(s) \/ Receive(s) \/ DropReceiver(s)
        PROVE  DriverInv'
    <2>1. UNCHANGED <<feedVars, side_events, stream>> /\ poll' = poll
      BY <1>4 DEF subscribe, Receive, DropReceiver
    <2>2. ReaderTypes'
      <3>1. CASE Receive(s)
        <4>1. /\ subscription' = subscription /\ read' = [read EXCEPT ![s] = Len(stream[s])]
              /\ stream[s] \in Seq(Record)
          BY <1>a, <3>1 DEF Receive, ReaderTypes
        <4>2. Len(stream[s]) \in Nat
          BY <4>1
        <4> QED  BY <1>a, <2>1, <4>1, <4>2 DEF ReaderTypes
      <3>2. CASE subscribe(s) \/ DropReceiver(s)
        <4>1. /\ subscription' \in [Subscribers -> {"none", "live", "dropped", "pruned"}]
              /\ read' = read
          BY <1>a, <3>2 DEF subscribe, DropReceiver, ReaderTypes
        <4> QED  BY <1>a, <2>1, <4>1 DEF ReaderTypes
      <3> QED  BY <1>4, <3>1, <3>2
    <2> QED  BY <2>1, <2>2, Unmoved DEF DriverInv, TypeInv
  <1>5. CASE UNCHANGED driverVars
    <2>1. UNCHANGED <<feedVars, side_events, poll, subscription, stream, read>>
      BY <1>5 DEF driverVars, consumerVars
    <2>2. ReaderTypes'
      BY <1>a, <2>1 DEF ReaderTypes
    <2> QED  BY <2>1, <2>2, Unmoved DEF DriverInv, TypeInv
  <1> QED  BY <1>1, <1>2, <1>3, <1>4, <1>5 DEF DriverNext

(* An attached or parked event is one of that span, each is delivered once *)
(* and stays in its thread's order.                                        *)
LEMMA EventsRight == ASSUME DriverInv PROVE EventsReachOwnSpan /\ ThreadOrderKept
  <1>a. /\ EventsPlaced(side_events, Records, emitted, Road)
        /\ ReaderTypes /\ DeliveredInv /\ SideTyped(side_events)
    BY DEF DriverInv, EventInv, TypeInv, SpanInv
  <1>1. ASSUME NEW id \in DOMAIN side_events, NEW n \in ToSet(side_events[id])
        PROVE  emitted[n].to = id
    BY <1>a DEF EventsPlaced, Own
  <1>2. ASSUME NEW s \in Subscribers, NEW i \in DOMAIN stream[s]
        PROVE  /\ stream[s][i] \in Records /\ stream[s][i].events \in Seq(1 .. MaxEvents)
               /\ Own(stream[s][i].id, stream[s][i].events, emitted, Road)
               /\ Behind(stream[s][i].events, EventsOf(side_events, stream[s][i].id), emitted)
    <2>1. stream[s][i] \in Records
      BY DEF Records, ToSet
    <2>2. stream[s][i] \in Record
      BY <1>a DEF ReaderTypes
    <2> QED  BY <1>a, <2>1, <2>2 DEF EventsPlaced, Record
  <1>3. ThreadOrderKept
    BY <1>2 DEF ThreadOrderKept, Own, InOrder
  <1>4. ASSUME NEW s \in Subscribers, NEW i \in DOMAIN stream[s]
        PROVE  LET record == stream[s][i] IN
               /\ IsInjective(record.events)
               /\ \A n \in ToSet(record.events) : emitted[n].to = record.id /\ ~Parked(n)
               /\ \A j \in DOMAIN stream[s] \ {i} :
                     ToSet(record.events) \cap ToSet(stream[s][j].events) = {}
    <2> DEFINE id == stream[s][i].id
               events == stream[s][i].events
    <2>1. /\ events \in Seq(1 .. MaxEvents) /\ Own(id, events, emitted, Road)
          /\ Behind(events, EventsOf(side_events, id), emitted)
      BY <1>2
    <2> HIDE DEF id, events
    <2>2. \A n \in ToSet(events) : n \in Nat /\ emitted[n].to = id
      BY <2>1 DEF Own
    <2>3. IsInjective(events)
      <3>1. /\ Len(events) \in Nat /\ DOMAIN events = 1 .. Len(events)
            /\ \A j \in DOMAIN events : events[j] \in Nat
        <4> DEFINE E == 1 .. MaxEvents
        <4>1. events \in Seq(E)
          BY <2>1
        <4> HIDE DEF E
        <4>2. Len(events) \in Nat /\ DOMAIN events = 1 .. Len(events) /\ \A j \in DOMAIN events : events[j] \in E
          BY <4>1
        <4> QED  BY <4>2 DEF E
      <3>2. \A j, k \in DOMAIN events : events[j] = events[k] => ~(j < k)
        BY <2>1, <3>1 DEF Own, InOrder
      <3>3. \A j, k \in DOMAIN events : events[j] = events[k] => j = k
        BY <3>1, <3>2
      <3> QED  BY <3>3 DEF IsInjective
    <2>4. ASSUME NEW n \in ToSet(events), Parked(n)
          PROVE  FALSE
      <3>1. PICK at \in DOMAIN side_events : n \in ToSet(side_events[at])
        BY <2>4 DEF Parked
      <3>2. at = id
        BY <1>1, <2>2, <3>1
      <3>3. n < n
        BY <2>1, <3>1, <3>2 DEF Behind, EventsOf
      <3> QED  BY <2>2, <3>3
    <2>5. ASSUME NEW j \in DOMAIN stream[s] \ {i}, NEW n \in ToSet(events) \cap ToSet(stream[s][j].events)
          PROVE  FALSE
      <3>1. emitted[n].to = stream[s][j].id
        BY <1>2 DEF Own
      <3>2. stream[s][j].id = stream[s][i].id
        BY <2>2, <3>1 DEF id
      <3> QED  BY <1>a, <3>2 DEF DeliveredInv, OnceEach
    <2> QED  BY <2>2, <2>3, <2>4, <2>5 DEF id, events
  <1> QED  BY <1>1, <1>3, <1>4 DEF EventsReachOwnSpan

(* Every variable keeps its type and the side buffer its bound             *)
(* (driver.rs:160).                                                        *)
THEOREM DriverTypes == DriverSpec => []TypeOK
  <1>1. DriverInit => DriverInv
    BY DriverInvHolds
  <1>2. DriverInv /\ [DriverNext]_driverVars => DriverInv'
    BY DriverInvStep
  <1>3. DriverInv => TypeOK
    BY TypesImply DEF DriverInv
  <1> QED  BY <1>1, <1>2, <1>3, PTL DEF DriverSpec

(* Through parking, eviction and attachment an event only ever reaches the *)
(* span it was emitted for, and once (driver.rs:128, 151).                 *)
THEOREM EventsReachTheirSpan == DriverSpec => []EventsReachOwnSpan
  <1>1. DriverInit => DriverInv
    BY DriverInvHolds
  <1>2. DriverInv /\ [DriverNext]_driverVars => DriverInv'
    BY DriverInvStep
  <1>3. DriverInv => EventsReachOwnSpan
    BY EventsRight
  <1> QED  BY <1>1, <1>2, <1>3, PTL DEF DriverSpec

(* A delivered span has each thread's events in the order they were        *)
(* emitted (driver.rs:129, 152).                                           *)
THEOREM EventsKeepThreadOrder == DriverSpec => []ThreadOrderKept
  <1>1. DriverInit => DriverInv
    BY DriverInvHolds
  <1>2. DriverInv /\ [DriverNext]_driverVars => DriverInv'
    BY DriverInvStep
  <1>3. DriverInv => ThreadOrderKept
    BY EventsRight
  <1> QED  BY <1>1, <1>2, <1>3, PTL DEF DriverSpec

(* Subscribers that got the same spans got the same records of them, in    *)
(* the same order (driver.rs:175).                                         *)
THEOREM AllSubscribersAgree == DriverSpec => []SubscribersAgree
  <1>1. DriverInit => DriverInv
    BY DriverInvHolds
  <1>2. DriverInv /\ [DriverNext]_driverVars => DriverInv'
    BY DriverInvStep
  <1>3. DriverInv => SubscribersAgree
    BY DEF DriverInv
  <1> QED  BY <1>1, <1>2, <1>3, PTL DEF DriverSpec

-----------------------------------------------------------------------------
(* The driver implements SpanStream                                        *)

PhaseOf(id, opened, way, known) ==
    IF id \in opened THEN "open"
    ELSE IF id \in way THEN "closed"
    ELSE IF id \in known THEN "gone" ELSE "unopened"

MappedPhase == [id \in Ids |-> Phase(id)]
MappedSeen == [s \in Subscribers |-> [i \in DOMAIN stream[s] |-> stream[s][i].id]]

LEMMA PhaseNow ==
    ASSUME BufferedInv
    PROVE  /\ OnItsWay = UNION {Buffered(t) : t \in Threads}
           /\ OnItsWay \subseteq IssuedIds \ open /\ open \subseteq IssuedIds
           /\ MappedPhase = [id \in Ids |-> PhaseOf(id, open, OnItsWay, IssuedIds)]
  <1>1. OnItsWay = UNION {Buffered(t) : t \in Threads}
    BY DEF OnItsWay, Buffered
  <1>2. OnItsWay \subseteq IssuedIds \ open /\ open \subseteq IssuedIds
    BY <1>1 DEF BufferedInv
  <1>3. ASSUME NEW id \in Ids
        PROVE  Phase(id) = PhaseOf(id, open, OnItsWay, IssuedIds)
    <2>1. (\E i \in DOMAIN issued : issued[i].id = id /\ id \notin open \cup OnItsWay)
          <=> id \in IssuedIds /\ id \notin open \cup OnItsWay
      BY DEF IssuedIds
    <2> QED  BY <1>2, <2>1 DEF Phase, PhaseOf
  <1> QED  BY <1>1, <1>2, <1>3 DEF MappedPhase

LEMMA PhaseNext ==
    ASSUME BufferedInv'
    PROVE  /\ OnItsWay' = UNION {Buffered(t)' : t \in Threads}
           /\ OnItsWay' \subseteq IssuedIds' \ open' /\ open' \subseteq IssuedIds'
           /\ MappedPhase' = [id \in Ids |-> PhaseOf(id, open', OnItsWay', IssuedIds')]
  <1>1. OnItsWay' = UNION {Buffered(t)' : t \in Threads}
    BY DEF OnItsWay, Buffered
  <1>2. OnItsWay' \subseteq IssuedIds' \ open' /\ open' \subseteq IssuedIds'
    BY <1>1 DEF BufferedInv
  <1>3. ASSUME NEW id \in Ids
        PROVE  Phase(id)' = PhaseOf(id, open', OnItsWay', IssuedIds')
    <2>1. (\E i \in DOMAIN issued' : issued'[i].id = id /\ id \notin open' \cup OnItsWay')
          <=> id \in IssuedIds' /\ id \notin open' \cup OnItsWay'
      BY DEF IssuedIds
    <2> QED  BY <1>2, <2>1 DEF Phase, PhaseOf
  <1> QED  BY <1>1, <1>2, <1>3 DEF MappedPhase

LEMMA PhaseFrame ==
    ASSUME BufferedInv, BufferedInv', UNCHANGED <<open, issued>>,
           \A t \in Threads : Buffered(t)' = Buffered(t)
    PROVE  MappedPhase' = MappedPhase
  <1>1. OnItsWay' = OnItsWay /\ IssuedIds' = IssuedIds /\ open' = open
    BY PhaseNow, PhaseNext DEF IssuedIds
  <1> QED  BY <1>1, PhaseNow, PhaseNext

LEMMA StreamInitMapped == ASSUME DriverInit PROVE Abstract!StreamInit
  <1>1. BufferedInv /\ open = {} /\ issued = <<>> /\ \A t \in Threads : Buffered(t) = {}
    <2>1. DriverInv
      BY DriverInvHolds
    <2>2. /\ \A t \in Threads : PENDING_SPAN[t] = <<>> /\ span_ch[t] = <<>>
          /\ open = {} /\ issued = <<>>
      BY DEF DriverInit, FeedInit, BuffersInit
    <2> QED  BY <2>1, <2>2, NothingSent DEF DriverInv, SpanInv, Buffered
  <1>2. OnItsWay = {} /\ IssuedIds = {}
    <2>1. DOMAIN <<>> = {}
      OBVIOUS
    <2> QED  BY <1>1, <2>1, PhaseNow DEF IssuedIds
  <1>3. MappedPhase = [id \in Ids |-> "unopened"]
    BY <1>1, <1>2, PhaseNow DEF PhaseOf
  <1>4. MappedSeen = [s \in Subscribers |-> <<>>]
    BY DEF DriverInit, MappedSeen
  <1>5. subscription = [s \in Subscribers |-> "none"]
    BY DEF DriverInit
  <1> QED  BY <1>3, <1>4, <1>5 DEF Abstract!StreamInit, MappedPhase, MappedSeen

LEMMA Advances ==
    ASSUME BufferedInv, BufferedInv', NEW ids \in SUBSET Ids, NEW from, NEW to,
           \A id \in ids : /\ PhaseOf(id, open, OnItsWay, IssuedIds) = from
                           /\ PhaseOf(id, open', OnItsWay', IssuedIds') = to,
           \A id \in Ids \ ids : PhaseOf(id, open', OnItsWay', IssuedIds')
                                 = PhaseOf(id, open, OnItsWay, IssuedIds)
    PROVE  Abstract!Advance(ids, from, to)
  <1>1. \A id \in ids : MappedPhase[id] = from
    BY PhaseNow
  <1>2. MappedPhase' = [id \in Ids |-> IF id \in ids THEN to ELSE MappedPhase[id]]
    BY PhaseNow, PhaseNext
  <1> QED  BY <1>1, <1>2 DEF Abstract!Advance, MappedPhase

LEMMA FeedMapped ==
    ASSUME DriverInv, DriverInv', FeedNext, UNCHANGED <<subscription, stream>>
    PROVE  Abstract!StreamNext \/ UNCHANGED Abstract!streamVars
  <1>a. BufferTypes /\ FeedTypes /\ BufferedInv /\ BufferedInv'
    BY DEF DriverInv, TypeInv, SpanInv
  <1>b. /\ OnItsWay = UNION {Buffered(t) : t \in Threads}
        /\ OnItsWay \subseteq IssuedIds \ open /\ open \subseteq IssuedIds
        /\ OnItsWay' = UNION {Buffered(t)' : t \in Threads}
        /\ OnItsWay' \subseteq IssuedIds' \ open' /\ open' \subseteq IssuedIds'
    BY <1>a, PhaseNow, PhaseNext
  <1>c. UNCHANGED <<subscription, MappedSeen>>
    BY DEF MappedSeen
  <1>d. IssuedIds \subseteq Ids
    <2> DEFINE E == [by : Threads, id : Ids]
    <2>1. issued \in Seq(E)
      BY <1>a DEF FeedTypes
    <2> HIDE DEF E
    <2>2. \A i \in DOMAIN issued : issued[i] \in E
      BY <2>1
    <2> QED  BY <2>2 DEF IssuedIds, E
  <1>1. CASE SpansShrink
    <2> DEFINE lost == OnItsWay \ OnItsWay'
    <2>1. IssuedIds' = IssuedIds /\ open' = open /\ OnItsWay' \subseteq OnItsWay
      BY <1>1, <1>b DEF SpansShrink, IssuedIds
    <2>2. lost \in SUBSET Ids
      BY <1>b, <1>d
    <2>3. \A id \in lost : /\ PhaseOf(id, open, OnItsWay, IssuedIds) = "closed"
                           /\ PhaseOf(id, open', OnItsWay', IssuedIds') = "gone"
      BY <1>b, <2>1 DEF PhaseOf
    <2>4. \A id \in Ids \ lost : PhaseOf(id, open', OnItsWay', IssuedIds')
                                  = PhaseOf(id, open, OnItsWay, IssuedIds)
      BY <1>b, <2>1 DEF PhaseOf
    <2> HIDE DEF lost
    <2>5. Abstract!Advance(lost, "closed", "gone")
      BY <1>a, <2>2, <2>3, <2>4, Advances
    <2>6. Abstract!Lose(lost)
      BY <1>c, <2>5 DEF Abstract!Lose, MappedSeen
    <2> QED  BY <2>2, <2>6 DEF Abstract!StreamNext
  <1>2. ASSUME NEW id \in Ids, SpanOpens(id)
        PROVE  Abstract!StreamNext
    <2>1. \A t \in Threads : Buffered(t)' = Buffered(t)
      BY <1>2 DEF SpanOpens, Buffered
    <2>2. OnItsWay' = OnItsWay
      BY <1>b, <2>1
    <2>3. \A other \in {id} : /\ PhaseOf(other, open, OnItsWay, IssuedIds) = "unopened"
                              /\ PhaseOf(other, open', OnItsWay', IssuedIds') = "open"
      BY <1>2, <1>b DEF PhaseOf, SpanOpens
    <2>4. \A other \in Ids \ {id} : PhaseOf(other, open', OnItsWay', IssuedIds')
                                     = PhaseOf(other, open, OnItsWay, IssuedIds)
      BY <1>2, <2>2 DEF PhaseOf, SpanOpens
    <2>5. Abstract!Advance({id}, "unopened", "open")
      BY <1>a, <2>3, <2>4, Advances
    <2>6. Abstract!Open(id)
      BY <1>c, <2>5 DEF Abstract!Open, MappedSeen
    <2> QED  BY <2>6 DEF Abstract!StreamNext
  <1>3. ASSUME NEW t \in Threads, NEW id \in Ids, SpanCloses(t, id)
        PROVE  Abstract!StreamNext
    <2>1. IssuedIds' = IssuedIds
      BY <1>3 DEF SpanCloses, IssuedIds
    <2>2. OnItsWay' = OnItsWay \cup {id}
      BY <1>3, <1>b DEF SpanCloses
    <2>3. \A other \in {id} : /\ PhaseOf(other, open, OnItsWay, IssuedIds) = "open"
                              /\ PhaseOf(other, open', OnItsWay', IssuedIds') = "closed"
      BY <1>3, <2>2 DEF PhaseOf, SpanCloses
    <2>4. \A other \in Ids \ {id} : PhaseOf(other, open', OnItsWay', IssuedIds')
                                     = PhaseOf(other, open, OnItsWay, IssuedIds)
      BY <1>3, <2>1, <2>2 DEF PhaseOf, SpanCloses
    <2>5. Abstract!Advance({id}, "open", "closed")
      BY <1>a, <2>3, <2>4, Advances
    <2>6. Abstract!Close(id)
      BY <1>c, <2>5 DEF Abstract!Close, MappedSeen
    <2> QED  BY <2>6 DEF Abstract!StreamNext
  <1> QED  BY <1>1, <1>2, <1>3, <1>a, FeedSpanEffect

LEMMA InjectiveSeqs ==
    ASSUME NEW S, NEW batch \in Seq(S), IsInjective(batch)
    PROVE  batch \in SetToSeqs(ToSet(batch))
  <1> DEFINE ids == ToSet(batch)
             n == Len(batch)
  <1>1. /\ n \in Nat /\ DOMAIN batch = 1 .. n
        /\ batch = [i \in 1 .. n |-> batch[i]]
    OBVIOUS
  <1>2. batch \in [1 .. n -> ids]
    BY <1>1 DEF ToSet
  <1>3. \A id \in ids : \E i \in 1 .. n : batch[i] = id
    BY <1>1 DEF ToSet
  <1>4. \A i, j \in 1 .. n : i # j => batch[i] # batch[j]
    BY <1>1 DEF IsInjective
  <1> HIDE DEF ids, n
  <1>5. ExistsBijection(1 .. n, ids)
    BY <1>1, <1>2, <1>3, <1>4
       DEF ExistsBijection, Bijection, Injection, Surjection, IsInjective
  <1>6. Cardinality(ids) = n
    BY <1>1, <1>5, FS_CountingElements
  <1>7. batch \in SetToSeqs(ids)
    BY <1>2, <1>4, <1>6 DEF SetToSeqs
  <1> QED  BY <1>7 DEF ids

LEMMA SameOperators ==
    ASSUME NEW S
    PROVE  Abstract!SetToSeqs(S) = SetToSeqs(S) /\ Abstract!ToSet(S) = ToSet(S)
  <1>1. Abstract!Cardinality(S) = Cardinality(S)
    BY Zenon DEF Abstract!Cardinality, Cardinality
  <1>2. Abstract!ToSet(S) = ToSet(S)
    BY DEF Abstract!ToSet, ToSet
  <1>3. Abstract!SetToSeqs(S) = SetToSeqs(S)
    BY <1>1, Zenon DEF Abstract!SetToSeqs, SetToSeqs
  <1> QED  BY <1>2, <1>3

LEMMA SpanBatchMapped ==
    ASSUME DriverInv, DriverInv', NEW t \in Threads, flush_span_batch(span_ch[t]),
           span_ch' = [span_ch EXCEPT ![t] = <<>>],
           UNCHANGED <<PENDING_SPAN, open, issued>>
    PROVE  Abstract!StreamNext
  <1> DEFINE batch == span_ch[t]
             ids == ToSet(batch)
             prepared == [i \in DOMAIN batch |-> Attach(side_events, batch[i])]
  <1>a. /\ BufferTypes /\ ReaderTypes /\ BufferedInv /\ BufferedInv'
        /\ batch \in Seq(Ids) /\ IsInjective(batch) /\ SideTyped(side_events)
        /\ OneCopy(PENDING_SPAN[t], batch)
    BY DEF DriverInv, TypeInv, SpanInv, BufferTypes, BufferedInv, OneCopy
  <1>b. /\ OnItsWay = UNION {Buffered(u) : u \in Threads}
        /\ OnItsWay \subseteq IssuedIds \ open
        /\ OnItsWay' = UNION {Buffered(u)' : u \in Threads}
    BY <1>a, PhaseNow, PhaseNext
  <1>1. OnItsWay' = OnItsWay \ ids /\ ids \subseteq OnItsWay
    <2>1. span_ch'[t] = <<>> /\ \A u \in Threads \ {t} : span_ch'[u] = span_ch[u]
      BY <1>a DEF BufferTypes
    <2>2. Buffered(t)' = ToSet(PENDING_SPAN[t]) /\ Buffered(t) = ToSet(PENDING_SPAN[t]) \cup ids
      BY <2>1, NothingSent DEF Buffered
    <2>3. ToSet(PENDING_SPAN[t]) \cap ids = {}
      BY <1>a DEF OneCopy
    <2>4. \A u \in Threads \ {t} : Buffered(u)' = Buffered(u)
      BY <2>1 DEF Buffered
    <2>5. \A u \in Threads \ {t} : Buffered(t) \cap Buffered(u) = {}
      BY <1>a DEF BufferedInv
    <2>6. \A u \in Threads : Buffered(u)' = Buffered(u) \ ids
      BY <2>2, <2>3, <2>4, <2>5
    <2> QED  BY <1>b, <2>2, <2>6
  <1>2. IssuedIds' = IssuedIds /\ open' = open
    BY DEF IssuedIds
  <1>3. ids \in SUBSET Ids
    <2>1. \A i \in DOMAIN batch : batch[i] \in Ids
      BY <1>a
    <2> QED  BY <2>1 DEF ToSet
  <1>4. Abstract!Advance(ids, "closed", "gone")
    <2>1. \A id \in ids : /\ PhaseOf(id, open, OnItsWay, IssuedIds) = "closed"
                          /\ PhaseOf(id, open', OnItsWay', IssuedIds') = "gone"
      BY <1>1, <1>2, <1>b DEF PhaseOf
    <2>2. \A id \in Ids \ ids : PhaseOf(id, open', OnItsWay', IssuedIds')
                                 = PhaseOf(id, open, OnItsWay, IssuedIds)
      BY <1>1, <1>2 DEF PhaseOf
    <2> HIDE DEF ids
    <2> QED  BY <1>3, <1>a, <2>1, <2>2, Advances
  <1>5. fanout_under_lock(prepared)
    BY DEF flush_span_batch
  <1>6. /\ prepared \in Seq(Record) /\ Len(prepared) = Len(batch)
        /\ \A i \in 1 .. Len(batch) : prepared[i].id = batch[i]
    <2> DEFINE side == side_events
    <2>0. SideTyped(side) /\ batch \in Seq(Ids) /\ DriverAssumption
      BY <1>a, DriverAssumption
    <2> HIDE DEF side, batch
    <2>1. LET p == [i \in DOMAIN batch |-> Attach(side, batch[i])]
          IN  /\ p \in Seq(Record) /\ Len(p) = Len(batch)
              /\ \A i \in 1 .. Len(batch) : p[i].id = batch[i]
      BY <2>0, RecordsPrepared
    <2> QED  BY <2>1 DEF side
  <1> HIDE DEF prepared
  <1>7. ASSUME NEW s \in Subscribers
        PROVE  /\ \/ MappedSeen'[s] = MappedSeen[s]
                  \/ subscription[s] = "live" /\ MappedSeen'[s] = MappedSeen[s] \o batch
               /\ subscription'[s] = IF subscription[s] = "dropped" THEN "pruned" ELSE subscription[s]
    <2>1. /\ \/ stream'[s] = stream[s]
             \/ subscription[s] = "live" /\ stream'[s] = stream[s] \o prepared
          /\ subscription'[s] = IF subscription[s] = "dropped" THEN "pruned" ELSE subscription[s]
      BY <1>5 DEF fanout_under_lock
    <2> DEFINE old == stream[s]
               seen == MappedSeen[s]
    <2>2. old \in Seq(Record)
      BY <1>a DEF ReaderTypes
    <2>3. seen = [i \in DOMAIN old |-> old[i].id]
      BY DEF MappedSeen
    <2>4. MappedSeen'[s] = [i \in DOMAIN stream'[s] |-> stream'[s][i].id]
      BY DEF MappedSeen
    <2> HIDE DEF old, seen, batch
    <2>5. /\ Len(old) \in Nat /\ DOMAIN old = 1 .. Len(old) /\ Len(batch) \in Nat
          /\ seen \in Seq(Ids) /\ Len(seen) = Len(old)
      <3>1. Len(old) \in Nat /\ DOMAIN old = 1 .. Len(old)
        BY <2>2
      <3>2. \A i \in DOMAIN old : old[i].id \in Ids
        <4>1. \A i \in DOMAIN old : old[i] \in Record
          BY <2>2
        <4> QED  BY <4>1 DEF Record
      <3>3. seen \in [1 .. Len(old) -> Ids]
        BY <2>3, <3>1, <3>2
      <3> QED  BY <1>a, <3>1, <3>3
    <2>6. [i \in DOMAIN (old \o prepared) |-> (old \o prepared)[i].id] = seen \o batch
      <3> DEFINE n == Len(old) + Len(batch)
                 both == old \o prepared
      <3>1. both = [i \in 1 .. n |-> IF i <= Len(old) THEN old[i] ELSE prepared[i - Len(old)]]
        BY <1>6, <2>2, ConcatItems
      <3>2. seen \o batch = [i \in 1 .. n |-> IF i <= Len(old) THEN seen[i] ELSE batch[i - Len(old)]]
        <4>1. batch \in Seq(Ids)
          BY <1>a
        <4>2. seen \o batch = [i \in 1 .. Len(seen) + Len(batch) |->
                                  IF i <= Len(seen) THEN seen[i] ELSE batch[i - Len(seen)]]
          BY ONLY <2>5, <4>1, ConcatItems
        <4> QED  BY <2>5, <4>2
      <3> HIDE DEF both
      <3>3. ASSUME NEW i \in 1 .. n
            PROVE  both[i].id = IF i <= Len(old) THEN seen[i] ELSE batch[i - Len(old)]
        <4>1. CASE i <= Len(old)
          BY <2>3, <2>5, <3>1, <4>1
        <4>2. CASE ~(i <= Len(old))
          <5>1. i - Len(old) \in 1 .. Len(batch)
            BY <2>5, <4>2
          <5> QED  BY <1>6, <3>1, <4>2, <5>1
        <4> QED  BY <4>1, <4>2
      <3> QED  BY <3>1, <3>2, <3>3 DEF both
    <2> QED  BY <2>1, <2>3, <2>4, <2>6 DEF old, seen
  <1>8. DOMAIN MappedSeen' = Subscribers /\ DOMAIN subscription' = Subscribers
    BY <1>5 DEF MappedSeen, fanout_under_lock
  <1>9. batch \in SetToSeqs(ids)
    BY <1>a, InjectiveSeqs
  <1> SUFFICES ASSUME NEW b, b = batch
               PROVE  Abstract!StreamNext
    OBVIOUS
  <1>10. Abstract!ToSet(b) = ids /\ ToSet(b) = ids /\ Abstract!SetToSeqs(ids) = SetToSeqs(ids)
    BY SameOperators
  <1> HIDE DEF ids, batch
  <1>11. Abstract!Fanout(b)
    BY <1>4, <1>7, <1>8, <1>10 DEF Abstract!Fanout, Abstract!Advance, MappedPhase, MappedSeen
  <1>12. \E seq \in Abstract!SetToSeqs(ids) : Abstract!Fanout(seq)
    BY <1>9, <1>10, <1>11
  <1> QED  BY <1>3, <1>12 DEF Abstract!StreamNext

LEMMA StepMapped ==
    ASSUME DriverInv, DriverInv', [DriverNext]_driverVars
    PROVE  [Abstract!StreamNext]_Abstract!streamVars
  <1>a. BufferedInv /\ BufferedInv' /\ ReaderTypes
    BY DEF DriverInv, SpanInv, TypeInv
  <1>1. CASE Producers
    <2>1. FeedNext /\ UNCHANGED <<subscription, stream>>
      BY <1>1 DEF Producers, consumerVars
    <2> QED  BY <2>1, FeedMapped
  <1>2. CASE UNCHANGED <<PENDING_SPAN, span_ch, open, issued, subscription, stream>>
    <2>1. \A t \in Threads : Buffered(t)' = Buffered(t)
      BY <1>2 DEF Buffered
    <2>2. MappedPhase' = MappedPhase /\ MappedSeen' = MappedSeen
      BY <1>2, <1>a, <2>1, PhaseFrame DEF MappedSeen
    <2> QED  BY <1>2, <2>2 DEF Abstract!streamVars, MappedPhase, MappedSeen
  <1>3. CASE PollSpans
    <2>1. CASE UNCHANGED <<span_ch, side_events, subscription, stream>>
      BY <1>2, <1>3, <2>1 DEF PollSpans
    <2>2. ASSUME NEW t \in Threads, flush_span_batch(span_ch[t]),
                 span_ch' = [span_ch EXCEPT ![t] = <<>>]
          PROVE  Abstract!StreamNext
      BY <1>3, <2>2, SpanBatchMapped DEF PollSpans
    <2> QED  BY <1>3, <2>1, <2>2 DEF PollSpans
  <1>4. ASSUME NEW s \in Subscribers, subscribe(s) \/ DropReceiver(s)
        PROVE  Abstract!StreamNext
    <2>1. UNCHANGED <<PENDING_SPAN, span_ch, open, issued, stream>>
      BY <1>4 DEF subscribe, DropReceiver, feedVars, bufVars
    <2>2. \A t \in Threads : Buffered(t)' = Buffered(t)
      BY <2>1 DEF Buffered
    <2>3. MappedPhase' = MappedPhase /\ MappedSeen' = MappedSeen
      BY <1>a, <2>1, <2>2, PhaseFrame DEF MappedSeen
    <2>4. Abstract!Change(s, "none", "live") \/ Abstract!Change(s, "live", "dropped")
      BY <1>4, <2>3 DEF subscribe, DropReceiver, Abstract!Change, MappedPhase, MappedSeen
    <2> QED  BY <2>4 DEF Abstract!StreamNext
  <1>5. \/ Producers \/ PollSpans \/ (\E s \in Subscribers : subscribe(s) \/ DropReceiver(s))
        \/ UNCHANGED <<PENDING_SPAN, span_ch, open, issued, subscription, stream>>
    BY DEF DriverNext, driverVars, consumerVars, feedVars, bufVars, PollEvents, Receive
  <1> QED  BY <1>1, <1>2, <1>3, <1>4, <1>5

(* With its buffers, channels, refusals, evictions and polls, the pipeline *)
(* delivers as SpanStream says: closed spans only, each at most once, a    *)
(* batch whole or not at all (driver.rs:115, 175).                         *)
THEOREM DriverImplements == DriverSpec => ImplementsStream
  <1>1. DriverInit => DriverInv /\ Abstract!StreamInit
    BY DriverInvHolds, StreamInitMapped
  <1>2. DriverInv /\ [DriverNext]_driverVars => DriverInv'
    BY DriverInvStep
  <1>3. DriverInv /\ DriverInv' /\ [DriverNext]_driverVars
        => [Abstract!StreamNext]_Abstract!streamVars
    BY StepMapped
  <1> QED  BY <1>1, <1>2, <1>3, PTL DEF DriverSpec, ImplementsStream, Abstract!StreamSpec

=============================================================================
