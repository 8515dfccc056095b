---------------------------- MODULE StreamServer ----------------------------
(***************************************************************************)
(* The host's two process-wide settings, the recording level and the       *)
(* chance of root spans: consoles set them, the last console to leave      *)
(* resets them, and every open stream tells its client their value.        *)
(*                                                                         *)
(* A setting lives in three places that no lock ties together: the handle  *)
(* the predicates read, the watch channel the streams read, and, for the   *)
(* level, the interests that tracing has cached per callsite.  A handler   *)
(* is the sequence of its accesses to them, `steps`; handlers of several   *)
(* connections interleave between those.                                   *)
(***************************************************************************)
EXTENDS Integers, Sequences, FiniteSets

CONSTANTS
    Connections,  \* one each time a client connects
    Levels,       \* values of the level
    Chances,      \* effective chances
    OFF,          \* the quiet level
    ALL,          \* the chance 100
    MaxStarts,    \* bound: StartStreams
    MaxSets       \* bound: SetCacheLevels and SetCacheChances

ASSUME StreamServerAssumption ==
    /\ IsFiniteSet(Connections)
    /\ OFF \in Levels /\ ALL \in Chances
    /\ MaxStarts \in Nat /\ MaxSets \in Nat

Settings == {"level", "chance"}
Values(k) == IF k = "level" THEN Levels ELSE Chances
Quiet == [k \in Settings |-> IF k = "level" THEN OFF ELSE ALL]
Untold == "untold"
Nothing == [k \in Settings |-> Untold]

VARIABLES
    handle,          \* LevelHandle and ChanceHandle
    watch,           \* the values of level_tx and chance_tx
    interest,        \* the level at which callsites were last judged
    active_streams,
    status,          \* per connection: new, open, closed
    stream_guard,    \* per connection: none, held, dropped
    steps,           \* per connection: what its handler has left to do
    streams,         \* per connection: spawned, in order; [live, told]
    receiver,        \* per setting: streams that have a receiver
    unseen,          \* per setting: receivers that have a change to see
    starts, sets     \* bound: StartStreams and set requests so far

serverVars == <<handle, watch, interest, active_streams, status, stream_guard, steps,
                streams, receiver, unseen, starts, sets>>
settingVars == <<handle, watch, interest>>
channelVars == <<receiver, unseen>>
guardVars == <<active_streams, stream_guard>>
bounds == <<starts, sets>>

(* Every host of the repository starts with a chance of 100.               *)
ServerInit ==
    /\ \E level \in Levels : handle = [Quiet EXCEPT !["level"] = level]
    /\ watch = handle
    /\ interest = handle["level"]
    /\ active_streams = 0
    /\ status = [c \in Connections |-> "new"]
    /\ stream_guard = [c \in Connections |-> "none"]
    /\ steps = [c \in Connections |-> <<>>]
    /\ streams = [c \in Connections |-> <<>>]
    /\ receiver = [k \in Settings |-> {}]
    /\ unseen = [k \in Settings |-> {}]
    /\ starts = 0 /\ sets = 0

-----------------------------------------------------------------------------
(* Handlers, as sequences of steps                                         *)

Store(k, v) == [do |-> "store", of |-> k, value |-> v]
Rebuild == [do |-> "rebuild"]
Send(k, v) == [do |-> "send", of |-> k, value |-> v]
Enter == [do |-> "enter"]
Subscribe(k) == [do |-> "subscribe", of |-> k]
Spawn == [do |-> "spawn"]

(* Mutant: the interests are judged before the level is stored.            *)
RebuildFirst(k, v) ==
    IF k = "level" THEN <<Rebuild, Store(k, v), Send(k, v)>>
                   ELSE <<Store(k, v), Send(k, v)>>

(* set_level and set_chance; LevelHandle::set stores, then rebuilds.       *)
SetSteps(k, v) ==
    IF k = "level" THEN <<Store(k, v), Rebuild, Send(k, v)>>
                   ELSE <<Store(k, v), Send(k, v)>>

ResetSteps == SetSteps("level", OFF) \o SetSteps("chance", ALL)

StartSteps == <<Enter, Subscribe("level"), Subscribe("chance"), Spawn>>

-----------------------------------------------------------------------------
(* Connections                                                             *)

Ready(c) == status[c] = "open" /\ steps[c] = <<>>

Accept(c) ==
    /\ status[c] = "new"
    /\ status' = [status EXCEPT ![c] = "open"]
    /\ UNCHANGED <<settingVars, channelVars, guardVars, steps, streams, bounds>>

StartStream(c) ==
    /\ Ready(c)
    /\ starts < MaxStarts
    /\ starts' = starts + 1
    /\ steps' = [steps EXCEPT ![c] = StartSteps]
    /\ UNCHANGED <<settingVars, channelVars, status, guardVars, streams, sets>>

(* A console asks for its stream first, and sets on that connection.  What *)
(* set_chance clamps is an effective chance from here on.                  *)
SetCache(c, k, v) ==
    /\ Ready(c) /\ stream_guard[c] = "held"
    /\ sets < MaxSets
    /\ sets' = sets + 1
    /\ steps' = [steps EXCEPT ![c] = SetSteps(k, v)]
    /\ UNCHANGED <<settingVars, channelVars, status, guardVars, streams, starts>>

(* Mutant: the counter is compared after it was decremented.               *)
LastWasOne(prev) == prev - 1 = 1

IsLast(prev) == prev = 1

(* The connection is dropped, and its guard with it.  Its streams are      *)
(* tasks of their own and end when they notice.                            *)
Close(c) ==
    /\ Ready(c)
    /\ status' = [status EXCEPT ![c] = "closed"]
    /\ IF stream_guard[c] = "held"
       THEN /\ stream_guard' = [stream_guard EXCEPT ![c] = "dropped"]
            /\ active_streams' = active_streams - 1
            /\ steps' = [steps EXCEPT ![c] =
                    IF IsLast(active_streams) THEN ResetSteps ELSE <<>>]
       ELSE UNCHANGED <<stream_guard, active_streams, steps>>
    /\ UNCHANGED <<settingVars, channelVars, streams, bounds>>

-----------------------------------------------------------------------------
(* One step of a handler                                                   *)

Next1(c) == Head(steps[c])
Doing(c, what) == steps[c] # <<>> /\ Next1(c).do = what
Done(c) == steps' = [steps EXCEPT ![c] = Tail(@)]

DoStore(c) ==
    /\ Doing(c, "store") /\ Done(c)
    /\ handle' = [handle EXCEPT ![Next1(c).of] = Next1(c).value]
    /\ UNCHANGED <<watch, interest, channelVars, status, guardVars, streams, bounds>>

(* Every callsite asks callsite_enabled again, which loads the handle.     *)
DoRebuild(c) ==
    /\ Doing(c, "rebuild") /\ Done(c)
    /\ interest' = handle["level"]
    /\ UNCHANGED <<handle, watch, channelVars, status, guardVars, streams, bounds>>

(* Mutant: only the streams that wait for a change are woken.              *)
WaitingReceivers(k) ==
    {r \in receiver[k] : r[2] <= Len(streams[r[1]])
                         /\ streams[r[1]][r[2]].told["chance"] # Untold}

Woken(k) == receiver[k]

(* watch::Sender::send fails and leaves the value alone when there is no   *)
(* receiver; the result is ignored.                                        *)
DoSend(c) ==
    LET k == Next1(c).of IN
    /\ Doing(c, "send") /\ Done(c)
    /\ IF receiver[k] = {} THEN UNCHANGED <<watch, unseen>>
       ELSE /\ watch' = [watch EXCEPT ![k] = Next1(c).value]
            /\ unseen' = [unseen EXCEPT ![k] = @ \cup Woken(k)]
    /\ UNCHANGED <<handle, interest, receiver, status, guardVars, streams, bounds>>

(* Mutant: every StartStream counts, although the connection has one guard.*)
EntersAgain(c) == TRUE

(* The connection registers with its first StartStream only.               *)
Enters(c) == stream_guard[c] = "none"

DoEnter(c) ==
    /\ Doing(c, "enter") /\ Done(c)
    /\ active_streams' = active_streams + (IF Enters(c) THEN 1 ELSE 0)
    /\ stream_guard' = [stream_guard EXCEPT ![c] = "held"]
    /\ UNCHANGED <<settingVars, channelVars, status, streams, bounds>>

(* A new receiver has seen the value that is current.                      *)
DoSubscribe(c) ==
    /\ Doing(c, "subscribe") /\ Done(c)
    /\ receiver' = [receiver EXCEPT ![Next1(c).of] = @ \cup {<<c, Len(streams[c]) + 1>>}]
    /\ UNCHANGED <<settingVars, unseen, status, guardVars, streams, bounds>>

DoSpawn(c) ==
    /\ Doing(c, "spawn") /\ Done(c)
    /\ streams' = [streams EXCEPT ![c] =
            Append(@, [live |-> TRUE, told |-> Nothing])]
    /\ UNCHANGED <<settingVars, channelVars, status, guardVars, bounds>>

Handler(c) ==
    DoStore(c) \/ DoRebuild(c) \/ DoSend(c) \/ DoEnter(c) \/ DoSubscribe(c) \/ DoSpawn(c)

-----------------------------------------------------------------------------
(* Streams                                                                 *)

Live(c, n) == n <= Len(streams[c]) /\ streams[c][n].live
Running(c, n) == streams[c][n].told["chance"] # Untold

(* borrow_and_update, and the message.                                     *)
Tell(c, n, k) ==
    /\ streams' = [streams EXCEPT ![c][n].told[k] = watch[k]]
    /\ unseen' = [unseen EXCEPT ![k] = @ \ {<<c, n>>}]
    /\ UNCHANGED <<settingVars, receiver, status, guardVars, steps, bounds>>

(* The first messages: the level, then the chance.                         *)
TellInitial(c, n, k) ==
    /\ Live(c, n) /\ streams[c][n].told[k] = Untold
    /\ k = "chance" => streams[c][n].told["level"] # Untold
    /\ Tell(c, n, k)

(* An arm of the select: changed().                                        *)
TellChanged(c, n, k) ==
    /\ Live(c, n) /\ Running(c, n) /\ <<c, n>> \in unseen[k]
    /\ Tell(c, n, k)

(* The client cancels, or the stream finds its connection gone.            *)
EndStream(c, n) ==
    /\ Live(c, n)
    /\ streams' = [streams EXCEPT ![c][n] = [live |-> FALSE, told |-> Nothing]]
    /\ UNCHANGED <<settingVars, channelVars, status, guardVars, steps, bounds>>

(* The generator drops its receivers one after the other.                  *)
DropReceiver(c, n, k) ==
    /\ n <= Len(streams[c]) /\ ~streams[c][n].live
    /\ <<c, n>> \in receiver[k]
    /\ receiver' = [receiver EXCEPT ![k] = @ \ {<<c, n>>}]
    /\ unseen' = [unseen EXCEPT ![k] = @ \ {<<c, n>>}]
    /\ UNCHANGED <<settingVars, status, guardVars, steps, streams, bounds>>

-----------------------------------------------------------------------------

ServerNext ==
    \E c \in Connections :
        \/ Accept(c) \/ StartStream(c) \/ Close(c) \/ Handler(c)
        \/ \E k \in Settings : \E v \in Values(k) : SetCache(c, k, v)
        \/ \E n \in 1..MaxStarts :
              \/ EndStream(c, n)
              \/ \E k \in Settings :
                    TellInitial(c, n, k) \/ TellChanged(c, n, k) \/ DropReceiver(c, n, k)

(* A handler runs to its end.  A stream whose client reads is polled, and  *)
(* tokio's select takes a ready arm at random.                             *)
ServerFairness ==
    \A c \in Connections :
        /\ WF_serverVars(Handler(c))
        /\ \A n \in 1..MaxStarts, k \in Settings :
              WF_serverVars(TellInitial(c, n, k)) /\ WF_serverVars(TellChanged(c, n, k))

ServerSpec == ServerInit /\ [][ServerNext]_serverVars /\ ServerFairness

-----------------------------------------------------------------------------
(* Properties                                                              *)

StreamIds == Connections \X (1..MaxStarts)

(* The counter counts the guards, also when a connection starts several    *)
(* streams (server.rs:118, 136, 201), and only receivers have changes to   *)
(* see.                                                                    *)
TypeOK ==
    /\ \A k \in Settings :
          /\ handle[k] \in Values(k) /\ watch[k] \in Values(k)
          /\ unseen[k] \subseteq receiver[k] /\ receiver[k] \subseteq StreamIds
    /\ interest \in Levels
    /\ active_streams = Cardinality({c \in Connections : stream_guard[c] = "held"})
    /\ status \in [Connections -> {"new", "open", "closed"}]
    /\ stream_guard \in [Connections -> {"none", "held", "dropped"}]
    /\ \A c \in Connections :
          /\ Len(streams[c]) <= MaxStarts
          /\ \A n \in 1..Len(streams[c]), k \in Settings :
                streams[c][n].told[k] \in Values(k) \cup {Untold}

(* Once a console was there, the settings are the quiet ones whenever no   *)
(* console is and no handler is under way, however the drop of the last    *)
(* guard interleaves with consoles that come and go (server.rs:57-59,      *)
(* 137-145).                                                               *)
QuietWhenIdle ==
    /\ active_streams = 0
    /\ \A c \in Connections : steps[c] = <<>>
    /\ \E c \in Connections : stream_guard[c] = "dropped"
    => handle = Quiet

(* The interests that tracing has cached are those of the level in force,  *)
(* as soon as no rebuild is to come, although several handlers store and   *)
(* rebuild at once (predicate.rs:78-86).                                   *)
InterestFollowsLevel ==
    (\A c \in Connections : \A i \in 1..Len(steps[c]) : steps[c][i].do # "rebuild")
    => interest = handle["level"]

(* A stream that stays open tells its client the last value in the channel *)
(* (server.rs:278-303): no change is lost between subscribing, the first   *)
(* messages and the select.                                                *)
ToldLatest ==
    \A c \in Connections, n \in 1..MaxStarts, k \in Settings :
        <>[](Live(c, n) => streams[c][n].told[k] = watch[k])

=============================================================================
