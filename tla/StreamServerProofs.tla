------------------------- MODULE StreamServerProofs -------------------------
(***************************************************************************)
(* Theorems of ServerSpec, for any finite set of connections and any       *)
(* values of the level and the chance.                                     *)
(***************************************************************************)
EXTENDS StreamServer, FiniteSetTheorems, SequenceTheorems, TLAPS

(* What a handler may have left to do.                                     *)
StepSet ==
    [do : {"rebuild", "enter", "spawn"}]
    \cup [do : {"subscribe"}, of : Settings]
    \cup [do : {"store", "send"}, of : Settings, value : Levels \cup Chances]

StepsTyped == steps \in [Connections -> Seq(StepSet)]

HandleTyped == handle \in [Settings -> Levels \cup Chances]

Held == {c \in Connections : stream_guard[c] = "held"}

-----------------------------------------------------------------------------
(* The sequences of steps                                                  *)

(* The head and the tail of a sequence that is not empty.                  *)
LEMMA Tails ==
    ASSUME NEW S, NEW s \in Seq(S), s # <<>>
    PROVE  /\ Len(s) \in Nat \ {0} /\ Head(s) = s[1]
           /\ Tail(s) \in Seq(S) /\ Len(Tail(s)) = Len(s) - 1
           /\ \A i \in 1..Len(Tail(s)) : Tail(s)[i] = s[i + 1]
    OBVIOUS

(* The programs of the two settings.                                       *)
LEMMA SetStepsShape ==
    ASSUME NEW k \in Settings, NEW v
    PROVE  /\ k = "level" => SetSteps(k, v) = <<Store(k, v), Rebuild, Send(k, v)>>
           /\ k # "level" => SetSteps(k, v) = <<Store(k, v), Send(k, v)>>
    BY DEF SetSteps

(* Elements of a concatenation.                                            *)
LEMMA Concat ==
    ASSUME NEW S, NEW s \in Seq(S), NEW t \in Seq(S)
    PROVE  /\ s \o t \in Seq(S) /\ Len(s \o t) = Len(s) + Len(t)
           /\ \A i \in 1..Len(s) : (s \o t)[i] = s[i]
           /\ \A i \in 1..Len(t) : (s \o t)[Len(s) + i] = t[i]
    OBVIOUS

(* Every program is one of steps.                                          *)
LEMMA Programs ==
    /\ <<>> \in Seq(StepSet)
    /\ StartSteps \in Seq(StepSet)
    /\ ResetSteps \in Seq(StepSet)
    /\ \A k \in Settings : \A v \in Values(k) : SetSteps(k, v) \in Seq(StepSet)
  <1> DEFINE V == Levels \cup Chances
  <1>1. /\ Rebuild \in StepSet /\ Enter \in StepSet /\ Spawn \in StepSet
        /\ \A k \in Settings : Subscribe(k) \in StepSet
        /\ \A k \in Settings, v \in V : Store(k, v) \in StepSet /\ Send(k, v) \in StepSet
    BY DEF StepSet, Rebuild, Enter, Spawn, Subscribe, Store, Send
  <1>2. "level" \in Settings /\ "chance" \in Settings
    BY DEF Settings
  <1>3. OFF \in V /\ ALL \in V
    BY StreamServerAssumption
  <1> HIDE DEF V
  <1>4. StartSteps \in Seq(StepSet)
    BY <1>1, <1>2 DEF StartSteps
  <1>5. ASSUME NEW k \in Settings, NEW v \in Values(k)
        PROVE  SetSteps(k, v) \in Seq(StepSet)
    <2>1. v \in V
      BY DEF V, Values
    <2>2. Store(k, v) \in StepSet /\ Send(k, v) \in StepSet
      BY <1>1, <2>1
    <2>3. <<Store(k, v), Rebuild, Send(k, v)>> \in Seq(StepSet)
      BY <1>1, <2>2
    <2>4. <<Store(k, v), Send(k, v)>> \in Seq(StepSet)
      BY <1>1, <2>2
    <2> QED  BY <2>3, <2>4, SetStepsShape, Zenon
  <1>6. ResetSteps \in Seq(StepSet)
    <2>1. SetSteps("level", OFF) \in Seq(StepSet) /\ SetSteps("chance", ALL) \in Seq(StepSet)
      BY <1>2, <1>5, StreamServerAssumption DEF Values
    <2> QED  BY <2>1, Concat DEF ResetSteps
  <1> QED  BY <1>4, <1>5, <1>6

(* The five steps of a reset.                                              *)
LEMMA ResetShape ==
    /\ Len(ResetSteps) = 5
    /\ ResetSteps[1] = Store("level", OFF) /\ ResetSteps[2] = Rebuild
    /\ ResetSteps[3] = Send("level", OFF)
    /\ ResetSteps[4] = Store("chance", ALL) /\ ResetSteps[5] = Send("chance", ALL)
  <1> DEFINE s == <<Store("level", OFF), Rebuild, Send("level", OFF)>>
             t == <<Store("chance", ALL), Send("chance", ALL)>>
             S == {Store("level", OFF), Rebuild, Send("level", OFF),
                   Store("chance", ALL), Send("chance", ALL)}
  <1>1. ResetSteps = s \o t
    BY DEF ResetSteps, SetSteps
  <1>2. /\ s \in Seq(S) /\ Len(s) = 3
        /\ t \in Seq(S) /\ Len(t) = 2
    OBVIOUS
  <1>3. /\ s[1] = Store("level", OFF) /\ s[2] = Rebuild /\ s[3] = Send("level", OFF)
        /\ t[1] = Store("chance", ALL) /\ t[2] = Send("chance", ALL)
    OBVIOUS
  <1> HIDE DEF s, t, S
  <1>4. /\ Len(s \o t) = Len(s) + Len(t)
        /\ \A i \in 1..Len(s) : (s \o t)[i] = s[i]
        /\ \A i \in 1..Len(t) : (s \o t)[Len(s) + i] = t[i]
    <2>1. s \in Seq(S) /\ t \in Seq(S)
      BY <1>2
    <2> QED  BY ONLY <2>1, Concat
  <1>5. /\ Len(s \o t) = 5
        /\ \A i \in 1..3 : (s \o t)[i] = s[i]
        /\ (s \o t)[4] = t[1] /\ (s \o t)[5] = t[2]
    <2>1. 1 \in 1..Len(t) /\ 2 \in 1..Len(t) /\ Len(s) + 1 = 4 /\ Len(s) + 2 = 5
      BY <1>2
    <2> QED  BY <1>2, <1>4, <2>1
  <1> QED  BY <1>1, <1>3, <1>5

-----------------------------------------------------------------------------
(* The actions that matter here, and what they do to the programs          *)

(* A step is one of these, or leaves settings, programs and guards alone.  *)
LEMMA Actions ==
    ASSUME [ServerNext]_serverVars
    PROVE  \/ \E c \in Connections :
                \/ StartStream(c) \/ Close(c) \/ Accept(c)
                \/ \E k \in Settings : \E v \in Values(k) : SetCache(c, k, v)
                \/ DoStore(c) \/ DoRebuild(c) \/ DoSend(c)
                \/ DoEnter(c) \/ DoSubscribe(c) \/ DoSpawn(c)
           \/ UNCHANGED <<handle, interest, active_streams, status, stream_guard, steps>>
  <1> SUFFICES ASSUME UNCHANGED serverVars \/ ServerNext
               PROVE  \/ \E c \in Connections :
                            \/ StartStream(c) \/ Close(c) \/ Accept(c) \/ Handler(c)
                            \/ \E k \in Settings : \E v \in Values(k) : SetCache(c, k, v)
                      \/ UNCHANGED <<handle, interest, active_streams, status,
                                     stream_guard, steps>>
    BY Zenon DEF Handler
  <1>1. ASSUME UNCHANGED serverVars
        PROVE  UNCHANGED <<handle, interest, active_streams, status, stream_guard, steps>>
    BY <1>1 DEF serverVars
  <1>2. ASSUME NEW c \in Connections, NEW n \in 1..MaxStarts, NEW k \in Settings,
               EndStream(c, n) \/ TellInitial(c, n, k) \/ TellChanged(c, n, k)
               \/ DropReceiver(c, n, k)
        PROVE  UNCHANGED <<handle, interest, active_streams, status, stream_guard, steps>>
    BY <1>2 DEF EndStream, TellInitial, TellChanged, Tell, DropReceiver,
                settingVars, guardVars
  <1>3. ASSUME NEW c \in Connections, NEW n \in 1..MaxStarts, EndStream(c, n)
        PROVE  UNCHANGED <<handle, interest, active_streams, status, stream_guard, steps>>
    BY <1>3 DEF EndStream, settingVars, guardVars
  <1> QED  BY <1>1, <1>2, <1>3, Zenon DEF ServerNext

(* A handler takes the head of its program; the others wait.               *)
LEMMA Pop ==
    ASSUME StepsTyped, NEW c \in Connections, steps[c] # <<>>, Done(c)
    PROVE  /\ StepsTyped'
           /\ steps'[c] = Tail(steps[c])
           /\ \A d \in Connections \ {c} : steps'[d] = steps[d]
           /\ Len(steps[c]) \in Nat \ {0}
           /\ Next1(c) = steps[c][1] /\ Next1(c) \in StepSet
           /\ Len(steps'[c]) = Len(steps[c]) - 1
           /\ \A i \in 1..Len(steps'[c]) : steps'[c][i] = steps[c][i + 1]
  <1>1. steps[c] \in Seq(StepSet)
    BY DEF StepsTyped
  <1>2. /\ Len(steps[c]) \in Nat \ {0} /\ Head(steps[c]) = steps[c][1]
        /\ Tail(steps[c]) \in Seq(StepSet) /\ Len(Tail(steps[c])) = Len(steps[c]) - 1
        /\ \A i \in 1..Len(Tail(steps[c])) : Tail(steps[c])[i] = steps[c][i + 1]
    BY <1>1, Tails
  <1>3. /\ steps'[c] = Tail(steps[c])
        /\ \A d \in Connections \ {c} : steps'[d] = steps[d]
        /\ StepsTyped'
    BY <1>2 DEF Done, StepsTyped
  <1>4. steps[c][1] \in StepSet
    BY <1>1, <1>2
  <1> QED  BY <1>2, <1>3, <1>4 DEF Next1

(* An idle connection gets a program.                                      *)
LEMMA Load ==
    ASSUME StepsTyped, NEW c \in Connections, NEW p \in Seq(StepSet),
           steps' = [steps EXCEPT ![c] = p]
    PROVE  /\ StepsTyped'
           /\ steps'[c] = p
           /\ \A d \in Connections \ {c} : steps'[d] = steps[d]
    BY DEF StepsTyped

(* A store keeps the handle a value of each setting.                       *)
LEMMA StoreTyped ==
    ASSUME StepsTyped, HandleTyped, NEW c \in Connections, DoStore(c)
    PROVE  HandleTyped'
  <1>1. Next1(c) \in StepSet /\ Next1(c).do = "store"
    BY Pop DEF DoStore, Doing
  <1>2. Next1(c).of \in Settings /\ Next1(c).value \in Levels \cup Chances
    BY <1>1 DEF StepSet
  <1> QED  BY <1>2 DEF DoStore, HandleTyped

(* The initial states are typed.                                           *)
LEMMA InitTyped == ServerInit => StepsTyped /\ HandleTyped
  <1> SUFFICES ASSUME ServerInit  PROVE StepsTyped /\ HandleTyped
    OBVIOUS
  <1>1. StepsTyped
    BY Programs DEF ServerInit, StepsTyped
  <1>2. Quiet \in [Settings -> Levels \cup Chances]
    BY StreamServerAssumption DEF Quiet
  <1>3. HandleTyped
    BY <1>2 DEF ServerInit, HandleTyped
  <1> QED  BY <1>1, <1>3

-----------------------------------------------------------------------------
(* Interests                                                               *)

(* A store of the level is followed by a rebuild.                          *)
Paired(s) ==
    \A i \in 1..Len(s) :
        s[i].do = "store" /\ s[i].of = "level"
        => i + 1 \in 1..Len(s) /\ s[i + 1].do = "rebuild"

NoRebuild(s) == \A i \in 1..Len(s) : s[i].do # "rebuild"

InterestInv ==
    /\ StepsTyped
    /\ HandleTyped
    /\ \A c \in Connections : Paired(steps[c])
    /\ InterestFollowsLevel

(* Every program is paired.                                                *)
LEMMA PairedPrograms ==
    /\ Paired(<<>>)
    /\ Paired(StartSteps)
    /\ Paired(ResetSteps)
    /\ \A k \in Settings : \A v \in Values(k) : Paired(SetSteps(k, v))
  <1>1. Paired(<<>>)
    BY DEF Paired
  <1>2. Paired(StartSteps)
    BY DEF Paired, StartSteps, Enter, Subscribe, Spawn
  <1>3. Paired(ResetSteps)
    <2> SUFFICES ASSUME NEW i \in 1..5,
                        ResetSteps[i].do = "store", ResetSteps[i].of = "level"
                 PROVE  i + 1 \in 1..5 /\ ResetSteps[i + 1].do = "rebuild"
      BY ResetShape DEF Paired
    <2>1. i = 1 \/ i = 2 \/ i = 3 \/ i = 4 \/ i = 5
      OBVIOUS
    <2> QED  BY <2>1, ResetShape DEF Store, Rebuild, Send
  <1>4. ASSUME NEW k \in Settings, NEW v \in Values(k)
        PROVE  Paired(SetSteps(k, v))
    <2>1. CASE k = "level"
      BY <2>1 DEF Paired, SetSteps, Store, Rebuild, Send
    <2>2. CASE k # "level"
      BY <2>2 DEF Paired, SetSteps, Store, Rebuild, Send
    <2> QED  BY <2>1, <2>2
  <1> QED  BY <1>1, <1>2, <1>3, <1>4

(* Taking the head keeps the rest paired.                                  *)
LEMMA PairedTail ==
    ASSUME StepsTyped, NEW c \in Connections, steps[c] # <<>>, Done(c), Paired(steps[c])
    PROVE  Paired(steps'[c])
  <1> DEFINE s == steps[c]
             t == steps'[c]
  <1>1. /\ Len(s) \in Nat \ {0} /\ Len(t) = Len(s) - 1
        /\ \A i \in 1..Len(t) : t[i] = s[i + 1]
    BY Pop
  <1> SUFFICES ASSUME NEW i \in 1..Len(t), t[i].do = "store", t[i].of = "level"
               PROVE  i + 1 \in 1..Len(t) /\ t[i + 1].do = "rebuild"
    BY DEF Paired
  <1>2. i + 1 \in 1..Len(s) /\ s[i + 1].do = "store" /\ s[i + 1].of = "level"
    BY <1>1
  <1>3. i + 2 \in 1..Len(s) /\ s[i + 2].do = "rebuild"
    <2>1. (i + 1) + 1 \in 1..Len(s) /\ s[(i + 1) + 1].do = "rebuild"
      BY <1>2 DEF Paired
    <2> QED  BY <2>1
  <1> QED  BY <1>1, <1>3

(* What follows a head that is no rebuild holds a rebuild if the whole did.*)
LEMMA NoRebuildBefore ==
    ASSUME StepsTyped, NEW c \in Connections, steps[c] # <<>>, Done(c),
           Next1(c).do # "rebuild", NoRebuild(steps'[c])
    PROVE  NoRebuild(steps[c])
  <1>1. /\ Len(steps[c]) \in Nat \ {0} /\ Next1(c) = steps[c][1]
        /\ Len(steps'[c]) = Len(steps[c]) - 1
        /\ \A i \in 1..Len(steps'[c]) : steps'[c][i] = steps[c][i + 1]
    BY Pop
  <1> SUFFICES ASSUME NEW i \in 1..Len(steps[c])
               PROVE  steps[c][i].do # "rebuild"
    BY DEF NoRebuild
  <1>2. CASE i = 1
    BY <1>1, <1>2
  <1>3. CASE i # 1
    <2>1. i - 1 \in 1..Len(steps'[c]) /\ steps'[c][i - 1] = steps[c][(i - 1) + 1]
      BY <1>1, <1>3
    <2> QED  BY <2>1 DEF NoRebuild
  <1> QED  BY <1>2, <1>3

(* InterestInv is inductive.                                               *)
LEMMA InterestStep ==
    ASSUME InterestInv, [ServerNext]_serverVars
    PROVE  InterestInv'
  <1> USE DEF InterestInv
  <1>0. InterestFollowsLevel <=>
          ((\A c \in Connections : NoRebuild(steps[c])) => interest = handle["level"])
    BY DEF InterestFollowsLevel, NoRebuild
  <1>0p. InterestFollowsLevel' <=>
          ((\A c \in Connections : NoRebuild(steps'[c])) => interest' = handle'["level"])
    BY DEF InterestFollowsLevel, NoRebuild
  <1>1. ASSUME UNCHANGED <<handle, interest, steps>>
        PROVE  InterestInv'
    BY <1>1, <1>0, <1>0p DEF StepsTyped, HandleTyped
  <1>2. ASSUME NEW c \in Connections, NEW p \in Seq(StepSet), Paired(p),
               steps[c] = <<>>, steps' = [steps EXCEPT ![c] = p],
               UNCHANGED <<handle, interest>>
        PROVE  InterestInv'
    <2>1. StepsTyped' /\ steps'[c] = p /\ \A d \in Connections \ {c} : steps'[d] = steps[d]
      BY <1>2, Load
    <2>2. HandleTyped'
      BY <1>2 DEF HandleTyped
    <2>3. \A d \in Connections : Paired(steps'[d])
      BY <1>2, <2>1
    <2>4. InterestFollowsLevel'
      <3>1. NoRebuild(steps[c])
        BY <1>2 DEF NoRebuild
      <3> QED  BY <1>0, <1>0p, <1>2, <2>1, <3>1
    <2> QED  BY <2>1, <2>2, <2>3, <2>4
  <1>3. ASSUME NEW c \in Connections, steps[c] # <<>>, Done(c), HandleTyped',
               \/ /\ Next1(c).do # "rebuild"
                  /\ UNCHANGED interest
                  /\ handle'["level"] = handle["level"]
               \/ interest' = handle'["level"]
               \/ Next1(c).do = "store" /\ Next1(c).of = "level"
        PROVE  InterestInv'
    <2>1. StepsTyped' /\ \A d \in Connections \ {c} : steps'[d] = steps[d]
      BY <1>3, Pop
    <2>2. \A d \in Connections : Paired(steps'[d])
      BY <1>3, <2>1, PairedTail
    <2>3. InterestFollowsLevel'
      <3>1. CASE interest' = handle'["level"]
        BY <1>0p, <3>1
      <3>2. CASE /\ Next1(c).do # "rebuild"
                 /\ UNCHANGED interest
                 /\ handle'["level"] = handle["level"]
        BY <1>0, <1>0p, <1>3, <2>1, <3>2, NoRebuildBefore
      <3>3. CASE Next1(c).do = "store" /\ Next1(c).of = "level"
        <4>1. /\ Len(steps[c]) \in Nat \ {0} /\ Next1(c) = steps[c][1]
              /\ Len(steps'[c]) = Len(steps[c]) - 1
              /\ \A i \in 1..Len(steps'[c]) : steps'[c][i] = steps[c][i + 1]
          BY <1>3, Pop
        <4>2. 1 + 1 \in 1..Len(steps[c]) /\ steps[c][1 + 1].do = "rebuild"
          <5>1. Paired(steps[c]) /\ 1 \in 1..Len(steps[c])
            BY <4>1
          <5> QED  BY <3>3, <4>1, <5>1 DEF Paired
        <4>3. 1 \in 1..Len(steps'[c]) /\ steps'[c][1].do = "rebuild"
          BY <4>1, <4>2
        <4> QED  BY <1>0p, <4>3 DEF NoRebuild
      <3> QED  BY <1>3, <3>1, <3>2, <3>3
    <2> QED  BY <1>3, <2>1, <2>2, <2>3
  <1>4. ASSUME NEW c \in Connections,
               \/ StartStream(c) \/ Close(c)
               \/ \E k \in Settings : \E v \in Values(k) : SetCache(c, k, v)
        PROVE  InterestInv'
    <2>1. steps[c] = <<>> /\ UNCHANGED <<handle, interest>>
      BY <1>4 DEF StartStream, Close, SetCache, Ready, settingVars
    <2>2. \/ steps' = steps
          \/ \E p \in Seq(StepSet) : Paired(p) /\ steps' = [steps EXCEPT ![c] = p]
      <3>1. CASE StartStream(c)
        BY <3>1, Programs, PairedPrograms DEF StartStream
      <3>2. CASE Close(c)
        BY <3>2, Programs, PairedPrograms, Zenon DEF Close
      <3>3. ASSUME NEW k \in Settings, NEW v \in Values(k), SetCache(c, k, v)
            PROVE  \E p \in Seq(StepSet) : Paired(p) /\ steps' = [steps EXCEPT ![c] = p]
        BY <3>3, Programs, PairedPrograms DEF SetCache
      <3> QED  BY <1>4, <3>1, <3>2, <3>3
    <2> QED  BY <1>1, <1>2, <2>1, <2>2
  <1>5. ASSUME NEW c \in Connections, DoStore(c)
        PROVE  InterestInv'
    <2>1. /\ steps[c] # <<>> /\ Done(c) /\ Next1(c).do = "store"
          /\ UNCHANGED interest
          /\ Next1(c).of # "level" => handle'["level"] = handle["level"]
      BY <1>5 DEF DoStore, Doing, HandleTyped, Settings
    <2>2. HandleTyped'
      BY <1>5, StoreTyped
    <2> QED  BY <1>3, <2>1, <2>2
  <1>6. ASSUME NEW c \in Connections, DoRebuild(c)
        PROVE  InterestInv'
    <2>1. /\ steps[c] # <<>> /\ Done(c) /\ HandleTyped'
          /\ interest' = handle'["level"]
      BY <1>6 DEF DoRebuild, Doing, HandleTyped
    <2> QED  BY <1>3, <2>1
  <1>7. ASSUME NEW c \in Connections,
               DoSend(c) \/ DoEnter(c) \/ DoSubscribe(c) \/ DoSpawn(c)
        PROVE  InterestInv'
    <2>1. /\ steps[c] # <<>> /\ Done(c) /\ Next1(c).do # "rebuild"
          /\ UNCHANGED <<handle, interest>>
      BY <1>7 DEF DoSend, DoEnter, DoSubscribe, DoSpawn, Doing, settingVars
    <2>2. HandleTyped'
      BY <2>1 DEF HandleTyped
    <2> QED  BY <1>3, <2>1, <2>2
  <1>8. ASSUME NEW c \in Connections, Accept(c)
        PROVE  InterestInv'
    BY <1>1, <1>8 DEF Accept, settingVars
  <1> QED  BY <1>1, <1>4, <1>5, <1>6, <1>7, <1>8, Actions, Zenon

(* The interests that tracing has cached follow the level for any number   *)
(* of connections whose handlers store and rebuild at once                 *)
(* (predicate.rs:78-86).                                                   *)
THEOREM InterestsCorrect == ServerSpec => []InterestFollowsLevel
  <1>1. ServerInit => InterestInv
    <2> SUFFICES ASSUME ServerInit  PROVE InterestInv
      OBVIOUS
    <2>1. StepsTyped /\ HandleTyped
      BY InitTyped
    <2>3. \A c \in Connections : Paired(steps[c])
      BY PairedPrograms DEF ServerInit
    <2>4. InterestFollowsLevel
      BY DEF ServerInit, InterestFollowsLevel
    <2> QED  BY <2>1, <2>3, <2>4 DEF InterestInv
  <1>2. InterestInv /\ [ServerNext]_serverVars => InterestInv'
    BY InterestStep
  <1>3. InterestInv => InterestFollowsLevel
    BY DEF InterestInv
  <1> QED  BY <1>1, <1>2, <1>3, PTL DEF ServerSpec

-----------------------------------------------------------------------------
(* Quiet settings                                                          *)

(* All that the program stores is quiet.                                   *)
QuietStores(s) ==
    \A i \in 1..Len(s) : s[i].do = "store" => s[i].value = Quiet[s[i].of]

(* The program will store the setting k.                                   *)
Stores(s, k) == \E i \in 1..Len(s) : s[i].do = "store" /\ s[i].of = k

HasEnter(s) == \E i \in 1..Len(s) : s[i].do = "enter"

AllGone == Held = {} /\ \E c \in Connections : stream_guard[c] = "dropped"

(* The counter counts the guards, and a connection that enters is open,    *)
(* so it cannot enter after its guard was dropped.                         *)
GuardInv ==
    /\ stream_guard \in [Connections -> {"none", "held", "dropped"}]
    /\ status \in [Connections -> {"new", "open", "closed"}]
    /\ active_streams = Cardinality(Held)
    /\ \A c \in Connections : stream_guard[c] = "dropped" => status[c] = "closed"
    /\ \A c \in Connections : HasEnter(steps[c]) => status[c] = "open"

(* Only a console stores what is not quiet; when all are gone, what is not *)
(* quiet is still to be stored.                                            *)
ResetInv ==
    /\ \A c \in Connections : stream_guard[c] = "held" \/ QuietStores(steps[c])
    /\ AllGone => \A k \in Settings : handle[k] = Quiet[k]
                                    \/ \E c \in Connections : Stores(steps[c], k)

QuietInv == StepsTyped /\ HandleTyped /\ GuardInv /\ ResetInv

(* There are finitely many guards.                                         *)
LEMMA HeldFinite == IsFiniteSet(Held)
  BY FS_Subset, StreamServerAssumption DEF Held

(* What is in each program.                                                *)
LEMMA QuietPrograms ==
    /\ QuietStores(<<>>) /\ QuietStores(StartSteps) /\ QuietStores(ResetSteps)
    /\ \A k \in Settings : Stores(ResetSteps, k)
    /\ ~HasEnter(<<>>) /\ ~HasEnter(ResetSteps)
    /\ \A k \in Settings : \A v \in Values(k) : ~HasEnter(SetSteps(k, v))
  <1>1. QuietStores(<<>>) /\ ~HasEnter(<<>>)
    BY DEF QuietStores, HasEnter
  <1>2. QuietStores(StartSteps)
    BY DEF QuietStores, StartSteps, Enter, Subscribe, Spawn
  <1>3. Quiet["level"] = OFF /\ Quiet["chance"] = ALL
    BY DEF Quiet, Settings
  <1>4. ASSUME NEW i \in 1..5
        PROVE  /\ ResetSteps[i].do # "enter"
               /\ ResetSteps[i].do = "store"
                  => ResetSteps[i].value = Quiet[ResetSteps[i].of]
    <2>1. i = 1 \/ i = 2 \/ i = 3 \/ i = 4 \/ i = 5
      OBVIOUS
    <2> QED  BY <1>3, <2>1, ResetShape DEF Store, Rebuild, Send
  <1>5. QuietStores(ResetSteps) /\ ~HasEnter(ResetSteps)
    BY <1>4, ResetShape DEF QuietStores, HasEnter
  <1>6. ASSUME NEW k \in Settings  PROVE Stores(ResetSteps, k)
    <2>1. 1 \in 1..Len(ResetSteps) /\ 4 \in 1..Len(ResetSteps)
      BY ResetShape
    <2>2. /\ ResetSteps[1].do = "store" /\ ResetSteps[1].of = "level"
          /\ ResetSteps[4].do = "store" /\ ResetSteps[4].of = "chance"
      BY ResetShape DEF Store
    <2> QED  BY <2>1, <2>2 DEF Stores, Settings
  <1>7. ASSUME NEW k \in Settings, NEW v \in Values(k)
        PROVE  ~HasEnter(SetSteps(k, v))
    <2>1. CASE k = "level"
      BY <2>1 DEF HasEnter, SetSteps, Store, Rebuild, Send
    <2>2. CASE k # "level"
      BY <2>2 DEF HasEnter, SetSteps, Store, Rebuild, Send
    <2> QED  BY <2>1, <2>2
  <1> QED  BY <1>1, <1>2, <1>5, <1>6, <1>7

(* What is left of a program when its head is taken.                       *)
LEMMA QuietTail ==
    ASSUME StepsTyped, NEW c \in Connections, steps[c] # <<>>, Done(c)
    PROVE  /\ QuietStores(steps[c]) => QuietStores(steps'[c])
           /\ HasEnter(steps'[c]) => HasEnter(steps[c])
           /\ \A k \in Settings :
                 Stores(steps[c], k) /\ ~(Next1(c).do = "store" /\ Next1(c).of = k)
                 => Stores(steps'[c], k)
  <1>1. /\ Len(steps[c]) \in Nat \ {0} /\ Next1(c) = steps[c][1]
        /\ Len(steps'[c]) = Len(steps[c]) - 1
        /\ \A i \in 1..Len(steps'[c]) : steps'[c][i] = steps[c][i + 1]
    BY Pop
  <1>2. \A i \in 1..Len(steps'[c]) : i + 1 \in 1..Len(steps[c])
    BY <1>1
  <1>3. QuietStores(steps[c]) => QuietStores(steps'[c])
    BY <1>1, <1>2 DEF QuietStores
  <1>4. HasEnter(steps'[c]) => HasEnter(steps[c])
    BY <1>1, <1>2 DEF HasEnter
  <1>5. ASSUME NEW k \in Settings, Stores(steps[c], k),
               ~(Next1(c).do = "store" /\ Next1(c).of = k)
        PROVE  Stores(steps'[c], k)
    <2>1. PICK i \in 1..Len(steps[c]) : steps[c][i].do = "store" /\ steps[c][i].of = k
      BY <1>5 DEF Stores
    <2>2. i # 1
      BY <1>1, <1>5, <2>1
    <2>3. i - 1 \in 1..Len(steps'[c]) /\ steps'[c][i - 1] = steps[c][(i - 1) + 1]
      BY <1>1, <2>2
    <2> QED  BY <2>1, <2>3 DEF Stores
  <1> QED  BY <1>3, <1>4, <1>5

(* A handler's step that neither stores nor enters.                        *)
LEMMA PlainStep ==
    ASSUME QuietInv, NEW c \in Connections, steps[c] # <<>>, Done(c),
           Next1(c).do # "store", UNCHANGED <<handle, status, active_streams, stream_guard>>
    PROVE  QuietInv'
  <1>1. StepsTyped' /\ \A d \in Connections \ {c} : steps'[d] = steps[d]
    BY Pop DEF QuietInv
  <1>2. HandleTyped'
    BY DEF QuietInv, HandleTyped
  <1>3. /\ QuietStores(steps[c]) => QuietStores(steps'[c])
        /\ HasEnter(steps'[c]) => HasEnter(steps[c])
        /\ \A k \in Settings : Stores(steps[c], k) => Stores(steps'[c], k)
    BY QuietTail DEF QuietInv
  <1>4. Held' = Held
    BY DEF Held
  <1>5. GuardInv'
    BY <1>1, <1>3, <1>4 DEF QuietInv, GuardInv
  <1>6. ResetInv'
    <2>1. \A d \in Connections : stream_guard'[d] = "held" \/ QuietStores(steps'[d])
      BY <1>1, <1>3 DEF QuietInv, ResetInv
    <2>2. ASSUME AllGone', NEW k \in Settings, handle'[k] # Quiet[k]
          PROVE  \E d \in Connections : Stores(steps'[d], k)
      <3>1. AllGone
        BY <2>2, <1>4 DEF AllGone
      <3>2. PICK d \in Connections : Stores(steps[d], k)
        BY <2>2, <3>1 DEF QuietInv, ResetInv
      <3> QED  BY <1>1, <1>3, <3>2
    <2> QED  BY <2>1, <2>2 DEF ResetInv
  <1> QED  BY <1>1, <1>2, <1>5, <1>6 DEF QuietInv

(* An idle connection starts a program, and no guard changes.              *)
LEMMA LoadStep ==
    ASSUME QuietInv, NEW c \in Connections, NEW p \in Seq(StepSet),
           steps[c] = <<>>, steps' = [steps EXCEPT ![c] = p],
           stream_guard[c] = "held" \/ QuietStores(p),
           HasEnter(p) => status[c] = "open",
           UNCHANGED <<handle, status, active_streams, stream_guard>>
    PROVE  QuietInv'
  <1>1. StepsTyped' /\ steps'[c] = p /\ \A d \in Connections \ {c} : steps'[d] = steps[d]
    BY Load DEF QuietInv
  <1>2. HandleTyped'
    BY DEF QuietInv, HandleTyped
  <1>3. Held' = Held
    BY DEF Held
  <1>4. GuardInv'
    BY <1>1, <1>3 DEF QuietInv, GuardInv
  <1>5. ResetInv'
    <2>1. \A d \in Connections : stream_guard'[d] = "held" \/ QuietStores(steps'[d])
      BY <1>1 DEF QuietInv, ResetInv
    <2>2. ASSUME AllGone', NEW k \in Settings, handle'[k] # Quiet[k]
          PROVE  \E d \in Connections : Stores(steps'[d], k)
      <3>1. AllGone
        BY <2>2, <1>3 DEF AllGone
      <3>2. PICK d \in Connections : Stores(steps[d], k)
        BY <2>2, <3>1 DEF QuietInv, ResetInv
      <3>3. d # c
        BY <3>2 DEF Stores
      <3> QED  BY <1>1, <3>2, <3>3
    <2> QED  BY <2>1, <2>2 DEF ResetInv
  <1> QED  BY <1>1, <1>2, <1>4, <1>5 DEF QuietInv

(* A store removes a reason to be not quiet, or leaves it to another.      *)
LEMMA StoreStep ==
    ASSUME QuietInv, NEW c \in Connections, DoStore(c)
    PROVE  QuietInv'
  <1>1. /\ steps[c] # <<>> /\ Done(c) /\ Next1(c).do = "store"
        /\ UNCHANGED <<status, active_streams, stream_guard>>
    BY DEF DoStore, Doing, guardVars
  <1>2. /\ StepsTyped' /\ \A d \in Connections \ {c} : steps'[d] = steps[d]
        /\ Len(steps[c]) \in Nat \ {0} /\ Next1(c) = steps[c][1]
    BY <1>1, Pop DEF QuietInv
  <1>3. HandleTyped'
    BY StoreTyped DEF QuietInv
  <1>4. /\ QuietStores(steps[c]) => QuietStores(steps'[c])
        /\ HasEnter(steps'[c]) => HasEnter(steps[c])
        /\ \A k \in Settings :
              Stores(steps[c], k) /\ Next1(c).of # k => Stores(steps'[c], k)
    BY <1>1, QuietTail DEF QuietInv
  <1>5. Held' = Held
    BY <1>1 DEF Held
  <1>6. GuardInv'
    BY <1>1, <1>2, <1>4, <1>5 DEF QuietInv, GuardInv
  <1>7. ResetInv'
    <2>1. \A d \in Connections : stream_guard'[d] = "held" \/ QuietStores(steps'[d])
      BY <1>1, <1>2, <1>4 DEF QuietInv, ResetInv
    <2>2. ASSUME AllGone', NEW k \in Settings, handle'[k] # Quiet[k]
          PROVE  \E d \in Connections : Stores(steps'[d], k)
      <3>1. AllGone
        BY <2>2, <1>1, <1>5 DEF AllGone
      <3>2. Next1(c).of # k
        <4>1. QuietStores(steps[c])
          BY <3>1 DEF QuietInv, ResetInv, AllGone, Held
        <4>2. Next1(c).value = Quiet[Next1(c).of]
          BY <1>1, <1>2, <4>1 DEF QuietStores
        <4> QED  BY <2>2, <4>2 DEF DoStore, QuietInv, HandleTyped
      <3>3. handle'[k] = handle[k]
        BY <3>2 DEF DoStore, QuietInv, HandleTyped
      <3>4. PICK d \in Connections : Stores(steps[d], k)
        BY <2>2, <3>1, <3>3 DEF QuietInv, ResetInv
      <3> QED  BY <1>2, <1>4, <3>2, <3>4
    <2> QED  BY <2>1, <2>2 DEF ResetInv
  <1> QED  BY <1>2, <1>3, <1>6, <1>7 DEF QuietInv

(* Who enters is counted once.                                             *)
LEMMA EnterStep ==
    ASSUME QuietInv, NEW c \in Connections, DoEnter(c)
    PROVE  QuietInv'
  <1>1. /\ steps[c] # <<>> /\ Done(c) /\ Next1(c).do = "enter"
        /\ UNCHANGED <<handle, status>>
        /\ active_streams' = active_streams + (IF stream_guard[c] = "none" THEN 1 ELSE 0)
        /\ stream_guard' = [stream_guard EXCEPT ![c] = "held"]
    BY DEF DoEnter, Doing, settingVars, Enters
  <1>2. /\ StepsTyped' /\ \A d \in Connections \ {c} : steps'[d] = steps[d]
        /\ Len(steps[c]) \in Nat \ {0} /\ Next1(c) = steps[c][1]
    BY <1>1, Pop DEF QuietInv
  <1>3. HandleTyped'
    BY <1>1 DEF QuietInv, HandleTyped
  <1>4. HasEnter(steps'[c]) => HasEnter(steps[c])
    BY <1>1, QuietTail DEF QuietInv
  <1>5. status[c] = "open" /\ stream_guard[c] # "dropped"
    <2>1. HasEnter(steps[c])
      BY <1>1, <1>2 DEF HasEnter
    <2> QED  BY <2>1 DEF QuietInv, GuardInv
  <1>6. Held' = Held \cup {c}
    BY <1>1 DEF QuietInv, GuardInv, Held
  <1>7. active_streams' = Cardinality(Held')
    <2>1. CASE stream_guard[c] = "none"
      <3>1. c \notin Held
        BY <2>1 DEF Held
      <3>2. Cardinality(Held \cup {c}) = Cardinality(Held) + 1
        BY <3>1, HeldFinite, FS_AddElement
      <3> QED  BY <1>1, <1>6, <2>1, <3>2 DEF QuietInv, GuardInv
    <2>2. CASE stream_guard[c] = "held"
      <3>1. Held' = Held
        BY <1>6, <2>2 DEF Held
      <3>2. active_streams' = active_streams
        <4>1. Cardinality(Held) \in Nat
          BY HeldFinite, FS_CardinalityType
        <4> QED  BY <1>1, <2>2, <4>1 DEF QuietInv, GuardInv
      <3> QED  BY <3>1, <3>2 DEF QuietInv, GuardInv
    <2> QED  BY <1>5, <2>1, <2>2 DEF QuietInv, GuardInv
  <1>8. GuardInv'
    BY <1>1, <1>2, <1>4, <1>5, <1>7 DEF QuietInv, GuardInv
  <1>9. ResetInv'
    <2>1. \A d \in Connections : stream_guard'[d] = "held" \/ QuietStores(steps'[d])
      BY <1>1, <1>2 DEF QuietInv, GuardInv, ResetInv
    <2>2. ~AllGone'
      BY <1>6 DEF AllGone
    <2> QED  BY <2>1, <2>2 DEF ResetInv
  <1> QED  BY <1>2, <1>3, <1>8, <1>9 DEF QuietInv

(* The last guard leaves the reset to be done; any other leaves a guard.   *)
LEMMA CloseStep ==
    ASSUME QuietInv, NEW c \in Connections, Close(c)
    PROVE  QuietInv'
  <1>1. /\ status[c] = "open" /\ steps[c] = <<>>
        /\ status' = [status EXCEPT ![c] = "closed"]
        /\ UNCHANGED handle
    BY DEF Close, Ready, settingVars
  <1>2. HandleTyped'
    BY <1>1 DEF QuietInv, HandleTyped
  <1>3. CASE stream_guard[c] # "held"
    <2>1. UNCHANGED <<stream_guard, active_streams, steps>>
      BY <1>3 DEF Close
    <2>2. StepsTyped' /\ Held' = Held
      BY <2>1 DEF QuietInv, StepsTyped, Held
    <2>3. GuardInv'
      BY <1>1, <2>1, <2>2, QuietPrograms DEF QuietInv, GuardInv
    <2>4. ResetInv'
      BY <1>1, <2>1, <2>2 DEF QuietInv, ResetInv, AllGone
    <2> QED  BY <1>2, <2>2, <2>3, <2>4 DEF QuietInv
  <1>4. CASE stream_guard[c] = "held"
    <2> DEFINE p == IF active_streams = 1 THEN ResetSteps ELSE <<>>
    <2>1. /\ stream_guard' = [stream_guard EXCEPT ![c] = "dropped"]
          /\ active_streams' = active_streams - 1
          /\ steps' = [steps EXCEPT ![c] = p]
      BY <1>4 DEF Close, IsLast
    <2>2. p \in Seq(StepSet) /\ QuietStores(p) /\ ~HasEnter(p)
      BY Programs, QuietPrograms, Zenon
    <2>3. StepsTyped' /\ steps'[c] = p /\ \A d \in Connections \ {c} : steps'[d] = steps[d]
      BY <2>1, <2>2, Load DEF QuietInv
    <2>4. Held' = Held \ {c} /\ c \in Held
      BY <1>4, <2>1 DEF QuietInv, GuardInv, Held
    <2>5. Cardinality(Held') = active_streams - 1 /\ active_streams \in Nat
      <3>1. Cardinality(Held \ {c}) = Cardinality(Held) - 1
        BY <2>4, HeldFinite, FS_RemoveElement
      <3> QED  BY <2>4, <3>1, HeldFinite, FS_CardinalityType DEF QuietInv, GuardInv
    <2>6. GuardInv'
      BY <1>1, <2>1, <2>2, <2>3, <2>5 DEF QuietInv, GuardInv
    <2>7. ResetInv'
      <3>1. \A d \in Connections : stream_guard'[d] = "held" \/ QuietStores(steps'[d])
        BY <2>1, <2>2, <2>3 DEF QuietInv, GuardInv, ResetInv
      <3>2. ASSUME AllGone', NEW k \in Settings
            PROVE  \E d \in Connections : Stores(steps'[d], k)
        <4>1. Cardinality(Held') = 0
          BY <3>2, FS_EmptySet DEF AllGone
        <4>2. active_streams = 1
          BY <2>5, <4>1
        <4>3. steps'[c] = ResetSteps
          BY <2>3, <4>2
        <4> QED  BY <4>3, QuietPrograms
      <3> QED  BY <3>1, <3>2 DEF ResetInv
    <2> QED  BY <1>2, <2>3, <2>6, <2>7 DEF QuietInv
  <1> QED  BY <1>3, <1>4

(* A new connection changes nothing.                                       *)
LEMMA AcceptStep ==
    ASSUME QuietInv, NEW c \in Connections, Accept(c)
    PROVE  QuietInv'
  <1>1. /\ status[c] = "new" /\ status' = [status EXCEPT ![c] = "open"]
        /\ UNCHANGED <<handle, active_streams, stream_guard, steps>>
    BY DEF Accept, settingVars, guardVars
  <1>2. StepsTyped' /\ HandleTyped' /\ Held' = Held
    BY <1>1 DEF QuietInv, StepsTyped, HandleTyped, Held
  <1>3. GuardInv'
    BY <1>1, <1>2 DEF QuietInv, GuardInv
  <1>4. ResetInv'
    BY <1>1, <1>2 DEF QuietInv, ResetInv, AllGone
  <1> QED  BY <1>2, <1>3, <1>4 DEF QuietInv

(* QuietInv is inductive.                                                  *)
LEMMA QuietStep ==
    ASSUME QuietInv, [ServerNext]_serverVars
    PROVE  QuietInv'
  <1>1. ASSUME UNCHANGED <<handle, interest, active_streams, status, stream_guard, steps>>
        PROVE  QuietInv'
    BY <1>1 DEF QuietInv, StepsTyped, HandleTyped, GuardInv, ResetInv, AllGone, Held
  <1>2. ASSUME NEW c \in Connections, StartStream(c)
        PROVE  QuietInv'
    <2>1. /\ steps[c] = <<>> /\ status[c] = "open"
          /\ steps' = [steps EXCEPT ![c] = StartSteps]
          /\ UNCHANGED <<handle, status, active_streams, stream_guard>>
      BY <1>2 DEF StartStream, Ready, settingVars, guardVars
    <2> QED  BY <2>1, LoadStep, Programs, QuietPrograms
  <1>3. ASSUME NEW c \in Connections, NEW k \in Settings, NEW v \in Values(k),
               SetCache(c, k, v)
        PROVE  QuietInv'
    <2>1. /\ steps[c] = <<>> /\ stream_guard[c] = "held"
          /\ steps' = [steps EXCEPT ![c] = SetSteps(k, v)]
          /\ UNCHANGED <<handle, status, active_streams, stream_guard>>
      BY <1>3 DEF SetCache, Ready, settingVars, guardVars
    <2>2. SetSteps(k, v) \in Seq(StepSet) /\ ~HasEnter(SetSteps(k, v))
      BY Programs, QuietPrograms
    <2> QED  BY <2>1, <2>2, LoadStep
  <1>4. ASSUME NEW c \in Connections,
               DoRebuild(c) \/ DoSend(c) \/ DoSubscribe(c) \/ DoSpawn(c)
        PROVE  QuietInv'
    <2>1. /\ steps[c] # <<>> /\ Done(c) /\ Next1(c).do # "store"
          /\ UNCHANGED <<handle, status, active_streams, stream_guard>>
      BY <1>4 DEF DoRebuild, DoSend, DoSubscribe, DoSpawn, Doing, settingVars, guardVars
    <2> QED  BY <2>1, PlainStep
  <1> QED  BY <1>1, <1>2, <1>3, <1>4, StoreStep, EnterStep, CloseStep, AcceptStep,
              Actions, Zenon

LEMMA QuietInitially == ServerInit => QuietInv
  <1> SUFFICES ASSUME ServerInit  PROVE QuietInv
    OBVIOUS
  <1>1. StepsTyped /\ HandleTyped
    BY InitTyped
  <1>2. Held = {}
    BY DEF ServerInit, Held
  <1>3. GuardInv
    BY <1>2, FS_EmptySet, QuietPrograms DEF ServerInit, GuardInv
  <1>4. ResetInv
    BY QuietPrograms DEF ServerInit, ResetInv, AllGone
  <1> QED  BY <1>1, <1>3, <1>4 DEF QuietInv

(* For any number of connections: once a console was there, the settings   *)
(* are the quiet ones whenever no console is and no handler is under way   *)
(* (server.rs:57-59, 137-145).                                             *)
THEOREM QuietCorrect == ServerSpec => []QuietWhenIdle
  <1>1. ServerInit => QuietInv
    BY QuietInitially
  <1>2. QuietInv /\ [ServerNext]_serverVars => QuietInv'
    BY QuietStep
  <1>3. QuietInv => QuietWhenIdle
    <2> SUFFICES ASSUME QuietInv, active_streams = 0,
                        \A c \in Connections : steps[c] = <<>>,
                        \E c \in Connections : stream_guard[c] = "dropped"
                 PROVE  handle = Quiet
      BY DEF QuietWhenIdle
    <2>1. Held = {}
      BY HeldFinite, FS_EmptySet DEF QuietInv, GuardInv
    <2>2. \A k \in Settings : handle[k] = Quiet[k]
      BY <2>1 DEF QuietInv, ResetInv, AllGone, Stores
    <2> QED  BY <2>2 DEF QuietInv, HandleTyped, Quiet
  <1> QED  BY <1>1, <1>2, <1>3, PTL DEF ServerSpec

-----------------------------------------------------------------------------
(* Types, and the number of streams                                        *)

(* Each setting is given values of its own; a program spawns at its end,   *)
(* and only a program that spawns subscribes.                              *)
ProgramOK(s) ==
    \A i \in 1..Len(s) :
        /\ s[i].do \in {"store", "send"} => s[i].value \in Values(s[i].of)
        /\ s[i].do = "spawn" => i = Len(s)
        /\ s[i].do = "subscribe" => s[Len(s)].do = "spawn"

WillSpawn(s) == \E i \in 1..Len(s) : s[i].do = "spawn"

SettingsInv ==
    /\ watch \in [Settings -> Levels \cup Chances]
    /\ \A k \in Settings : handle[k] \in Values(k) /\ watch[k] \in Values(k)
    /\ interest \in Levels

StreamRecord == [live : BOOLEAN, told : [Settings -> Levels \cup Chances \cup {Untold}]]

(* Every stream was started, also the one that is still to be spawned.     *)
StreamsInv ==
    /\ streams \in [Connections -> Seq(StreamRecord)]
    /\ \A c \in Connections : \A n \in 1..Len(streams[c]) : \A k \in Settings :
          streams[c][n].told[k] \in Values(k) \cup {Untold}
    /\ starts \in 0..MaxStarts
    /\ \A c \in Connections :
          /\ Len(streams[c]) <= starts
          /\ WillSpawn(steps[c]) => Len(streams[c]) + 1 <= starts

ReceiversInv ==
    /\ receiver \in [Settings -> SUBSET StreamIds]
    /\ unseen \in [Settings -> SUBSET StreamIds]
    /\ \A k \in Settings : unseen[k] \subseteq receiver[k]

ProgramsInv == \A c \in Connections : ProgramOK(steps[c])

(* What is in each program.                                                *)
LEMMA SpawnPrograms ==
    /\ ProgramOK(<<>>) /\ ProgramOK(StartSteps) /\ ProgramOK(ResetSteps)
    /\ \A k \in Settings : \A v \in Values(k) : ProgramOK(SetSteps(k, v))
    /\ ~WillSpawn(<<>>) /\ ~WillSpawn(ResetSteps)
    /\ \A k \in Settings : \A v \in Values(k) : ~WillSpawn(SetSteps(k, v))
  <1>1. /\ \A k, v : Store(k, v).do = "store" /\ Store(k, v).of = k /\ Store(k, v).value = v
        /\ \A k, v : Send(k, v).do = "send" /\ Send(k, v).of = k /\ Send(k, v).value = v
        /\ \A k : Subscribe(k).do = "subscribe"
        /\ Rebuild.do = "rebuild" /\ Enter.do = "enter" /\ Spawn.do = "spawn"
    BY DEF Store, Send, Subscribe, Rebuild, Enter, Spawn
  <1>2. ProgramOK(<<>>) /\ ~WillSpawn(<<>>)
    BY DEF ProgramOK, WillSpawn
  <1>3. ProgramOK(StartSteps)
    BY <1>1 DEF ProgramOK, StartSteps
  <1>4. ProgramOK(ResetSteps) /\ ~WillSpawn(ResetSteps)
    <2>1. OFF \in Values("level") /\ ALL \in Values("chance")
      BY StreamServerAssumption DEF Values
    <2> QED  BY <1>1, <2>1, ResetShape DEF ProgramOK, WillSpawn
  <1>5. ASSUME NEW k \in Settings, NEW v \in Values(k)
        PROVE  ProgramOK(SetSteps(k, v)) /\ ~WillSpawn(SetSteps(k, v))
    <2>1. CASE k = "level"
      <3>1. SetSteps(k, v) = <<Store(k, v), Rebuild, Send(k, v)>>
        BY <2>1, SetStepsShape
      <3> QED  BY <1>1, <3>1 DEF ProgramOK, WillSpawn
    <2>2. CASE k # "level"
      <3>1. SetSteps(k, v) = <<Store(k, v), Send(k, v)>>
        BY <2>2, SetStepsShape
      <3> QED  BY <1>1, <3>1 DEF ProgramOK, WillSpawn
    <2> QED  BY <2>1, <2>2
  <1> QED  BY <1>2, <1>3, <1>4, <1>5

(* A program keeps its shape as its steps are taken.                       *)
LEMMA ProgramPopped ==
    ASSUME StepsTyped, ProgramsInv, NEW c \in Connections, steps[c] # <<>>, Done(c)
    PROVE  /\ ProgramsInv'
           /\ WillSpawn(steps'[c]) => WillSpawn(steps[c])
           /\ Next1(c).do \in {"store", "send"} => Next1(c).value \in Values(Next1(c).of)
           /\ Next1(c).do = "spawn" => ~WillSpawn(steps'[c])
           /\ Next1(c).do \in {"subscribe", "spawn"} => WillSpawn(steps[c])
  <1>1. /\ \A d \in Connections \ {c} : steps'[d] = steps[d]
        /\ Len(steps[c]) \in Nat \ {0} /\ Next1(c) = steps[c][1]
        /\ Len(steps'[c]) = Len(steps[c]) - 1
        /\ \A i \in 1..Len(steps'[c]) : steps'[c][i] = steps[c][i + 1]
    BY Pop
  <1>2. PICK s : s = steps[c]
    OBVIOUS
  <1>3. PICK t : t = steps'[c]
    OBVIOUS
  <1>4. ProgramOK(s)
    BY <1>2 DEF ProgramsInv
  <1>5. /\ Len(s) \in Nat \ {0} /\ Next1(c) = s[1] /\ Len(t) = Len(s) - 1
        /\ \A i \in 1..Len(t) : t[i] = s[i + 1]
    BY <1>1, <1>2, <1>3
  <1>6. ProgramOK(t)
    <2>1. ASSUME NEW i \in 1..Len(t)
          PROVE  /\ t[i].do \in {"store", "send"} => t[i].value \in Values(t[i].of)
                 /\ t[i].do = "spawn" => i = Len(t)
                 /\ t[i].do = "subscribe" => t[Len(t)].do = "spawn"
      <3>1. i + 1 \in 1..Len(s) /\ t[i] = s[i + 1] /\ Len(t) \in 1..Len(t) /\ t[Len(t)] = s[Len(s)]
        BY <1>5
      <3> QED  BY <1>4, <1>5, <3>1 DEF ProgramOK
    <2> QED  BY <2>1 DEF ProgramOK
  <1>7. 1 \in 1..Len(s) /\ Len(s) \in 1..Len(s)
    BY <1>5
  <1>8. /\ WillSpawn(t) => WillSpawn(s)
        /\ Next1(c).do = "spawn" => ~WillSpawn(t)
        /\ Next1(c).do \in {"subscribe", "spawn"} => WillSpawn(s)
        /\ Next1(c).do \in {"store", "send"} => Next1(c).value \in Values(Next1(c).of)
    <2>1. \A i \in 1..Len(t) : i + 1 \in 1..Len(s)
      BY <1>5
    <2>2. s[1].do = "spawn" => Len(t) = 0
      BY <1>4, <1>5, <1>7 DEF ProgramOK
    <2> QED  BY <1>4, <1>5, <1>7, <2>1, <2>2 DEF ProgramOK, WillSpawn
  <1>9. ProgramsInv'
    BY <1>1, <1>3, <1>6 DEF ProgramsInv
  <1> QED  BY <1>2, <1>3, <1>8, <1>9

ServerInv == QuietInv /\ ProgramsInv /\ SettingsInv /\ StreamsInv /\ ReceiversInv

LEMMA ProgramLoaded ==
    ASSUME StepsTyped, ProgramsInv, NEW c \in Connections, NEW p \in Seq(StepSet),
           ProgramOK(p), steps' = [steps EXCEPT ![c] = p]
    PROVE  ProgramsInv'
  BY Load DEF ProgramsInv

LEMMA ProgramsStep ==
    ASSUME QuietInv, ProgramsInv, [ServerNext]_serverVars
    PROVE  ProgramsInv'
  <1>0. StepsTyped
    BY DEF QuietInv
  <1>1. ASSUME NEW c \in Connections, steps[c] # <<>>, Done(c)
        PROVE  ProgramsInv'
    BY <1>0, <1>1, ProgramPopped
  <1>2. ASSUME NEW c \in Connections, StartStream(c)
        PROVE  ProgramsInv'
    BY <1>0, <1>2, ProgramLoaded, Programs, SpawnPrograms DEF StartStream
  <1>3. ASSUME NEW c \in Connections, NEW k \in Settings, NEW v \in Values(k), SetCache(c, k, v)
        PROVE  ProgramsInv'
    BY <1>0, <1>3, ProgramLoaded, Programs, SpawnPrograms DEF SetCache
  <1>4. ASSUME NEW c \in Connections, Close(c)
        PROVE  ProgramsInv'
    <2>1. CASE UNCHANGED steps
      BY <2>1 DEF ProgramsInv
    <2>2. CASE steps' = [steps EXCEPT ![c] = ResetSteps]
      BY <1>0, <2>2, ProgramLoaded, Programs, SpawnPrograms
    <2>3. CASE steps' = [steps EXCEPT ![c] = <<>>]
      BY <1>0, <2>3, ProgramLoaded, Programs, SpawnPrograms
    <2> QED  BY <1>4, <2>1, <2>2, <2>3 DEF Close
  <1>5. ASSUME UNCHANGED steps
        PROVE  ProgramsInv'
    BY <1>5 DEF ProgramsInv
  <1>6. ASSUME NEW c \in Connections, Accept(c)
        PROVE  ProgramsInv'
    BY <1>5, <1>6 DEF Accept
  <1>7. ASSUME NEW c \in Connections,
               DoStore(c) \/ DoRebuild(c) \/ DoSend(c) \/ DoEnter(c) \/ DoSubscribe(c) \/ DoSpawn(c)
        PROVE  ProgramsInv'
    <2>1. steps[c] # <<>> /\ Done(c)
      BY <1>7 DEF DoStore, DoRebuild, DoSend, DoEnter, DoSubscribe, DoSpawn, Doing
    <2> QED  BY <1>1, <2>1
  <1> QED  BY <1>2, <1>3, <1>4, <1>5, <1>6, <1>7, Actions, Zenon

(* The settings change by the steps of programs only.                      *)
LEMMA SettingsKept ==
    ASSUME ServerInv, UNCHANGED settingVars
    PROVE  SettingsInv'
  BY DEF ServerInv, SettingsInv, settingVars

LEMMA SettingsStep ==
    ASSUME ServerInv, [ServerNext]_serverVars
    PROVE  SettingsInv'
  <1>0. /\ StepsTyped /\ HandleTyped /\ ProgramsInv
        /\ watch \in [Settings -> Levels \cup Chances] /\ interest \in Levels
        /\ \A k \in Settings : handle[k] \in Values(k) /\ watch[k] \in Values(k)
    BY DEF ServerInv, QuietInv, SettingsInv
  <1>1. ASSUME NEW c \in Connections, DoStore(c)
        PROVE  SettingsInv'
    <2>1. /\ steps[c] # <<>> /\ Done(c) /\ Next1(c).do = "store"
          /\ handle' = [handle EXCEPT ![Next1(c).of] = Next1(c).value]
          /\ UNCHANGED <<watch, interest>>
      BY <1>1 DEF DoStore, Doing
    <2>2. Next1(c).value \in Values(Next1(c).of)
      BY <1>0, <2>1, ProgramPopped
    <2> QED  BY <1>0, <2>1, <2>2 DEF SettingsInv, HandleTyped
  <1>2. ASSUME NEW c \in Connections, DoRebuild(c)
        PROVE  SettingsInv'
    <2>1. handle["level"] \in Levels
      BY <1>0 DEF Settings, Values
    <2> QED  BY <1>0, <1>2, <2>1 DEF DoRebuild, SettingsInv
  <1>3. ASSUME NEW c \in Connections, DoSend(c)
        PROVE  SettingsInv'
    <2>1. /\ steps[c] # <<>> /\ Done(c) /\ Next1(c).do = "send"
          /\ \/ UNCHANGED watch
             \/ watch' = [watch EXCEPT ![Next1(c).of] = Next1(c).value]
          /\ UNCHANGED <<handle, interest>>
      BY <1>3 DEF DoSend, Doing
    <2>2. Next1(c).value \in Values(Next1(c).of) /\ Next1(c) \in StepSet
      BY <1>0, <2>1, ProgramPopped, Pop
    <2>3. Next1(c).value \in Levels \cup Chances
      BY <2>2 DEF Values
    <2> QED  BY <1>0, <2>1, <2>2, <2>3 DEF SettingsInv
  <1>4. ASSUME NEW c \in Connections,
               StartStream(c) \/ Close(c) \/ Accept(c) \/ DoEnter(c) \/ DoSubscribe(c) \/ DoSpawn(c)
        PROVE  SettingsInv'
    BY <1>4, SettingsKept DEF StartStream, Close, Accept, DoEnter, DoSubscribe, DoSpawn
  <1>5. ASSUME NEW c \in Connections, NEW k \in Settings, NEW v \in Values(k), SetCache(c, k, v)
        PROVE  SettingsInv'
    BY <1>5, SettingsKept DEF SetCache
  <1>6. ASSUME NEW c \in Connections, NEW n \in 1..MaxStarts, EndStream(c, n)
        PROVE  SettingsInv'
    BY <1>6, SettingsKept DEF EndStream
  <1>7. ASSUME NEW c \in Connections, NEW n \in 1..MaxStarts, NEW k \in Settings,
               TellInitial(c, n, k) \/ TellChanged(c, n, k) \/ DropReceiver(c, n, k)
        PROVE  SettingsInv'
    BY <1>7, SettingsKept DEF TellInitial, TellChanged, Tell, DropReceiver
  <1>8. ASSUME UNCHANGED serverVars
        PROVE  SettingsInv'
    BY <1>8, SettingsKept DEF serverVars, settingVars
  <1> QED
    BY <1>1, <1>2, <1>3, <1>4, <1>5, <1>6, <1>7, <1>8, Zenon DEF ServerNext, Handler

(* Programs load and pop, and no stream is spawned.                        *)
LEMMA StreamsKept ==
    ASSUME StreamsInv, UNCHANGED <<streams, starts>>,
           \A c \in Connections : WillSpawn(steps'[c]) => WillSpawn(steps[c])
    PROVE  StreamsInv'
  BY DEF StreamsInv

(* One stream is told something, or ends.                                  *)
LEMMA StreamChanged ==
    ASSUME StreamsInv, NEW c \in Connections, NEW n \in 1..Len(streams[c]),
           NEW r \in StreamRecord, \A k \in Settings : r.told[k] \in Values(k) \cup {Untold},
           streams' = [streams EXCEPT ![c] = [streams[c] EXCEPT ![n] = r]],
           UNCHANGED <<starts, steps>>
    PROVE  StreamsInv'
  <1>1. PICK s : s = streams[c]
    OBVIOUS
  <1>2. PICK t : t = [s EXCEPT ![n] = r]
    OBVIOUS
  <1>3. s \in Seq(StreamRecord) /\ n \in 1..Len(s)
    BY <1>1 DEF StreamsInv
  <1>4. /\ t \in Seq(StreamRecord) /\ Len(t) = Len(s) /\ t[n] = r
        /\ \A m \in 1..Len(s) \ {n} : t[m] = s[m]
    <2> HIDE DEF StreamRecord
    <2> QED  BY <1>2, <1>3, ExceptSeq
  <1>5. streams' = [streams EXCEPT ![c] = t]
    BY <1>1, <1>2
  <1>6. streams \in [Connections -> Seq(StreamRecord)]
    BY DEF StreamsInv
  <1>7. /\ streams' \in [Connections -> Seq(StreamRecord)] /\ streams'[c] = t
        /\ \A d \in Connections \ {c} : streams'[d] = streams[d]
    <2> HIDE DEF StreamRecord
    <2> QED  BY <1>4, <1>5, <1>6
  <1>8. \A d \in Connections : Len(streams'[d]) = Len(streams[d])
    BY <1>1, <1>4, <1>7
  <1>9. ASSUME NEW d \in Connections, NEW m \in 1..Len(streams'[d]), NEW k \in Settings
        PROVE  streams'[d][m].told[k] \in Values(k) \cup {Untold}
    <2>1. CASE d = c /\ m = n
      BY <1>4, <1>7, <2>1
    <2>2. CASE ~(d = c /\ m = n)
      <3>1. m \in 1..Len(streams[d]) /\ streams'[d][m] = streams[d][m]
        BY <1>1, <1>4, <1>7, <1>8, <1>9, <2>2
      <3> QED  BY <3>1 DEF StreamsInv
    <2> QED  BY <2>1, <2>2
  <1> QED  BY <1>7, <1>8, <1>9 DEF StreamsInv

LEMMA StreamsStep ==
    ASSUME ServerInv, [ServerNext]_serverVars
    PROVE  StreamsInv'
  <1>0. /\ StepsTyped /\ ProgramsInv /\ StreamsInv /\ SettingsInv
        /\ starts \in 0..MaxStarts /\ MaxStarts \in Nat
        /\ \A c \in Connections :
              /\ streams[c] \in Seq(StreamRecord) /\ Len(streams[c]) \in Nat
              /\ \A n \in 1..Len(streams[c]) : streams[c][n] \in StreamRecord
    <2>1. StreamsInv
      BY DEF ServerInv
    <2>2. \A c \in Connections : streams[c] \in Seq(StreamRecord)
      BY <2>1 DEF StreamsInv
    <2>3. \A c \in Connections : /\ Len(streams[c]) \in Nat
                                 /\ \A n \in 1..Len(streams[c]) : streams[c][n] \in StreamRecord
      <3> HIDE DEF StreamRecord
      <3> QED  BY <2>2, LenProperties, ElementOfSeq
    <2> QED  BY <2>1, <2>2, <2>3, StreamServerAssumption DEF ServerInv, QuietInv, StreamsInv
  <1>1. ASSUME NEW c \in Connections, StartStream(c)
        PROVE  StreamsInv'
    <2>1. /\ starts' = starts + 1 /\ starts < MaxStarts /\ UNCHANGED streams
          /\ steps[c] = <<>> /\ steps' = [steps EXCEPT ![c] = StartSteps]
      BY <1>1 DEF StartStream, Ready
    <2>2. \A d \in Connections \ {c} : steps'[d] = steps[d]
      BY <1>0, <2>1, Load, Programs
    <2>3. starts' \in 0..MaxStarts
      BY <1>0, <2>1
    <2>4. ASSUME NEW d \in Connections
          PROVE  Len(streams'[d]) <= starts' /\ Len(streams'[d]) + 1 <= starts'
      <3>1. Len(streams[d]) <= starts /\ Len(streams[d]) \in Nat /\ starts \in Nat
        BY <1>0 DEF StreamsInv
      <3>2. Len(streams'[d]) = Len(streams[d]) /\ starts' = starts + 1
        BY <2>1
      <3> QED  BY <3>1, <3>2
    <2>5. /\ streams' \in [Connections -> Seq(StreamRecord)]
          /\ \A d \in Connections : \A n \in 1..Len(streams'[d]) : \A k \in Settings :
                streams'[d][n].told[k] \in Values(k) \cup {Untold}
      BY <1>0, <2>1 DEF StreamsInv
    <2> QED  BY <2>3, <2>4, <2>5 DEF StreamsInv
  <1>2. ASSUME NEW c \in Connections, DoSpawn(c)
        PROVE  StreamsInv'
    <2>1. /\ steps[c] # <<>> /\ Done(c) /\ Next1(c).do = "spawn"
          /\ streams' = [streams EXCEPT ![c] = Append(@, [live |-> TRUE, told |-> Nothing])]
          /\ starts' = starts
      BY <1>2 DEF DoSpawn, Doing, bounds
    <2>2. /\ WillSpawn(steps[c]) /\ ~WillSpawn(steps'[c])
          /\ \A d \in Connections \ {c} : steps'[d] = steps[d]
      BY <1>0, <2>1, ProgramPopped, Pop
    <2>3. PICK r : r = [live |-> TRUE, told |-> Nothing]
      OBVIOUS
    <2>4. /\ r \in StreamRecord
          /\ \A k \in Settings : r.told[k] \in Values(k) \cup {Untold}
      BY <2>3 DEF StreamRecord, Nothing
    <2>5. PICK s : s = streams[c]
      OBVIOUS
    <2>6. PICK t : t = Append(s, r)
      OBVIOUS
    <2>7. /\ t \in Seq(StreamRecord) /\ Len(t) = Len(s) + 1 /\ t[Len(t)] = r
          /\ \A n \in 1..Len(s) : t[n] = s[n]
      <3> HIDE DEF StreamRecord
      <3>1. s \in Seq(StreamRecord)
        BY <1>0, <2>5
      <3> QED  BY <2>4, <2>6, <3>1, AppendProperties
    <2>8. /\ streams' \in [Connections -> Seq(StreamRecord)] /\ streams'[c] = t
          /\ \A d \in Connections \ {c} : streams'[d] = streams[d]
      <3> HIDE DEF StreamRecord
      <3>1. streams' = [streams EXCEPT ![c] = t]
        BY <2>1, <2>3, <2>5, <2>6
      <3>2. streams \in [Connections -> Seq(StreamRecord)]
        BY <1>0 DEF StreamsInv
      <3> QED  BY <2>7, <3>1, <3>2
    <2>9. ASSUME NEW d \in Connections, NEW n \in 1..Len(streams'[d]), NEW k \in Settings
          PROVE  streams'[d][n].told[k] \in Values(k) \cup {Untold}
      <3>1. CASE d # c
        BY <1>0, <2>8, <3>1 DEF StreamsInv
      <3>2. CASE d = c /\ n <= Len(s)
        <4>1. n \in 1..Len(streams[c]) /\ streams'[d][n] = streams[c][n]
          BY <1>0, <2>5, <2>7, <2>8, <3>2
        <4> QED  BY <1>0, <4>1 DEF StreamsInv
      <3>3. CASE d = c /\ ~(n <= Len(s))
        <4>1. Len(s) \in Nat
          BY <1>0, <2>5
        <4>2. n = Len(t)
          BY <2>7, <2>8, <3>3, <4>1
        <4> QED  BY <2>4, <2>7, <2>8, <3>3, <4>2
      <3> QED  BY <3>1, <3>2, <3>3
    <2>10. ASSUME NEW d \in Connections
           PROVE  /\ Len(streams'[d]) <= starts
                  /\ WillSpawn(steps'[d]) => Len(streams'[d]) + 1 <= starts
      <3>1. CASE d = c
        <4>1. Len(s) + 1 <= starts
          BY <1>0, <2>2, <2>5 DEF StreamsInv
        <4> QED  BY <2>2, <2>7, <2>8, <3>1, <4>1
      <3>2. CASE d # c
        BY <1>0, <2>2, <2>8, <3>2 DEF StreamsInv
      <3> QED  BY <3>1, <3>2
    <2> QED  BY <1>0, <2>1, <2>8, <2>9, <2>10 DEF StreamsInv
  <1>3. ASSUME NEW c \in Connections,
               DoStore(c) \/ DoRebuild(c) \/ DoSend(c) \/ DoEnter(c) \/ DoSubscribe(c)
        PROVE  StreamsInv'
    <2>1. steps[c] # <<>> /\ Done(c) /\ UNCHANGED <<streams, starts>>
      BY <1>3 DEF DoStore, DoRebuild, DoSend, DoEnter, DoSubscribe, Doing, bounds
    <2>2. /\ WillSpawn(steps'[c]) => WillSpawn(steps[c])
          /\ \A d \in Connections \ {c} : steps'[d] = steps[d]
      BY <1>0, <2>1, ProgramPopped, Pop
    <2>3. \A d \in Connections : WillSpawn(steps'[d]) => WillSpawn(steps[d])
      BY <2>2
    <2> QED  BY <1>0, <2>1, <2>3, StreamsKept
  <1>4. ASSUME NEW c \in Connections, NEW p \in Seq(StepSet), ~WillSpawn(p),
               steps' = [steps EXCEPT ![c] = p], UNCHANGED <<streams, starts>>
        PROVE  StreamsInv'
    <2>1. \A d \in Connections : WillSpawn(steps'[d]) => WillSpawn(steps[d])
      BY <1>0, <1>4, Load
    <2> QED  BY <1>0, <1>4, <2>1, StreamsKept
  <1>5. ASSUME UNCHANGED <<steps, streams, starts>>
        PROVE  StreamsInv'
    BY <1>0, <1>5 DEF StreamsInv
  <1>6. ASSUME NEW c \in Connections, NEW k \in Settings, NEW v \in Values(k), SetCache(c, k, v)
        PROVE  StreamsInv'
    BY <1>4, <1>6, Programs, SpawnPrograms DEF SetCache
  <1>7. ASSUME NEW c \in Connections, Close(c)
        PROVE  StreamsInv'
    <2>1. /\ UNCHANGED <<streams, starts>>
          /\ \/ UNCHANGED steps
             \/ steps' = [steps EXCEPT ![c] = ResetSteps]
             \/ steps' = [steps EXCEPT ![c] = <<>>]
      BY <1>7 DEF Close, bounds
    <2> QED  BY <1>4, <1>5, <2>1, Programs, SpawnPrograms
  <1>8. ASSUME NEW c \in Connections, Accept(c)
        PROVE  StreamsInv'
    BY <1>5, <1>8 DEF Accept, bounds
  <1>9. ASSUME NEW c \in Connections, NEW n \in 1..MaxStarts, NEW k \in Settings,
               TellInitial(c, n, k) \/ TellChanged(c, n, k)
        PROVE  StreamsInv'
    <2>1. /\ n \in 1..Len(streams[c])
          /\ streams' = [streams EXCEPT ![c][n].told[k] = watch[k]]
          /\ UNCHANGED <<steps, starts>>
      BY <1>0, <1>9 DEF TellInitial, TellChanged, Tell, Live, bounds
    <2>2. PICK q \in StreamRecord : q = streams[c][n]
      BY <1>0, <2>1
    <2>3. PICK r : r = [q EXCEPT !.told[k] = watch[k]]
      OBVIOUS
    <2>4. watch[k] \in Values(k) /\ watch[k] \in Levels \cup Chances
      BY <1>0 DEF SettingsInv, Values
    <2>5. /\ r \in StreamRecord /\ r.told[k] = watch[k]
          /\ \A j \in Settings \ {k} : r.told[j] = q.told[j]
      BY <2>2, <2>3, <2>4 DEF StreamRecord
    <2>6. \A j \in Settings : r.told[j] \in Values(j) \cup {Untold}
      BY <1>0, <2>1, <2>2, <2>4, <2>5 DEF StreamsInv
    <2>7. streams' = [streams EXCEPT ![c] = [streams[c] EXCEPT ![n] = r]]
      BY <2>1, <2>2, <2>3
    <2> QED  BY <1>0, <2>1, <2>5, <2>6, <2>7, StreamChanged
  <1>10. ASSUME NEW c \in Connections, NEW n \in 1..MaxStarts, EndStream(c, n)
         PROVE  StreamsInv'
    <2>1. /\ n \in 1..Len(streams[c])
          /\ streams' = [streams EXCEPT ![c][n] = [live |-> FALSE, told |-> Nothing]]
          /\ UNCHANGED <<steps, starts>>
      BY <1>0, <1>10 DEF EndStream, Live, bounds
    <2>2. PICK r : r = [live |-> FALSE, told |-> Nothing]
      OBVIOUS
    <2>3. /\ r \in StreamRecord
          /\ \A k \in Settings : r.told[k] \in Values(k) \cup {Untold}
      BY <2>2 DEF StreamRecord, Nothing
    <2>4. streams' = [streams EXCEPT ![c] = [streams[c] EXCEPT ![n] = r]]
      BY <2>1, <2>2
    <2> QED  BY <1>0, <2>1, <2>3, <2>4, StreamChanged
  <1>11. ASSUME NEW c \in Connections, NEW n \in 1..MaxStarts, NEW k \in Settings,
                DropReceiver(c, n, k)
         PROVE  StreamsInv'
    BY <1>5, <1>11 DEF DropReceiver, bounds
  <1>12. ASSUME UNCHANGED serverVars
         PROVE  StreamsInv'
    BY <1>5, <1>12 DEF serverVars
  <1> QED
    BY <1>1, <1>2, <1>3, <1>6, <1>7, <1>8, <1>9, <1>10, <1>11, <1>12, Zenon DEF ServerNext, Handler

LEMMA ReceiversStep ==
    ASSUME ServerInv, [ServerNext]_serverVars
    PROVE  ReceiversInv'
  <1>0. /\ StepsTyped /\ ProgramsInv /\ StreamsInv /\ MaxStarts \in Nat
        /\ receiver \in [Settings -> SUBSET StreamIds]
        /\ unseen \in [Settings -> SUBSET StreamIds]
        /\ \A k \in Settings : unseen[k] \subseteq receiver[k]
    BY StreamServerAssumption DEF ServerInv, QuietInv, ReceiversInv
  <1>1. ASSUME UNCHANGED channelVars
        PROVE  ReceiversInv'
    BY <1>0, <1>1 DEF channelVars, ReceiversInv
  <1>2. ASSUME NEW c \in Connections, DoSend(c)
        PROVE  ReceiversInv'
    <2>1. \/ UNCHANGED <<receiver, unseen>>
          \/ /\ UNCHANGED receiver
             /\ unseen' = [unseen EXCEPT ![Next1(c).of] = @ \cup receiver[Next1(c).of]]
      BY <1>2 DEF DoSend, Woken
    <2> QED  BY <1>0, <2>1 DEF ReceiversInv
  <1>3. ASSUME NEW c \in Connections, DoSubscribe(c)
        PROVE  ReceiversInv'
    <2>1. /\ steps[c] # <<>> /\ Done(c) /\ Next1(c).do = "subscribe"
          /\ receiver' = [receiver EXCEPT ![Next1(c).of] = @ \cup {<<c, Len(streams[c]) + 1>>}]
          /\ UNCHANGED unseen
      BY <1>3 DEF DoSubscribe, Doing
    <2>2. WillSpawn(steps[c])
      BY <1>0, <2>1, ProgramPopped
    <2>3. Len(streams[c]) \in Nat /\ starts \in 0..MaxStarts /\ Len(streams[c]) + 1 <= starts
      <3>1. streams[c] \in Seq(StreamRecord)
        BY <1>0 DEF StreamsInv
      <3>2. Len(streams[c]) \in Nat
        <4> HIDE DEF StreamRecord
        <4> QED  BY <3>1, LenProperties
      <3> QED  BY <1>0, <2>2, <3>2 DEF StreamsInv
    <2>4. Len(streams[c]) + 1 \in 1..MaxStarts
      BY <1>0, <2>3
    <2>5. <<c, Len(streams[c]) + 1>> \in StreamIds
      BY <2>4 DEF StreamIds
    <2> QED  BY <1>0, <2>1, <2>5 DEF ReceiversInv
  <1>4. ASSUME NEW c \in Connections, NEW n \in 1..MaxStarts, NEW k \in Settings,
               TellInitial(c, n, k) \/ TellChanged(c, n, k)
        PROVE  ReceiversInv'
    <2>1. /\ UNCHANGED receiver
          /\ unseen' = [unseen EXCEPT ![k] = @ \ {<<c, n>>}]
      BY <1>4 DEF TellInitial, TellChanged, Tell
    <2> QED  BY <1>0, <2>1 DEF ReceiversInv
  <1>5. ASSUME NEW c \in Connections, NEW n \in 1..MaxStarts, NEW k \in Settings,
               DropReceiver(c, n, k)
        PROVE  ReceiversInv'
    <2>1. /\ receiver' = [receiver EXCEPT ![k] = @ \ {<<c, n>>}]
          /\ unseen' = [unseen EXCEPT ![k] = @ \ {<<c, n>>}]
      BY <1>5 DEF DropReceiver
    <2> QED  BY <1>0, <2>1 DEF ReceiversInv
  <1>6. ASSUME NEW c \in Connections,
               \/ StartStream(c) \/ Close(c) \/ Accept(c)
               \/ DoStore(c) \/ DoRebuild(c) \/ DoEnter(c) \/ DoSpawn(c)
        PROVE  ReceiversInv'
    BY <1>1, <1>6 DEF StartStream, Close, Accept, DoStore, DoRebuild, DoEnter, DoSpawn
  <1>7. ASSUME NEW c \in Connections, NEW k \in Settings, NEW v \in Values(k), SetCache(c, k, v)
        PROVE  ReceiversInv'
    BY <1>1, <1>7 DEF SetCache
  <1>8. ASSUME NEW c \in Connections, NEW n \in 1..MaxStarts, EndStream(c, n)
        PROVE  ReceiversInv'
    BY <1>1, <1>8 DEF EndStream
  <1>9. ASSUME UNCHANGED serverVars
        PROVE  ReceiversInv'
    BY <1>1, <1>9 DEF serverVars, channelVars
  <1> QED
    BY <1>2, <1>3, <1>4, <1>5, <1>6, <1>7, <1>8, <1>9, Zenon DEF ServerNext, Handler

LEMMA ServerInitInv == ServerInit => ServerInv
  <1> SUFFICES ASSUME ServerInit  PROVE ServerInv
    OBVIOUS
  <1>1. QuietInv
    BY QuietInitially
  <1>2. ProgramsInv
    BY SpawnPrograms DEF ServerInit, ProgramsInv
  <1>3. SettingsInv
    <2>1. PICK l \in Levels : handle = [Quiet EXCEPT !["level"] = l]
      BY DEF ServerInit
    <2>2. watch = handle /\ interest = handle["level"]
      BY DEF ServerInit
    <2>3. /\ handle \in [Settings -> Levels \cup Chances]
          /\ \A k \in Settings : handle[k] \in Values(k)
      BY <2>1, StreamServerAssumption DEF Quiet, Settings, Values
    <2>4. handle["level"] \in Levels
      BY <2>3 DEF Settings, Values
    <2> QED  BY <2>2, <2>3, <2>4 DEF SettingsInv
  <1>4. StreamsInv
    <2>1. /\ streams = [c \in Connections |-> <<>>] /\ starts = 0
          /\ \A c \in Connections : steps[c] = <<>>
      BY DEF ServerInit
    <2>2. /\ streams \in [Connections -> Seq(StreamRecord)]
          /\ \A c \in Connections : Len(streams[c]) = 0 /\ 1..Len(streams[c]) = {}
      <3> HIDE DEF StreamRecord
      <3>1. <<>> \in Seq(StreamRecord) /\ Len(<<>>) = 0
        OBVIOUS
      <3> QED  BY <2>1, <3>1
    <2>3. \A c \in Connections : ~WillSpawn(steps[c])
      BY <2>1, SpawnPrograms
    <2>4. 0 \in 0..MaxStarts /\ 0 <= 0
      BY StreamServerAssumption
    <2> QED  BY <2>1, <2>2, <2>3, <2>4 DEF StreamsInv
  <1>5. ReceiversInv
    BY DEF ServerInit, ReceiversInv
  <1> QED  BY <1>1, <1>2, <1>3, <1>4, <1>5 DEF ServerInv

LEMMA ServerTypes ==
    ASSUME ServerInv
    PROVE  TypeOK
  <1>1. /\ \A k \in Settings :
              /\ handle[k] \in Values(k) /\ watch[k] \in Values(k)
              /\ unseen[k] \subseteq receiver[k] /\ receiver[k] \subseteq StreamIds
        /\ interest \in Levels
    BY DEF ServerInv, SettingsInv, ReceiversInv
  <1>2. /\ active_streams = Cardinality({c \in Connections : stream_guard[c] = "held"})
        /\ status \in [Connections -> {"new", "open", "closed"}]
        /\ stream_guard \in [Connections -> {"none", "held", "dropped"}]
    BY DEF ServerInv, QuietInv, GuardInv, Held
  <1>3. ASSUME NEW c \in Connections
        PROVE  /\ Len(streams[c]) <= MaxStarts
               /\ \A n \in 1..Len(streams[c]), k \in Settings :
                     streams[c][n].told[k] \in Values(k) \cup {Untold}
    <2>1. /\ Len(streams[c]) <= starts /\ starts \in 0..MaxStarts
          /\ \A n \in 1..Len(streams[c]) : \A k \in Settings :
                streams[c][n].told[k] \in Values(k) \cup {Untold}
      BY DEF ServerInv, StreamsInv
    <2>2. Len(streams[c]) \in Nat
      <3>1. streams[c] \in Seq(StreamRecord)
        BY DEF ServerInv, StreamsInv
      <3> HIDE DEF StreamRecord
      <3> QED  BY <3>1, LenProperties
    <2>3. Len(streams[c]) <= MaxStarts
      BY <2>1, <2>2, StreamServerAssumption
    <2> QED  BY <2>1, <2>3
  <1> QED  BY <1>1, <1>2, <1>3 DEF TypeOK

(* The counter counts the guards, whatever a connection starts, closes and *)
(* drops at once; only receivers have changes to see; each setting keeps a *)
(* value of its own; and every receiver belongs to a stream that was       *)
(* started (server.rs:118, 136, 201).                                      *)
THEOREM ServerTyped == ServerSpec => []TypeOK
  <1>1. ServerInit => ServerInv
    BY ServerInitInv
  <1>2. ServerInv /\ [ServerNext]_serverVars => ServerInv'
    BY QuietStep, ProgramsStep, SettingsStep, StreamsStep, ReceiversStep DEF ServerInv
  <1>3. ServerInv => TypeOK
    BY ServerTypes
  <1> QED  BY <1>1, <1>2, <1>3, PTL DEF ServerSpec

=============================================================================
