--------------------------- MODULE ConsoleProofs ---------------------------
(***************************************************************************)
(* Theorems of ConsoleSpec, for any levels, versions, channel capacities   *)
(* and numbers of keys, upsets and spans: the types, the agreement of the  *)
(* installer and its modal, the header that catches up with the host, and  *)
(* the level that explore mode gives back.                                 *)
(***************************************************************************)
EXTENDS Console, SequenceTheorems, TLAPS

-----------------------------------------------------------------------------
(* The inductive invariants                                                *)

(* No update of the given kinds, and the last one of these kinds.          *)
Without(s, kinds) == \A i \in DOMAIN s : s[i].kind \notin kinds
EndsWith(s, kinds, u) ==
    \E i \in DOMAIN s : s[i] = u /\ \A j \in DOMAIN s : j > i => s[j].kind \notin kinds

(* A modal is running its installer until the report of it is applied, and *)
(* there is never more than one report.                                    *)
InstallerInv ==
    /\ installer = "Running" => confirm.status = "Running" /\ Without(updates, ReportKinds)
    /\ \A i \in DOMAIN updates :
          updates[i].kind \in ReportKinds =>
              /\ confirm.status = "Running"
              /\ installer = IF updates[i].kind = "InstallerSucceeded" THEN "Succeeded"
                                                                      ELSE "Failed"
              /\ \A j \in DOMAIN updates : updates[j].kind \in ReportKinds => j = i
    /\ confirm.status = "Restart" \/ exit = "Restart" => installer = "Succeeded"

(* What is shown once the responses in s and the updates in us are applied.*)
Shows(s, us, shown, l) ==
    \/ EndsWith(s, {"CacheLevelReceived"}, Tell(l))
    \/ /\ Without(s, {"CacheLevelReceived"})
       /\ \/ EndsWith(us, {"CacheLevelReceived"}, Tell(l))
          \/ Without(us, {"CacheLevelReceived"}) /\ shown = l
Links(us, shown) ==
    \/ EndsWith(us, LinkKinds, Update("Connected"))
    \/ Without(us, LinkKinds) /\ shown = "Connected"

(* On a connection, everything that was refused aside, the host's level is *)
(* on its way or still to be told.                                         *)
HeaderInv ==
    ~refused /\ online =>
        /\ Links(updates, connection)
        /\ news \/ Shows(stream, updates, cacheLevel, level)

(* While keys wait until nothing is on its way, one key is on its way, or  *)
(* one request, and the view is the one the key was pressed in.            *)
Pressed(i) == updates[i].kind \in KeyKinds

PressedInv ==
    \A i \in DOMAIN updates : Pressed(i) =>
        /\ \A j \in DOMAIN updates : Pressed(j) => j = i
        /\ online /\ ~news /\ out = <<>> /\ requests = <<>> /\ cacheLevel = level
        /\ updates[i].kind = "ToggleGraph" => ~Exploring
        /\ updates[i].kind = "ExitTraceDetail" => view.mode = "TraceDetail"
        /\ Without(updates, {"CacheLevelReceived"}) /\ Without(stream, {"CacheLevelReceived"})

(* Where the level is going, outside explore mode, and inside it where it  *)
(* will go back to.                                                        *)
DueInv ==
    /\ Len(out) + Len(requests) <= 1
    /\ Exploring => view.explore.restore = due
    /\ ~Exploring =>
        /\ \A i \in DOMAIN out : out[i].kind = "SetCacheLevel" => out[i].level = due
        /\ \A i \in DOMAIN requests : requests[i].kind = "SetCacheLevel" => requests[i].level = due
        /\ Without(out, {"SetCacheLevel"}) /\ Without(requests, {"SetCacheLevel"}) => level = due

CalmInv == calm /\ ~refused => PressedInv /\ DueInv

-----------------------------------------------------------------------------
(* Sequences                                                               *)

LEMMA EmptyItems ==
    ASSUME NEW K, NEW u
    PROVE  Without(<<>>, K) /\ ~EndsWith(<<>>, K, u)
  BY DEF Without, EndsWith

LEMMA OneItem ==
    ASSUME NEW K, NEW u
    PROVE  /\ Without(<<u>>, K) <=> u.kind \notin K
           /\ EndsWith(<<u>>, K, u)
  BY DEF Without, EndsWith

LEMMA TailItems ==
    ASSUME NEW S, NEW s \in Seq(S), s # <<>>, NEW K, NEW u
    PROVE  /\ Head(s) \in S /\ Tail(s) \in Seq(S) /\ Len(Tail(s)) = Len(s) - 1
           /\ 1 \in DOMAIN s /\ Head(s) = s[1]
           /\ DOMAIN Tail(s) = 1 .. Len(s) - 1
           /\ \A i \in DOMAIN Tail(s) : Tail(s)[i] = s[i + 1] /\ i + 1 \in DOMAIN s
           /\ Without(s, K) <=> Head(s).kind \notin K /\ Without(Tail(s), K)
           /\ EndsWith(s, K, u) => \/ EndsWith(Tail(s), K, u)
                                   \/ Head(s) = u /\ Without(Tail(s), K)
  <1> DEFINE t == Tail(s)
  <1>1. /\ Len(s) \in Nat \ {0} /\ DOMAIN s = 1 .. Len(s) /\ Head(s) = s[1] /\ s[1] \in S
        /\ t \in Seq(S) /\ Len(t) = Len(s) - 1 /\ DOMAIN t = 1 .. Len(s) - 1
        /\ \A i \in 1 .. Len(s) - 1 : t[i] = s[i + 1]
    OBVIOUS
  <1> HIDE DEF t
  <1>2. 1 \in DOMAIN s /\ \A i \in DOMAIN t : i + 1 \in DOMAIN s
    BY <1>1
  <1>3. \A i \in DOMAIN s : i = 1 \/ (i - 1 \in DOMAIN t /\ t[i - 1] = s[i])
    BY <1>1
  <1>4. Without(s, K) <=> Head(s).kind \notin K /\ Without(t, K)
    BY <1>1, <1>2, <1>3 DEF Without
  <1>5. ASSUME EndsWith(s, K, u)
        PROVE  EndsWith(t, K, u) \/ (Head(s) = u /\ Without(t, K))
    <2>1. PICK i \in DOMAIN s : s[i] = u /\ \A j \in DOMAIN s : j > i => s[j].kind \notin K
      BY <1>5 DEF EndsWith
    <2>2. CASE i = 1
      <3>1. \A j \in DOMAIN t : t[j].kind \notin K
        BY <1>1, <1>2, <2>1, <2>2
      <3> QED  BY <1>1, <2>1, <2>2, <3>1 DEF Without
    <2>3. CASE i # 1
      <3>1. i - 1 \in DOMAIN t /\ t[i - 1] = u
        BY <1>3, <2>1, <2>3
      <3>2. \A j \in DOMAIN t : j > i - 1 => t[j].kind \notin K
        BY <1>1, <1>2, <2>1
      <3> QED  BY <3>1, <3>2 DEF EndsWith
    <2> QED  BY <2>2, <2>3
  <1> QED  BY <1>1, <1>2, <1>4, <1>5 DEF t

LEMMA ConcatItems ==
    ASSUME NEW S, NEW s \in Seq(S), NEW t \in Seq(S), NEW K, NEW u
    PROVE  /\ s \o t \in Seq(S) /\ Len(s \o t) = Len(s) + Len(t)
           /\ \A i \in DOMAIN (s \o t) :
                 \/ i \in DOMAIN s /\ (s \o t)[i] = s[i]
                 \/ i - Len(s) \in DOMAIN t /\ (s \o t)[i] = t[i - Len(s)]
           /\ Without(s \o t, K) <=> Without(s, K) /\ Without(t, K)
           /\ EndsWith(t, K, u) => EndsWith(s \o t, K, u)
           /\ EndsWith(s, K, u) /\ Without(t, K) => EndsWith(s \o t, K, u)
  <1> DEFINE c == s \o t
  <1>1. /\ Len(s) \in Nat /\ Len(t) \in Nat
        /\ DOMAIN s = 1 .. Len(s) /\ DOMAIN t = 1 .. Len(t)
        /\ c \in Seq(S) /\ Len(c) = Len(s) + Len(t) /\ DOMAIN c = 1 .. Len(s) + Len(t)
        /\ \A i \in 1 .. Len(s) + Len(t) : c[i] = IF i <= Len(s) THEN s[i] ELSE t[i - Len(s)]
    BY ConcatProperties, LenProperties
  <1> HIDE DEF c
  <1>2. \A i \in DOMAIN s : i \in DOMAIN c /\ c[i] = s[i]
    BY <1>1
  <1>3. \A i \in DOMAIN t : Len(s) + i \in DOMAIN c /\ c[Len(s) + i] = t[i]
    <2> SUFFICES ASSUME NEW i \in DOMAIN t
                 PROVE  Len(s) + i \in DOMAIN c /\ c[Len(s) + i] = t[i]
      OBVIOUS
    <2>1. Len(s) + i \in DOMAIN c /\ ~(Len(s) + i <= Len(s)) /\ (Len(s) + i) - Len(s) = i
      BY <1>1
    <2> QED  BY <1>1, <2>1
  <1>4. \A i \in DOMAIN c :
           \/ i \in DOMAIN s /\ c[i] = s[i]
           \/ i > Len(s) /\ i - Len(s) \in DOMAIN t /\ c[i] = t[i - Len(s)]
    BY <1>1
  <1>5. Without(c, K) <=> Without(s, K) /\ Without(t, K)
    <2>1. ASSUME Without(c, K)
          PROVE  Without(s, K) /\ Without(t, K)
      BY <1>2, <1>3, <2>1 DEF Without
    <2>2. ASSUME Without(s, K), Without(t, K)
          PROVE  Without(c, K)
      BY <1>4, <2>2 DEF Without
    <2> QED  BY <2>1, <2>2
  <1>6. ASSUME EndsWith(t, K, u)
        PROVE  EndsWith(c, K, u)
    <2>1. PICK i \in DOMAIN t : t[i] = u /\ \A j \in DOMAIN t : j > i => t[j].kind \notin K
      BY <1>6 DEF EndsWith
    <2>2. Len(s) + i \in DOMAIN c /\ c[Len(s) + i] = u
      BY <1>3, <2>1
    <2>3. ASSUME NEW j \in DOMAIN c, j > Len(s) + i
          PROVE  c[j].kind \notin K
      <3>1. j \notin DOMAIN s /\ j - Len(s) > i
        BY <1>1, <2>1, <2>3
      <3> QED  BY <1>4, <2>1, <3>1
    <2> QED  BY <2>2, <2>3 DEF EndsWith
  <1>7. ASSUME EndsWith(s, K, u), Without(t, K)
        PROVE  EndsWith(c, K, u)
    <2>1. PICK i \in DOMAIN s : s[i] = u /\ \A j \in DOMAIN s : j > i => s[j].kind \notin K
      BY <1>7 DEF EndsWith
    <2>2. \A j \in DOMAIN c : j > i => c[j].kind \notin K
      BY <1>4, <1>7, <2>1 DEF Without
    <2> QED  BY <1>2, <2>1, <2>2 DEF EndsWith
  <1> QED  BY <1>1, <1>4, <1>5, <1>6, <1>7 DEF c

LEMMA AppendItems ==
    ASSUME NEW S, NEW s \in Seq(S), NEW e \in S, NEW K, NEW u
    PROVE  /\ Append(s, e) \in Seq(S) /\ Len(Append(s, e)) = Len(s) + 1
           /\ Without(Append(s, e), K) <=> Without(s, K) /\ e.kind \notin K
           /\ EndsWith(Append(s, e), K, e)
           /\ EndsWith(s, K, u) /\ e.kind \notin K => EndsWith(Append(s, e), K, u)
  <1>1. Append(s, e) = s \o <<e>> /\ <<e>> \in Seq(S) /\ Len(<<e>>) = 1
    BY AppendIsConcat
  <1>2. /\ Without(<<e>>, K) <=> e.kind \notin K
        /\ EndsWith(<<e>>, K, e)
    BY OneItem
  <1>3. /\ s \o <<e>> \in Seq(S) /\ Len(s \o <<e>>) = Len(s) + 1
        /\ Without(s \o <<e>>, K) <=> Without(s, K) /\ Without(<<e>>, K)
        /\ EndsWith(<<e>>, K, e) => EndsWith(s \o <<e>>, K, e)
        /\ EndsWith(s, K, u) /\ Without(<<e>>, K) => EndsWith(s \o <<e>>, K, u)
    BY <1>1, ConcatItems
  <1> QED  BY <1>1, <1>2, <1>3

-----------------------------------------------------------------------------
(* Updates, views and effects                                              *)

LEMMA KeyFacts ==
    ASSUME NEW u \in Key
    PROVE  u \in AnyUpdate /\ u.kind \in KeyKinds
  BY DEF Key, AnyUpdate, Update, LevelKeys, KeyKinds

LEMMA ResponseFacts ==
    ASSUME NEW u \in Response
    PROVE  /\ u \in AnyUpdate
           /\ u.kind \in {"SpanReceived", "CacheLevelReceived", "ServerInfoReceived"}
           /\ u.kind \notin KeyKinds \cup LinkKinds \cup ReportKinds
  <1>1. u \in AnyUpdate
    BY DEF AnyUpdate
  <1>2. u.kind \in {"SpanReceived", "CacheLevelReceived", "ServerInfoReceived"}
    BY DEF Response, Update, Tell
  <1> QED  BY <1>1, <1>2 DEF KeyKinds, PlainKinds, LinkKinds, ReportKinds

LEMMA UpdateFacts ==
    ASSUME NEW u \in AnyUpdate
    PROVE  /\ u.kind = "CacheLevelReceived" => u.level \in Levels /\ u = Tell(u.level)
           /\ u.kind = "RequestCacheLevel" => u.level \in Levels
           /\ u.kind = "ServerInfoReceived" => u.version \in Versions
           /\ u.kind \in {"BeginGraphInput", "EndGraphInput"} => u.input \in GraphInputs
           /\ u.kind \in LinkKinds => u = Update(u.kind)
  <1>1. CASE u \in {Update(k) : k \in PlainKinds \cup LinkKinds \cup ReportKinds}
    <2>1. PICK k \in PlainKinds \cup LinkKinds \cup ReportKinds : u = Update(k)
      BY <1>1
    <2>2. u.kind = k
      BY <2>1 DEF Update
    <2>3. k \notin {"CacheLevelReceived", "RequestCacheLevel", "ServerInfoReceived",
                   "BeginGraphInput", "EndGraphInput"}
      BY DEF PlainKinds, LinkKinds, ReportKinds
    <2> QED  BY <2>1, <2>2, <2>3
  <1>2. CASE u \in LevelKeys
    <2>1. PICK l \in KeyLevels : u = [kind |-> "RequestCacheLevel", level |-> l]
      BY <1>2 DEF LevelKeys
    <2>2. u.kind = "RequestCacheLevel" /\ u.level \in Levels
      BY <2>1, ConsoleAssumption
    <2> QED  BY <2>2 DEF LinkKinds
  <1>3. CASE u \in [kind : {"BeginGraphInput", "EndGraphInput"}, input : GraphInputs]
    <2>1. u.kind \in {"BeginGraphInput", "EndGraphInput"} /\ u.input \in GraphInputs
      BY <1>3
    <2> QED  BY <2>1 DEF LinkKinds
  <1>4. CASE u \in Response
    <2>1. CASE u = Update("SpanReceived")
      <3>1. u.kind = "SpanReceived"
        BY <2>1 DEF Update
      <3> QED  BY <3>1 DEF LinkKinds
    <2>2. CASE u \in {Tell(l) : l \in Levels}
      <3>1. PICK l \in Levels : u = Tell(l)
        BY <2>2
      <3>2. u.kind = "CacheLevelReceived" /\ u.level = l
        BY <3>1 DEF Tell
      <3> QED  BY <3>1, <3>2 DEF LinkKinds
    <2>3. CASE u \in [kind : {"ServerInfoReceived"}, version : Versions]
      <3>1. u.kind = "ServerInfoReceived" /\ u.version \in Versions
        BY <2>3
      <3> QED  BY <3>1 DEF LinkKinds
    <2> QED  BY <1>4, <2>1, <2>2, <2>3 DEF Response
  <1> QED  BY <1>1, <1>2, <1>3, <1>4 DEF AnyUpdate, Key

LEMMA ViewFacts ==
    ASSUME view \in ViewMode
    PROVE  /\ view.mode \in {"Table", "Graph", "Explore", "TraceDetail"}
           /\ view.mode = "Table" <=> view = Table
           /\ view.mode = "Graph" => view.inputs \subseteq GraphInputs
           /\ Exploring => view.explore \in ExploreState
  <1>1. CASE view = Table
    BY <1>1 DEF Table, Exploring
  <1>2. CASE view \in {Graph(open) : open \in SUBSET GraphInputs}
    BY <1>2 DEF Graph, Table, Exploring
  <1>3. CASE view \in {Explore(es) : es \in ExploreState}
    BY <1>3 DEF Explore, Table, Exploring
  <1>4. CASE view \in {TraceDetail(es) : es \in ExploreState}
    BY <1>4 DEF TraceDetail, Table, Exploring
  <1> QED  BY <1>1, <1>2, <1>3, <1>4 DEF ViewMode

LEMMA ViewsTyped ==
    /\ Table \in ViewMode
    /\ \A open \in SUBSET GraphInputs : Graph(open) \in ViewMode
    /\ \A es \in ExploreState : Explore(es) \in ViewMode /\ TraceDetail(es) \in ViewMode
  BY DEF ViewMode

LEMMA EffectFacts ==
    ASSUME NEW eff \in Effect
    PROVE  /\ eff.kind = "RequestSetLevel" => eff.level \in Levels
           /\ Outgoing(eff) \in Seq(Request) /\ Len(Outgoing(eff)) \in {0, 1}
  <1>1. /\ eff.kind \in {"None", "RequestSetChance", "RunUpdateInstaller", "Quit", "Restart",
                         "RequestSetLevel"}
        /\ eff.kind = "RequestSetLevel" => eff.level \in Levels
    BY DEF Effect, RequestSetLevel
  <1>2. CASE eff.kind = "RequestSetLevel"
    <2>1. [kind |-> "SetCacheLevel", level |-> eff.level] \in Request
      BY <1>1, <1>2 DEF Request
    <2>2. Outgoing(eff) = <<[kind |-> "SetCacheLevel", level |-> eff.level]>>
      BY <1>2 DEF Outgoing
    <2> QED  BY <1>1, <2>1, <2>2
  <1>3. CASE eff.kind = "RequestSetChance"
    <2>1. Update("SetCacheChance") \in Request
      BY DEF Request
    <2>2. Outgoing(eff) = <<Update("SetCacheChance")>>
      BY <1>3 DEF Outgoing
    <2> QED  BY <1>3, <2>1, <2>2
  <1>4. CASE eff.kind \notin {"RequestSetLevel", "RequestSetChance"}
    <2>1. Outgoing(eff) = <<>>
      BY <1>4 DEF Outgoing
    <2> QED  BY <1>4, <2>1
  <1> QED  BY <1>2, <1>3, <1>4

(* The host's side of the model: only what the host or the network says    *)
(* changes what is shown of it.                                            *)
LEMMA ShownArm ==
    ASSUME NEW u, NEW eff, apply(u, eff)
    PROVE  /\ cacheLevel' = IF u.kind = "CacheLevelReceived" THEN u.level ELSE cacheLevel
           /\ connection' = IF u.kind = "Connected" THEN "Connected"
                            ELSE IF u.kind = "Disconnected" THEN "Disconnected" ELSE connection
           /\ serverVersion' = IF u.kind = "ServerInfoReceived" THEN u.version ELSE serverVersion
           /\ hasRow' \in {hasRow, TRUE}
  BY DEF apply, SpanReceived, Connected, Disconnected, CacheLevelReceived, ServerInfoReceived,
         RequestCacheLevel, BeginChanceInput, ChanceInputCancel, ChanceInputCommit, ToggleGraph,
         BeginGraphInput, EndGraphInput, EnterExplore, ExitExplore, BeginExploreSearch,
         EndExploreSearch, ExploreOpenTrace, ExitTraceDetail, EnterTable, EnterGraph, Quit,
         QuitConfirmDismiss, BeginConfirmVersionSwitch, ConfirmVersionSwitchYes,
         ConfirmVersionSwitchNo, InstallerReport, MoveTo, Stay, SetConfirm, modelVars, hostShown

(* The quit prompt and the chance modal.                                   *)
LEMMA PromptArm ==
    ASSUME NEW u, NEW eff, apply(u, eff)
    PROVE  /\ chanceInput' \in {chanceInput, TRUE, FALSE}
           /\ quitDeadline' \in {quitDeadline, "Pending", "None"}
  BY DEF apply, SpanReceived, Connected, Disconnected, CacheLevelReceived, ServerInfoReceived,
         RequestCacheLevel, BeginChanceInput, ChanceInputCancel, ChanceInputCommit, ToggleGraph,
         BeginGraphInput, EndGraphInput, EnterExplore, ExitExplore, BeginExploreSearch,
         EndExploreSearch, ExploreOpenTrace, ExitTraceDetail, EnterTable, EnterGraph, Quit,
         QuitConfirmDismiss, BeginConfirmVersionSwitch, ConfirmVersionSwitchYes,
         ConfirmVersionSwitchNo, InstallerReport, MoveTo, Stay, SetConfirm, modelVars, prompts

ViewKinds ==
    {"ToggleGraph", "BeginGraphInput", "EndGraphInput", "EnterExplore", "ExitExplore",
     "BeginExploreSearch", "EndExploreSearch", "ExploreOpenTrace", "ExitTraceDetail",
     "EnterTable", "EnterGraph"}

(* The version switch.                                                     *)
ConfirmKinds ==
    {"BeginConfirmVersionSwitch", "ConfirmVersionSwitchYes", "ConfirmVersionSwitchNo"}
        \cup ReportKinds

LEMMA ConfirmKept ==
    ASSUME NEW u, NEW eff, apply(u, eff), u.kind \notin ConfirmKinds
    PROVE  confirm' = confirm /\ eff.kind \notin {"RunUpdateInstaller", "Restart"}
  <1>1. /\ NoEffect.kind = "None" /\ RequestSetChance.kind = "RequestSetChance"
        /\ \A l : RequestSetLevel(l).kind = "RequestSetLevel"
        /\ \A es : Restore(es).kind = "RequestSetLevel"
    BY DEF NoEffect, RequestSetChance, RequestSetLevel, Restore
  <1>2. [kind |-> "Quit"].kind = "Quit"
    OBVIOUS
  <1>3. CASE u.kind \in ViewKinds
    <2>1. confirm' = confirm
      BY <1>3 DEF apply, prompts, ViewKinds, ToggleGraph, BeginGraphInput, EndGraphInput,
           EnterExplore, ExitExplore, BeginExploreSearch, EndExploreSearch, ExploreOpenTrace,
           ExitTraceDetail, EnterTable, EnterGraph, MoveTo, Stay
    <2>2. \/ eff = NoEffect \/ eff = RequestSetLevel(OFF)
          \/ \E es : eff = Restore(es)
      BY <1>3 DEF apply, ViewKinds, ToggleGraph, BeginGraphInput, EndGraphInput,
           EnterExplore, ExitExplore, BeginExploreSearch, EndExploreSearch, ExploreOpenTrace,
           ExitTraceDetail, EnterTable, EnterGraph, MoveTo, Stay
    <2> QED  BY <1>1, <2>1, <2>2
  <1>4. CASE u.kind \notin ViewKinds
    <2>1. \/ SpanReceived(eff) \/ Connected(eff) \/ Disconnected(eff)
          \/ CacheLevelReceived(u.level, eff) \/ ServerInfoReceived(u.version, eff)
          \/ RequestCacheLevel(u.level, eff) \/ BeginChanceInput(eff) \/ ChanceInputCancel(eff)
          \/ ChanceInputCommit(eff) \/ Quit(eff) \/ QuitConfirmDismiss(eff)
      BY <1>4 DEF apply, ViewKinds, ConfirmKinds, ReportKinds
    <2>2. confirm' = confirm
      BY <2>1 DEF prompts, SpanReceived, Connected, Disconnected, CacheLevelReceived,
           ServerInfoReceived, RequestCacheLevel, BeginChanceInput, ChanceInputCancel,
           ChanceInputCommit, Quit, QuitConfirmDismiss, modelVars
    <2>3. \/ eff = NoEffect \/ eff = RequestSetLevel(u.level) \/ eff = RequestSetChance
          \/ eff = [kind |-> "Quit"]
      BY <2>1 DEF SpanReceived, Connected, Disconnected, CacheLevelReceived,
           ServerInfoReceived, RequestCacheLevel, BeginChanceInput, ChanceInputCancel,
           ChanceInputCommit, Quit, QuitConfirmDismiss, modelVars
    <2> QED  BY <1>1, <1>2, <2>2, <2>3
  <1> QED  BY <1>3, <1>4

LEMMA ConfirmArm ==
    ASSUME confirm \in [status : ConfirmStatus, version : Versions \cup {Unknown}],
           serverVersion \in Versions \cup {Unknown},
           NEW u, NEW eff, apply(u, eff), u.kind \in ConfirmKinds
    PROVE  /\ confirm' \in [status : ConfirmStatus, version : Versions \cup {Unknown}]
           /\ \/ /\ confirm'.status = confirm.status /\ eff.kind # "RunUpdateInstaller"
                 /\ u.kind \in ReportKinds => confirm = NoConfirm
              \/ /\ confirm'.status \in {"Confirming", "Closed"} /\ confirm.status # "Running"
                 /\ eff.kind # "RunUpdateInstaller" /\ u.kind \notin ReportKinds
              \/ /\ confirm'.status = "Running" /\ confirm.status = "Confirming"
                 /\ u.kind \notin ReportKinds
              \/ /\ u.kind = "InstallerSucceeded" /\ confirm'.status = "Restart"
                 /\ eff.kind # "RunUpdateInstaller"
              \/ /\ u.kind = "InstallerFailed" /\ confirm'.status = "Failed"
                 /\ eff.kind # "RunUpdateInstaller"
           /\ eff.kind = "Restart" => confirm.status = "Restart"
  <1> DEFINE Modal == [status : ConfirmStatus, version : Versions \cup {Unknown}]
  <1>0. NoEffect.kind = "None" /\ RunUpdateInstaller.kind = "RunUpdateInstaller"
    BY DEF NoEffect, RunUpdateInstaller
  <1>1. /\ NoConfirm \in Modal /\ NoConfirm.status = "Closed"
        /\ \A c \in Modal : \A st \in ConfirmStatus :
              [c EXCEPT !.status = st] \in Modal /\ [c EXCEPT !.status = st].status = st
        /\ confirm.status \in ConfirmStatus
    BY DEF NoConfirm, ConfirmStatus
  <1>2. {"Confirming", "Running", "Failed", "Restart"} \subseteq ConfirmStatus
    BY DEF ConfirmStatus
  <1>3. CASE u.kind = "BeginConfirmVersionSwitch"
    <2>1. BeginConfirmVersionSwitch(eff)
      BY <1>3 DEF apply
    <2>2. CASE confirm' = confirm /\ eff = NoEffect
      BY <1>0, <1>3, <2>2 DEF ReportKinds
    <2>3. CASE confirm = NoConfirm /\ eff = NoEffect
               /\ confirm' = [status |-> "Confirming", version |-> serverVersion]
      <3>1. confirm' \in Modal /\ confirm'.status = "Confirming"
        BY <1>2, <2>3
      <3> QED  BY <1>0, <1>1, <1>3, <2>3, <3>1 DEF ReportKinds
    <2> QED  BY <2>1, <2>2, <2>3 DEF BeginConfirmVersionSwitch, SetConfirm
  <1>4. CASE u.kind = "ConfirmVersionSwitchYes"
    <2>1. ConfirmVersionSwitchYes(eff)
      BY <1>4 DEF apply
    <2>2. CASE confirm.status = "Confirming" /\ confirm' = [confirm EXCEPT !.status = "Running"]
               /\ eff = RunUpdateInstaller
      <3>1. confirm' \in Modal /\ confirm'.status = "Running"
        BY <1>1, <1>2, <2>2
      <3> QED  BY <1>0, <1>4, <2>2, <3>1 DEF ReportKinds
    <2>3. CASE confirm.status = "Restart" /\ confirm' = confirm /\ eff = [kind |-> "Restart"]
      <3>1. eff.kind = "Restart"
        BY <2>3
      <3> QED  BY <1>4, <2>3, <3>1 DEF ReportKinds
    <2>4. CASE confirm' = confirm /\ eff = NoEffect
      BY <1>0, <1>4, <2>4 DEF ReportKinds
    <2> QED  BY <2>1, <2>2, <2>3, <2>4 DEF ConfirmVersionSwitchYes, SetConfirm
  <1>5. CASE u.kind = "ConfirmVersionSwitchNo"
    <2>1. /\ confirm' = IF confirm.status = "Running" THEN confirm ELSE NoConfirm
          /\ eff = NoEffect
      BY <1>5 DEF apply, ConfirmVersionSwitchNo, SetConfirm
    <2> QED  BY <1>0, <1>1, <1>5, <2>1 DEF ReportKinds
  <1>6. CASE u.kind \in ReportKinds
    <2>1. PICK st \in {"Restart", "Failed"} :
             /\ InstallerReport(st, eff)
             /\ u.kind = "InstallerSucceeded" => st = "Restart"
             /\ u.kind = "InstallerFailed" => st = "Failed"
      BY <1>6 DEF apply, ReportKinds
    <2>2. /\ confirm' = IF confirm = NoConfirm THEN confirm ELSE [confirm EXCEPT !.status = st]
          /\ eff = NoEffect
      BY <2>1 DEF InstallerReport, SetConfirm
    <2> QED  BY <1>0, <1>1, <1>2, <1>6, <2>1, <2>2 DEF ReportKinds
  <1> QED  BY <1>3, <1>4, <1>5, <1>6 DEF ConfirmKinds

LEMMA ViewKept ==
    ASSUME NEW u, NEW eff, apply(u, eff), u.kind \notin ViewKinds
    PROVE  view' = view
  BY DEF apply, SpanReceived, Connected, Disconnected, CacheLevelReceived, ServerInfoReceived,
         RequestCacheLevel, BeginChanceInput, ChanceInputCancel, ChanceInputCommit, Quit,
         QuitConfirmDismiss, BeginConfirmVersionSwitch, ConfirmVersionSwitchYes,
         ConfirmVersionSwitchNo, InstallerReport, SetConfirm, modelVars, ViewKinds

(* The way between the views, and what becomes of the borrowed level.      *)
LEMMA ViewArm ==
    ASSUME view \in ViewMode, cacheLevel \in Levels \cup {Unknown},
           NEW u \in AnyUpdate, NEW eff, apply(u, eff), u.kind \in ViewKinds
    PROVE  /\ view' \in ViewMode
           /\ \/ /\ Exploring' = Exploring /\ eff = NoEffect
                 /\ Exploring => view'.explore.restore = view.explore.restore
              \/ /\ ~Exploring /\ Exploring' /\ eff = RequestSetLevel(OFF)
                 /\ view'.explore.restore = cacheLevel
              \/ Exploring /\ ~Exploring' /\ eff = Restore(view.explore)
              \/ Exploring /\ ~Exploring' /\ u.kind = "ToggleGraph"
              \/ /\ Exploring /\ ~Exploring' /\ u.kind = "ExitTraceDetail"
                 /\ view.mode # "TraceDetail"
  <1>0. /\ view.mode \in {"Table", "Graph", "Explore", "TraceDetail"}
        /\ view.mode = "Table" <=> view = Table
        /\ view.mode = "Graph" => view.inputs \subseteq GraphInputs
        /\ Exploring => view.explore \in ExploreState
        /\ u.kind \in {"BeginGraphInput", "EndGraphInput"} => u.input \in GraphInputs
    BY ViewFacts, UpdateFacts
  <1>1. /\ Table.mode = "Table"
        /\ \A open : Graph(open).mode = "Graph"
        /\ \A es : Explore(es).mode = "Explore" /\ Explore(es).explore = es
        /\ \A es : TraceDetail(es).mode = "TraceDetail" /\ TraceDetail(es).explore = es
    BY DEF Table, Graph, Explore, TraceDetail
  <1>2. CASE u.kind \in {"ToggleGraph", "EnterTable", "EnterGraph"}
    <2>1. ToggleGraph(eff) \/ EnterTable(eff) \/ EnterGraph(eff)
      BY <1>2 DEF apply
    <2>2. view' \in {view, Table, Graph({})}
      BY <2>1 DEF ToggleGraph, EnterTable, EnterGraph, MoveTo, Stay
    <2>3. view' \in ViewMode
      BY <2>2, ViewsTyped
    <2>4. CASE u.kind = "ToggleGraph"
      <3>1. ToggleGraph(eff)
        BY <2>4 DEF apply
      <3> QED  BY <1>0, <1>1, <2>3, <2>4, <3>1 DEF ToggleGraph, MoveTo, Exploring
    <2>5. CASE u.kind = "EnterTable"
      <3>1. EnterTable(eff)
        BY <2>5 DEF apply
      <3> QED  BY <1>0, <1>1, <2>3, <3>1 DEF EnterTable, MoveTo, Exploring
    <2>6. CASE u.kind = "EnterGraph"
      <3>1. EnterGraph(eff)
        BY <2>6 DEF apply
      <3> QED  BY <1>0, <1>1, <2>3, <3>1 DEF EnterGraph, MoveTo, Stay, Exploring
    <2> QED  BY <1>2, <2>4, <2>5, <2>6
  <1>3. CASE u.kind \in {"BeginGraphInput", "EndGraphInput"}
    <2>1. BeginGraphInput(u.input, eff) \/ EndGraphInput(u.input, eff)
      BY <1>3 DEF apply
    <2>2. CASE view.mode # "Graph"
      <3>1. view' = view /\ eff = NoEffect
        BY <2>1, <2>2 DEF BeginGraphInput, EndGraphInput, Stay, MoveTo
      <3> QED  BY <3>1 DEF Exploring
    <2>3. CASE view.mode = "Graph"
      <3>1. PICK open \in SUBSET GraphInputs : view' = Graph(open) /\ eff = NoEffect
        BY <1>0, <1>3, <2>1, <2>3 DEF BeginGraphInput, EndGraphInput, MoveTo
      <3> QED  BY <1>1, <2>3, <3>1, ViewsTyped DEF Exploring
    <2> QED  BY <2>2, <2>3
  <1>4. CASE u.kind = "EnterExplore"
    <2>1. EnterExplore(eff)
      BY <1>4 DEF apply
    <2>2. CASE (view = Table /\ hasRow) \/ view.mode = "Graph"
      <3> DEFINE es == [restore |-> cacheLevel, searching |-> FALSE]
      <3>1. es \in ExploreState
        BY DEF ExploreState
      <3>2. view' = Explore(es) /\ eff = RequestSetLevel(OFF)
        BY <1>1, <2>1, <2>2 DEF EnterExplore, MoveTo
      <3>3. view'.mode = "Explore" /\ view'.explore = es
        BY <1>1, <3>2
      <3>4. Explore(es) \in ViewMode
        BY <3>1, ViewsTyped
      <3> QED  BY <1>1, <2>2, <3>2, <3>3, <3>4 DEF Exploring
    <2>3. CASE view.mode = "TraceDetail"
      <3>1. view' = Explore(view.explore) /\ eff = NoEffect /\ view.explore \in ExploreState
        BY <1>0, <1>1, <2>1, <2>3 DEF EnterExplore, MoveTo, Exploring
      <3> QED  BY <1>1, <2>3, <3>1, ViewsTyped DEF Exploring
    <2>4. CASE ~((view = Table /\ hasRow) \/ view.mode = "Graph" \/ view.mode = "TraceDetail")
      <3>1. view' = view /\ eff = NoEffect
        BY <2>1, <2>4 DEF EnterExplore, Stay, MoveTo
      <3> QED  BY <3>1 DEF Exploring
    <2> QED  BY <2>2, <2>3, <2>4
  <1>5. CASE u.kind = "ExitExplore"
    <2>1. ExitExplore(eff)
      BY <1>5 DEF apply
    <2> QED  BY <1>0, <1>1, <2>1, ViewsTyped DEF ExitExplore, Stay, MoveTo, Exploring
  <1>6. CASE u.kind \in {"BeginExploreSearch", "EndExploreSearch"}
    <2>1. BeginExploreSearch(eff) \/ EndExploreSearch(eff)
      BY <1>6 DEF apply
    <2>2. CASE view.mode # "Explore"
      <3>1. view' = view /\ eff = NoEffect
        BY <2>1, <2>2 DEF BeginExploreSearch, EndExploreSearch, Stay, MoveTo
      <3> QED  BY <3>1 DEF Exploring
    <2>3. CASE view.mode = "Explore"
      <3>1. view.explore \in ExploreState
        BY <1>0, <2>3 DEF Exploring
      <3>2. PICK b \in BOOLEAN : view' = Explore([view.explore EXCEPT !.searching = b]) /\ eff = NoEffect
        BY <2>1, <2>3 DEF BeginExploreSearch, EndExploreSearch, MoveTo
      <3>3. /\ [view.explore EXCEPT !.searching = b] \in ExploreState
            /\ [view.explore EXCEPT !.searching = b].restore = view.explore.restore
        BY <3>1 DEF ExploreState
      <3> QED  BY <1>1, <2>3, <3>2, <3>3, ViewsTyped DEF Exploring
    <2> QED  BY <2>2, <2>3
  <1>7. CASE u.kind = "ExploreOpenTrace"
    <2>1. ExploreOpenTrace(eff)
      BY <1>7 DEF apply
    <2>2. CASE view' = view /\ eff = NoEffect
      BY <2>2 DEF Exploring
    <2>3. CASE view.mode = "Explore" /\ view' = TraceDetail(view.explore) /\ eff = NoEffect
      <3>1. view.explore \in ExploreState
        BY <1>0, <2>3 DEF Exploring
      <3> QED  BY <1>1, <2>3, <3>1, ViewsTyped DEF Exploring
    <2> QED  BY <2>1, <2>2, <2>3 DEF ExploreOpenTrace, Stay, MoveTo
  <1>8. CASE u.kind = "ExitTraceDetail"
    <2>1. ExitTraceDetail(eff)
      BY <1>8 DEF apply
    <2>2. CASE view.mode = "TraceDetail"
      <3>1. view' = Explore(view.explore) /\ eff = NoEffect /\ view.explore \in ExploreState
        BY <1>0, <2>1, <2>2 DEF ExitTraceDetail, MoveTo, Exploring
      <3> QED  BY <1>1, <2>2, <3>1, ViewsTyped DEF Exploring
    <2>3. CASE view.mode # "TraceDetail"
      <3>1. view' = Table /\ eff = NoEffect
        BY <2>1, <2>3 DEF ExitTraceDetail, MoveTo
      <3> QED  BY <1>1, <1>8, <2>3, <3>1, ViewsTyped DEF Exploring
    <2> QED  BY <2>2, <2>3
  <1> QED  BY <1>2, <1>3, <1>4, <1>5, <1>6, <1>7, <1>8 DEF ViewKinds

(* The modal is one that Keymap has keys for.                              *)
LEMMA ModalFacts ==
    ASSUME view \in ViewMode
    PROVE  ModalKind \in GraphInputs
                \cup {"ConfirmVersionSwitch", "Chance", "ExploreSearch", "None"}
  <1>1. ASSUME view.mode = "Graph", view.inputs # {}
        PROVE  (CHOOSE i \in view.inputs : \A j \in view.inputs : Before(i, j)) \in GraphInputs
    <2>1. view.inputs \subseteq {"Agg", "Window", "Lookback"} /\ view.inputs \subseteq GraphInputs
      BY <1>1, ViewFacts, InputsAssumption
    <2>2. \E i \in view.inputs : \A j \in view.inputs : Before(i, j)
      <3>1. CASE "Agg" \in view.inputs
        BY <3>1 DEF Before
      <3>2. CASE "Agg" \notin view.inputs /\ "Window" \in view.inputs
        BY <2>1, <3>2 DEF Before
      <3>3. CASE "Agg" \notin view.inputs /\ "Window" \notin view.inputs
        BY <1>1, <2>1, <3>3 DEF Before
      <3> QED  BY <3>1, <3>2, <3>3
    <2> QED  BY <2>1, <2>2
  <1> QED  BY <1>1 DEF ModalKind

LEMMA KeymapFacts ==
    ASSUME ModelTypeOK, NEW u \in Keymap
    PROVE  /\ u \in Key
           /\ u.kind = "ToggleGraph" => ~Exploring
           /\ u.kind = "ExitTraceDetail" => view.mode = "TraceDetail"
  <1>0. view.mode \in {"Table", "Graph", "Explore", "TraceDetail"} /\ quitDeadline \in QuitDeadline
    BY ViewFacts DEF ModelTypeOK
  <1>1. \A k \in PlainKinds : Update(k) \in Key /\ Update(k).kind = k
    BY DEF Key, Update
  <1>2. CASE ModalKind = "None"
    <2>1. "None" \notin GraphInputs
      BY InputsAssumption
    <2>2. Keymap = LevelKeys \cup ViewKeys[view.mode]
                   \cup {EscKey, Update("Quit"), Update("BeginConfirmVersionSwitch")}
      BY <1>2, <2>1 DEF Keymap
    <2>3. CASE u \in LevelKeys
      BY <2>3 DEF LevelKeys, Key
    <2>4. CASE u = EscKey
      <3>1. \/ u = Update("QuitConfirmDismiss")
            \/ u = Update("Quit") /\ view.mode = "Table"
            \/ u = Update("ToggleGraph") /\ view.mode = "Graph"
            \/ u = Update("ExitExplore") /\ view.mode = "Explore"
            \/ u = Update("ExitTraceDetail") /\ view.mode = "TraceDetail"
        BY <1>0, <2>4 DEF EscKey, QuitDeadline
      <3> QED  BY <1>1, <3>1 DEF PlainKinds, Exploring
    <2>5. CASE u \in {Update("Quit"), Update("BeginConfirmVersionSwitch")}
      BY <1>1, <2>5 DEF PlainKinds
    <2>6. CASE u \in ViewKeys[view.mode]
      <3>1. CASE view.mode = "Table"
        <4>1. u \in {Update("BeginChanceInput"), Update("ToggleGraph"), Update("EnterExplore")}
          BY <2>6, <3>1 DEF ViewKeys
        <4> QED  BY <1>1, <3>1, <4>1 DEF PlainKinds, Exploring
      <3>2. CASE view.mode = "Graph"
        <4>1. \/ u \in {Update("EnterTable"), Update("EnterExplore")}
              \/ \E i \in GraphInputs : u = [kind |-> "BeginGraphInput", input |-> i]
          BY <2>6, <3>2 DEF ViewKeys
        <4>2. ASSUME NEW i \in GraphInputs, u = [kind |-> "BeginGraphInput", input |-> i]
              PROVE  u \in Key /\ u.kind = "BeginGraphInput"
          BY <4>2 DEF Key
        <4> QED  BY <1>1, <4>1, <4>2 DEF PlainKinds
      <3>3. CASE view.mode = "Explore"
        <4>1. u \in {Update(k) : k \in {"EnterTable", "EnterGraph", "BeginExploreSearch",
                                        "ExploreOpenTrace"}}
          BY <2>6, <3>3 DEF ViewKeys
        <4> QED  BY <1>1, <4>1 DEF PlainKinds
      <3>4. CASE view.mode = "TraceDetail"
        <4>1. u \in {Update("EnterTable"), Update("EnterGraph"), Update("ExitTraceDetail")}
          BY <2>6, <3>4 DEF ViewKeys
        <4> QED  BY <1>1, <3>4, <4>1 DEF PlainKinds
      <3> QED  BY <1>0, <3>1, <3>2, <3>3, <3>4
    <2> QED  BY <2>2, <2>3, <2>4, <2>5, <2>6
  <1>3. CASE ModalKind \in GraphInputs
    <2>1. ModalKind \notin {"Chance", "ExploreSearch", "ConfirmVersionSwitch", "None"}
      BY <1>3, InputsAssumption
    <2>2. Keymap = {[kind |-> "EndGraphInput", input |-> ModalKind]}
      BY <1>3, <2>1 DEF Keymap
    <2>3. u = [kind |-> "EndGraphInput", input |-> ModalKind]
      BY <2>2
    <2>4. u.kind = "EndGraphInput" /\ u \in Key
      BY <1>3, <2>3 DEF Key
    <2> QED  BY <2>4
  <1>4. CASE ModalKind \in {"Chance", "ExploreSearch", "ConfirmVersionSwitch"}
    <2>1. ModalKind \notin GraphInputs
      BY <1>4, InputsAssumption
    <2>2. u \in {Update("ChanceInputCommit"), Update("ChanceInputCancel"),
                 Update("EndExploreSearch"), Update("ConfirmVersionSwitchYes"),
                 Update("ConfirmVersionSwitchNo")}
      BY <1>4, <2>1 DEF Keymap
    <2> QED  BY <1>1, <2>2 DEF PlainKinds
  <1> QED  BY <1>2, <1>3, <1>4, ModalFacts DEF ModelTypeOK

-----------------------------------------------------------------------------
(* Types                                                                   *)

(* What each step adds to the updates: nothing, a key, a response batch,   *)
(* word of the link, or the installer's report; or it takes the first.     *)
LEMMA OfferFacts ==
    ASSUME updates \in Seq(AnyUpdate), Len(updates) <= UpdateCapacity,
           NEW items \in Seq(AnyUpdate), Offer(items)
    PROVE  /\ updates' \in Seq(AnyUpdate) /\ Len(updates') <= UpdateCapacity
           /\ updates' = updates \/ (Fits(items) /\ updates' = updates \o items)
  <1>1. updates \o items \in Seq(AnyUpdate) /\ Len(updates \o items) = Len(updates) + Len(items)
    BY ConcatProperties
  <1> QED  BY <1>1 DEF Offer, Fits

LEMMA SingleUpdate ==
    ASSUME NEW u \in AnyUpdate
    PROVE  <<u>> \in Seq(AnyUpdate) /\ Len(<<u>>) = 1
  OBVIOUS

LEMMA ResponsesAreUpdates == Seq(Response) \subseteq Seq(AnyUpdate)
  <1> SUFFICES ASSUME NEW s \in Seq(Response)
               PROVE  s \in Seq(AnyUpdate)
    OBVIOUS
  <1>1. Len(s) \in Nat /\ s \in [1 .. Len(s) -> Response] /\ Response \subseteq AnyUpdate
    BY LenProperties DEF AnyUpdate
  <1>2. s \in [1 .. Len(s) -> AnyUpdate]
    <2> HIDE DEF AnyUpdate, Response
    <2> QED  BY <1>1
  <1> QED  BY <1>1, <1>2, SeqDef

LEMMA InitTyped == ConsoleInit => TypeOK
  <1> SUFFICES ASSUME ConsoleInit
               PROVE  TypeOK
    OBVIOUS
  <1>1. ModelTypeOK
    BY ViewsTyped DEF ConsoleInit, ModelInit, ModelTypeOK, NoConfirm, ConfirmStatus, QuitDeadline
  <1>2. {UpdateCapacity, OutCapacity} \subseteq Nat /\ level \in Levels
    BY ConsoleAssumption DEF ConsoleInit
  <1>3. /\ <<>> \in Seq(AnyUpdate) /\ <<>> \in Seq(Request) /\ <<>> \in Seq(Response)
        /\ Len(<<>>) = 0
    BY EmptySeq
  <1>4. /\ updates \in Seq(AnyUpdate) /\ Len(updates) <= UpdateCapacity
        /\ out \in Seq(Request) /\ Len(out) <= OutCapacity
        /\ requests \in Seq(Request) /\ stream \in Seq(Response)
    BY <1>2, <1>3 DEF ConsoleInit
  <1>5. /\ online = FALSE /\ news = FALSE /\ calm = TRUE /\ refused = FALSE
        /\ installer = "Idle" /\ exit = "No" /\ due = level
    BY DEF ConsoleInit
  <1> QED  BY <1>1, <1>2, <1>4, <1>5 DEF TypeOK

(* An arm of the reducer.                                                  *)
LEMMA ApplyTyped ==
    ASSUME ModelTypeOK, NEW u \in AnyUpdate, NEW eff \in Effect, apply(u, eff)
    PROVE  ModelTypeOK'
  <1>1. /\ u.kind = "CacheLevelReceived" => u.level \in Levels
        /\ u.kind = "ServerInfoReceived" => u.version \in Versions
    BY UpdateFacts
  <1>2. view' \in ViewMode
    BY ViewArm, ViewKept DEF ModelTypeOK
  <1>3. confirm' \in [status : ConfirmStatus, version : Versions \cup {Unknown}]
    BY ConfirmKept, ConfirmArm DEF ModelTypeOK
  <1>4. /\ cacheLevel' \in Levels \cup {Unknown} /\ serverVersion' \in Versions \cup {Unknown}
        /\ connection' \in {"Connecting", "Connected", "Disconnected"} /\ hasRow' \in BOOLEAN
    <2>1. /\ cacheLevel' = IF u.kind = "CacheLevelReceived" THEN u.level ELSE cacheLevel
          /\ connection' = IF u.kind = "Connected" THEN "Connected"
                           ELSE IF u.kind = "Disconnected" THEN "Disconnected" ELSE connection
          /\ serverVersion' = IF u.kind = "ServerInfoReceived" THEN u.version ELSE serverVersion
          /\ hasRow' \in {hasRow, TRUE}
      BY ShownArm
    <2>2. hasRow' \in BOOLEAN
      BY <2>1 DEF ModelTypeOK
    <2> QED  BY <1>1, <2>1, <2>2 DEF ModelTypeOK
  <1>5. quitDeadline' \in QuitDeadline /\ chanceInput' \in BOOLEAN
    <2>1. /\ chanceInput' \in {chanceInput, TRUE, FALSE}
          /\ quitDeadline' \in {quitDeadline, "Pending", "None"}
      BY PromptArm
    <2> QED  BY <2>1 DEF ModelTypeOK, QuitDeadline
  <1> QED  BY <1>2, <1>3, <1>4, <1>5 DEF ModelTypeOK

LEMMA PerformTyped ==
    ASSUME TypeOK, NEW eff \in Effect, Perform(eff)
    PROVE  /\ out' \in Seq(Request) /\ Len(out') <= OutCapacity
           /\ installer' \in {"Idle", "Running", "Succeeded", "Failed"}
           /\ exit' \in {"No", "Quit", "Restart"}
           /\ OutFits(eff) \in BOOLEAN
  <1>1. Outgoing(eff) \in Seq(Request) /\ out \in Seq(Request)
    BY EffectFacts DEF TypeOK
  <1>2. out \o Outgoing(eff) \in Seq(Request)
        /\ Len(out \o Outgoing(eff)) = Len(out) + Len(Outgoing(eff))
    BY <1>1, ConcatProperties
  <1>3. out' = IF OutFits(eff) THEN out \o Outgoing(eff) ELSE out
    BY DEF Perform
  <1>4. out' \in Seq(Request) /\ Len(out') <= OutCapacity
    BY <1>2, <1>3 DEF OutFits, TypeOK
  <1> QED  BY <1>4 DEF Perform, TypeOK, OutFits

LEMMA TypeStep == TypeOK /\ [ConsoleNext]_consoleVars => TypeOK'
  <1> SUFFICES ASSUME TypeOK, [ConsoleNext]_consoleVars
               PROVE  TypeOK'
    OBVIOUS
  <1> DEFINE ChannelsTyped ==
               /\ updates \in Seq(AnyUpdate) /\ Len(updates) <= UpdateCapacity
               /\ out \in Seq(Request) /\ Len(out) <= OutCapacity
               /\ requests \in Seq(Request) /\ stream \in Seq(Response)
             Flags ==
               /\ online \in BOOLEAN /\ news \in BOOLEAN /\ level \in Levels
               /\ installer \in {"Idle", "Running", "Succeeded", "Failed"}
               /\ exit \in {"No", "Quit", "Restart"}
               /\ due \in Levels /\ calm \in BOOLEAN /\ refused \in BOOLEAN
  <1> SUFFICES ModelTypeOK' /\ ChannelsTyped' /\ Flags'
    BY DEF TypeOK
  <1>0. ModelTypeOK /\ ChannelsTyped /\ Flags
    BY DEF TypeOK
  <1>1. UNCHANGED modelVars => ModelTypeOK'
    BY <1>0 DEF modelVars, ModelTypeOK
  <1>2. \A k \in LinkKinds \cup ReportKinds : Update(k) \in AnyUpdate
    BY DEF AnyUpdate
  <1>3. (Settled \in BOOLEAN) /\ \A items : Fits(items) \in BOOLEAN
    BY DEF Settled, Fits
  <1>4. OFF \in Levels
    BY LevelsAssumption
  <1>5. ASSUME UNCHANGED consoleVars
        PROVE  ModelTypeOK' /\ ChannelsTyped' /\ Flags'
    BY <1>0, <1>1, <1>5 DEF consoleVars, channelVars, hostVars, history
  <1>6. ASSUME keyboard_loop
        PROVE  ModelTypeOK' /\ ChannelsTyped' /\ Flags'
    <2>1. PICK u \in Keymap : Offer(<<u>>)
      BY <1>6 DEF keyboard_loop
    <2>2. u \in AnyUpdate
      BY <1>0, <2>1, KeymapFacts, KeyFacts
    <2>3. updates' \in Seq(AnyUpdate) /\ Len(updates') <= UpdateCapacity
      BY <1>0, <2>1, <2>2, SingleUpdate, OfferFacts
    <2> QED  BY <1>0, <1>1, <1>6, <2>3, <1>3 DEF keyboard_loop, hostVars
  <1>7. ASSUME ApplyNext
        PROVE  ModelTypeOK' /\ ChannelsTyped' /\ Flags'
    <2>1. PICK u : u = Head(updates)
      OBVIOUS
    <2>2. u \in AnyUpdate /\ updates' \in Seq(AnyUpdate) /\ Len(updates') <= UpdateCapacity
      <3>1. /\ Head(updates) \in AnyUpdate /\ Tail(updates) \in Seq(AnyUpdate)
            /\ Len(Tail(updates)) = Len(updates) - 1 /\ Len(updates) \in Nat
        BY <1>0, <1>7, HeadTailProperties, LenProperties DEF ApplyNext
      <3>2. UpdateCapacity \in Nat
        BY ConsoleAssumption
      <3> QED  BY <1>0, <1>7, <2>1, <3>1, <3>2 DEF ApplyNext
    <2>3. PICK eff \in Effect : apply(u, eff) /\ Perform(eff) /\ calm' = (calm /\ OutFits(eff))
      BY <1>7, <2>1 DEF ApplyNext
    <2>4. ModelTypeOK'
      BY <1>0, <2>2, <2>3, ApplyTyped
    <2>5. /\ out' \in Seq(Request) /\ Len(out') <= OutCapacity
          /\ installer' \in {"Idle", "Running", "Succeeded", "Failed"}
          /\ exit' \in {"No", "Quit", "Restart"} /\ calm' \in BOOLEAN
      BY <2>3, PerformTyped
    <2>6. due' \in Levels
      BY <1>0, <1>7, <2>1, <2>2, UpdateFacts DEF ApplyNext, Asked
    <2> QED  BY <1>0, <1>7, <2>2, <2>4, <2>5, <2>6 DEF ApplyNext, hostVars
  <1>8. ASSUME Tick \/ Elapse
        PROVE  ModelTypeOK' /\ ChannelsTyped' /\ Flags'
    <2>1. /\ UNCHANGED <<view, hasRow, cacheLevel, connection, serverVersion, confirm, chanceInput>>
          /\ UNCHANGED <<updates, out, online, requests, stream, level, news, installer, exit>>
          /\ UNCHANGED <<due, calm, refused>>
          /\ quitDeadline' \in {"None", "Due"}
      BY <1>8 DEF Tick, Elapse, expire_quit_confirm_if_due, channelVars, hostVars, hostShown, history
    <2>2. ModelTypeOK'
      BY <1>0, <2>1 DEF ModelTypeOK, QuitDeadline
    <2> QED  BY <1>0, <2>1, <2>2
  <1>9. ASSUME InstallerDone
        PROVE  ModelTypeOK' /\ ChannelsTyped' /\ Flags'
    <2>1. PICK k \in ReportKinds : Offer(<<Update(k)>>)
      BY <1>9 DEF InstallerDone, ReportKinds
    <2>2. updates' \in Seq(AnyUpdate) /\ Len(updates') <= UpdateCapacity
      BY <1>0, <1>2, <2>1, SingleUpdate, OfferFacts
    <2> QED  BY <1>0, <1>1, <1>3, <1>9, <2>2 DEF InstallerDone, hostVars
  <1>10. ASSUME Connect
         PROVE  ModelTypeOK' /\ ChannelsTyped' /\ Flags'
    <2>1. updates' \in Seq(AnyUpdate) /\ Len(updates') <= UpdateCapacity
      BY <1>0, <1>2, <1>10, SingleUpdate, OfferFacts DEF Connect, NetSends, LinkKinds
    <2>2. stream' \in Seq(Response)
      <3>1. PICK v \in Versions : stream' = <<[kind |-> "ServerInfoReceived", version |-> v],
                                              [kind |-> "CacheLevelReceived", level |-> level]>>
        BY <1>10 DEF Connect
      <3>2. [kind |-> "ServerInfoReceived", version |-> v] \in Response
        BY DEF Response
      <3>3. Tell(level) \in Response
        BY <1>0 DEF Response
      <3> QED  BY <3>1, <3>2, <3>3 DEF Tell
    <2> QED  BY <1>0, <1>1, <1>3, <1>10, <2>1, <2>2 DEF Connect, NetSends
  <1>11. ASSUME ConnectFails
         PROVE  ModelTypeOK' /\ ChannelsTyped' /\ Flags'
    <2>1. updates' \in Seq(AnyUpdate) /\ Len(updates') <= UpdateCapacity
      BY <1>0, <1>2, <1>11, SingleUpdate, OfferFacts DEF ConnectFails, NetSends, LinkKinds
    <2> QED  BY <1>0, <1>1, <1>3, <1>11, <2>1 DEF ConnectFails, NetSends, hostVars
  <1>12. ASSUME Receive
         PROVE  ModelTypeOK' /\ ChannelsTyped' /\ Flags'
    <2>1. stream \in Seq(AnyUpdate)
      BY <1>0, ResponsesAreUpdates
    <2>2. updates' \in Seq(AnyUpdate) /\ Len(updates') <= UpdateCapacity
      BY <1>0, <1>12, <2>1, OfferFacts DEF Receive, NetSends
    <2> QED  BY <1>0, <1>1, <1>3, <1>12, <2>2, EmptySeq DEF Receive, NetSends
  <1>13. ASSUME SendRequest
         PROVE  ModelTypeOK' /\ ChannelsTyped' /\ Flags'
    <2>1. /\ Head(out) \in Request /\ Tail(out) \in Seq(Request) /\ Len(Tail(out)) = Len(out) - 1
          /\ Len(out) \in Nat
      BY <1>0, <1>13, HeadTailProperties, LenProperties DEF SendRequest
    <2>2. Append(requests, Head(out)) \in Seq(Request)
      BY <1>0, <2>1, AppendProperties
    <2>3. OutCapacity \in Nat
      BY ConsoleAssumption
    <2>4. Len(Tail(out)) <= OutCapacity
      BY <1>0, <2>1, <2>3
    <2> QED  BY <1>0, <1>1, <1>13, <2>1, <2>2, <2>4 DEF SendRequest, history
  <1>14. ASSUME ConnectionDrops
         PROVE  ModelTypeOK' /\ ChannelsTyped' /\ Flags'
    <2>1. updates' \in Seq(AnyUpdate) /\ Len(updates') <= UpdateCapacity
      BY <1>0, <1>2, <1>14, SingleUpdate, OfferFacts DEF ConnectionDrops, NetSends, LinkKinds
    <2>2. /\ level' \in Levels /\ due' \in Levels
      BY <1>0, <1>4, <1>14 DEF ConnectionDrops
    <2> QED  BY <1>0, <1>1, <1>3, <1>14, <2>1, <2>2, EmptySeq DEF ConnectionDrops, NetSends
  <1>15. ASSUME HandleRequest
         PROVE  ModelTypeOK' /\ ChannelsTyped' /\ Flags'
    <2>1. Head(requests) \in Request /\ Tail(requests) \in Seq(Request)
      BY <1>0, <1>15, HeadTailProperties DEF HandleRequest
    <2>2. Head(requests).kind = "SetCacheLevel" => Head(requests).level \in Levels
      BY <2>1 DEF Request, Update
    <2> QED  BY <1>0, <1>1, <1>15, <2>1, <2>2 DEF HandleRequest, channelVars, history
  <1>16. ASSUME TellLevel
         PROVE  ModelTypeOK' /\ ChannelsTyped' /\ Flags'
    <2>1. Tell(level) \in Response
      BY <1>0 DEF Response
    <2>2. stream' \in Seq(Response)
      BY <1>0, <1>16, <2>1, AppendProperties DEF TellLevel, Tell
    <2> QED  BY <1>0, <1>1, <1>16, <2>2 DEF TellLevel, channelVars, history
  <1>17. ASSUME SendSpan
         PROVE  ModelTypeOK' /\ ChannelsTyped' /\ Flags'
    <2>1. Update("SpanReceived") \in Response
      BY DEF Response
    <2>2. stream' \in Seq(Response)
      BY <1>0, <1>17, <2>1, AppendProperties DEF SendSpan
    <2> QED  BY <1>0, <1>1, <1>17, <2>2 DEF SendSpan, channelVars, history
  <1>18. ASSUME OtherConsole
         PROVE  ModelTypeOK' /\ ChannelsTyped' /\ Flags'
    BY <1>0, <1>1, <1>3, <1>18 DEF OtherConsole, channelVars
  <1> QED  BY <1>5, <1>6, <1>7, <1>8, <1>9, <1>10, <1>11, <1>12, <1>13, <1>14, <1>15, <1>16,
              <1>17, <1>18 DEF ConsoleNext, Network, Host

(* The channels stay within their capacities, every update and request is  *)
(* one that its receiver knows, and the model is typed, whichever way the  *)
(* keyboard, the runtime, the network and the host interleave              *)
(* (runtime.rs:118-260).                                                   *)
THEOREM ConsoleTypes == ConsoleSpec => []TypeOK
  BY InitTyped, TypeStep, PTL DEF ConsoleSpec

-----------------------------------------------------------------------------
(* The installer                                                           *)

(* Steps other than an apply and the installer's report.                   *)
LEMMA OtherSteps ==
    ASSUME TypeOK, [ConsoleNext]_consoleVars, ~ApplyNext, ~InstallerDone
    PROVE  /\ UNCHANGED <<installer, exit, confirm, view>>
           /\ \/ updates' = updates
              \/ \E items \in Seq(AnyUpdate) :
                    updates' = updates \o items /\ Without(items, ReportKinds)
  <1> USE DEF TypeOK
  <1>1. ASSUME NEW u \in AnyUpdate, u.kind \notin ReportKinds, Offer(<<u>>)
        PROVE  \/ updates' = updates
               \/ \E items \in Seq(AnyUpdate) :
                     updates' = updates \o items /\ Without(items, ReportKinds)
    <2>1. <<u>> \in Seq(AnyUpdate) /\ Without(<<u>>, ReportKinds)
      BY <1>1, SingleUpdate, OneItem
    <2> QED  BY <1>1, <2>1, OfferFacts
  <1>2. ASSUME keyboard_loop
        PROVE  /\ UNCHANGED <<installer, exit, confirm, view>>
               /\ \/ updates' = updates
                  \/ \E items \in Seq(AnyUpdate) :
                        updates' = updates \o items /\ Without(items, ReportKinds)
    <2>1. PICK u \in Keymap : Offer(<<u>>)
      BY <1>2 DEF keyboard_loop
    <2>2. u \in AnyUpdate /\ u.kind \notin ReportKinds
      <3>1. u \in AnyUpdate /\ u.kind \in KeyKinds
        BY <2>1, KeymapFacts, KeyFacts
      <3> QED  BY <3>1 DEF KeyKinds, PlainKinds, ReportKinds
    <2> QED  BY <1>1, <1>2, <2>1, <2>2 DEF keyboard_loop, modelVars
  <1>3. ASSUME Connect \/ ConnectFails \/ ConnectionDrops
        PROVE  /\ UNCHANGED <<installer, exit, confirm, view>>
               /\ \/ updates' = updates
                  \/ \E items \in Seq(AnyUpdate) :
                        updates' = updates \o items /\ Without(items, ReportKinds)
    <2>1. PICK k \in LinkKinds : Offer(<<Update(k)>>)
      BY <1>3 DEF Connect, ConnectFails, ConnectionDrops, NetSends, LinkKinds
    <2>2. Update(k) \in AnyUpdate /\ Update(k).kind \notin ReportKinds
      BY DEF AnyUpdate, Update, LinkKinds, ReportKinds
    <2> QED  BY <1>1, <1>3, <2>1, <2>2 DEF Connect, ConnectFails, ConnectionDrops, modelVars
  <1>4. ASSUME Receive
        PROVE  /\ UNCHANGED <<installer, exit, confirm, view>>
               /\ \/ updates' = updates
                  \/ \E items \in Seq(AnyUpdate) :
                        updates' = updates \o items /\ Without(items, ReportKinds)
    <2>1. stream \in Seq(AnyUpdate)
      BY ResponsesAreUpdates
    <2>2. Without(stream, ReportKinds)
      <3>1. \A i \in DOMAIN stream : stream[i] \in Response
        <4> HIDE DEF Response
        <4> QED  OBVIOUS
      <3> QED  BY <3>1, ResponseFacts DEF Without
    <2> QED  BY <1>4, <2>1, <2>2, OfferFacts DEF Receive, NetSends, modelVars
  <1>5. ASSUME UNCHANGED consoleVars
        PROVE  UNCHANGED <<installer, exit, confirm, view, updates>>
    BY <1>5 DEF consoleVars, channelVars, modelVars
  <1>6. ASSUME Tick \/ Elapse \/ SendRequest \/ HandleRequest \/ TellLevel \/ SendSpan \/ OtherConsole
        PROVE  UNCHANGED <<installer, exit, confirm, view, updates>>
    BY <1>6 DEF Tick, Elapse, expire_quit_confirm_if_due, SendRequest, HandleRequest, TellLevel,
                SendSpan, OtherConsole, channelVars, modelVars
  <1> QED  BY <1>2, <1>3, <1>4, <1>5, <1>6 DEF ConsoleNext, Network, Host

LEMMA InstallerInit == ConsoleInit => InstallerInv
  BY DEF ConsoleInit, ModelInit, NoConfirm, InstallerInv, Without

LEMMA InstallerStep ==
    ASSUME TypeOK, InstallerInv, [ConsoleNext]_consoleVars
    PROVE  InstallerInv'
  <1>0. updates \in Seq(AnyUpdate) /\ Len(updates) \in Nat /\ DOMAIN updates = 1 .. Len(updates)
    BY DEF TypeOK
  <1>1. CASE ~ApplyNext /\ ~InstallerDone
    <2>1. UNCHANGED <<installer, exit, confirm>>
      BY <1>1, OtherSteps
    <2>2. CASE updates' = updates
      BY <2>1, <2>2 DEF InstallerInv, Without
    <2>3. ASSUME NEW items \in Seq(AnyUpdate), updates' = updates \o items,
                 Without(items, ReportKinds)
          PROVE  InstallerInv'
      <3>1. \A i \in DOMAIN updates' : updates'[i].kind \in ReportKinds =>
               i \in DOMAIN updates /\ updates'[i] = updates[i]
        BY <1>0, <2>3, ConcatItems DEF Without
      <3> QED  BY <2>1, <3>1 DEF InstallerInv, Without
    <2> QED  BY <1>1, <2>2, <2>3, OtherSteps
  <1>2. CASE InstallerDone
    <2>1. PICK k \in ReportKinds :
             /\ Offer(<<Update(k)>>)
             /\ installer' = IF k = "InstallerSucceeded" THEN "Succeeded" ELSE "Failed"
      BY <1>2 DEF InstallerDone, ReportKinds
    <2>2. /\ confirm.status = "Running" /\ Without(updates, ReportKinds)
          /\ UNCHANGED <<confirm, exit>> /\ exit # "Restart"
      BY <1>2 DEF InstallerDone, InstallerInv, modelVars
    <2>3. Update(k) \in AnyUpdate /\ Update(k).kind = k /\ <<Update(k)>> \in Seq(AnyUpdate)
      BY SingleUpdate DEF AnyUpdate, Update
    <2>4. \A i \in DOMAIN updates' : updates'[i].kind \in ReportKinds =>
             i = Len(updates) + 1 /\ updates'[i].kind = k
      <3>1. CASE updates' = updates
        BY <2>2, <3>1 DEF Without
      <3>2. CASE updates' = updates \o <<Update(k)>>
        <4>1. \A i \in DOMAIN updates' :
                 \/ i \in DOMAIN updates /\ updates'[i] = updates[i]
                 \/ i - Len(updates) \in DOMAIN <<Update(k)>>
                    /\ updates'[i] = <<Update(k)>>[i - Len(updates)]
          BY <1>0, <2>3, <3>2, ConcatItems
        <4>2. DOMAIN <<Update(k)>> = {1} /\ <<Update(k)>>[1] = Update(k)
          OBVIOUS
        <4>3. DOMAIN updates' \subseteq Nat
          <5>1. updates' \in Seq(AnyUpdate)
            BY <1>0, <2>3, <3>2, ConcatItems
          <5> QED  BY <5>1
        <4> QED  BY <1>0, <2>2, <2>3, <4>1, <4>2, <4>3 DEF Without
      <3> QED  BY <1>0, <2>1, <2>3, <3>1, <3>2, OfferFacts DEF TypeOK
    <2>5. installer' # "Running"
      BY <2>1
    <2> QED  BY <2>1, <2>2, <2>4, <2>5 DEF InstallerInv
  <1>3. CASE ApplyNext
    <2>1. PICK u : u = Head(updates)
      OBVIOUS
    <2>2. PICK eff \in Effect : apply(u, eff) /\ Perform(eff)
      BY <1>3, <2>1 DEF ApplyNext
    <2>3. /\ u \in AnyUpdate /\ u = updates[1] /\ 1 \in DOMAIN updates
          /\ DOMAIN updates' = 1 .. Len(updates) - 1
          /\ \A i \in DOMAIN updates' : updates'[i] = updates[i + 1] /\ i + 1 \in DOMAIN updates
      BY <1>0, <1>3, <2>1, TailItems DEF ApplyNext
    <2>4. /\ installer' = IF eff.kind = "RunUpdateInstaller" THEN "Running" ELSE installer
          /\ exit' = IF eff.kind \in {"Quit", "Restart"} THEN eff.kind ELSE exit
      BY <2>2 DEF Perform
    <2>5. \A i \in DOMAIN updates' : i + 1 # 1 /\ \A j \in DOMAIN updates' : i + 1 = j + 1 => i = j
      BY <1>0, <2>3
    <2>6. Without(updates, ReportKinds) => Without(updates', ReportKinds)
      BY <2>3 DEF Without
    <2>7. CASE u.kind \notin ConfirmKinds
      <3>1. confirm' = confirm /\ eff.kind \notin {"RunUpdateInstaller", "Restart"}
        BY <2>2, <2>7, ConfirmKept
      <3> QED  BY <2>3, <2>4, <2>5, <2>6, <3>1 DEF InstallerInv
    <2>8. CASE u.kind \in ConfirmKinds
      <3>0. /\ confirm \in [status : ConfirmStatus, version : Versions \cup {Unknown}]
            /\ serverVersion \in Versions \cup {Unknown}
        BY DEF TypeOK, ModelTypeOK
      <3>1. /\ \/ /\ confirm'.status = confirm.status /\ eff.kind # "RunUpdateInstaller"
                  /\ u.kind \in ReportKinds => confirm = NoConfirm
               \/ /\ confirm'.status \in {"Confirming", "Closed"} /\ confirm.status # "Running"
                  /\ eff.kind # "RunUpdateInstaller" /\ u.kind \notin ReportKinds
               \/ /\ confirm'.status = "Running" /\ confirm.status = "Confirming"
                  /\ u.kind \notin ReportKinds
               \/ /\ u.kind = "InstallerSucceeded" /\ confirm'.status = "Restart"
                  /\ eff.kind # "RunUpdateInstaller"
               \/ /\ u.kind = "InstallerFailed" /\ confirm'.status = "Failed"
                  /\ eff.kind # "RunUpdateInstaller"
            /\ eff.kind = "Restart" => confirm.status = "Restart"
        BY <2>2, <2>8, <3>0, ConfirmArm
      <3>2. CASE u.kind \notin ReportKinds
        <4>1. confirm.status # "Running" => Without(updates, ReportKinds) /\ installer # "Running"
          BY DEF InstallerInv, Without
        <4>2. \/ confirm'.status = confirm.status /\ installer' = installer
              \/ /\ confirm'.status \in {"Confirming", "Closed"} /\ installer' = installer
                 /\ confirm.status # "Running"
              \/ /\ confirm'.status = "Running" /\ confirm.status # "Running"
                 /\ confirm.status # "Restart"
          BY <2>4, <3>1, <3>2 DEF ReportKinds
        <4>3. exit' = "Restart" => installer' = "Succeeded"
          <5>1. exit = "No"
            BY <1>3 DEF ApplyNext
          <5>2. exit' = "Restart" => eff.kind = "Restart" /\ confirm.status = "Restart"
            BY <2>4, <3>1, <5>1
          <5> QED  BY <2>4, <5>2 DEF InstallerInv
        <4>4. CASE confirm.status = "Running"
          <5>1. confirm'.status = "Running" /\ installer' = installer
            BY <4>2, <4>4
          <5> QED  BY <2>3, <2>5, <2>6, <4>3, <4>4, <5>1 DEF InstallerInv
        <4>5. CASE confirm.status # "Running"
          <5>1. Without(updates', ReportKinds)
            BY <2>6, <4>1, <4>5
          <5>2. installer' = "Running" => confirm'.status = "Running"
            BY <4>1, <4>2, <4>5
          <5>3. confirm'.status = "Restart" => installer' = "Succeeded"
            BY <4>2 DEF InstallerInv
          <5> QED  BY <4>3, <5>1, <5>2, <5>3 DEF InstallerInv, Without
        <4> QED  BY <4>4, <4>5
      <3>3. CASE u.kind \in ReportKinds
        <4>1. /\ confirm.status = "Running" /\ confirm # NoConfirm
              /\ installer = IF u.kind = "InstallerSucceeded" THEN "Succeeded" ELSE "Failed"
              /\ \A j \in DOMAIN updates : updates[j].kind \in ReportKinds => j = 1
          BY <2>3, <3>3 DEF InstallerInv, NoConfirm
        <4>2. Without(updates', ReportKinds)
          BY <2>3, <2>5, <4>1 DEF Without
        <4>3. /\ installer' = installer
              /\ \/ u.kind = "InstallerSucceeded" /\ confirm'.status = "Restart"
                 \/ u.kind = "InstallerFailed" /\ confirm'.status = "Failed"
          BY <2>4, <3>1, <3>3, <4>1
        <4>4. exit' # "Restart"
          BY <1>3, <2>4, <3>1, <4>1 DEF ApplyNext
        <4> QED  BY <4>1, <4>2, <4>3, <4>4 DEF InstallerInv, Without
      <3> QED  BY <3>2, <3>3
    <2> QED  BY <2>7, <2>8
  <1> QED  BY <1>1, <1>2, <1>3

(* No key takes the modal away or starts another installer while one runs, *)
(* and the console restarts only into a binary that was installed, however *)
(* late the report of the installer comes (core.rs:145-176).               *)
THEOREM InstallerIsOnScreen == ConsoleSpec => []InstallerOnScreen
  <1>1. ConsoleInit => TypeOK /\ InstallerInv
    BY InitTyped, InstallerInit
  <1>2. TypeOK /\ InstallerInv /\ [ConsoleNext]_consoleVars => (TypeOK /\ InstallerInv)'
    BY TypeStep, InstallerStep
  <1>3. InstallerInv => InstallerOnScreen
    BY DEF InstallerInv, InstallerOnScreen
  <1> QED  BY <1>1, <1>2, <1>3, PTL DEF ConsoleSpec

-----------------------------------------------------------------------------
(* The header                                                              *)

LEMMA ShowsExtended ==
    ASSUME NEW us \in Seq(AnyUpdate), NEW items \in Seq(AnyUpdate), NEW s, NEW shown, NEW l,
           Shows(s, us, shown, l), Without(items, {"CacheLevelReceived"})
    PROVE  Shows(s, us \o items, shown, l)
  BY ConcatItems DEF Shows

LEMMA ShowsReceived ==
    ASSUME NEW us \in Seq(AnyUpdate), NEW s \in Seq(AnyUpdate), NEW shown, NEW l,
           Shows(s, us, shown, l)
    PROVE  Shows(<<>>, us \o s, shown, l)
  BY ConcatItems, EmptyItems DEF Shows

LEMMA ShowsTold ==
    ASSUME NEW s \in Seq(Response), NEW us, NEW shown, NEW l \in Levels
    PROVE  Shows(Append(s, Tell(l)), us, shown, l)
  <1>1. Tell(l) \in Response
    BY DEF Response
  <1> QED  BY <1>1, AppendItems DEF Shows

LEMMA ShowsSpan ==
    ASSUME NEW s \in Seq(Response), NEW us, NEW shown, NEW l, NEW e \in Response,
           e.kind # "CacheLevelReceived", Shows(s, us, shown, l)
    PROVE  Shows(Append(s, e), us, shown, l)
  BY AppendItems DEF Shows

LEMMA ShowsApplied ==
    ASSUME NEW us \in Seq(AnyUpdate), us # <<>>, NEW s, NEW shown, NEW l, NEW u, u = Head(us),
           Shows(s, us, shown, l)
    PROVE  Shows(s, Tail(us), IF u.kind = "CacheLevelReceived" THEN u.level ELSE shown, l)
  <1> DEFINE K == {"CacheLevelReceived"}
  <1>1. /\ Without(us, K) <=> Head(us).kind \notin K /\ Without(Tail(us), K)
        /\ EndsWith(us, K, Tell(l)) => \/ EndsWith(Tail(us), K, Tell(l))
                                       \/ Head(us) = Tell(l) /\ Without(Tail(us), K)
    BY TailItems
  <1>2. Tell(l).kind = "CacheLevelReceived" /\ Tell(l).level = l
    BY DEF Tell
  <1> QED  BY <1>1, <1>2 DEF Shows

LEMMA LinksExtended ==
    ASSUME NEW us \in Seq(AnyUpdate), NEW items \in Seq(AnyUpdate), NEW shown,
           Links(us, shown), Without(items, LinkKinds)
    PROVE  Links(us \o items, shown)
  BY ConcatItems DEF Links

LEMMA LinksApplied ==
    ASSUME NEW us \in Seq(AnyUpdate), us # <<>>, NEW shown, NEW u, u = Head(us), Links(us, shown)
    PROVE  Links(Tail(us), IF u.kind = "Connected" THEN "Connected"
                           ELSE IF u.kind = "Disconnected" THEN "Disconnected" ELSE shown)
  <1>1. /\ Without(us, LinkKinds) <=> Head(us).kind \notin LinkKinds /\ Without(Tail(us), LinkKinds)
        /\ EndsWith(us, LinkKinds, Update("Connected")) =>
              \/ EndsWith(Tail(us), LinkKinds, Update("Connected"))
              \/ Head(us) = Update("Connected") /\ Without(Tail(us), LinkKinds)
    BY TailItems
  <1>2. Update("Connected").kind = "Connected"
    BY DEF Update
  <1> QED  BY <1>1, <1>2 DEF Links, LinkKinds

(* Keys and reports say nothing of the host.                               *)
LEMMA HeaderExtended ==
    ASSUME TypeOK, HeaderInv, NEW items \in Seq(AnyUpdate), Offer(items),
           Without(items, LinkKinds), Without(items, {"CacheLevelReceived"}),
           UNCHANGED <<online, news, stream, level, cacheLevel, connection>>,
           refused' = FALSE => refused = FALSE
    PROVE  HeaderInv'
  <1>1. updates \in Seq(AnyUpdate) /\ refused \in BOOLEAN
    BY DEF TypeOK
  <1>2. updates' = updates \/ updates' = updates \o items
    BY OfferFacts DEF TypeOK
  <1>3. Links(updates, connection) => Links(updates', connection)
    BY <1>1, <1>2, LinksExtended
  <1>4. Shows(stream, updates, cacheLevel, level) => Shows(stream, updates', cacheLevel, level)
    BY <1>1, <1>2, ShowsExtended
  <1> QED  BY <1>1, <1>3, <1>4 DEF HeaderInv

LEMMA HeaderInit == ConsoleInit => HeaderInv
  BY DEF ConsoleInit, HeaderInv

LEMMA HeaderStep ==
    ASSUME TypeOK, HeaderInv, [ConsoleNext]_consoleVars
    PROVE  HeaderInv'
  <1>0. /\ updates \in Seq(AnyUpdate) /\ stream \in Seq(Response) /\ stream \in Seq(AnyUpdate)
        /\ level \in Levels
    BY ResponsesAreUpdates DEF TypeOK
  <1>1. ASSUME UNCHANGED <<updates, online, news, stream, level, cacheLevel, connection, refused>>
        PROVE  HeaderInv'
    BY <1>1 DEF HeaderInv
  <1>2. CASE keyboard_loop
    <2>1. PICK u \in Keymap : Offer(<<u>>)
      BY <1>2 DEF keyboard_loop
    <2>2. u \in AnyUpdate /\ u.kind \notin LinkKinds /\ u.kind \notin {"CacheLevelReceived"}
      <3>1. u \in AnyUpdate /\ u.kind \in KeyKinds
        BY <2>1, KeymapFacts, KeyFacts DEF TypeOK
      <3> QED  BY <3>1 DEF KeyKinds, PlainKinds, LinkKinds
    <2>3. /\ <<u>> \in Seq(AnyUpdate) /\ Without(<<u>>, LinkKinds)
          /\ Without(<<u>>, {"CacheLevelReceived"})
      BY <2>2, SingleUpdate, OneItem
    <2>4. UNCHANGED <<online, news, stream, level, cacheLevel, connection, refused>>
      BY <1>2 DEF keyboard_loop, hostVars, modelVars
    <2> QED  BY <2>1, <2>3, <2>4, HeaderExtended
  <1>3. CASE InstallerDone
    <2>1. PICK k \in ReportKinds : Offer(<<Update(k)>>)
      BY <1>3 DEF InstallerDone, ReportKinds
    <2>2. Update(k) \in AnyUpdate /\ Update(k).kind \notin LinkKinds
          /\ Update(k).kind \notin {"CacheLevelReceived"}
      BY DEF AnyUpdate, Update, LinkKinds, ReportKinds
    <2>3. /\ <<Update(k)>> \in Seq(AnyUpdate) /\ Without(<<Update(k)>>, LinkKinds)
          /\ Without(<<Update(k)>>, {"CacheLevelReceived"})
      BY <2>2, SingleUpdate, OneItem
    <2>4. /\ UNCHANGED <<online, news, stream, level, cacheLevel, connection>>
          /\ refused' = FALSE => refused = FALSE
      BY <1>3 DEF InstallerDone, hostVars, modelVars, TypeOK
    <2> QED  BY <2>1, <2>3, <2>4, HeaderExtended
  <1>4. CASE ApplyNext
    <2>1. PICK u : u = Head(updates)
      OBVIOUS
    <2>2. PICK eff \in Effect : apply(u, eff)
      BY <1>4, <2>1 DEF ApplyNext
    <2>3. /\ cacheLevel' = IF u.kind = "CacheLevelReceived" THEN u.level ELSE cacheLevel
          /\ connection' = IF u.kind = "Connected" THEN "Connected"
                           ELSE IF u.kind = "Disconnected" THEN "Disconnected" ELSE connection
      BY <2>2, ShownArm
    <2>4. /\ updates # <<>> /\ updates' = Tail(updates)
          /\ UNCHANGED <<online, news, stream, level, refused>>
      BY <1>4 DEF ApplyNext, hostVars
    <2>5. Links(updates, connection) => Links(updates', connection')
      BY <1>0, <2>1, <2>3, <2>4, LinksApplied
    <2>6. Shows(stream, updates, cacheLevel, level) => Shows(stream', updates', cacheLevel', level')
      BY <1>0, <2>1, <2>3, <2>4, ShowsApplied
    <2> QED  BY <2>4, <2>5, <2>6 DEF HeaderInv
  <1>5. CASE Connect
    <2>1. PICK v \in Versions : stream' = <<[kind |-> "ServerInfoReceived", version |-> v],
                                            [kind |-> "CacheLevelReceived", level |-> level]>>
      BY <1>5 DEF Connect
    <2>2. [kind |-> "ServerInfoReceived", version |-> v] \in Response
      BY DEF Response
    <2>3. PICK info \in Response : info = [kind |-> "ServerInfoReceived", version |-> v]
      BY <2>2
    <2>4. stream' = Append(<<info>>, Tell(level)) /\ <<info>> \in Seq(Response)
      BY <2>1, <2>3 DEF Tell
    <2>5. Shows(stream', updates', cacheLevel', level') /\ level' = level
      BY <1>0, <1>5, <2>4, ShowsTold DEF Connect
    <2>6. ~refused' => Links(updates', connection')
      <3>1. Update("Connected") \in AnyUpdate
        BY DEF AnyUpdate, LinkKinds
      <3>2. EndsWith(updates \o <<Update("Connected")>>, LinkKinds, Update("Connected"))
        BY <1>0, <3>1, SingleUpdate, OneItem, ConcatItems
      <3>3. ~refused' => updates' = updates \o <<Update("Connected")>>
        BY <1>5 DEF Connect, NetSends, Offer, TypeOK, Fits
      <3> QED  BY <3>2, <3>3 DEF Links
    <2> QED  BY <2>5, <2>6 DEF HeaderInv
  <1>6. CASE Receive
    <2>1. UNCHANGED <<online, news, level, cacheLevel, connection>> /\ stream' = <<>>
      BY <1>6 DEF Receive, modelVars
    <2>2. ~refused' => ~refused /\ updates' = updates \o stream
      BY <1>6 DEF Receive, NetSends, Offer, TypeOK, Fits
    <2>3. Without(stream, LinkKinds)
      <3>1. \A i \in DOMAIN stream : stream[i] \in Response
        <4> HIDE DEF Response
        <4> QED  BY <1>0
      <3> QED  BY <3>1, ResponseFacts DEF Without
    <2>4. Links(updates, connection) => Links(updates \o stream, connection)
      BY <1>0, <2>3, LinksExtended
    <2>5. Shows(stream, updates, cacheLevel, level)
             => Shows(<<>>, updates \o stream, cacheLevel, level)
      BY <1>0, ShowsReceived
    <2> QED  BY <2>1, <2>2, <2>4, <2>5 DEF HeaderInv
  <1>7. CASE ConnectFails \/ ConnectionDrops
    BY <1>7 DEF ConnectFails, ConnectionDrops, hostVars, HeaderInv
  <1>8. CASE HandleRequest
    <2>1. UNCHANGED <<updates, online, stream, cacheLevel, connection, refused>>
      BY <1>8 DEF HandleRequest, channelVars, modelVars, history
    <2>2. news' = TRUE \/ UNCHANGED <<level, news>>
      BY <1>8 DEF HandleRequest
    <2> QED  BY <2>1, <2>2 DEF HeaderInv
  <1>9. CASE TellLevel
    <2>1. UNCHANGED <<updates, online, level, cacheLevel, connection, refused>>
      BY <1>9 DEF TellLevel, channelVars, modelVars, history
    <2>2. stream' = Append(stream, Tell(level))
      BY <1>9 DEF TellLevel, Tell
    <2>3. Shows(stream', updates, cacheLevel, level)
      BY <1>0, <2>2, ShowsTold
    <2> QED  BY <2>1, <2>3 DEF HeaderInv
  <1>10. CASE SendSpan
    <2>1. UNCHANGED <<updates, online, news, level, cacheLevel, connection, refused>>
      BY <1>10 DEF SendSpan, channelVars, modelVars, history
    <2>2. stream' = Append(stream, Update("SpanReceived"))
      BY <1>10 DEF SendSpan
    <2>3. Update("SpanReceived") \in Response /\ Update("SpanReceived").kind # "CacheLevelReceived"
      BY DEF Response, Update
    <2>4. Shows(stream, updates, cacheLevel, level) => Shows(stream', updates, cacheLevel, level)
      BY <1>0, <2>2, <2>3, ShowsSpan
    <2> QED  BY <2>1, <2>4 DEF HeaderInv
  <1>11. CASE OtherConsole
    <2>1. UNCHANGED <<updates, online, connection, refused>> /\ news' = online
      BY <1>11 DEF OtherConsole, channelVars, modelVars
    <2> QED  BY <2>1 DEF HeaderInv
  <1>12. CASE Tick \/ Elapse \/ SendRequest \/ UNCHANGED consoleVars
    <2>1. UNCHANGED <<updates, online, news, stream, level, cacheLevel, connection, refused>>
      BY <1>12 DEF Tick, Elapse, expire_quit_confirm_if_due, SendRequest, consoleVars, channelVars,
                   hostVars, modelVars, hostShown, history
    <2> QED  BY <1>1, <2>1
  <1> QED  BY <1>2, <1>3, <1>4, <1>5, <1>6, <1>7, <1>8, <1>9, <1>10, <1>11, <1>12
           DEF ConsoleNext, Network, Host

LEMMA HeaderShown ==
    ASSUME HeaderInv, Settled, ~refused
    PROVE  cacheLevel = level /\ connection = "Connected"
  <1>1. Links(<<>>, connection) /\ Shows(<<>>, <<>>, cacheLevel, level)
    BY DEF HeaderInv, Settled
  <1> QED  BY <1>1, EmptyItems DEF Links, Shows

(* Once nothing is on its way the header tells the truth, whatever level   *)
(* changes, broken connections and batches of responses came before,       *)
(* unless the channel refused something (core.rs:232-236, 470-492).        *)
THEOREM HeaderIsTrue == ConsoleSpec => []HeaderTrue
  <1>1. ConsoleInit => TypeOK /\ HeaderInv
    BY InitTyped, HeaderInit
  <1>2. TypeOK /\ HeaderInv /\ [ConsoleNext]_consoleVars => (TypeOK /\ HeaderInv)'
    BY TypeStep, HeaderStep
  <1>3. HeaderInv => HeaderTrue
    BY HeaderShown DEF HeaderTrue
  <1> QED  BY <1>1, <1>2, <1>3, PTL DEF ConsoleSpec

-----------------------------------------------------------------------------
(* The level that explore mode gives back                                  *)

LEMMA EffectArm ==
    ASSUME NEW u, NEW eff, apply(u, eff)
    PROVE  /\ u.kind \notin ViewKinds \cup {"RequestCacheLevel"} => eff.kind # "RequestSetLevel"
           /\ u.kind = "RequestCacheLevel" => eff = RequestSetLevel(u.level) /\ view' = view
           /\ u.kind \notin KeyKinds => eff.kind = "None" /\ view' = view
  <1>1. /\ NoEffect.kind = "None" /\ RequestSetChance.kind = "RequestSetChance"
        /\ RunUpdateInstaller.kind = "RunUpdateInstaller"
        /\ [kind |-> "Quit"].kind = "Quit" /\ [kind |-> "Restart"].kind = "Restart"
    BY DEF NoEffect, RequestSetChance, RunUpdateInstaller
  <1>2. ASSUME u.kind \notin ViewKinds \cup {"RequestCacheLevel"}
        PROVE  \/ eff \in {NoEffect, RequestSetChance, RunUpdateInstaller}
               \/ eff \in {[kind |-> "Quit"], [kind |-> "Restart"]}
    <2>1. \/ SpanReceived(eff) \/ Connected(eff) \/ Disconnected(eff)
          \/ CacheLevelReceived(u.level, eff) \/ ServerInfoReceived(u.version, eff)
          \/ BeginChanceInput(eff) \/ ChanceInputCancel(eff) \/ ChanceInputCommit(eff)
          \/ Quit(eff) \/ QuitConfirmDismiss(eff) \/ BeginConfirmVersionSwitch(eff)
          \/ ConfirmVersionSwitchYes(eff) \/ ConfirmVersionSwitchNo(eff)
          \/ InstallerReport("Restart", eff) \/ InstallerReport("Failed", eff)
      BY <1>2 DEF apply, ViewKinds
    <2> QED
      BY <2>1 DEF SpanReceived, Connected, Disconnected, CacheLevelReceived, ServerInfoReceived,
           BeginChanceInput, ChanceInputCancel, ChanceInputCommit, Quit, QuitConfirmDismiss,
           BeginConfirmVersionSwitch, ConfirmVersionSwitchYes, ConfirmVersionSwitchNo,
           InstallerReport, SetConfirm
  <1>3. ASSUME u.kind = "RequestCacheLevel"
        PROVE  eff = RequestSetLevel(u.level) /\ view' = view
    BY <1>3 DEF apply, RequestCacheLevel, modelVars
  <1>4. ASSUME u.kind \notin KeyKinds
        PROVE  eff = NoEffect /\ view' = view
    <2>1. \/ SpanReceived(eff) \/ Connected(eff) \/ Disconnected(eff)
          \/ CacheLevelReceived(u.level, eff) \/ ServerInfoReceived(u.version, eff)
          \/ InstallerReport("Restart", eff) \/ InstallerReport("Failed", eff)
      BY <1>4 DEF apply, KeyKinds, PlainKinds
    <2> QED
      BY <2>1 DEF SpanReceived, Connected, Disconnected, CacheLevelReceived, ServerInfoReceived,
           InstallerReport, SetConfirm
  <1>5. ASSUME u.kind \notin ViewKinds \cup {"RequestCacheLevel"}
        PROVE  eff.kind # "RequestSetLevel"
    BY <1>1, <1>2, <1>5
  <1> QED  BY <1>1, <1>3, <1>4, <1>5

LEMMA SizeFacts ==
    ASSUME NEW S, NEW s \in Seq(S)
    PROVE  Len(s) \in Nat /\ (s = <<>> <=> Len(s) = 0)
  BY EmptySeq, LenProperties

LEMMA OneOfTwo ==
    ASSUME NEW m \in Nat, NEW n \in Nat, m + n <= 1
    PROVE  /\ m # 0 => m = 1 /\ n = 0
           /\ n # 0 => n = 1 /\ m = 0
  OBVIOUS

LEMMA Single ==
    ASSUME NEW S, NEW s \in Seq(S), Len(s) = 1
    PROVE  s = <<Head(s)>> /\ Tail(s) = <<>> /\ Append(<<>>, Head(s)) = <<Head(s)>>
  <1>1. /\ s[1] \in S /\ Head(s) = s[1] /\ Len(Tail(s)) = 0 /\ Tail(s) \in Seq(S)
        /\ <<>> \in Seq(S) /\ Len(<<>>) = 0
    <2>1. s # <<>>
      OBVIOUS
    <2> QED  BY <2>1, HeadTailProperties, EmptySeq
  <1>2. Tail(s) = <<>>
    BY <1>1, EmptySeq
  <1>3. <<s[1]>> \in Seq(S) /\ Len(<<s[1]>>) = 1 /\ <<s[1]>>[1] = s[1]
    BY <1>1
  <1>4. Append(<<>>, s[1]) = <<s[1]>>
    <2>1. /\ Append(<<>>, s[1]) \in Seq(S) /\ Len(Append(<<>>, s[1])) = 1
          /\ Append(<<>>, s[1])[1] = s[1]
      BY <1>1, AppendProperties
    <2> QED  BY <1>3, <2>1, SeqEqual
  <1>5. s = <<s[1]>>
    BY <1>3, SeqEqual
  <1> QED  BY <1>1, <1>2, <1>4, <1>5

LEMMA NoKeys ==
    ASSUME Without(updates, KeyKinds)'
    PROVE  PressedInv'
  BY DEF PressedInv, Pressed, Without

(* Something that is no key, and does not tell the level while a key is on *)
(* its way, joins the updates.                                             *)
LEMMA PressedExtended ==
    ASSUME TypeOK, PressedInv, NEW items \in Seq(AnyUpdate), Offer(items),
           Without(items, KeyKinds),
           ~Without(updates, KeyKinds) =>
               /\ Without(items, {"CacheLevelReceived"})
               /\ UNCHANGED <<online, news, out, requests, cacheLevel, level, view>>
               /\ Without(stream', {"CacheLevelReceived"})
    PROVE  PressedInv'
  <1>0. updates \in Seq(AnyUpdate)
    BY DEF TypeOK
  <1>1. updates' = updates \/ updates' = updates \o items
    BY OfferFacts DEF TypeOK
  <1>2. CASE Without(updates, KeyKinds)
    <2>1. Without(updates', KeyKinds)
      BY <1>0, <1>1, <1>2, ConcatItems
    <2> QED  BY <2>1, NoKeys
  <1>3. CASE ~Without(updates, KeyKinds)
    <2>1. PICK i \in DOMAIN updates : Pressed(i)
      BY <1>3 DEF Without, Pressed
    <2>2. Without(updates, {"CacheLevelReceived"})
      BY <2>1 DEF PressedInv
    <2>3. Without(updates', {"CacheLevelReceived"})
      <3>1. Without(updates \o items, {"CacheLevelReceived"})
        BY <1>0, <1>3, <2>2, ConcatItems
      <3> QED  BY <1>1, <2>2, <3>1
    <2>4. \A j \in DOMAIN updates' : updates'[j].kind \in KeyKinds =>
             j \in DOMAIN updates /\ updates'[j] = updates[j]
      <3>1. \A j \in DOMAIN (updates \o items) :
               \/ j \in DOMAIN updates /\ (updates \o items)[j] = updates[j]
               \/ /\ j - Len(updates) \in DOMAIN items
                  /\ (updates \o items)[j] = items[j - Len(updates)]
        BY <1>0, ConcatItems
      <3>2. \A j \in DOMAIN items : items[j].kind \notin KeyKinds
        BY DEF Without
      <3> QED  BY <1>1, <3>1, <3>2
    <2>5. /\ UNCHANGED <<online, news, out, requests, cacheLevel, level, view>>
          /\ Without(stream', {"CacheLevelReceived"})
      BY <1>3
    <2>6. Exploring' = Exploring
      BY <2>5 DEF Exploring
    <2> QED  BY <2>3, <2>4, <2>5, <2>6 DEF PressedInv, Pressed
  <1> QED  BY <1>2, <1>3

LEMMA DueKept ==
    ASSUME DueInv, UNCHANGED <<out, requests, view, level, due>>
    PROVE  DueInv'
  BY DEF DueInv, Exploring, Without

(* Nothing is requested and nothing is on its way.                         *)
LEMMA DueSettled ==
    ASSUME out' = <<>>, requests' = <<>>,
           Exploring' => view'.explore.restore = due',
           ~Exploring' => level' = due'
    PROVE  DueInv'
  <1>1. Len(<<>>) = 0 /\ DOMAIN <<>> = {}
    OBVIOUS
  <1> QED  BY <1>1 DEF DueInv

LEMMA CalmInit == ConsoleInit => CalmInv
  <1> SUFFICES ASSUME ConsoleInit
               PROVE  PressedInv /\ DueInv
    BY DEF CalmInv
  <1>1. updates = <<>> /\ out = <<>> /\ requests = <<>> /\ view = Table /\ due = level
    BY DEF ConsoleInit, ModelInit
  <1>2. ~Exploring
    BY <1>1 DEF Exploring, Table
  <1>3. Len(<<>>) = 0 /\ DOMAIN <<>> = {}
    OBVIOUS
  <1> QED  BY <1>1, <1>2, <1>3 DEF PressedInv, DueInv

(* A request is handed to the network task, and the host handles it.       *)
LEMMA DueSent ==
    ASSUME TypeOK, DueInv, SendRequest
    PROVE  DueInv'
  <1>1. /\ out \in Seq(Request) /\ requests \in Seq(Request) /\ Len(out) + Len(requests) <= 1
        /\ out # <<>> /\ out' = Tail(out) /\ requests' = Append(requests, Head(out))
        /\ UNCHANGED <<view, level, due>>
    BY DEF TypeOK, DueInv, SendRequest, modelVars, history
  <1>2. Len(out) = 1 /\ requests = <<>>
    <2>1. Len(out) \in Nat /\ Len(requests) \in Nat /\ Len(out) # 0
      BY <1>1, SizeFacts
    <2>2. Len(out) + Len(requests) <= 1
      BY <1>1
    <2>3. Len(out) = 1 /\ Len(requests) = 0
      BY <2>1, <2>2, OneOfTwo
    <2> QED  BY <1>1, <2>3, SizeFacts
  <1>3. PICK x : x = Head(out)
    OBVIOUS
  <1>4. out = <<x>> /\ out' = <<>> /\ requests' = <<x>>
    BY <1>1, <1>2, <1>3, Single
  <1>5. /\ DOMAIN <<>> = {} /\ DOMAIN <<x>> = {1} /\ <<x>>[1] = x
        /\ Len(<<>>) = 0 /\ Len(<<x>>) = 1
    OBVIOUS
  <1>6. Exploring' = Exploring
    BY <1>1 DEF Exploring
  <1>7. Without(requests', {"SetCacheLevel"}) => Without(out, {"SetCacheLevel"})
    BY <1>4
  <1>8. Without(requests, {"SetCacheLevel"})
    BY <1>2, EmptyItems
  <1>9. \A i \in DOMAIN out : out[i].kind = "SetCacheLevel" /\ ~Exploring => out[i].level = due
    BY DEF DueInv
  <1>10. x.kind = "SetCacheLevel" /\ ~Exploring => x.level = due
    BY <1>4, <1>5, <1>9
  <1>11. ~Exploring /\ Without(requests', {"SetCacheLevel"}) => level = due
    BY <1>7, <1>8 DEF DueInv
  <1> QED  BY <1>1, <1>4, <1>5, <1>6, <1>10, <1>11 DEF DueInv

LEMMA DueHandled ==
    ASSUME TypeOK, DueInv, HandleRequest
    PROVE  DueInv'
  <1>1. /\ out \in Seq(Request) /\ requests \in Seq(Request) /\ Len(out) + Len(requests) <= 1
        /\ requests # <<>> /\ requests' = Tail(requests)
        /\ UNCHANGED <<view, out, due>>
    BY DEF TypeOK, DueInv, HandleRequest, modelVars, channelVars, history
  <1>2. Len(requests) = 1 /\ out = <<>>
    <2>1. Len(out) \in Nat /\ Len(requests) \in Nat /\ Len(requests) # 0
      BY <1>1, SizeFacts
    <2>2. Len(out) + Len(requests) <= 1
      BY <1>1
    <2>3. Len(requests) = 1 /\ Len(out) = 0
      BY <2>1, <2>2, OneOfTwo
    <2> QED  BY <1>1, <2>3, SizeFacts
  <1>3. PICK x : x = Head(requests)
    OBVIOUS
  <1>4. requests = <<x>> /\ requests' = <<>>
    BY <1>1, <1>2, <1>3, Single
  <1>5. DOMAIN <<x>> = {1} /\ <<x>>[1] = x
    OBVIOUS
  <1>6. Exploring' = Exploring
    BY <1>1 DEF Exploring
  <1>7. ~Exploring => level' = due
    <2>1. CASE x.kind = "SetCacheLevel"
      <3>1. level' = x.level
        BY <1>3, <2>1 DEF HandleRequest
      <3>2. \A i \in DOMAIN requests :
               requests[i].kind = "SetCacheLevel" /\ ~Exploring => requests[i].level = due
        BY DEF DueInv
      <3> QED  BY <1>4, <1>5, <2>1, <3>1, <3>2
    <2>2. CASE x.kind # "SetCacheLevel"
      <3>1. level' = level
        BY <1>3, <2>2 DEF HandleRequest
      <3>2. Without(requests, {"SetCacheLevel"}) /\ Without(out, {"SetCacheLevel"})
        BY <1>2, <1>4, <2>2, OneItem, EmptyItems
      <3> QED  BY <3>1, <3>2 DEF DueInv
    <2> QED  BY <2>1, <2>2
  <1>8. Exploring' => view'.explore.restore = due'
    BY <1>1, <1>6 DEF DueInv
  <1> QED  BY <1>1, <1>2, <1>4, <1>6, <1>7, <1>8, DueSettled

(* A key is applied, in the view it was pressed in.                        *)
LEMMA KeyApplied ==
    ASSUME TypeOK, PressedInv, DueInv, ApplyNext, calm', Head(updates).kind \in KeyKinds
    PROVE  PressedInv' /\ DueInv'
  <1>1. PICK u : u = Head(updates)
    OBVIOUS
  <1>2. PICK eff \in Effect : apply(u, eff) /\ Perform(eff) /\ calm' = (calm /\ OutFits(eff))
    BY <1>1 DEF ApplyNext
  <1>3. /\ updates \in Seq(AnyUpdate) /\ updates # <<>> /\ updates' = Tail(updates)
        /\ UNCHANGED <<requests, level>>
        /\ due' = IF Asked(u) /\ ~Exploring THEN u.level ELSE due
    BY <1>1 DEF TypeOK, ApplyNext, hostVars
  <1>4. /\ u \in AnyUpdate /\ 1 \in DOMAIN updates /\ updates[1] = u
        /\ \A i \in DOMAIN updates' : updates'[i] = updates[i + 1] /\ i + 1 \in DOMAIN updates
        /\ DOMAIN updates' \subseteq Nat \ {0}
    <2>1. /\ Head(updates) \in AnyUpdate /\ 1 \in DOMAIN updates /\ Head(updates) = updates[1]
          /\ DOMAIN Tail(updates) = 1 .. Len(updates) - 1
          /\ \A i \in DOMAIN Tail(updates) : Tail(updates)[i] = updates[i + 1] /\ i + 1 \in DOMAIN updates
      BY <1>3, TailItems
    <2>2. Len(updates) \in Nat
      BY <1>3
    <2> QED  BY <1>1, <1>3, <2>1, <2>2
  <1>5. Pressed(1)
    BY <1>1, <1>4 DEF Pressed
  <1>6. /\ \A j \in DOMAIN updates : Pressed(j) => j = 1
        /\ out = <<>> /\ requests = <<>> /\ cacheLevel = level
        /\ u.kind = "ToggleGraph" => ~Exploring
        /\ u.kind = "ExitTraceDetail" => view.mode = "TraceDetail"
    BY <1>4, <1>5 DEF PressedInv
  <1>7. PressedInv'
    <2>1. \A i \in DOMAIN updates' : i + 1 # 1
      BY <1>4
    <2>2. Without(updates', KeyKinds)
      BY <1>4, <1>6, <2>1 DEF Without, Pressed
    <2> QED  BY <2>2, NoKeys
  <1>8. /\ Exploring => view.explore.restore = due
        /\ ~Exploring => level = due
    BY <1>6, EmptyItems DEF DueInv
  <1>9. out' = Outgoing(eff) /\ requests' = <<>>
    <2>1. Outgoing(eff) \in Seq(Request) /\ OutFits(eff)
      BY <1>2, EffectFacts
    <2>2. <<>> \o Outgoing(eff) = Outgoing(eff)
      BY <2>1, ConcatEmptySeq
    <2> QED  BY <1>2, <1>3, <1>6, <2>1, <2>2 DEF Perform
  <1>10. ASSUME NEW l, eff = RequestSetLevel(l), Exploring' => view'.explore.restore = due',
                ~Exploring' => l = due'
         PROVE  DueInv'
    <2>1. PICK x : x = [kind |-> "SetCacheLevel", level |-> l]
      OBVIOUS
    <2>2. eff.kind = "RequestSetLevel" /\ eff.level = l
      BY <1>10 DEF RequestSetLevel
    <2>3. out' = <<x>>
      BY <1>9, <2>1, <2>2 DEF Outgoing
    <2>4. /\ DOMAIN <<>> = {} /\ DOMAIN <<x>> = {1} /\ <<x>>[1] = x
          /\ Len(<<>>) = 0 /\ Len(<<x>>) = 1
      OBVIOUS
    <2>5. x.kind = "SetCacheLevel" /\ x.level = l
      BY <2>1
    <2>6. ~Without(<<x>>, {"SetCacheLevel"})
      BY <2>5, OneItem
    <2>7. Len(out') + Len(requests') <= 1 /\ ~Without(out', {"SetCacheLevel"})
      BY <1>9, <2>3, <2>4, <2>6
    <2>8. ~Exploring' =>
             /\ \A i \in DOMAIN out' : out'[i].kind = "SetCacheLevel" => out'[i].level = due'
             /\ \A i \in DOMAIN requests' :
                   requests'[i].kind = "SetCacheLevel" => requests'[i].level = due'
      BY <1>9, <1>10, <2>3, <2>4, <2>5
    <2> QED  BY <1>10, <2>7, <2>8 DEF DueInv
  <1>11. ASSUME eff.kind # "RequestSetLevel", Exploring' => view'.explore.restore = due',
                ~Exploring' => level = due'
         PROVE  DueInv'
    <2>1. out' = <<>> \/ out' = <<Update("SetCacheChance")>>
      <3>1. CASE eff.kind = "RequestSetChance"
        <4>1. Outgoing(eff) = <<Update("SetCacheChance")>>
          BY <3>1 DEF Outgoing
        <4> QED  BY <1>9, <4>1
      <3>2. CASE eff.kind # "RequestSetChance"
        BY <1>9, <1>11, <3>2 DEF Outgoing
      <3> QED  BY <3>1, <3>2
    <2>2. CASE out' = <<>>
      BY <1>3, <1>9, <1>11, <2>2, DueSettled
    <2>3. CASE out' = <<Update("SetCacheChance")>>
      <3>1. PICK x : x = Update("SetCacheChance")
        OBVIOUS
      <3>2. x.kind # "SetCacheLevel"
        BY <3>1 DEF Update
      <3>3. /\ DOMAIN <<>> = {} /\ DOMAIN <<x>> = {1} /\ <<x>>[1] = x
            /\ Len(<<>>) = 0 /\ Len(<<x>>) = 1
        OBVIOUS
      <3> QED  BY <1>3, <1>9, <1>11, <2>3, <3>1, <3>2, <3>3 DEF DueInv
    <2> QED  BY <2>1, <2>2, <2>3
  <1>12. CASE u.kind = "RequestCacheLevel"
    <2>1. eff = RequestSetLevel(u.level) /\ view' = view
      BY <1>2, <1>12, EffectArm
    <2>2. Exploring' = Exploring
      BY <2>1 DEF Exploring
    <2>3. due' = IF Exploring THEN due ELSE u.level
      BY <1>3, <1>12 DEF Asked
    <2>4. PICK l : l = u.level
      OBVIOUS
    <2> QED  BY <1>7, <1>8, <1>10, <2>1, <2>2, <2>3, <2>4
  <1>13. CASE u.kind \in ViewKinds
    <2>1. due' = due
      BY <1>3, <1>13 DEF Asked, ViewKinds
    <2>2. /\ view \in ViewMode /\ cacheLevel \in Levels \cup {Unknown}
          /\ due \in Levels /\ Unknown \notin Levels
      BY LevelsAssumption DEF TypeOK, ModelTypeOK
    <2>3. \/ /\ Exploring' = Exploring /\ eff = NoEffect
             /\ Exploring => view'.explore.restore = view.explore.restore
          \/ /\ ~Exploring /\ Exploring' /\ eff = RequestSetLevel(OFF)
             /\ view'.explore.restore = cacheLevel
          \/ Exploring /\ ~Exploring' /\ eff = Restore(view.explore)
      BY <1>2, <1>4, <1>6, <1>13, <2>2, ViewArm
    <2>4. NoEffect.kind # "RequestSetLevel"
      BY DEF NoEffect
    <2>5. Exploring => Restore(view.explore) = RequestSetLevel(due)
      BY <1>8, <2>2 DEF Restore
    <2>6. PICK l : l = due
      OBVIOUS
    <2>7. CASE eff = NoEffect /\ Exploring' = Exploring
               /\ (Exploring => view'.explore.restore = view.explore.restore)
      BY <1>7, <1>8, <1>11, <2>1, <2>4, <2>7
    <2>8. CASE ~Exploring /\ Exploring' /\ eff = RequestSetLevel(OFF)
               /\ view'.explore.restore = cacheLevel
      BY <1>6, <1>7, <1>8, <1>10, <2>1, <2>8
    <2>9. CASE Exploring /\ ~Exploring' /\ eff = Restore(view.explore)
      BY <1>7, <1>10, <2>1, <2>5, <2>6, <2>9
    <2> QED  BY <2>3, <2>7, <2>8, <2>9
  <1>14. CASE u.kind \notin ViewKinds \cup {"RequestCacheLevel"}
    <2>1. eff.kind # "RequestSetLevel" /\ view' = view
      BY <1>2, <1>14, EffectArm, ViewKept
    <2>2. Exploring' = Exploring
      BY <2>1 DEF Exploring
    <2>3. due' = due
      BY <1>3, <1>14 DEF Asked
    <2> QED  BY <1>7, <1>8, <1>11, <2>1, <2>2, <2>3
  <1> QED  BY <1>12, <1>13, <1>14

(* Something else is applied while a key waits behind it, or none does.    *)
LEMMA OtherApplied ==
    ASSUME TypeOK, PressedInv, DueInv, ApplyNext, calm', Head(updates).kind \notin KeyKinds
    PROVE  PressedInv' /\ DueInv'
  <1>1. PICK u : u = Head(updates)
    OBVIOUS
  <1>2. PICK eff \in Effect : apply(u, eff) /\ Perform(eff)
    BY <1>1 DEF ApplyNext
  <1>3. /\ updates \in Seq(AnyUpdate) /\ updates # <<>> /\ updates' = Tail(updates)
        /\ UNCHANGED <<online, news, stream, requests, level>>
        /\ due' = IF Asked(u) /\ ~Exploring THEN u.level ELSE due
    BY <1>1 DEF TypeOK, ApplyNext, hostVars
  <1>4. u.kind # "RequestCacheLevel" /\ eff.kind = "None" /\ view' = view
    BY <1>1, <1>2, EffectArm DEF KeyKinds
  <1>5. due' = due /\ out' = out
    <2>1. Outgoing(eff) = <<>>
      BY <1>4 DEF Outgoing
    <2>2. out \o <<>> = out
      BY ConcatEmptySeq DEF TypeOK
    <2> QED  BY <1>2, <1>3, <1>4, <2>1, <2>2 DEF Perform, Asked
  <1>6. DueInv'
    BY <1>3, <1>4, <1>5, DueKept
  <1>7. /\ updates[1] = u /\ 1 \in DOMAIN updates
        /\ \A i \in DOMAIN updates' : updates'[i] = updates[i + 1] /\ i + 1 \in DOMAIN updates
        /\ DOMAIN updates' \subseteq Nat
    <2>1. /\ 1 \in DOMAIN updates /\ Head(updates) = updates[1]
          /\ DOMAIN Tail(updates) = 1 .. Len(updates) - 1
          /\ \A i \in DOMAIN Tail(updates) : Tail(updates)[i] = updates[i + 1] /\ i + 1 \in DOMAIN updates
      BY <1>3, TailItems
    <2>2. Len(updates) \in Nat
      BY <1>3
    <2> QED  BY <1>1, <1>3, <2>1, <2>2
  <1>8. ASSUME NEW i \in DOMAIN updates', Pressed(i)'
        PROVE  /\ \A j \in DOMAIN updates' : Pressed(j)' => j = i
               /\ online' /\ ~news' /\ out' = <<>> /\ requests' = <<>> /\ cacheLevel' = level'
               /\ updates'[i].kind = "ToggleGraph" => ~Exploring'
               /\ updates'[i].kind = "ExitTraceDetail" => view'.mode = "TraceDetail"
               /\ Without(updates', {"CacheLevelReceived"})
               /\ Without(stream', {"CacheLevelReceived"})
    <2>1. i + 1 \in DOMAIN updates /\ updates'[i] = updates[i + 1] /\ Pressed(i + 1)
      BY <1>7, <1>8 DEF Pressed
    <2>2. /\ \A j \in DOMAIN updates : Pressed(j) => j = i + 1
          /\ online /\ ~news /\ out = <<>> /\ requests = <<>> /\ cacheLevel = level
          /\ updates[i + 1].kind = "ToggleGraph" => ~Exploring
          /\ updates[i + 1].kind = "ExitTraceDetail" => view.mode = "TraceDetail"
          /\ Without(updates, {"CacheLevelReceived"}) /\ Without(stream, {"CacheLevelReceived"})
      BY <2>1 DEF PressedInv
    <2>3. \A j \in DOMAIN updates' : Pressed(j)' => j = i
      <3>1. \A j \in DOMAIN updates' : Pressed(j)' => j + 1 = i + 1
        BY <1>7, <2>2 DEF Pressed
      <3> QED  BY <1>7, <3>1
    <2>4. u.kind # "CacheLevelReceived"
      BY <1>7, <2>2 DEF Without
    <2>5. cacheLevel' = cacheLevel
      BY <1>2, <2>4, ShownArm
    <2>6. Without(updates', {"CacheLevelReceived"})
      BY <1>7, <2>2 DEF Without
    <2>7. Exploring' = Exploring
      BY <1>4 DEF Exploring
    <2> QED  BY <1>3, <1>4, <1>5, <2>1, <2>2, <2>3, <2>5, <2>6, <2>7
  <1>9. PressedInv'
    BY <1>8 DEF PressedInv
  <1> QED  BY <1>6, <1>9

(* While no key is on its way everything else may happen.                  *)
LEMMA OneKey ==
    ASSUME TypeOK, PressedInv, ~Without(updates, KeyKinds)
    PROVE  /\ online /\ ~news /\ out = <<>> /\ requests = <<>> /\ cacheLevel = level
           /\ Without(stream, {"CacheLevelReceived"})
  <1>1. PICK i \in DOMAIN updates : Pressed(i)
    BY DEF Without, Pressed
  <1> QED  BY <1>1 DEF PressedInv

LEMMA CalmKey ==
    ASSUME TypeOK, HeaderInv, PressedInv, DueInv, keyboard_loop, calm', ~refused
    PROVE  PressedInv' /\ DueInv'
  <1>1. PICK u \in Keymap : Offer(<<u>>)
    BY DEF keyboard_loop
  <1>2. /\ Settled
        /\ UNCHANGED <<out, online, requests, stream, level, news, cacheLevel, view, due>>
    BY DEF keyboard_loop, modelVars, hostVars, hostShown
  <1>3. /\ u \in AnyUpdate
        /\ u.kind = "ToggleGraph" => ~Exploring
        /\ u.kind = "ExitTraceDetail" => view.mode = "TraceDetail"
        /\ u.kind \in KeyKinds
    BY <1>1, KeymapFacts, KeyFacts DEF TypeOK
  <1>4. <<u>> \in Seq(AnyUpdate) /\ Len(<<u>>) = 1
    BY <1>3, SingleUpdate
  <1>5. updates' = <<>> \/ updates' = <<u>>
    <2>1. updates' = updates \/ updates' = updates \o <<u>>
      BY <1>1, <1>4, OfferFacts DEF TypeOK
    <2>2. <<>> \o <<u>> = <<u>>
      BY <1>4, ConcatEmptySeq
    <2> QED  BY <1>2, <2>1, <2>2 DEF Settled
  <1>6. DueInv'
    BY <1>2, DueKept
  <1>7. cacheLevel = level
    BY <1>2, HeaderShown
  <1>8. CASE updates' = <<>>
    BY <1>6, <1>8, NoKeys, EmptyItems
  <1>9. CASE updates' = <<u>>
    <2>1. Exploring' = Exploring
      BY <1>2 DEF Exploring
    <2>2. DOMAIN <<u>> = {1} /\ <<u>>[1] = u
      OBVIOUS
    <2>3. u.kind # "CacheLevelReceived"
      BY <1>3 DEF KeyKinds, PlainKinds
    <2>4. Without(updates', {"CacheLevelReceived"}) /\ Without(stream', {"CacheLevelReceived"})
      BY <1>2, <1>9, <2>3, OneItem, EmptyItems DEF Settled
    <2>5. online' /\ ~news' /\ out' = <<>> /\ requests' = <<>> /\ cacheLevel' = level'
      BY <1>2, <1>7 DEF Settled
    <2>6. PressedInv'
      BY <1>2, <1>3, <1>9, <2>1, <2>2, <2>4, <2>5 DEF PressedInv, Pressed
    <2> QED  BY <1>6, <2>6
  <1> QED  BY <1>5, <1>8, <1>9

(* Nothing that the other tasks and the host do upsets a key on its way.   *)
LEMMA CalmOthers ==
    ASSUME TypeOK, PressedInv, DueInv,
           InstallerDone \/ Connect \/ ConnectFails \/ Receive \/ SendRequest
              \/ HandleRequest \/ TellLevel \/ SendSpan
    PROVE  PressedInv' /\ DueInv'
  <1>0. /\ updates \in Seq(AnyUpdate) /\ stream \in Seq(Response) /\ stream \in Seq(AnyUpdate)
    BY ResponsesAreUpdates DEF TypeOK
  <1>1. ASSUME UNCHANGED updates, Without(updates, KeyKinds)
        PROVE  PressedInv'
    BY <1>1, NoKeys DEF Without
  <1>2. CASE InstallerDone
    <2>1. PICK k \in ReportKinds : Offer(<<Update(k)>>)
      BY <1>2 DEF InstallerDone, ReportKinds
    <2>2. Update(k) \in AnyUpdate /\ Update(k).kind \notin KeyKinds
          /\ Update(k).kind \notin {"CacheLevelReceived"}
      BY DEF AnyUpdate, Update, KeyKinds, PlainKinds, ReportKinds
    <2>3. /\ <<Update(k)>> \in Seq(AnyUpdate) /\ Without(<<Update(k)>>, KeyKinds)
          /\ Without(<<Update(k)>>, {"CacheLevelReceived"})
      BY <2>2, SingleUpdate, OneItem
    <2>4. UNCHANGED <<out, online, requests, stream, level, news, cacheLevel, view, due>>
      BY <1>2 DEF InstallerDone, modelVars, hostVars, hostShown
    <2>5. ~Without(updates, KeyKinds) => Without(stream', {"CacheLevelReceived"})
      BY <2>4, OneKey
    <2>6. PressedInv'
      BY <2>1, <2>3, <2>4, <2>5, PressedExtended
    <2> QED  BY <2>4, <2>6, DueKept
  <1>3. CASE Connect \/ ConnectFails
    <2>1. PICK k \in LinkKinds : Offer(<<Update(k)>>)
      BY <1>3 DEF Connect, ConnectFails, NetSends, LinkKinds
    <2>2. Update(k) \in AnyUpdate /\ Update(k).kind \notin KeyKinds
      BY DEF AnyUpdate, Update, KeyKinds, PlainKinds, LinkKinds
    <2>3. <<Update(k)>> \in Seq(AnyUpdate) /\ Without(<<Update(k)>>, KeyKinds)
      BY <2>2, SingleUpdate, OneItem
    <2>4. UNCHANGED <<out, requests, level, view, due>> /\ ~online
      BY <1>3 DEF Connect, ConnectFails, modelVars, hostVars
    <2>5. Without(updates, KeyKinds)
      BY <2>4, OneKey
    <2>6. PressedInv'
      BY <2>1, <2>3, <2>5, PressedExtended
    <2> QED  BY <2>4, <2>6, DueKept
  <1>4. CASE Receive
    <2>1. /\ Offer(stream) /\ stream' = <<>>
          /\ UNCHANGED <<out, online, requests, level, news, cacheLevel, view, due>>
      BY <1>4 DEF Receive, NetSends, modelVars, hostShown
    <2>2. Without(stream, KeyKinds)
      <3>1. \A i \in DOMAIN stream : stream[i] \in Response
        <4> HIDE DEF Response
        <4> QED  BY <1>0
      <3> QED  BY <3>1, ResponseFacts DEF Without
    <2>3. ~Without(updates, KeyKinds) =>
             Without(stream, {"CacheLevelReceived"}) /\ Without(stream', {"CacheLevelReceived"})
      BY <2>1, OneKey, EmptyItems
    <2>4. PressedInv'
      BY <1>0, <2>1, <2>2, <2>3, PressedExtended
    <2> QED  BY <2>1, <2>4, DueKept
  <1>5. CASE SendRequest
    <2>1. UNCHANGED updates /\ out # <<>>
      BY <1>5 DEF SendRequest
    <2>2. Without(updates, KeyKinds)
      BY <2>1, OneKey
    <2> QED  BY <1>1, <1>5, <2>1, <2>2, DueSent
  <1>6. CASE HandleRequest
    <2>1. UNCHANGED updates /\ requests # <<>>
      BY <1>6 DEF HandleRequest, channelVars
    <2>2. Without(updates, KeyKinds)
      BY <2>1, OneKey
    <2> QED  BY <1>1, <1>6, <2>1, <2>2, DueHandled
  <1>7. CASE TellLevel
    <2>1. UNCHANGED <<updates, out, requests, view, level, due>> /\ news
      BY <1>7 DEF TellLevel, modelVars, channelVars, history
    <2>2. Without(updates, KeyKinds)
      BY <2>1, OneKey
    <2> QED  BY <1>1, <2>1, <2>2, DueKept
  <1>8. CASE SendSpan
    <2>1. /\ UNCHANGED <<updates, out, online, requests, level, news, cacheLevel, view, due>>
          /\ stream' = Append(stream, Update("SpanReceived"))
      BY <1>8 DEF SendSpan, modelVars, channelVars, history, hostShown
    <2>2. /\ Update("SpanReceived") \in Response
          /\ Update("SpanReceived").kind \notin {"CacheLevelReceived"}
      BY DEF Response, Update
    <2>3. Without(stream, {"CacheLevelReceived"}) => Without(stream', {"CacheLevelReceived"})
      BY <1>0, <2>1, <2>2, AppendItems
    <2>4. Exploring' = Exploring
      BY <2>1 DEF Exploring
    <2>5. PressedInv'
      BY <2>1, <2>3, <2>4 DEF PressedInv, Pressed, Without
    <2> QED  BY <2>1, <2>5, DueKept
  <1> QED  BY <1>2, <1>3, <1>4, <1>5, <1>6, <1>7, <1>8

(* Upsets wait until nothing is on its way.                                *)
LEMMA CalmUpset ==
    ASSUME TypeOK, PressedInv, DueInv, ConnectionDrops \/ OtherConsole, calm'
    PROVE  PressedInv' /\ DueInv'
  <1>1. /\ Settled
        /\ due' = IF Exploring THEN due ELSE level'
        /\ UNCHANGED <<out, view>> /\ requests' \in {requests, <<>>}
    BY DEF ConnectionDrops, OtherConsole, modelVars, channelVars
  <1>2. out' = <<>> /\ requests' = <<>>
    BY <1>1 DEF Settled
  <1>3. Exploring' = Exploring /\ (Exploring => view'.explore.restore = due)
    BY <1>1 DEF Exploring, DueInv
  <1>4. DueInv'
    BY <1>1, <1>2, <1>3, DueSettled
  <1>5. CASE OtherConsole
    <2>1. updates' = <<>>
      BY <1>1, <1>5 DEF OtherConsole, channelVars, Settled
    <2> QED  BY <1>4, <2>1, NoKeys, EmptyItems
  <1>6. CASE ConnectionDrops
    <2>1. Offer(<<Update("Disconnected")>>)
      BY <1>6 DEF ConnectionDrops, NetSends
    <2>2. /\ Update("Disconnected") \in AnyUpdate
          /\ Update("Disconnected").kind \notin KeyKinds
      BY DEF AnyUpdate, Update, KeyKinds, PlainKinds, LinkKinds
    <2>3. /\ <<Update("Disconnected")>> \in Seq(AnyUpdate)
          /\ Without(<<Update("Disconnected")>>, KeyKinds)
      BY <2>2, SingleUpdate, OneItem
    <2>4. Without(updates, KeyKinds)
      BY <1>1, EmptyItems DEF Settled
    <2> QED  BY <1>4, <2>1, <2>3, <2>4, PressedExtended
  <1> QED  BY <1>5, <1>6

LEMMA CalmStep ==
    ASSUME TypeOK, HeaderInv, CalmInv, [ConsoleNext]_consoleVars
    PROVE  CalmInv'
  <1> SUFFICES ASSUME calm', ~refused'
               PROVE  PressedInv' /\ DueInv'
    BY DEF CalmInv
  <1>1. CASE Tick \/ Elapse \/ UNCHANGED consoleVars
    <2>1. UNCHANGED <<updates, out, online, requests, stream, level, news, cacheLevel, view,
                      due, calm, refused>>
      BY <1>1 DEF Tick, Elapse, expire_quit_confirm_if_due, consoleVars, channelVars,
                  hostVars, modelVars, hostShown, history
    <2>2. PressedInv /\ DueInv /\ Exploring' = Exploring
      BY <2>1 DEF CalmInv, Exploring
    <2>3. PressedInv'
      BY <2>1, <2>2 DEF PressedInv, Pressed, Without
    <2> QED  BY <2>1, <2>2, <2>3, DueKept
  <1>2. CASE ~(Tick \/ Elapse \/ UNCHANGED consoleVars)
    <2>1. calm /\ ~refused
      <3>1. /\ keyboard_loop \/ ConnectionDrops \/ OtherConsole => calm
            /\ ApplyNext => calm
            /\ InstallerDone \/ Connect \/ ConnectFails \/ Receive => calm
            /\ SendRequest \/ HandleRequest \/ TellLevel \/ SendSpan => calm
        BY DEF keyboard_loop, ConnectionDrops, OtherConsole, ApplyNext, InstallerDone, Connect,
               ConnectFails, Receive, SendRequest, HandleRequest, TellLevel, SendSpan, history
      <3>2. /\ keyboard_loop \/ ConnectionDrops \/ OtherConsole => ~refused
            /\ ApplyNext => ~refused
            /\ InstallerDone \/ Connect \/ ConnectFails \/ Receive => ~refused
            /\ SendRequest \/ HandleRequest \/ TellLevel \/ SendSpan => ~refused
        BY DEF keyboard_loop, ConnectionDrops, OtherConsole, ApplyNext, InstallerDone, Connect,
               ConnectFails, Receive, SendRequest, HandleRequest, TellLevel, SendSpan, history,
               NetSends, TypeOK
      <3> QED  BY <1>2, <3>1, <3>2 DEF ConsoleNext, Network, Host
    <2>2. PressedInv /\ DueInv
      BY <2>1 DEF CalmInv
    <2>3. CASE keyboard_loop
      BY <2>1, <2>2, <2>3, CalmKey
    <2>4. CASE ApplyNext
      BY <2>2, <2>4, KeyApplied, OtherApplied
    <2>5. CASE ConnectionDrops \/ OtherConsole
      BY <2>2, <2>5, CalmUpset
    <2>6. CASE InstallerDone \/ Connect \/ ConnectFails \/ Receive \/ SendRequest
                  \/ HandleRequest \/ TellLevel \/ SendSpan
      BY <2>2, <2>6, CalmOthers
    <2> QED  BY <1>2, <2>3, <2>4, <2>5, <2>6 DEF ConsoleNext, Network, Host
  <1> QED  BY <1>1, <1>2

LEMMA LevelBack ==
    ASSUME CalmInv
    PROVE  LevelGivenBack
  <1>1. ASSUME calm, ~refused, Settled, ~Exploring
        PROVE  level = due
    <2>1. DueInv /\ out = <<>> /\ requests = <<>>
      BY <1>1 DEF CalmInv, Settled
    <2>2. Without(out, {"SetCacheLevel"}) /\ Without(requests, {"SetCacheLevel"})
      BY <2>1, EmptyItems
    <2> QED  BY <1>1, <2>1, <2>2 DEF DueInv
  <1> QED  BY <1>1 DEF LevelGivenBack

(* Explore mode gives back the level it took, also through traces, graphs, *)
(* modals, other consoles, broken connections and resets, as long as keys  *)
(* and upsets wait until nothing is on its way (explore.rs:6-9).           *)
THEOREM LevelIsGivenBack == ConsoleSpec => []LevelGivenBack
  <1>1. ConsoleInit => TypeOK /\ HeaderInv /\ CalmInv
    BY InitTyped, HeaderInit, CalmInit
  <1>2. TypeOK /\ HeaderInv /\ CalmInv /\ [ConsoleNext]_consoleVars
           => (TypeOK /\ HeaderInv /\ CalmInv)'
    BY TypeStep, HeaderStep, CalmStep
  <1>3. CalmInv => LevelGivenBack
    BY LevelBack
  <1> QED  BY <1>1, <1>2, <1>3, PTL DEF ConsoleSpec

=============================================================================
