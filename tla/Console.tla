------------------------------ MODULE Console ------------------------------
(***************************************************************************)
(* The console at work (tracing-console/src/runtime.rs): the keyboard      *)
(* thread and the network task put updates into one channel, the runtime   *)
(* applies them to the model (ConsoleModel) one by one and carries out     *)
(* their effects; requests go back to the host through the network task.   *)
(* The host is what StreamServer promises of it: it takes requests in      *)
(* order and tells every change of the level, the last one at least.       *)
(*                                                                         *)
(* The runtime stores modal_kind, current_view and quit_confirm_active     *)
(* after every apply.  The keyboard thread only reads them, and what it    *)
(* sends goes to the end of the channel: a key read before the store is as *)
(* good as read before the apply, so apply and store are one step, and the *)
(* flags are those of the model as it is.  A key is then routed by a view  *)
(* that the updates still in the channel are going to change.              *)
(***************************************************************************)
EXTENDS ConsoleModel, Sequences

CONSTANTS
    KeyLevels,          \* the levels that have a key
    StartLevels,        \* the levels the host may be at when the console starts
    UpdateCapacity,     \* --stream-buffer
    OutCapacity,        \* OUTGOING_CHANNEL_CAPACITY
    MaxKeys,            \* keys pressed, while nothing upsets the connection
    MaxKeysUpset,       \* keys pressed in all, when something does
    MaxUpsets,          \* connections that fail or break, and other consoles' levels
    MaxSpans            \* spans of the host

ASSUME ConsoleAssumption ==
    /\ KeyLevels \subseteq Levels /\ StartLevels \subseteq Levels
    /\ {UpdateCapacity, OutCapacity} \subseteq Nat \ {0}
    /\ {MaxKeys, MaxKeysUpset, MaxUpsets, MaxSpans} \subseteq Nat

VARIABLES
    updates,            \* the channel of updates
    out,                \* the channel of outgoing requests
    online,             \* the network task has a connection and a stream
    requests,           \* requests on their way to the host
    stream,             \* responses on their way to the console
    level,              \* the level of the host's cache
    news,               \* the stream has not told its last change
    installer,          \* the installer's subprocess
    exit,               \* why run_tui returned
    keys, upsets, spans,            \* what is used up of the bounds
    due, calm, fast, refused        \* history, for the properties only

channelVars == <<updates, out>>
hostVars == <<online, requests, stream, level, news>>
bounds == <<keys, upsets, spans>>
history == <<due, calm, fast, refused>>
consoleVars == <<modelVars, channelVars, hostVars, installer, exit, bounds, history>>

(* Nothing is on its way, and the console is connected.                    *)
Settled ==
    /\ online /\ ~news /\ exit = "No"
    /\ updates = <<>> /\ out = <<>> /\ requests = <<>> /\ stream = <<>>

ConsoleInit ==
    /\ ModelInit
    /\ updates = <<>> /\ out = <<>>
    /\ online = FALSE /\ requests = <<>> /\ stream = <<>> /\ news = FALSE
    /\ level \in StartLevels
    /\ installer = "Idle"
    /\ exit = "No"
    /\ keys = 0 /\ upsets = 0 /\ spans = 0
    /\ due = level
    /\ calm = TRUE /\ fast = FALSE /\ refused = FALSE

Update(kind) == [kind |-> kind]

(* Mutant: room for the first of a batch is taken for room for all.        *)
FitsOne(items) == Len(updates) < UpdateCapacity

Fits(items) == Len(updates) + Len(items) <= UpdateCapacity

(* send and send_many refuse what does not fit as a whole.                 *)
Offer(items) == updates' = IF Fits(items) THEN updates \o items ELSE updates

-----------------------------------------------------------------------------
(* The keyboard thread                                                     *)

LevelKeys == {[kind |-> "RequestCacheLevel", level |-> l] : l \in KeyLevels}

(* Esc goes to the quit prompt first.                                      *)
EscKey ==
    CASE quitDeadline # "None" -> Update("QuitConfirmDismiss")
      [] quitDeadline = "None" /\ view.mode = "Table" -> Update("Quit")
      [] quitDeadline = "None" /\ view.mode = "Graph" -> Update("ToggleGraph")
      [] quitDeadline = "None" /\ view.mode = "Explore" -> Update("ExitExplore")
      [] quitDeadline = "None" /\ view.mode = "TraceDetail" -> Update("ExitTraceDetail")

ViewKeys ==
    [Table |-> {Update("BeginChanceInput"), Update("ToggleGraph"), Update("EnterExplore")},
     Graph |-> {Update("EnterTable"), Update("EnterExplore")}
               \cup {[kind |-> "BeginGraphInput", input |-> i] : i \in GraphInputs},
     Explore |-> {Update(k) : k \in {"EnterTable", "EnterGraph", "BeginExploreSearch",
                                     "ExploreOpenTrace"}},
     TraceDetail |-> {Update("EnterTable"), Update("EnterGraph"), Update("ExitTraceDetail")}]

(* The updates some key stands for now.  Keys that edit a buffer or move a *)
(* cursor are left out.                                                    *)
Keymap ==
    CASE ModalKind = "Chance" -> {Update("ChanceInputCommit"), Update("ChanceInputCancel")}
      [] ModalKind \in GraphInputs -> {[kind |-> "EndGraphInput", input |-> ModalKind]}
      [] ModalKind = "ExploreSearch" -> {Update("EndExploreSearch")}
      [] ModalKind = "ConfirmVersionSwitch" ->
            {Update("ConfirmVersionSwitchYes"), Update("ConfirmVersionSwitchNo")}
      [] ModalKind = "None" ->
            LevelKeys \cup ViewKeys[view.mode]
                \cup {EscKey, Update("Quit"), Update("BeginConfirmVersionSwitch")}

keyboard_loop ==
    /\ exit = "No"
    /\ keys < IF upsets = 0 THEN MaxKeys ELSE MaxKeysUpset
    /\ keys' = keys + 1
    /\ \E u \in Keymap : Offer(<<u>>)
    /\ calm' = (calm /\ Settled)
    /\ fast' = (fast \/ updates # <<>>)
    /\ UNCHANGED <<modelVars, out, hostVars, installer, exit, upsets, spans,
                   due, refused>>

-----------------------------------------------------------------------------
(* The runtime                                                             *)

Outgoing(eff) ==
    CASE eff.kind = "RequestSetLevel" -> <<[kind |-> "SetCacheLevel", level |-> eff.level]>>
      [] eff.kind = "RequestSetChance" -> <<Update("SetCacheChance")>>
      [] OTHER -> <<>>

OutFits(eff) == Len(out) + Len(Outgoing(eff)) <= OutCapacity

(* A request that finds its channel full is gone without a word.           *)
Perform(eff) ==
    /\ out' = IF OutFits(eff) THEN out \o Outgoing(eff) ELSE out
    /\ installer' = IF eff.kind = "RunUpdateInstaller" THEN "Running" ELSE installer
    /\ exit' = IF eff.kind \in {"Quit", "Restart"} THEN eff.kind ELSE exit

(* A level asked for by key, as opposed to one that explore mode asks for. *)
Asked(u) == u.kind = "RequestCacheLevel"

ApplyNext ==
    LET u == Head(updates) IN
    /\ exit = "No" /\ updates # <<>>
    /\ updates' = Tail(updates)
    /\ \E eff \in Effect :
          apply(u, eff) /\ Perform(eff) /\ calm' = (calm /\ OutFits(eff))
    /\ due' = IF Asked(u) /\ ~Exploring THEN u.level ELSE due
    /\ UNCHANGED <<hostVars, bounds, fast, refused>>

(* The ticker, every 100 ms.                                               *)
Tick ==
    /\ exit = "No"
    /\ expire_quit_confirm_if_due
    /\ UNCHANGED <<channelVars, hostVars, installer, exit, bounds, history>>

(* Two seconds pass.                                                       *)
Elapse ==
    /\ exit = "No" /\ quitDeadline = "Pending"
    /\ quitDeadline' = "Due"
    /\ UNCHANGED <<view, hostShown, confirm, chanceInput, channelVars, hostVars,
                   installer, exit, bounds, history>>

(* The installer's task sends its report like any other update.            *)
InstallerDone ==
    /\ exit = "No" /\ installer = "Running"
    /\ \/ installer' = "Succeeded" /\ Offer(<<Update("InstallerSucceeded")>>)
       \/ installer' = "Failed" /\ Offer(<<Update("InstallerFailed")>>)
    /\ refused' = (refused \/ ~Fits(<<Update("InstallerFailed")>>))
    /\ UNCHANGED <<modelVars, out, hostVars, exit, bounds, due, calm, fast>>

-----------------------------------------------------------------------------
(* The network task                                                        *)

NetSends(items) ==
    /\ Offer(items)
    /\ refused' = (refused \/ ~Fits(items))

Upset ==
    /\ upsets < MaxUpsets /\ keys <= MaxKeysUpset
    /\ upsets' = upsets + 1

(* Mutant: a connection that was lost is not dialled again.                *)
ConnectOnce ==
    /\ exit = "No" /\ ~online /\ upsets = 0
    /\ online' = TRUE
    /\ NetSends(<<Update("Connected")>>)
    /\ stream' = <<[kind |-> "CacheLevelReceived", level |-> level]>>
    /\ news' = FALSE
    /\ UNCHANGED <<modelVars, out, requests, level, installer, exit, bounds,
                   due, calm, fast>>

(* A new stream starts with the host's version and its level.              *)
Connect ==
    /\ exit = "No" /\ ~online
    /\ online' = TRUE
    /\ NetSends(<<Update("Connected")>>)
    /\ \E v \in Versions :
          stream' = <<[kind |-> "ServerInfoReceived", version |-> v],
                      [kind |-> "CacheLevelReceived", level |-> level]>>
    /\ news' = FALSE
    /\ UNCHANGED <<modelVars, out, requests, level, installer, exit, bounds,
                   due, calm, fast>>

ConnectFails ==
    /\ exit = "No" /\ ~online
    /\ Upset
    /\ NetSends(<<Update("Disconnected")>>)
    /\ UNCHANGED <<modelVars, out, hostVars, installer, exit, keys, spans,
                   due, calm, fast>>

(* The responses that are there, as one batch: all of it or nothing.       *)
Receive ==
    /\ exit = "No" /\ online /\ stream # <<>>
    /\ NetSends(stream)
    /\ stream' = <<>>
    /\ UNCHANGED <<modelVars, out, online, requests, level, news, installer, exit, bounds,
                   due, calm, fast>>

SendRequest ==
    /\ exit = "No" /\ online /\ out # <<>>
    /\ out' = Tail(out)
    /\ requests' = Append(requests, Head(out))
    /\ UNCHANGED <<modelVars, updates, online, stream, level, news, installer, exit, bounds,
                   history>>

(* What was on its way is lost.  The host resets its level when this was   *)
(* its last console.                                                       *)
ConnectionDrops ==
    /\ exit = "No" /\ online
    /\ Upset
    /\ online' = FALSE /\ requests' = <<>> /\ stream' = <<>> /\ news' = FALSE
    /\ NetSends(<<Update("Disconnected")>>)
    /\ level' \in {level, OFF}
    /\ due' = IF Exploring THEN due ELSE level'
    /\ calm' = (calm /\ Settled)
    /\ UNCHANGED <<modelVars, out, installer, exit, keys, spans, fast>>

-----------------------------------------------------------------------------
(* The host                                                                *)

(* Mutant: only a change of the level is news, also when the one before    *)
(* has not been told.                                                      *)
HandleIfChanged ==
    /\ exit = "No"
    /\ requests # <<>>
    /\ requests' = Tail(requests)
    /\ IF Head(requests).kind = "SetCacheLevel"
       THEN level' = Head(requests).level /\ news' = (level' # level)
       ELSE UNCHANGED <<level, news>>
    /\ UNCHANGED <<modelVars, channelVars, online, stream, installer, exit, bounds, history>>

HandleRequest ==
    /\ exit = "No"
    /\ requests # <<>>
    /\ requests' = Tail(requests)
    /\ IF Head(requests).kind = "SetCacheLevel"
       THEN level' = Head(requests).level /\ news' = TRUE
       ELSE UNCHANGED <<level, news>>
    /\ UNCHANGED <<modelVars, channelVars, online, stream, installer, exit, bounds, history>>

TellLevel ==
    /\ exit = "No"
    /\ online /\ news
    /\ news' = FALSE
    /\ stream' = Append(stream, [kind |-> "CacheLevelReceived", level |-> level])
    /\ UNCHANGED <<modelVars, channelVars, online, requests, level, installer, exit, bounds,
                   history>>

SendSpan ==
    /\ exit = "No"
    /\ online /\ level # OFF
    /\ spans < MaxSpans
    /\ spans' = spans + 1
    /\ stream' = Append(stream, Update("SpanReceived"))
    /\ UNCHANGED <<modelVars, channelVars, online, requests, level, news, installer, exit,
                   keys, upsets, history>>

OtherConsole ==
    /\ exit = "No"
    /\ Upset
    /\ level' \in Levels
    /\ news' = online
    /\ due' = IF Exploring THEN due ELSE level'
    /\ calm' = (calm /\ Settled)
    /\ UNCHANGED <<modelVars, channelVars, online, requests, stream, installer, exit,
                   keys, spans, fast, refused>>

-----------------------------------------------------------------------------

Network == Connect \/ Receive \/ SendRequest
Host == HandleRequest \/ TellLevel

ConsoleNext ==
    \/ keyboard_loop \/ ApplyNext \/ Tick \/ Elapse \/ InstallerDone
    \/ Network \/ ConnectFails \/ ConnectionDrops
    \/ Host \/ SendSpan \/ OtherConsole

(* The runtime drains its channel, the network task its stream and its     *)
(* requests (tokio's select takes a ready arm at random), dialling goes on *)
(* until the host is there, and a subprocess ends.                         *)
ConsoleFairness ==
    /\ WF_consoleVars(ApplyNext) /\ WF_consoleVars(InstallerDone)
    /\ WF_consoleVars(Connect) /\ WF_consoleVars(Receive) /\ WF_consoleVars(SendRequest)
    /\ WF_consoleVars(HandleRequest) /\ WF_consoleVars(TellLevel)

ConsoleSpec == ConsoleInit /\ [][ConsoleNext]_consoleVars /\ ConsoleFairness

-----------------------------------------------------------------------------
(* Properties                                                              *)

(* The updates by their senders: the keyboard, the host, the network task *)
(* and the installer's task.                                               *)
PlainKinds ==
    {"BeginChanceInput", "ChanceInputCommit", "ChanceInputCancel",
     "ToggleGraph", "EnterTable", "EnterGraph", "EnterExplore", "ExitExplore",
     "BeginExploreSearch", "EndExploreSearch", "ExploreOpenTrace", "ExitTraceDetail",
     "Quit", "QuitConfirmDismiss", "BeginConfirmVersionSwitch",
     "ConfirmVersionSwitchYes", "ConfirmVersionSwitchNo"}
KeyKinds == PlainKinds \cup {"RequestCacheLevel", "BeginGraphInput", "EndGraphInput"}
LinkKinds == {"Connected", "Disconnected"}
ReportKinds == {"InstallerSucceeded", "InstallerFailed"}

Tell(l) == [kind |-> "CacheLevelReceived", level |-> l]

Key ==
    {Update(k) : k \in PlainKinds} \cup LevelKeys
    \cup [kind : {"BeginGraphInput", "EndGraphInput"}, input : GraphInputs]
Response ==
    {Update("SpanReceived")} \cup {Tell(l) : l \in Levels}
    \cup [kind : {"ServerInfoReceived"}, version : Versions]
AnyUpdate == Key \cup Response \cup {Update(k) : k \in LinkKinds \cup ReportKinds}
Request == {Update("SetCacheChance")} \cup [kind : {"SetCacheLevel"}, level : Levels]

(* Types, with the channels within their capacities (args.rs:54-56), and   *)
(* each channel carries what its senders send.                             *)
TypeOK ==
    /\ ModelTypeOK
    /\ updates \in Seq(AnyUpdate) /\ Len(updates) <= UpdateCapacity
    /\ out \in Seq(Request) /\ Len(out) <= OutCapacity
    /\ requests \in Seq(Request) /\ stream \in Seq(Response)
    /\ online \in BOOLEAN /\ news \in BOOLEAN /\ level \in Levels
    /\ installer \in {"Idle", "Running", "Succeeded", "Failed"}
    /\ exit \in {"No", "Quit", "Restart"}
    /\ due \in Levels /\ calm \in BOOLEAN /\ refused \in BOOLEAN

(* Explore mode gives back what it took (explore.rs:6-9): while every key  *)
(* and every change from outside waits until nothing is on its way, the    *)
(* host is, outside explore mode, at the level it had or was given there,  *)
(* through traces, graphs, modals, broken connections and resets.          *)
LevelGivenBack == calm /\ ~refused /\ Settled /\ ~Exploring => level = due

(* "restored on exit so we don't strand the user with tracing off"         *)
(* (explore.rs:73): a user who had tracing on before explore mode does not *)
(* find it off after it, also when keys do not wait for the host, as long  *)
(* as each is applied before the next one is pressed.                      *)
NeverStranded == ~fast /\ ~refused /\ Settled /\ ~Exploring /\ level = OFF => due = OFF

(* Unless the channel refused something, the header tells the truth once   *)
(* nothing is on its way: the level is the host's, and the connection is   *)
(* shown as connected (core.rs:232-236, 470-492).                          *)
HeaderTrue == Settled /\ ~refused => cacheLevel = level /\ connection = "Connected"

(* The modal and the subprocess agree (core.rs:145-176): no key takes the  *)
(* modal away or starts another installer while one runs, and the console  *)
(* restarts only into a binary that was installed.                         *)
InstallerOnScreen ==
    /\ installer = "Running" => confirm.status = "Running"
    /\ confirm.status = "Restart" \/ exit = "Restart" => installer = "Succeeded"

(* The header catches up with the host again and again, whatever breaks    *)
(* (runtime.rs:146-250), unless the channel refused something.             *)
HeaderCatchesUp ==
    []<>(exit # "No" \/ refused \/ (cacheLevel = level /\ connection = "Connected"))

(* An installer modal, which swallows all keys, does not stay for ever     *)
(* (core.rs:160-163), unless the channel refused something.                *)
ModalEnds == (confirm.status = "Running") ~> (confirm.status # "Running" \/ refused \/ exit # "No")

=============================================================================
