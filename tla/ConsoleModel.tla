---------------------------- MODULE ConsoleModel ----------------------------
(***************************************************************************)
(* The console's model (tracing-console/src/model/core.rs): what is on the *)
(* screen, and the reducer `apply` that every update goes through.  Each   *)
(* action is one arm of the reducer; its parameter eff is the effect the   *)
(* arm returns to the runtime (module Console), which carries it out.      *)
(*                                                                         *)
(* Kept: the views and the way between them, the level explore mode takes  *)
(* from the host and gives back, the modals that own the keyboard, and the *)
(* quit prompt.  Abstracted: the rows (only whether there is one), the     *)
(* text typed into a modal (only whether it is open, and that a commit may *)
(* find it invalid), and the cursors, sort orders and filters of the panes.*)
(***************************************************************************)
EXTENDS Naturals

CONSTANTS
    Levels,             \* WireLevelFilter
    OFF, TRACE,         \* the two levels the reducer names itself
    Unknown,            \* None: the host has not told yet
    Versions,           \* versions a host may advertise
    CLIENT_VERSION,     \* the version this binary was built from
    GraphInputs         \* the input modals of the graph view

ASSUME LevelsAssumption == {OFF, TRACE} \subseteq Levels /\ Unknown \notin Levels
ASSUME VersionsAssumption == Unknown \notin Versions
ASSUME InputsAssumption == GraphInputs \subseteq {"Agg", "Window", "Lookback"}

VARIABLES
    view,               \* Model::view
    hasRow,             \* the table has at least one visible row
    cacheLevel,         \* Model::cache_level, as told by the host
    connection,         \* Model::connection
    serverVersion,      \* Model::server_version
    confirm,            \* Model::confirm_version_switch
    quitDeadline,       \* Model::quit_confirm_deadline
    chanceInput         \* Model::chance_input is open

modelVars == <<view, hasRow, cacheLevel, connection, serverVersion, confirm,
               quitDeadline, chanceInput>>
hostShown == <<hasRow, cacheLevel, connection, serverVersion>>
prompts == <<confirm, quitDeadline, chanceInput>>

ExploreState == [restore : Levels \cup {Unknown}, searching : BOOLEAN]

Table == [mode |-> "Table"]
Graph(open) == [mode |-> "Graph", inputs |-> open]
Explore(es) == [mode |-> "Explore", explore |-> es]
TraceDetail(es) == [mode |-> "TraceDetail", explore |-> es]

ViewMode ==
    {Table} \cup {Graph(open) : open \in SUBSET GraphInputs}
            \cup {Explore(es) : es \in ExploreState}
            \cup {TraceDetail(es) : es \in ExploreState}

(* Explore mode proper, or a trace opened from it: the level is borrowed.  *)
Exploring == view.mode \in {"Explore", "TraceDetail"}

NoConfirm == [status |-> "Closed", version |-> Unknown]
ConfirmStatus == {"Closed", "Confirming", "Running", "Failed", "Restart"}

(* The deadline itself is a time: pending before it, due after it.         *)
QuitDeadline == {"None", "Pending", "Due"}

NoEffect == [kind |-> "None"]
RequestSetLevel(level) == [kind |-> "RequestSetLevel", level |-> level]
RequestSetChance == [kind |-> "RequestSetChance"]
RunUpdateInstaller == [kind |-> "RunUpdateInstaller"]
Effect == {[kind |-> k] : k \in {"None", "RequestSetChance", "RunUpdateInstaller", "Quit", "Restart"}}
          \cup {RequestSetLevel(l) : l \in Levels}

ModelTypeOK ==
    /\ view \in ViewMode
    /\ hasRow \in BOOLEAN
    /\ cacheLevel \in Levels \cup {Unknown}
    /\ connection \in {"Connecting", "Connected", "Disconnected"}
    /\ serverVersion \in Versions \cup {Unknown}
    /\ confirm \in [status : ConfirmStatus, version : Versions \cup {Unknown}]
    /\ quitDeadline \in QuitDeadline
    /\ chanceInput \in BOOLEAN

ModelInit ==
    /\ view = Table
    /\ hasRow = FALSE
    /\ cacheLevel = Unknown
    /\ connection = "Connecting"
    /\ serverVersion = Unknown
    /\ confirm = NoConfirm
    /\ quitDeadline = "None"
    /\ chanceInput = FALSE

-----------------------------------------------------------------------------
(* What the host says.                                                     *)

(* A span whose parent has not come is parked and shows no row.            *)
SpanReceived(eff) ==
    /\ hasRow' \in {hasRow, TRUE}
    /\ eff = NoEffect
    /\ UNCHANGED <<view, cacheLevel, connection, serverVersion, prompts>>

Connected(eff) ==
    /\ connection' = "Connected"
    /\ eff = NoEffect
    /\ UNCHANGED <<view, hasRow, cacheLevel, serverVersion, prompts>>

Disconnected(eff) ==
    /\ connection' = "Disconnected"
    /\ eff = NoEffect
    /\ UNCHANGED <<view, hasRow, cacheLevel, serverVersion, prompts>>

CacheLevelReceived(level, eff) ==
    /\ cacheLevel' = level
    /\ eff = NoEffect
    /\ UNCHANGED <<view, hasRow, connection, serverVersion, prompts>>

ServerInfoReceived(version, eff) ==
    /\ serverVersion' = version
    /\ eff = NoEffect
    /\ UNCHANGED <<view, hasRow, cacheLevel, connection, prompts>>

-----------------------------------------------------------------------------
(* The level, and the chance modal.                                        *)

RequestCacheLevel(level, eff) ==
    /\ eff = RequestSetLevel(level)
    /\ UNCHANGED modelVars

BeginChanceInput(eff) ==
    /\ chanceInput' = TRUE
    /\ eff = NoEffect
    /\ UNCHANGED <<view, hostShown, confirm, quitDeadline>>

ChanceInputCancel(eff) ==
    /\ chanceInput' = FALSE
    /\ eff = NoEffect
    /\ UNCHANGED <<view, hostShown, confirm, quitDeadline>>

(* Text that is no percentage closes the modal and asks for nothing.       *)
ChanceInputCommit(eff) ==
    /\ chanceInput' = FALSE
    /\ eff \in {NoEffect} \cup (IF chanceInput THEN {RequestSetChance} ELSE {})
    /\ UNCHANGED <<view, hostShown, confirm, quitDeadline>>

-----------------------------------------------------------------------------
(* The views.                                                              *)

MoveTo(v, eff, effect) ==
    /\ view' = v
    /\ eff = effect
    /\ UNCHANGED <<hostShown, prompts>>

Stay(eff) == MoveTo(view, eff, NoEffect)

(* What leaving explore mode asks the host for.                            *)
Restore(es) ==
    RequestSetLevel(IF es.restore = Unknown THEN TRACE ELSE es.restore)

(* From every view but the table, back to the table: also from explore.    *)
ToggleGraph(eff) ==
    IF view = Table /\ hasRow
    THEN MoveTo(Graph({}), eff, NoEffect)
    ELSE MoveTo(Table, eff, NoEffect)

BeginGraphInput(input, eff) ==
    \/ /\ view.mode = "Graph"
       /\ MoveTo(Graph(view.inputs \cup {input}), eff, NoEffect)
    \/ view.mode # "Graph" /\ Stay(eff)

(* Commit or cancel: either takes the buffer.                              *)
EndGraphInput(input, eff) ==
    \/ /\ view.mode = "Graph"
       /\ MoveTo(Graph(view.inputs \ {input}), eff, NoEffect)
    \/ view.mode # "Graph" /\ Stay(eff)

(* The level shown now is kept to be restored, and the host is asked to    *)
(* stop recording.  Out of a trace one only comes back to its list.        *)
EnterExplore(eff) ==
    \/ /\ (view = Table /\ hasRow) \/ view.mode = "Graph"
       /\ MoveTo(Explore([restore |-> cacheLevel, searching |-> FALSE]),
                 eff, RequestSetLevel(OFF))
    \/ view.mode = "TraceDetail" /\ MoveTo(Explore(view.explore), eff, NoEffect)
    \/ ((view = Table /\ ~hasRow) \/ view.mode = "Explore") /\ Stay(eff)

ExitExplore(eff) ==
    \/ Exploring /\ MoveTo(Table, eff, Restore(view.explore))
    \/ ~Exploring /\ Stay(eff)

BeginExploreSearch(eff) ==
    \/ /\ view.mode = "Explore"
       /\ MoveTo(Explore([view.explore EXCEPT !.searching = TRUE]), eff, NoEffect)
    \/ view.mode # "Explore" /\ Stay(eff)

(* Commit or cancel.                                                       *)
EndExploreSearch(eff) ==
    \/ /\ view.mode = "Explore"
       /\ MoveTo(Explore([view.explore EXCEPT !.searching = FALSE]), eff, NoEffect)
    \/ view.mode # "Explore" /\ Stay(eff)

(* Nothing opens when no span matches, or the root of the span is unknown. *)
ExploreOpenTrace(eff) ==
    \/ view.mode = "Explore" /\ MoveTo(TraceDetail(view.explore), eff, NoEffect)
    \/ Stay(eff)

(* The view is taken before its kind is looked at, and not put back.       *)
ExitTraceDetail(eff) ==
    IF view.mode = "TraceDetail"
    THEN MoveTo(Explore(view.explore), eff, NoEffect)
    ELSE MoveTo(Table, eff, NoEffect)

(* Mutant: leaving a trace by the table key gives nothing back.            *)
EnterTableForgets(eff) ==
    MoveTo(Table, eff, IF view.mode = "Explore" THEN Restore(view.explore) ELSE NoEffect)

EnterTable(eff) ==
    MoveTo(Table, eff, IF Exploring THEN Restore(view.explore) ELSE NoEffect)

EnterGraph(eff) ==
    \/ view = Table /\ hasRow /\ MoveTo(Graph({}), eff, NoEffect)
    \/ ((view = Table /\ ~hasRow) \/ view.mode = "Graph") /\ Stay(eff)
    \/ Exploring /\ MoveTo(Graph({}), eff, Restore(view.explore))

-----------------------------------------------------------------------------
(* The quit prompt.                                                        *)

Quit(eff) ==
    /\ \/ quitDeadline = "Pending" /\ quitDeadline' = "None" /\ eff = [kind |-> "Quit"]
       \/ quitDeadline # "Pending" /\ quitDeadline' = "Pending" /\ eff = NoEffect
    /\ UNCHANGED <<view, hostShown, confirm, chanceInput>>

QuitConfirmDismiss(eff) ==
    /\ quitDeadline' = "None"
    /\ eff = NoEffect
    /\ UNCHANGED <<view, hostShown, confirm, chanceInput>>

(* Called by the runtime at every tick.                                    *)
expire_quit_confirm_if_due ==
    /\ quitDeadline = "Due"
    /\ quitDeadline' = "None"
    /\ UNCHANGED <<view, hostShown, confirm, chanceInput>>

-----------------------------------------------------------------------------
(* The version switch.                                                     *)

SetConfirm(c, eff, effect) ==
    /\ confirm' = c
    /\ eff = effect
    /\ UNCHANGED <<view, hostShown, quitDeadline, chanceInput>>

BeginConfirmVersionSwitch(eff) ==
    IF confirm = NoConfirm /\ serverVersion \notin {Unknown, CLIENT_VERSION}
    THEN SetConfirm([status |-> "Confirming", version |-> serverVersion], eff, NoEffect)
    ELSE SetConfirm(confirm, eff, NoEffect)

ConfirmVersionSwitchYes(eff) ==
    \/ /\ confirm.status = "Confirming"
       /\ SetConfirm([confirm EXCEPT !.status = "Running"], eff, RunUpdateInstaller)
    \/ confirm.status = "Restart" /\ SetConfirm(confirm, eff, [kind |-> "Restart"])
    \/ /\ confirm.status \in {"Closed", "Running", "Failed"}
       /\ SetConfirm(confirm, eff, NoEffect)

(* Mutant: the modal goes away also while the installer runs.              *)
DismissAlways(eff) == SetConfirm(NoConfirm, eff, NoEffect)

ConfirmVersionSwitchNo(eff) ==
    SetConfirm(IF confirm.status = "Running" THEN confirm ELSE NoConfirm, eff, NoEffect)

(* Mutant: only success is shown.                                          *)
ReportSuccess(status, eff) ==
    SetConfirm(IF confirm # NoConfirm /\ status = "Restart"
               THEN [confirm EXCEPT !.status = status] ELSE confirm, eff, NoEffect)

(* What the installer's task reports, to the modal if it is open.          *)
InstallerReport(status, eff) ==
    SetConfirm(IF confirm = NoConfirm THEN confirm ELSE [confirm EXCEPT !.status = status],
               eff, NoEffect)

-----------------------------------------------------------------------------
(* Model::apply.                                                           *)

apply(u, eff) ==
    \/ u.kind = "SpanReceived" /\ SpanReceived(eff)
    \/ u.kind = "Connected" /\ Connected(eff)
    \/ u.kind = "Disconnected" /\ Disconnected(eff)
    \/ u.kind = "CacheLevelReceived" /\ CacheLevelReceived(u.level, eff)
    \/ u.kind = "ServerInfoReceived" /\ ServerInfoReceived(u.version, eff)
    \/ u.kind = "RequestCacheLevel" /\ RequestCacheLevel(u.level, eff)
    \/ u.kind = "BeginChanceInput" /\ BeginChanceInput(eff)
    \/ u.kind = "ChanceInputCancel" /\ ChanceInputCancel(eff)
    \/ u.kind = "ChanceInputCommit" /\ ChanceInputCommit(eff)
    \/ u.kind = "ToggleGraph" /\ ToggleGraph(eff)
    \/ u.kind = "BeginGraphInput" /\ BeginGraphInput(u.input, eff)
    \/ u.kind = "EndGraphInput" /\ EndGraphInput(u.input, eff)
    \/ u.kind = "EnterExplore" /\ EnterExplore(eff)
    \/ u.kind = "ExitExplore" /\ ExitExplore(eff)
    \/ u.kind = "BeginExploreSearch" /\ BeginExploreSearch(eff)
    \/ u.kind = "EndExploreSearch" /\ EndExploreSearch(eff)
    \/ u.kind = "ExploreOpenTrace" /\ ExploreOpenTrace(eff)
    \/ u.kind = "ExitTraceDetail" /\ ExitTraceDetail(eff)
    \/ u.kind = "EnterTable" /\ EnterTable(eff)
    \/ u.kind = "EnterGraph" /\ EnterGraph(eff)
    \/ u.kind = "Quit" /\ Quit(eff)
    \/ u.kind = "QuitConfirmDismiss" /\ QuitConfirmDismiss(eff)
    \/ u.kind = "BeginConfirmVersionSwitch" /\ BeginConfirmVersionSwitch(eff)
    \/ u.kind = "ConfirmVersionSwitchYes" /\ ConfirmVersionSwitchYes(eff)
    \/ u.kind = "ConfirmVersionSwitchNo" /\ ConfirmVersionSwitchNo(eff)
    \/ u.kind = "InstallerSucceeded" /\ InstallerReport("Restart", eff)
    \/ u.kind = "InstallerFailed" /\ InstallerReport("Failed", eff)

(* The order in which the runtime asks for the open inputs of a graph.     *)
Before(i, j) == i = j \/ i = "Agg" \/ (i = "Window" /\ j = "Lookback")

(* The modal that owns the keyboard (runtime.rs), the strongest first.     *)
ModalKind ==
    CASE confirm # NoConfirm -> "ConfirmVersionSwitch"
      [] confirm = NoConfirm /\ chanceInput -> "Chance"
      [] confirm = NoConfirm /\ ~chanceInput /\ view.mode = "Graph" /\ view.inputs # {} ->
            CHOOSE i \in view.inputs :
                \A j \in view.inputs : Before(i, j)
      [] confirm = NoConfirm /\ ~chanceInput /\ view.mode = "Explore" /\ view.explore.searching ->
            "ExploreSearch"
      [] OTHER -> "None"

=============================================================================
