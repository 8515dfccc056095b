------------------------------ MODULE Explore ------------------------------
(***************************************************************************)
(* Explore mode and the trace it opens (model/explore.rs and its arms of   *)
(* model/core.rs), over the stack table: the spans of one stack, filtered  *)
(* by a search and sorted, and the tree of one trace.                      *)
(*                                                                         *)
(* A search text is the number of its characters: the user types one text, *)
(* and Search[n] is the strings that its first n characters occur in,      *)
(* whatever the case.  The level explore mode borrows, the graph and the   *)
(* routing of keys are in ConsoleModel.                                    *)
(***************************************************************************)
EXTENDS Panes

CONSTANTS
    Search,      \* see above
    RootWalkCap  \* spans find_root_id looks at

ASSUME ExploreAssumption == RootWalkCap \in Nat \ {0}

VARIABLE view

exploreVars == <<aggVars, panesVars, pressed, view>>

NoSearch == -1  \* search_input None
NoRoot == 0     \* find_root_id gives None

TableView == [mode |-> "Table"]
ExploreView(es) == [mode |-> "Explore", explore |-> es]
TraceView(td, es) == [mode |-> "TraceDetail", trace |-> td, explore |-> es]

ExploreInit == AggInit /\ PanesInit /\ view = TableView

SpanOf(id) == agg.by_id[id].span

-----------------------------------------------------------------------------
(* The list of spans                                                       *)

default_direction(column) == IF column \in {"Timestamp", "Latency"} THEN "Desc" ELSE "Asc"

ExploreState(stack) ==
    [locked_stack |-> stack, selected |-> 0, sort |-> "Timestamp",
     direction |-> default_direction("Timestamp"), search_input |-> NoSearch, query |-> 0]

effective_query(es) == IF es.search_input # NoSearch THEN es.search_input ELSE es.query

locked_stack_spans(es) ==
    Filter(agg.order, LAMBDA id : id \in InRing /\ agg.by_id[id].bucket.stack = es.locked_stack)

Texts(item) == {item.name} \cup DOMAIN item.fields \cup Range(item.fields)

span_matches_query(span, query) ==
    \E item \in {span} \cup ToSet(span.events) : Texts(item) \cap Search[query] # {}

SortKey(id, column) ==
    CASE column = "Timestamp" -> SpanOf(id).opened_at_ns
      [] column = "Latency" -> SpanOf(id).total_ns
      [] OTHER -> IF column \in DOMAIN SpanOf(id).fields THEN Rank(SpanOf(id).fields[column])
                  ELSE 0

sort_spans(ids, column, direction) ==
    LET sorted == StableSort(ids, LAMBDA id : SortKey(id, column))
    IN  IF direction = "Desc" THEN Reverse(sorted) ELSE sorted

matching_spans(es) ==
    LET query == effective_query(es)
        matches(id) == query = 0 \/ span_matches_query(SpanOf(id), query)
    IN  sort_spans(Filter(locked_stack_spans(es), matches), es.sort, es.direction)

distinguishing_fields(ids) ==
    LET values(key) == {SpanOf(id).fields[key] :
                            id \in {i \in ToSet(ids) : key \in DOMAIN SpanOf(i).fields}}
    IN  Alphabetically({key \in Keys : Cardinality(values(key)) > 1})

(* A column that is no longer offered counts as the first.                 *)
cycle_sort(es, fields, delta) ==
    LET all == <<"Timestamp", "Latency">> \o fields
        idx == IF Contains(all, es.sort) THEN SelectInSeq(all, LAMBDA c : c = es.sort) - 1 ELSE 0
        next == all[((idx + delta) % Len(all)) + 1]
    IN  [es EXCEPT !.sort = next, !.direction = default_direction(next)]

-----------------------------------------------------------------------------
(* The trace                                                               *)

(* The parents up the ring; the walk ends at a root, at a span that is not *)
(* in the ring, or at the cap.                                             *)
find_root_id(id) ==
    LET steps == 0..Min({RootWalkCap - 1, Cardinality(InRing)})
        up[n \in steps] ==
            IF n = 0 THEN id
            ELSE IF up[n - 1] \in InRing THEN SpanOf(up[n - 1]).parent_id ELSE NoRoot
        roots == {n \in steps : up[n] \in InRing /\ SpanOf(up[n]).parent_id = NoParent}
    IN  IF roots = {} THEN NoRoot ELSE up[Min(roots)]

SpanRow(id, depth, below, open) ==
    [kind |-> "Span", id |-> id, idx |-> 0, depth |-> depth,
     has_children |-> below, expanded |-> open]
EventRow(id, idx, depth) ==
    [kind |-> "Event", id |-> id, idx |-> idx, depth |-> depth,
     has_children |-> FALSE, expanded |-> FALSE]

(* What a span holds: its events, and its children in the ring.            *)
Items(id) ==
    LET events == SpanOf(id).events
        kids == Filter(agg.order, LAMBDA c : c \in InRing /\ SpanOf(c).parent_id = id)
    IN  [i \in DOMAIN events |-> [row |-> EventRow(id, i, 1), at |-> events[i].recorded_at_ns]]
        \o [i \in DOMAIN kids |-> [row |-> SpanRow(kids[i], 1, FALSE, FALSE),
                                   at |-> SpanOf(kids[i]).opened_at_ns]]

(* Mutant: the events stand before the children.                           *)
EventsFirst(id) == Items(id)

(* Interleaved by time; at one time, events stand first.                   *)
Chronological(id) == StableSort(Items(id), LAMBDA item : item.at)

(* walk_trace from every span: its row, and what is below it a level deeper.*)
visible_trace_rows(td) ==
    LET deeper(rows_below) == [i \in DOMAIN rows_below |-> [rows_below[i] EXCEPT !.depth = @ + 1]]
        walk_trace[id \in InRing] ==
            LET items == Chronological(id)
                open == id \notin td.collapsed
                below(item) == IF item.row.kind = "Event" THEN <<item.row>>
                               ELSE deeper(walk_trace[item.row.id])
            IN  <<SpanRow(id, 0, items # <<>>, open)>> \o
                IF open THEN FlattenSeq([i \in DOMAIN items |-> below(items[i])]) ELSE <<>>
    IN  IF td.root_id \in InRing THEN walk_trace[td.root_id] ELSE <<>>

TraceDetailState(root_id) == [root_id |-> root_id, selected_idx |-> 0, collapsed |-> {}]

(* Expand and collapse take the last row for a cursor past the end.        *)
trace_selected_span_id(td) ==
    LET shown == visible_trace_rows(td)
        row == shown[Min({td.selected_idx, Len(shown) - 1}) + 1]
    IN  IF shown # <<>> /\ row.kind = "Span" THEN {row.id} ELSE {}

-----------------------------------------------------------------------------
(* Keys                                                                    *)

Show(next) ==
    /\ Press
    /\ view' = next
    /\ UNCHANGED <<aggVars, panesVars>>

InExplore == view.mode = "Explore"
InTrace == view.mode = "TraceDetail"
es == view.explore
td == view.trace
List == matching_spans(es)

(* From a trace, back to the list it was opened from.                      *)
EnterExplore ==
    \/ /\ view.mode = "Table"
       /\ \E row \in selected_visible_row : Show(ExploreView(ExploreState(row.stack)))
    \/ InTrace /\ Show(ExploreView(es))

(* ExitExplore, and EnterTable.                                            *)
ExitExplore == (InExplore \/ InTrace) /\ Show(TableView)

InList(next) == InExplore /\ Show(ExploreView(next))

ExploreSelectUp == InList([es EXCEPT !.selected = IF @ > 0 THEN @ - 1 ELSE 0])

ExploreSelectDown ==
    /\ InExplore /\ es.selected + 1 < Len(List)
    /\ InList([es EXCEPT !.selected = @ + 1])

ExploreSort(delta) == InList(cycle_sort(es, distinguishing_fields(List), delta))

ExploreInvertSort ==
    InList([es EXCEPT !.direction = IF @ = "Asc" THEN "Desc" ELSE "Asc"])

BeginExploreSearch == InList([es EXCEPT !.search_input = 0, !.selected = 0])

Searching == InExplore /\ es.search_input # NoSearch

ExploreSearchChar ==
    Searching /\ es.search_input < Len(Search) /\ InList([es EXCEPT !.search_input = @ + 1])
ExploreSearchBackspace ==
    Searching /\ InList([es EXCEPT !.search_input = IF @ > 0 THEN @ - 1 ELSE 0])
ExploreSearchCancel == InList([es EXCEPT !.search_input = NoSearch, !.selected = 0])
(* Mutant: the cursor stays where it was in the longer list.               *)
SearchCommitInPlace ==
    Searching /\ InList([es EXCEPT !.query = es.search_input, !.search_input = NoSearch])
ExploreSearchCommit ==
    Searching /\ InList([es EXCEPT !.query = es.search_input, !.search_input = NoSearch,
                                   !.selected = 0])

ListCursor == List[Min({es.selected, Len(List) - 1}) + 1]

(* A span whose root has left the ring cannot be opened.                   *)
ExploreOpenTrace ==
    /\ InExplore /\ List # <<>>
    /\ find_root_id(ListCursor) # NoRoot
    /\ Show(TraceView(TraceDetailState(find_root_id(ListCursor)), es))

(* Typed ahead in any other view, it shows the table.                      *)
ExitTraceDetail == Show(IF InTrace THEN ExploreView(es) ELSE TableView)

InTree(next) == InTrace /\ Show(TraceView(next, es))

TraceDetailSelectUp == InTree([td EXCEPT !.selected_idx = IF @ > 0 THEN @ - 1 ELSE 0])

TraceDetailSelectDown ==
    /\ InTrace /\ td.selected_idx + 1 < Len(visible_trace_rows(td))
    /\ InTree([td EXCEPT !.selected_idx = @ + 1])

TraceDetailExpand ==
    InTrace /\ \E id \in trace_selected_span_id(td) : InTree([td EXCEPT !.collapsed = @ \ {id}])
TraceDetailCollapse ==
    InTrace /\ \E id \in trace_selected_span_id(td) : InTree([td EXCEPT !.collapsed = @ \cup {id}])

ExploreKey ==
    \/ EnterExplore \/ ExitExplore
    \/ ExploreSelectUp \/ ExploreSelectDown
    \/ \E delta \in {-1, 1} : ExploreSort(delta)
    \/ ExploreInvertSort
    \/ BeginExploreSearch \/ ExploreSearchChar \/ ExploreSearchBackspace
    \/ ExploreSearchCancel \/ ExploreSearchCommit
    \/ ExploreOpenTrace \/ ExitTraceDetail
    \/ TraceDetailSelectUp \/ TraceDetailSelectDown
    \/ TraceDetailExpand \/ TraceDetailCollapse

(* The table's arms in any view: the keyboard thread routes keys by the    *)
(* view it last saw (runtime.rs:640).                                      *)
ExploreNext == ((AggStep \/ TableKey) /\ UNCHANGED view) \/ ExploreKey

ExploreSpec == ExploreInit /\ [][ExploreNext]_exploreVars

-----------------------------------------------------------------------------
(* Properties                                                              *)

(* While nothing had to leave the ring, every cursor is on a row, in the   *)
(* list except while a search is typed: else keys act on nothing, or the   *)
(* way back is longer than it looks (core.rs:1040-1046).                   *)
CursorsOnRows ==
    AtRest /\ ~Evicted =>
        /\ CursorOnRow
        /\ view.mode # "Table" /\ es.search_input = NoSearch =>
                es.selected = 0 \/ es.selected < Len(List)
        /\ InTrace => td.selected_idx < Len(visible_trace_rows(td))

=============================================================================
