-------------------------------- MODULE Graph --------------------------------
(***************************************************************************)
(* The graph view (model/graph.rs and the graph's arms of model/core.rs)   *)
(* over the aggregator: the chart of one stack's spans, its series by the  *)
(* values of the split keys, and the details pane with its cursor.         *)
(*                                                                         *)
(* SpanReceived is absorb, the steps of the aggregator it makes, and       *)
(* RecordInserted at their end; the user's keys come when it is over.      *)
(* The input modals are committed at once with what was typed (their       *)
(* opening and closing is in ConsoleModel); the lookback and the labels    *)
(* of the axis are read by the renderer alone.                             *)
(***************************************************************************)
EXTENDS Ancestry, GraphStore

CONSTANTS
    Windows,        \* nanoseconds the user may set as window
    DefaultWindow,  \* one second
    Modes,          \* aggregations the user may choose
    WalkDepth       \* ancestors collect_splits_for looks at

ASSUME GraphAssumption ==
    /\ \A s \in Spans : s.closed_at_ns \in Nat /\ s.total_ns <= s.closed_at_ns
    /\ \A s \in Spans : DOMAIN s.fields \cup Range(s.fields) \subseteq AllStrings
    /\ DefaultWindow \in Windows /\ Windows \subseteq Nat
    /\ Mode("Avg") \in Modes /\ Modes \subseteq AggMode
    /\ WalkDepth \in Nat \ {0}

VARIABLES
    inserted,  \* ids the absorb under way has put into the ring
    gs         \* the GraphState of the view, or NoGraph for the table

graphVars == <<aggVars, inserted, gs>>

NoGraph == [locked_stack |-> <<>>, store |-> NewStore(0)]
InGraph == gs # NoGraph

GraphInit == AggInit /\ inserted = <<>> /\ gs = NoGraph

(* The reducer is between two updates, and the program still runs.         *)
Idle == AtRest /\ inserted = <<>> /\ ~gs.store.panicked

-----------------------------------------------------------------------------
(* Spans into series                                                       *)

GraphState(stack) ==
    [locked_stack |-> stack, aggregation |-> Mode("Avg"), metric |-> "Total",
     window_ns |-> DefaultWindow, split_keys |-> {}, hidden_series |-> {},
     details_selected |-> 0, focus |-> "Chart", sort_column |-> "Count",
     store |-> NewStore(DefaultWindow)]

(* The value of each key nearest to the leaf among the ancestors that are  *)
(* still in the ring; there are no more of them than spans in the ring.    *)
collect_splits_for(a, id, keys) ==
    LET steps == 0..Min({WalkDepth - 1, Cardinality(DOMAIN a.by_id)})
        up[n \in steps] ==
            IF n = 0 THEN id
            ELSE IF up[n - 1] \in DOMAIN a.by_id THEN a.by_id[up[n - 1]].span.parent_id
            ELSE NoParent
        holders(key) == {n \in steps :
                            /\ up[n] \in DOMAIN a.by_id
                            /\ key \in DOMAIN a.by_id[up[n]].span.fields}
    IN  [key \in {key \in keys : holders(key) # {}} |->
            a.by_id[up[Min(holders(key))]].span.fields[key]]

ValueOf(metric, a, span) ==
    CASE metric = "Total" -> span.total_ns
      [] metric = "SelfTime" -> Monus(span.total_ns, At(a.child_sum, span.id, 0))
      [] metric = "Count" -> 1

record_span(g, a, span) ==
    LET value == ValueOf(g.metric, a, span)
        key == collect_splits_for(a, span.id, g.split_keys)
        sample == [id |-> span.id, key |-> key, t_ns |-> span.closed_at_ns, value |-> value]
        recorded == record(g.store, key, span.closed_at_ns, value)
    IN  IF g.store.panicked THEN g
        ELSE [g EXCEPT !.store = [recorded EXCEPT !.fed = Append(@, sample)]]

(* Record the spans of the locked stack among those ids, in their order.   *)
Recording(g, a, ids) ==
    LET shows(id) == id \in DOMAIN a.by_id /\ a.by_id[id].bucket.stack = g.locked_stack
        after[n \in 0..Len(ids)] ==
            IF n = 0 THEN g
            ELSE IF shows(ids[n]) THEN record_span(after[n - 1], a, a.by_id[ids[n]].span)
            ELSE after[n - 1]
    IN  after

RecordAll(g, a, ids) == Recording(g, a, ids)[Len(ids)]

rehydrate(g, a) ==
    RecordAll([g EXCEPT !.store = reset_window(g.store, g.window_ns)], a, a.order)

SpanReceived(span) ==
    /\ Idle
    /\ absorb(span)
    /\ UNCHANGED <<inserted, gs>>

Absorbing ==
    \/ /\ ParkStep
       /\ UNCHANGED <<inserted, gs>>
    \/ /\ InsertStep
       /\ inserted' = Append(inserted, Head(todo).id)
       /\ UNCHANGED gs

(* Mutant: only the span that came is recorded.                            *)
RecordReceivedOnly ==
    /\ AtRest /\ inserted # <<>>
    /\ gs' = IF InGraph THEN RecordAll(gs, agg, <<Head(inserted)>>) ELSE gs
    /\ inserted' = <<>>
    /\ UNCHANGED aggVars

RecordInserted ==
    /\ AtRest /\ inserted # <<>>
    /\ gs' = IF InGraph THEN RecordAll(gs, agg, inserted) ELSE gs
    /\ inserted' = <<>>
    /\ UNCHANGED aggVars

-----------------------------------------------------------------------------
(* The user's keys.  Each action is an arm of the reducer.                 *)

(* A key that works on the graph: what the arm makes of it.                *)
Arm(next) ==
    /\ Idle /\ InGraph
    /\ gs' = next
    /\ UNCHANGED <<aggVars, inserted>>

(* Any row of the table may be under its cursor.                           *)
ToggleGraph ==
    /\ Idle
    /\ gs' \in IF InGraph THEN {NoGraph}
               ELSE {rehydrate(GraphState(bucket.stack), agg) : bucket \in DOMAIN agg.buckets}
    /\ UNCHANGED <<aggVars, inserted>>

GraphAggInputCommit(mode) == Arm([gs EXCEPT !.aggregation = mode])

NextMetric(metric) ==
    CASE metric = "Total" -> "SelfTime" [] metric = "SelfTime" -> "Count"
      [] metric = "Count" -> "Total"

(* Mutant: the samples of the old metric stay in the store.                *)
ToggleMetricOnly == Arm([gs EXCEPT !.metric = NextMetric(@)])

ToggleGraphMetric == Arm(rehydrate([gs EXCEPT !.metric = NextMetric(@)], agg))

GraphWindowInputCommit(window_ns) ==
    Arm(rehydrate([gs EXCEPT !.window_ns = window_ns], agg))

series_table_columns(g) ==
    Alphabetically(g.split_keys) \o <<"Count", "Min", "Avg", "Max", "Last">>

(* A series sorts by a key it lacks as if its value were empty.            *)
SortKey(g, summary, key) ==
    CASE g.sort_column = "Count" -> -summary[key].count
      [] g.sort_column = "Min" -> summary[key].min_ns
      [] g.sort_column = "Avg" -> -summary[key].avg_ns
      [] g.sort_column = "Max" -> -summary[key].max_ns
      [] g.sort_column = "Last" -> -summary[key].last_ns
      [] OTHER -> IF g.sort_column \in DOMAIN key THEN Rank(key[g.sort_column]) ELSE 0

series_keys(g) ==
    LET summary == series_summary(g.store, g.aggregation, g.metric)
        sorts(key) == <<SortKey(g, summary, key)>> \o Pairs(key)
    IN  InOrder(DOMAIN g.store.series, LAMBDA m, n : Before(sorts(m), sorts(n)))

Candidates ==
    IF gs.focus = "Chart" THEN <<>> ELSE candidate_split_keys_for(agg, gs.locked_stack)

GraphSwitchFocus ==
    Arm(IF gs.focus = "Chart" THEN [gs EXCEPT !.focus = "Details"]
        ELSE [gs EXCEPT !.focus = "Chart",
                        !.details_selected = Min({@, Monus(Len(series_keys(gs)), 1)})])

GraphSelectUp == Arm([gs EXCEPT !.details_selected = Monus(@, 1)])

GraphSelectDown ==
    LET total == Len(series_keys(gs)) + Len(Candidates) IN
    /\ InGraph /\ total > 0
    /\ Arm([gs EXCEPT !.details_selected = Min({@ + 1, total - 1})])

Flip(set, element) == IF element \in set THEN set \ {element} ELSE set \cup {element}

(* Mutant: the unchecked series and the sort column are kept.              *)
SplitKeepingMarks(key) ==
    LET split == [gs EXCEPT !.split_keys = Flip(@, key)]
    IN  rehydrate(split, agg)

(* The other keys make other series, so the marks on the old ones go; the  *)
(* cursor follows the key.                                                 *)
SplitBy(key) ==
    LET keys == Flip(gs.split_keys, key)
        split == rehydrate([gs EXCEPT
            !.split_keys = keys,
            !.hidden_series = {},
            !.sort_column = IF @ \in Keys \ keys THEN "Count" ELSE @], agg)
    IN  [split EXCEPT !.details_selected =
            Len(series_keys(split)) + SelectInSeq(Candidates, LAMBDA c : c = key) - 1]

GraphToggleSplit ==
    LET series == series_keys(gs)
        row == gs.details_selected + 1
    IN  \/ /\ InGraph /\ row <= Len(series)
           /\ Arm([gs EXCEPT !.hidden_series = Flip(@, series[row])])
        \/ /\ InGraph /\ row > Len(series) /\ row - Len(series) <= Len(Candidates)
           /\ Arm(SplitBy(Candidates[row - Len(series)]))

(* Left is -1, right is 1.  A column that is gone gives way to an end.     *)
GraphSortColumn(step) ==
    LET cols == series_table_columns(gs)
        idx == SelectInSeq(cols, LAMBDA c : c = gs.sort_column)
        to == IF idx = 0 THEN (IF step = 1 THEN 1 ELSE Len(cols)) ELSE idx + step
    IN  Arm([gs EXCEPT !.sort_column =
                IF to \in DOMAIN cols THEN cols[to] ELSE IF step = 1 THEN cols[1] ELSE Last(cols)])

GraphNext ==
    \/ \E span \in Spans : SpanReceived(span)
    \/ Absorbing \/ RecordInserted
    \/ ToggleGraph \/ ToggleGraphMetric
    \/ \E mode \in Modes : GraphAggInputCommit(mode)
    \/ \E window_ns \in Windows : GraphWindowInputCommit(window_ns)
    \/ GraphSwitchFocus \/ GraphSelectUp \/ GraphSelectDown
    \/ GraphToggleSplit
    \/ \E step \in {-1, 1} : GraphSortColumn(step)

GraphSpec == GraphInit /\ [][GraphNext]_graphVars

-----------------------------------------------------------------------------
(* Properties                                                              *)

store == gs.store
Index(sample) == (sample.t_ns - store.origin_ns) \div store.window_ns
Fed == ToSet(store.fed)
Charted == {sample \in Fed : sample.t_ns >= store.origin_ns}

(* The bins a series keeps end at its latest and reach back BIN_CAP.       *)
Kept(key) ==
    LET idxs == {Index(s) : s \in {c \in Charted : c.key = key}}
    IN  Max({Min(idxs), Max(idxs) - BIN_CAP + 1}) .. Max(idxs)

InBin(key, idx) == {s \in Charted : s.key = key /\ Index(s) = idx}
InSeries(key) == UNION {InBin(key, idx) : idx \in Kept(key)}
SumOf(samples) == MapThenSumSet(LAMBDA s : s.value, samples)
ValuesOf(samples) == {s.value : s \in samples}

(* The view keeps its types and caps, and the user's marks name what there *)
(* is: the sort column is a column of the table, and unchecked series are  *)
(* series of the present split keys, else one would stay hidden with no    *)
(* row to check it again (core.rs:816-826).                                *)
GraphTypeOK ==
    InGraph =>
        /\ gs.locked_stack # <<>> /\ gs.window_ns \in Windows /\ gs.aggregation \in Modes
        /\ store.window_ns = gs.window_ns
        /\ gs.details_selected \in Nat /\ gs.focus \in {"Chart", "Details"}
        /\ \A key \in DOMAIN store.series :
              LET s == store.series[key] IN
              s.bins # <<>> /\ Len(s.bins) <= BIN_CAP /\ Last(s.bins) # NoBin
        /\ Contains(series_table_columns(gs), gs.sort_column)
        /\ \A key \in gs.hidden_series : DOMAIN key \subseteq gs.split_keys

(* The doc of absorb (state.rs:213-220): a parent that frees a backlog of  *)
(* children must not land them in the ring unseen by the graph.  Every     *)
(* span of the locked stack that is in the ring has been recorded, whether *)
(* it came before the graph was opened, after, or with its parent.         *)
EverySpanCharted ==
    Idle /\ InGraph =>
        {id \in InRing : agg.by_id[id].bucket.stack = gs.locked_stack}
            \subseteq {s.id : s \in Fed}

(* What the metric may have been of a span when it was recorded: its self  *)
(* time lost at most what its children took since.                         *)
Taken(span) ==
    SumFunction([child \in {c \in received : c.parent_id = span.id} |-> child.total_ns])
Measures(metric, span) ==
    CASE metric = "Total" -> {span.total_ns}
      [] metric = "SelfTime" -> Monus(span.total_ns, Taken(span))..span.total_ns
      [] metric = "Count" -> {1}

(* The values nearest to the leaf, as deep as the walk goes.               *)
Near(line, key) == {i \in With(line, key) : i > Len(line) - WalkDepth}
SeriesOf(line, keys) ==
    [key \in {k \in keys : Near(line, k) # {}} |-> line[Max(Near(line, key))].fields[key]]

(* A sample is of the metric and the split keys on display: none of others *)
(* survives a change.  While no span had to leave the ring, its series is  *)
(* that of the span's full ancestry, although only the ring was walked     *)
(* (core.rs:555, graph.rs:713, state.rs:187).                              *)
SamplesTrue ==
    InGraph =>
        \A sample \in Fed : \E span \in received :
            /\ sample.id = span.id /\ sample.t_ns = span.closed_at_ns
            /\ sample.value \in Measures(gs.metric, span)
            /\ Cardinality(received) <= agg.history_budget =>
                    \E line \in Lines : /\ Last(line) = span
                                        /\ sample.key = SeriesOf(line, gs.split_keys)

Y(key, idx, kind) ==
    LET bin == InBin(key, idx) IN
    CASE gs.metric = "Count" -> Cardinality(bin)
      [] kind = "Min" -> Min(ValuesOf(bin))
      [] kind = "Max" -> Max(ValuesOf(bin))
      [] kind = "Avg" -> SumOf(bin) \div Cardinality(bin)

(* The bins that reach into the lookback, the latest whole one always.     *)
Shown(key, lookback_ns) ==
    LET latest == Max({0} \cup {Index(s) : s \in Charted}) IN
    {idx \in Kept(key) :
        /\ InBin(key, idx) # {}
        /\ (latest - idx - 1) * store.window_ns < lookback_ns \/ idx = latest - 1
        /\ gs.metric = "Count" => idx # latest}

Row(key, mode) == series_summary(store, mode, gs.metric)[key]

(* The chart and its legend are a recount of the samples since the last    *)
(* wipe, bin by bin, however bins were filled up, dropped over the cap and *)
(* rehydrated, for any lookback and mode (graph.rs:232-279, 302-433).      *)
ChartIsRecount ==
    Idle /\ InGraph /\ store.window_ns # 0 =>
        /\ \A kind \in {"Min", "Max", "Avg"}, lookback_ns \in 1..4 :
              project(store, Mode(kind), gs.metric, lookback_ns) =
                [key \in {s.key : s \in Charted} |->
                    {<<idx, Y(key, idx, kind)>> : idx \in Shown(key, lookback_ns)}]
        /\ gs.metric # "Count" =>
            \A key \in DOMAIN store.series :
                LET all == InSeries(key)
                    last == ValuesOf(InBin(key, Max(Kept(key))))
                    row == Row(key, Mode("Avg"))
                IN  /\ row.count = Cardinality(all)
                    /\ row.min_ns = Min(ValuesOf(all)) /\ row.max_ns = Max(ValuesOf(all))
                    /\ row.avg_ns = SumOf(all) \div Cardinality(all)
                    /\ Row(key, Percentile(1)).last_ns = Min(last)
                    /\ Row(key, Percentile(50)).last_ns \in last
                    /\ Row(key, Percentile(99)).last_ns = Max(last)

(* The comment at graph.rs:246-248 takes spans for monotonic.  As long as  *)
(* they are, in the order in which they are recorded, and the window is    *)
(* not rounded to zero, no index underflows, whatever the bins' cap drops. *)
PanicsOnlyOutOfOrder ==
    InGraph /\ store.panicked =>
        \/ store.window_ns = 0
        \/ \E i \in 1..(Len(store.fed) - 1) : store.fed[i].t_ns > store.fed[i + 1].t_ns

(* The comment at graph.rs:246-248: record guards against spans that do    *)
(* not arrive monotonically, rather than panic.                            *)
NeverPanics == ~store.panicked

=============================================================================
