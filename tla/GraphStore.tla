----------------------------- MODULE GraphStore -----------------------------
(***************************************************************************)
(* The graph's store of time series (tracing-console/src/model/graph.rs):  *)
(* per series a deque of bins, one per time window, of the samples that    *)
(* fell into it.  A bin's slot is its index since the store's origin less  *)
(* the index of the series' first bin.                                     *)
(*                                                                         *)
(* The store is a record and its methods are operators that return the     *)
(* next one.  A slot that is None is a bin that counts nothing.  `fed` is  *)
(* history: the samples given to record since the last wipe, in order.     *)
(***************************************************************************)
EXTENDS Ordering

CONSTANTS
    BIN_CAP,        \* bins kept per series
    BIN_SAMPLE_CAP  \* samples kept per bin, for percentiles

ASSUME StoreAssumption == BIN_CAP \in Nat \ {0} /\ BIN_SAMPLE_CAP \in Nat \ {0}

Monus(m, n) == IF m > n THEN m - n ELSE 0   \* saturating_sub

-----------------------------------------------------------------------------
(* Bins                                                                    *)

NoBin == [count |-> 0, sum_ns |-> 0, min_ns |-> 0, max_ns |-> 0, samples |-> <<>>]

BinRecord(bin, value) ==
    [count |-> bin.count + 1,
     sum_ns |-> bin.sum_ns + value,
     min_ns |-> IF bin.count = 0 THEN value ELSE Min({bin.min_ns, value}),
     max_ns |-> IF bin.count = 0 THEN value ELSE Max({bin.max_ns, value}),
     samples |-> IF Len(bin.samples) < BIN_SAMPLE_CAP THEN Append(bin.samples, value)
                                                      ELSE bin.samples]

Mode(kind) == [kind |-> kind, p |-> 0]
Percentile(p) == [kind |-> "Percentile", p |-> p]
AggMode == {Mode(kind) : kind \in {"Min", "Avg", "Max"}} \cup {Percentile(p) : p \in 1..99}

(* The percentile's index is rounded, half up.                             *)
aggregate(bin, mode) ==
    LET sorted == StableSort(bin.samples, LAMBDA value : value)
        n == Len(sorted)
        idx == (2 * mode.p * (n - 1) + 100) \div 200
    IN  IF bin.count = 0 THEN 0
        ELSE CASE mode.kind = "Min" -> bin.min_ns
               [] mode.kind = "Max" -> bin.max_ns
               [] mode.kind = "Avg" -> bin.sum_ns \div bin.count
               [] mode.kind = "Percentile" -> sorted[Min({idx, n - 1}) + 1]

bin_value(bin, mode, metric) == IF metric = "Count" THEN bin.count ELSE aggregate(bin, mode)

-----------------------------------------------------------------------------
(* The store                                                               *)

(* Mutant: the series survive, numbered from the old origin.               *)
WipeOriginOnly(store) == [store EXCEPT !.origin_ns = 0, !.latest_bin_idx = 0, !.fed = <<>>]

wipe(store) ==
    [store EXCEPT !.series = <<>>, !.origin_ns = 0, !.latest_bin_idx = 0, !.fed = <<>>]

reset_window(store, window_ns) == wipe([store EXCEPT !.window_ns = window_ns])

NewStore(window_ns) ==
    [origin_ns |-> 0, window_ns |-> window_ns, latest_bin_idx |-> 0,
     series |-> <<>>, panicked |-> FALSE, fed |-> <<>>]

(* Fill the deque up to the new bin, and drop the oldest over the cap.     *)
Fill(bins, base_idx, needed_back) ==
    LET filled == bins \o [i \in 1..(needed_back - Len(bins)) |-> NoBin]
        over == Monus(Len(filled), BIN_CAP)
    IN  [bins |-> SubSeq(filled, over + 1, Len(filled)), base_idx |-> base_idx + over]

(* A window of zero divides by zero; a bin before the series' first makes  *)
(* `bin_idx + 1 - base_idx` or `bin_idx - base_idx` underflow.             *)
record(store, key, t_ns, value) ==
    LET origin == IF store.origin_ns = 0 THEN Monus(t_ns, store.window_ns \div 2)
                                         ELSE store.origin_ns
        bin_idx == (t_ns - origin) \div store.window_ns
        found == key \in DOMAIN store.series
        base == IF found THEN store.series[key].base_idx ELSE bin_idx
        filled == Fill(IF found THEN store.series[key].bins ELSE <<>>, base,
                       bin_idx + 1 - base)
        recorded == [filled EXCEPT !.bins[bin_idx - filled.base_idx + 1] = BinRecord(@, value)]
    IN  IF t_ns < origin THEN [store EXCEPT !.origin_ns = origin]
        ELSE IF store.window_ns = 0 \/ bin_idx < base THEN [store EXCEPT !.panicked = TRUE]
        ELSE [store EXCEPT
                !.origin_ns = origin,
                !.latest_bin_idx = Max({@, bin_idx}),
                !.series = [k \in DOMAIN @ \cup {key} |->
                                IF k = key THEN recorded ELSE @[k]]]

(* Mutant: the lookback is taken in whole windows, rounded down.           *)
OldestRoundedDown(store, x_max_ns) ==
    Monus(store.latest_bin_idx, Max({x_max_ns \div store.window_ns, 1}))

(* The first bin the chart shows.                                          *)
Oldest(store, x_max_ns) ==
    Monus(store.latest_bin_idx,
          Max({(x_max_ns + store.window_ns - 1) \div store.window_ns, 1}))

(* The points of the chart, with the bin's index for the seconds it is     *)
(* back from the latest.  The latest bin's count is still growing, so it   *)
(* is left out of a chart of counts.                                       *)
project(store, mode, metric, x_max_ns) ==
    LET shown(s, i) ==
            LET idx == s.base_idx + i - 1 IN
            /\ s.bins[i] # NoBin
            /\ idx >= Oldest(store, x_max_ns)
            /\ metric = "Count" => idx # store.latest_bin_idx
        points(s) == {<<s.base_idx + i - 1, bin_value(s.bins[i], mode, metric)>> :
                        i \in {j \in DOMAIN s.bins : shown(s, j)}}
    IN  [key \in DOMAIN store.series |-> points(store.series[key])]

Present(bins) == Filter(bins, LAMBDA bin : bin # NoBin)

(* One row of the legend.  A chart of counts compares the bins' counts,    *)
(* any other the samples' values.                                          *)
Summary(s, mode, metric) ==
    LET bins == Present(s.bins)
        all == DOMAIN bins
        count == SumFunction([i \in all |-> bins[i].count])
    IN  IF metric = "Count"
        THEN [count |-> count,
              min_ns |-> Min({bins[i].count : i \in all}),
              max_ns |-> Max({bins[i].count : i \in all}),
              avg_ns |-> count \div Len(bins),
              last_ns |-> Last(bins).count]
        ELSE [count |-> count,
              min_ns |-> Min({bins[i].min_ns : i \in all}),
              max_ns |-> Max({bins[i].max_ns : i \in all}),
              avg_ns |-> SumFunction([i \in all |-> bins[i].sum_ns]) \div count,
              last_ns |-> aggregate(Last(bins), mode)]

series_summary(store, mode, metric) ==
    [key \in DOMAIN store.series |-> Summary(store.series[key], mode, metric)]

=============================================================================
