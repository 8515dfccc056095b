----------------------------- MODULE GraphProofs -----------------------------
(***************************************************************************)
(* Proofs about the graph view, for any spans, budgets, windows and caps:  *)
(* no span of the locked stack is missing from the chart, the store can    *)
(* only panic on spans that are recorded out of order, the state of the    *)
(* view is well formed, and each sample is true of its span.               *)
(***************************************************************************)
EXTENDS Graph, AggregatorProofs

-----------------------------------------------------------------------------
(* The aggregator under the graph                                          *)

LEMMA GraphSteps ==
    ASSUME GraphNext
    PROVE  [AggNext]_aggVars
  BY DEF GraphNext, AggNext, SpanReceived, Absorbing, RecordInserted, Arm,
         ToggleGraph, ToggleGraphMetric, GraphAggInputCommit, GraphWindowInputCommit,
         GraphSwitchFocus, GraphSelectUp, GraphSelectDown, GraphToggleSplit, GraphSortColumn

RingInv == AggInv /\ LedgerInv

LEMMA InitRing ==
    ASSUME AggregatorAssumption, GraphInit
    PROVE  RingInv
  BY InitInv, InitLedger DEF GraphInit, RingInv

LEMMA NextRing ==
    ASSUME AggregatorAssumption, RingInv, [GraphNext]_graphVars
    PROVE  RingInv'
  <1>1. [AggNext]_aggVars
    BY GraphSteps DEF graphVars
  <1> QED  BY <1>1, NextInv, NextLedger DEF RingInv

-----------------------------------------------------------------------------
(* Recording a list of ids is what its equation says                       *)

Shows(g, a, id) == id \in DOMAIN a.by_id /\ a.by_id[id].bucket.stack = g.locked_stack

RecordNext(g, a, ids, n, before) ==
    IF Shows(g, a, ids[n]) THEN record_span(before, a, a.by_id[ids[n]].span) ELSE before

IsRecording(f, g, a, ids, n) ==
    f = [i \in 0..n |-> IF i = 0 THEN g ELSE RecordNext(g, a, ids, i, f[i - 1])]

LEMMA RecordingExists ==
    ASSUME NEW g, NEW a, NEW ids, NEW len \in Nat
    PROVE  \E f : IsRecording(f, g, a, ids, len)
  <1> DEFINE T == {n \in Nat : \E f : IsRecording(f, g, a, ids, n)}
  <1>1. 0 \in T
    <2> DEFINE f == [i \in 0..0 |-> g]
    <2>1. f = [i \in 0..0 |-> IF i = 0 THEN g ELSE RecordNext(g, a, ids, i, f[i - 1])]
      OBVIOUS
    <2> QED  BY <2>1 DEF IsRecording
  <1>2. ASSUME NEW n \in Nat, n \in T
        PROVE  n + 1 \in T
    <2>1. PICK f : IsRecording(f, g, a, ids, n)
      BY <1>2
    <2>2. \A i \in 0..n : f[i] = IF i = 0 THEN g ELSE RecordNext(g, a, ids, i, f[i - 1])
      BY <2>1 DEF IsRecording
    <2> DEFINE h == [i \in 0..(n + 1) |->
                        IF i = n + 1 THEN RecordNext(g, a, ids, n + 1, f[n]) ELSE f[i]]
    <2>3. ASSUME NEW i \in 0..(n + 1)
          PROVE  h[i] = IF i = 0 THEN g ELSE RecordNext(g, a, ids, i, h[i - 1])
      <3>1. CASE i = n + 1
        <4>1. i - 1 \in 0..(n + 1) /\ i - 1 = n /\ i # 0 /\ n # n + 1
          BY <3>1
        <4>2. h[i - 1] = f[n]
          BY <4>1
        <4> QED  BY <3>1, <4>1, <4>2
      <3>2. CASE i # n + 1
        <4>1. h[i] = f[i] /\ i \in 0..n
          BY <3>2
        <4>2. i # 0 => h[i - 1] = f[i - 1]
          BY <3>2
        <4> QED  BY <2>2, <4>1, <4>2
      <3> QED  BY <3>1, <3>2
    <2>4. h = [i \in 0..(n + 1) |-> h[i]]
      OBVIOUS
    <2> HIDE DEF h
    <2>5. IsRecording(h, g, a, ids, n + 1)
      BY <2>3, <2>4 DEF IsRecording
    <2> QED  BY <2>5
  <1> HIDE DEF T
  <1>3. len \in T
    BY <1>1, <1>2, Induction
  <1> QED  BY <1>3 DEF T

LEMMA RecordingEquation ==
    ASSUME NEW g, NEW a, NEW ids, Len(ids) \in Nat
    PROVE  /\ Recording(g, a, ids)[0] = g
           /\ \A n \in 1..Len(ids) :
                 Recording(g, a, ids)[n] = RecordNext(g, a, ids, n, Recording(g, a, ids)[n - 1])
  <1> DEFINE r == Recording(g, a, ids)
  <1>1. PICK f : IsRecording(f, g, a, ids, Len(ids))
    BY RecordingExists
  <1>2. r = [i \in 0..Len(ids) |-> IF i = 0 THEN g ELSE RecordNext(g, a, ids, i, r[i - 1])]
    BY <1>1 DEF Recording, IsRecording, RecordNext, Shows
  <1> QED  BY <1>2

-----------------------------------------------------------------------------
(* The store                                                               *)

(* A bin that counts nothing is the empty one; any other has a sample.     *)
BinType == [count : Nat, sum_ns : Nat, min_ns : Nat, max_ns : Nat, samples : Seq(Nat)]
BinOk(bin) == bin \in BinType /\ (bin # NoBin => (bin.count > 0 /\ bin.samples # <<>>))
GoodBin == {bin \in BinType : BinOk(bin)}

(* The series has its cap and ends with a bin that is there.               *)
SeriesOk(x) ==
    /\ x \in [bins : Seq(GoodBin), base_idx : Nat]
    /\ Len(x.bins) \in 1..BIN_CAP /\ Last(x.bins) # NoBin

SeriesKey(keys) == UNION {[K -> AllStrings] : K \in SUBSET keys}
Sample(keys) == [id : Nat, key : SeriesKey(keys), t_ns : Nat, value : Nat]

StoreOk(s, keys) ==
    /\ DOMAIN s = {"origin_ns", "window_ns", "latest_bin_idx", "series", "panicked", "fed"}
    /\ s.origin_ns \in Nat /\ s.window_ns \in Nat /\ s.latest_bin_idx \in Nat
    /\ s.panicked \in BOOLEAN
    /\ DOMAIN s.series \subseteq SeriesKey(keys) /\ IsFiniteSet(DOMAIN s.series)
    /\ \A key \in DOMAIN s.series : SeriesOk(s.series[key])
    /\ s.fed \in Seq(Sample(keys))

LEMMA MinOfTwo ==
    ASSUME NEW m \in Nat, NEW n \in Nat
    PROVE  Min({m, n}) = IF m <= n THEN m ELSE n
  BY DEF Min

LEMMA MaxOfTwo ==
    ASSUME NEW m \in Nat, NEW n \in Nat
    PROVE  Max({m, n}) = IF m >= n THEN m ELSE n
  BY DEF Max

LEMMA EmptyFunction ==
    ASSUME NEW S, NEW f, DOMAIN f = {}, f = [i \in DOMAIN f |-> f[i]]
    PROVE  f \in Seq(S) /\ Len(f) = 0 /\ f = <<>>
  <1>1. DOMAIN <<>> = {} /\ <<>> = [i \in {} |-> <<>>[i]]
    OBVIOUS
  <1>2. f = <<>>
    BY <1>1
  <1> QED  BY <1>2

LEMMA NoBinOk == NoBin \in GoodBin
  <1>1. PICK none : none = <<>>
    OBVIOUS
  <1>2. none \in Seq(Nat)
    BY <1>1
  <1>3. NoBin = [count |-> 0, sum_ns |-> 0, min_ns |-> 0, max_ns |-> 0, samples |-> none]
    BY ONLY <1>1 DEF NoBin
  <1>4. NoBin \in BinType
    BY ONLY <1>2, <1>3 DEF BinType
  <1>5. BinOk(NoBin)
    BY ONLY <1>4, Zenon DEF BinOk
  <1> QED  BY ONLY <1>4, <1>5, Zenon DEF GoodBin

LEMMA BinRecordOk ==
    ASSUME StoreAssumption, NEW bin \in GoodBin, NEW value \in Nat
    PROVE  BinRecord(bin, value) \in GoodBin /\ BinRecord(bin, value) # NoBin
  <1> DEFINE b == BinRecord(bin, value)
  <1>1. /\ bin.count \in Nat /\ bin.sum_ns \in Nat /\ bin.min_ns \in Nat /\ bin.max_ns \in Nat
        /\ bin.samples \in Seq(Nat) /\ (bin.count > 0 => bin.samples # <<>>)
    BY DEF GoodBin, BinOk, BinType, NoBin
  <1>2. /\ b.count = bin.count + 1 /\ b.sum_ns = bin.sum_ns + value
        /\ b.min_ns = IF bin.count = 0 THEN value ELSE Min({bin.min_ns, value})
        /\ b.max_ns = IF bin.count = 0 THEN value ELSE Max({bin.max_ns, value})
        /\ b.samples = IF Len(bin.samples) < BIN_SAMPLE_CAP THEN Append(bin.samples, value)
                                                           ELSE bin.samples
        /\ DOMAIN b = {"count", "sum_ns", "min_ns", "max_ns", "samples"}
        /\ b = [count |-> b.count, sum_ns |-> b.sum_ns, min_ns |-> b.min_ns,
                max_ns |-> b.max_ns, samples |-> b.samples]
    BY DEF BinRecord
  <1>3. b.min_ns \in Nat /\ b.max_ns \in Nat
    <2>1. Min({bin.min_ns, value}) \in Nat /\ Max({bin.max_ns, value}) \in Nat
      BY <1>1, MinOfTwo, MaxOfTwo
    <2> QED  BY ONLY <1>2, <2>1, value \in Nat
  <1>4. b.samples \in Seq(Nat) /\ b.samples # <<>>
    <2>1. BIN_SAMPLE_CAP \in Nat \ {0}
      BY DEF StoreAssumption
    <2>2. CASE Len(bin.samples) < BIN_SAMPLE_CAP
      <3>1. bin.samples \in Seq(Nat) /\ value \in Nat
        BY <1>1
      <3>2. Append(bin.samples, value) \in Seq(Nat) /\ Append(bin.samples, value) # <<>>
        BY ONLY <3>1, AppendFacts, Zenon
      <3>3. b.samples = Append(bin.samples, value)
        BY ONLY <1>2, <2>2
      <3> QED  BY ONLY <3>2, <3>3, Zenon
    <2>3. CASE ~(Len(bin.samples) < BIN_SAMPLE_CAP)
      <3>1. bin.samples # <<>>
        BY <2>1, <2>3
      <3> QED  BY <1>1, <1>2, <2>3, <3>1
    <2> QED  BY <2>2, <2>3
  <1>5. b.count \in Nat /\ b.count > 0 /\ b.sum_ns \in Nat
    BY <1>1, <1>2
  <1> HIDE DEF b
  <1>6. b \in BinType
    BY <1>2, <1>3, <1>4, <1>5 DEF BinType
  <1>7. b # NoBin
    BY <1>5 DEF NoBin
  <1> QED  BY <1>4, <1>5, <1>6, <1>7 DEF GoodBin, BinOk, b

(* The bin for the sample has a slot, and the cap drops from the front.    *)
LEMMA FillFacts ==
    ASSUME StoreAssumption, NEW bins \in Seq(GoodBin), NEW base \in Nat, NEW need \in Nat \ {0},
           Len(bins) <= BIN_CAP
    PROVE  LET f == Fill(bins, base, need)
           IN  /\ f \in [bins : Seq(GoodBin), base_idx : Nat]
               /\ Len(f.bins) \in 1..BIN_CAP
               /\ base <= f.base_idx
               /\ base + need - f.base_idx \in 1..Len(f.bins)
               /\ need <= Len(bins) => f.bins = bins /\ f.base_idx = base
               /\ need >= Len(bins) => base + need - f.base_idx = Len(f.bins)
  <1> DEFINE more == [i \in 1..(need - Len(bins)) |-> NoBin]
             filled == bins \o more
             over == Monus(Len(filled), BIN_CAP)
             f == Fill(bins, base, need)
  <1>0. BIN_CAP \in Nat \ {0}
    BY DEF StoreAssumption
  <1>1. f = [bins |-> SubSeq(filled, over + 1, Len(filled)), base_idx |-> base + over]
    BY DEF Fill
  <1>2. CASE need <= Len(bins)
    <2>1. more = <<>>
      <3>1. 1..(need - Len(bins)) = {}
        BY <1>2
      <3>2. more \in Seq(GoodBin) /\ Len(more) = 0
        BY <3>1, EmptyFunction
      <3> HIDE DEF more
      <3> QED  BY <3>2
    <2>2. filled = bins
      <3> HIDE DEF more
      <3> QED  BY <2>1
    <2> HIDE DEF filled
    <2>3. over = 0
      BY <1>0, <2>2 DEF Monus
    <2> HIDE DEF over
    <2>4. SubSeq(bins, 1, Len(bins)) = bins
      OBVIOUS
    <2>5. SubSeq(filled, over + 1, Len(filled)) = bins /\ base + over = base
      BY <2>2, <2>3, <2>4
    <2>6. f = [bins |-> bins, base_idx |-> base]
      BY ONLY <1>1, <2>5
    <2> HIDE DEF f
    <2>7. f.bins = bins /\ f.base_idx = base /\ f \in [bins : Seq(GoodBin), base_idx : Nat]
      BY <2>6
    <2>8. Len(f.bins) \in 1..BIN_CAP /\ base + need - f.base_idx \in 1..Len(f.bins)
      BY <1>0, <1>2, <2>7
    <2>9. need >= Len(bins) => base + need - f.base_idx = Len(f.bins)
      BY <1>2, <2>7
    <2> QED  BY ONLY <2>7, <2>8, <2>9, base \in Nat DEF f
  <1>3. CASE need > Len(bins)
    <2> DEFINE len == need - Len(bins)
    <2>1. len \in Nat /\ need = Len(bins) + len
      BY <1>3
    <2>2. more \in Seq(GoodBin) /\ Len(more) = len
      BY <2>1, NoBinOk
    <2> HIDE DEF more, len
    <2>3. filled \in Seq(GoodBin) /\ Len(filled) = need
      BY <2>1, <2>2
    <2> HIDE DEF filled
    <2>4. over \in 0..(need - 1) /\ need - over \in 1..BIN_CAP
      BY <1>0, <2>3 DEF Monus
    <2> HIDE DEF over
    <2>5. SubSeq(filled, over + 1, need) \in Seq(GoodBin)
          /\ Len(SubSeq(filled, over + 1, need)) = need - over
      BY <2>3, <2>4
    <2> HIDE DEF f
    <2>6. f.bins = SubSeq(filled, over + 1, need) /\ f.base_idx = base + over
      BY <1>1, <2>3
    <2>7. f \in [bins : Seq(GoodBin), base_idx : Nat]
      BY <1>1, <2>3, <2>4, <2>5
    <2>8. Len(f.bins) \in 1..BIN_CAP /\ base <= f.base_idx
          /\ base + need - f.base_idx = Len(f.bins)
      BY <2>4, <2>5, <2>6
    <2>9. ~(need <= Len(bins))
      BY <1>3
    <2>10. base + need - f.base_idx \in 1..Len(f.bins)
      BY <2>8
    <2> QED  BY ONLY <2>7, <2>8, <2>9, <2>10 DEF f
  <1> QED  BY <1>2, <1>3

-----------------------------------------------------------------------------
(* Recording a sample                                                      *)

Origin(s, t_ns) == IF s.origin_ns = 0 THEN Monus(t_ns, s.window_ns \div 2) ELSE s.origin_ns
BinIdx(s, t_ns) == (t_ns - Origin(s, t_ns)) \div s.window_ns
BaseIdx(s, key, t_ns) ==
    IF key \in DOMAIN s.series THEN s.series[key].base_idx ELSE BinIdx(s, t_ns)
BinsOf(s, key) == IF key \in DOMAIN s.series THEN s.series[key].bins ELSE <<>>
Filled(s, key, t_ns) ==
    Fill(BinsOf(s, key), BaseIdx(s, key, t_ns), BinIdx(s, t_ns) + 1 - BaseIdx(s, key, t_ns))
Recorded(s, key, t_ns, value) ==
    LET filled == Filled(s, key, t_ns)
    IN  [filled EXCEPT !.bins[BinIdx(s, t_ns) - filled.base_idx + 1] = BinRecord(@, value)]

SeriesWith(s, key, t_ns, value) ==
    [k \in DOMAIN s.series \cup {key} |->
        IF k = key THEN Recorded(s, key, t_ns, value) ELSE s.series[k]]
LatestWith(s, t_ns) == Max({s.latest_bin_idx, BinIdx(s, t_ns)})

TooEarly(s, t_ns) == t_ns < Origin(s, t_ns)
Panics(s, key, t_ns) == s.window_ns = 0 \/ BinIdx(s, t_ns) < BaseIdx(s, key, t_ns)

IsRecorded(r, s, key, t_ns, value) ==
    /\ TooEarly(s, t_ns) => r = [s EXCEPT !.origin_ns = Origin(s, t_ns)]
    /\ ~TooEarly(s, t_ns) /\ Panics(s, key, t_ns) => r = [s EXCEPT !.panicked = TRUE]
    /\ ~TooEarly(s, t_ns) /\ ~Panics(s, key, t_ns) =>
            r = [s EXCEPT !.origin_ns = Origin(s, t_ns),
                          !.latest_bin_idx = LatestWith(s, t_ns),
                          !.series = SeriesWith(s, key, t_ns, value)]

LEMMA RecordCases ==
    ASSUME NEW s, NEW key, NEW t_ns, NEW value
    PROVE  IsRecorded(record(s, key, t_ns, value), s, key, t_ns, value)
  <1> DEFINE r == record(s, key, t_ns, value)
             early == [s EXCEPT !.origin_ns = Origin(s, t_ns)]
             panicked == [s EXCEPT !.panicked = TRUE]
             next == [s EXCEPT !.origin_ns = Origin(s, t_ns),
                               !.latest_bin_idx = LatestWith(s, t_ns),
                               !.series = SeriesWith(s, key, t_ns, value)]
  <1>1. r = IF TooEarly(s, t_ns) THEN early ELSE IF Panics(s, key, t_ns) THEN panicked ELSE next
    BY DEF record, Recorded, Filled, BinsOf, BaseIdx, BinIdx, Origin, TooEarly, Panics,
           SeriesWith, LatestWith
  <1> HIDE DEF r, early, panicked, next
  <1>2. /\ TooEarly(s, t_ns) => r = early
        /\ ~TooEarly(s, t_ns) /\ Panics(s, key, t_ns) => r = panicked
        /\ ~TooEarly(s, t_ns) /\ ~Panics(s, key, t_ns) => r = next
    BY ONLY <1>1
  <1> QED  BY ONLY <1>2 DEF IsRecorded, r, early, panicked, next

LEMMA Quotients ==
    ASSUME NEW w \in Nat \ {0}, NEW m \in Nat, NEW n \in Nat, m <= n
    PROVE  m \div w \in Nat /\ m \div w <= n \div w /\ (m < w => m \div w = 0)
  OBVIOUS

LEMMA OriginFacts ==
    ASSUME NEW keys, NEW s, StoreOk(s, keys), NEW t_ns \in Nat
    PROVE  /\ Origin(s, t_ns) \in Nat
           /\ s.origin_ns = 0 => ~TooEarly(s, t_ns)
           /\ s.window_ns # 0 /\ ~TooEarly(s, t_ns) => BinIdx(s, t_ns) \in Nat
  <1>1. s.origin_ns \in Nat /\ s.window_ns \in Nat
    BY DEF StoreOk
  <1>2. s.window_ns \div 2 \in Nat
    BY <1>1
  <1>3. Origin(s, t_ns) \in Nat /\ (s.origin_ns = 0 => Origin(s, t_ns) <= t_ns)
    BY <1>1, <1>2 DEF Origin, Monus
  <1>4. ASSUME s.window_ns # 0, ~TooEarly(s, t_ns)
        PROVE  BinIdx(s, t_ns) \in Nat
    <2>1. t_ns - Origin(s, t_ns) \in Nat /\ s.window_ns \in Nat \ {0}
      BY <1>1, <1>3, <1>4 DEF TooEarly
    <2> HIDE <1>4
    <2> QED  BY <2>1, Quotients DEF BinIdx
  <1> QED  BY <1>3, <1>4 DEF TooEarly

(* The series with the sample in it.                                       *)
LEMMA RecordedFacts ==
    ASSUME StoreAssumption, NEW keys, NEW s, StoreOk(s, keys), NEW key,
           NEW t_ns \in Nat, NEW value \in Nat, ~TooEarly(s, t_ns), ~Panics(s, key, t_ns)
    PROVE  /\ SeriesOk(Recorded(s, key, t_ns, value))
           /\ Recorded(s, key, t_ns, value).base_idx <= BinIdx(s, t_ns)
  <1> DEFINE idx == BinIdx(s, t_ns)
             base == BaseIdx(s, key, t_ns)
             bins == BinsOf(s, key)
             filled == Filled(s, key, t_ns)
             slot == idx - filled.base_idx + 1
             r == Recorded(s, key, t_ns, value)
  <1>1. idx \in Nat
    BY OriginFacts DEF Panics
  <1>2. bins \in Seq(GoodBin) /\ Len(bins) <= BIN_CAP /\ base \in Nat
        /\ (bins # <<>> => Last(bins) # NoBin)
    <2>1. CASE key \in DOMAIN s.series
      BY <2>1 DEF StoreOk, SeriesOk, BinsOf, BaseIdx, StoreAssumption
    <2>2. CASE key \notin DOMAIN s.series
      BY <1>1, <2>2 DEF BinsOf, BaseIdx, StoreAssumption
    <2> QED  BY <2>1, <2>2
  <1>3. idx + 1 - base \in Nat \ {0}
    BY <1>1, <1>2 DEF Panics
  <1> DEFINE need == idx + 1 - base
  <1>4. filled = Fill(bins, base, need)
    BY DEF Filled
  <1>5. r = [filled EXCEPT !.bins[slot] = BinRecord(@, value)]
    BY DEF Recorded
  <1> HIDE DEF bins, base, filled, r, idx
  <1>6. /\ filled \in [bins : Seq(GoodBin), base_idx : Nat]
        /\ Len(filled.bins) \in 1..BIN_CAP
        /\ base + need - filled.base_idx \in 1..Len(filled.bins)
        /\ need <= Len(bins) => filled.bins = bins
        /\ need >= Len(bins) => base + need - filled.base_idx = Len(filled.bins)
    BY <1>2, <1>3, <1>4, FillFacts
  <1>7. slot = base + need - filled.base_idx /\ filled.base_idx <= idx
    BY <1>1, <1>2, <1>6
  <1>8. slot \in 1..Len(filled.bins)
    BY <1>6, <1>7
  <1> HIDE DEF slot
  <1>9. filled.bins[slot] \in GoodBin
    BY <1>6, <1>8
  <1> DEFINE bin == BinRecord(filled.bins[slot], value)
  <1>10. bin \in GoodBin /\ bin # NoBin
    BY <1>9, BinRecordOk
  <1> HIDE DEF bin
  <1>11. r.bins = [filled.bins EXCEPT ![slot] = bin] /\ r.base_idx = filled.base_idx
         /\ r \in [bins : Seq(GoodBin), base_idx : Nat]
    <2>1. r = [filled EXCEPT !.bins = [filled.bins EXCEPT ![slot] = bin]]
      BY <1>5 DEF bin
    <2>2. [filled.bins EXCEPT ![slot] = bin] \in Seq(GoodBin)
      BY <1>6, <1>8, <1>10
    <2> QED  BY <1>6, <2>1, <2>2
  <1>12. Len(r.bins) = Len(filled.bins) /\ r.bins[slot] = bin
         /\ \A i \in 1..Len(filled.bins) : i # slot => r.bins[i] = filled.bins[i]
    BY <1>6, <1>8, <1>11
  <1>13. Last(r.bins) # NoBin
    <2>1. CASE slot = Len(filled.bins)
      BY <1>10, <1>12, <2>1 DEF Last
    <2>2. CASE slot # Len(filled.bins)
      <3>1. need < Len(bins) /\ filled.bins = bins
        BY <1>2, <1>3, <1>6, <1>7, <2>2
      <3>2. bins # <<>> /\ Last(bins) = bins[Len(bins)] /\ Len(bins) \in 1..Len(filled.bins)
        BY <1>2, <1>3, <3>1 DEF Last
      <3> QED  BY <1>2, <1>12, <2>2, <3>1, <3>2 DEF Last
    <2> QED  BY <2>1, <2>2
  <1> QED  BY <1>6, <1>7, <1>11, <1>12, <1>13 DEF SeriesOk, r, idx

-----------------------------------------------------------------------------
(* What the graph reads of the aggregator                                  *)

RingFor(a) ==
    /\ Cardinality(DOMAIN a.by_id) \in Nat
    /\ \A id \in DOMAIN a.by_id : a.by_id[id].span \in Spans /\ a.by_id[id].span.id = id
    /\ \A id \in DOMAIN a.child_sum : a.child_sum[id] \in Nat

LEMMA RingIsFor ==
    ASSUME RingInv
    PROVE  RingFor(agg)
  <1>1. \A id \in DOMAIN agg.by_id : agg.by_id[id].span \in Spans /\ agg.by_id[id].span.id = id
    BY DEF RingInv, AggInv, AggOk, RingOk
  <1>2. Timed(agg.by_id, DOMAIN agg.by_id) /\ SumsOk(agg, agg.by_id)
    BY DEF RingInv, LedgerInv, LedgerOk, Booked
  <1>3. Cardinality(DOMAIN agg.by_id) \in Nat
    BY <1>2, FS_CardinalityType DEF Timed
  <1>4. ASSUME NEW id \in DOMAIN agg.child_sum
        PROVE  agg.child_sum[id] \in Nat
    <2>1. agg.child_sum[id] = ChildTime(agg.by_id, id)
      BY <1>2 DEF SumsOk, At
    <2> QED  BY <1>2, <2>1, ChildTimeType
  <1> QED  BY <1>1, <1>3, <1>4 DEF RingFor

LEMMA SpanFacts ==
    ASSUME AggregatorAssumption, GraphAssumption, NEW span \in Spans
    PROVE  /\ span.id \in Nat /\ span.total_ns \in Nat /\ span.closed_at_ns \in Nat
           /\ \A key \in DOMAIN span.fields :
                 key \in Keys /\ key \in AllStrings /\ span.fields[key] \in AllStrings
  BY DEF AggregatorAssumption, GraphAssumption, Range

LEMMA MinOfNats ==
    ASSUME NEW S, S \subseteq Nat, S # {}
    PROVE  Min(S) \in S
  <1>1. PICK n \in S : \A m \in S : n <= m
    BY LeastNatural
  <1> QED  BY <1>1 DEF Min

(* The series of a span has values for some of the split keys.             *)
LEMMA SplitsFacts ==
    ASSUME AggregatorAssumption, GraphAssumption, NEW a, RingFor(a), NEW id, NEW keys
    PROVE  collect_splits_for(a, id, keys) \in SeriesKey(keys)
  <1> DEFINE last == Min({WalkDepth - 1, Cardinality(DOMAIN a.by_id)})
             steps == 0..last
             up[n \in steps] ==
                IF n = 0 THEN id
                ELSE IF up[n - 1] \in DOMAIN a.by_id THEN a.by_id[up[n - 1]].span.parent_id
                ELSE NoParent
             holders(key) == {n \in steps :
                                /\ up[n] \in DOMAIN a.by_id
                                /\ key \in DOMAIN a.by_id[up[n]].span.fields}
             held == {key \in keys : holders(key) # {}}
             value(key) == a.by_id[up[Min(holders(key))]].span.fields[key]
  <1>1. collect_splits_for(a, id, keys) = [key \in held |-> value(key)]
    BY Zenon DEF collect_splits_for
  <1>2. steps \subseteq Nat
    <2>1. WalkDepth - 1 \in Nat /\ Cardinality(DOMAIN a.by_id) \in Nat
      BY DEF GraphAssumption, RingFor
    <2>2. last \in Nat
      <3> HIDE DEF GraphAssumption
      <3> QED  BY <2>1, MinOfTwo
    <2> HIDE DEF last
    <2> QED  BY <2>2
  <1> HIDE DEF last, steps, up
  <1>3. ASSUME NEW key \in held
        PROVE  value(key) \in AllStrings
    <2>1. holders(key) \subseteq Nat /\ holders(key) # {}
      BY <1>2
    <2> DEFINE n == Min(holders(key))
    <2>2. n \in holders(key)
      <3> HIDE DEF holders
      <3> QED  BY <2>1, MinOfNats
    <2> HIDE DEF n
    <2>3. up[n] \in DOMAIN a.by_id /\ key \in DOMAIN a.by_id[up[n]].span.fields
      BY <2>2
    <2>4. a.by_id[up[n]].span \in Spans
      BY <2>3 DEF RingFor
    <2>5. a.by_id[up[n]].span.fields[key] \in AllStrings
      BY <2>3, <2>4, SpanFacts
    <2> QED  BY <2>5 DEF n
  <1> HIDE DEF value, holders
  <1>4. held \in SUBSET keys /\ [key \in held |-> value(key)] \in [held -> AllStrings]
    BY <1>3
  <1> HIDE DEF held
  <1> QED  BY <1>1, <1>4 DEF SeriesKey

Metrics == {"Total", "SelfTime", "Count"}

LEMMA ValueFacts ==
    ASSUME AggregatorAssumption, GraphAssumption, NEW a, RingFor(a), NEW span \in Spans,
           NEW metric \in Metrics
    PROVE  ValueOf(metric, a, span) \in Nat
  <1>1. span.total_ns \in Nat
    BY SpanFacts
  <1>2. At(a.child_sum, span.id, 0) \in Nat
    BY DEF At, RingFor
  <1>3. Monus(span.total_ns, At(a.child_sum, span.id, 0)) \in Nat
    BY <1>1, <1>2 DEF Monus
  <1>4. \/ ValueOf(metric, a, span) = span.total_ns
        \/ ValueOf(metric, a, span) = Monus(span.total_ns, At(a.child_sum, span.id, 0))
        \/ ValueOf(metric, a, span) = 1
    BY Zenon DEF ValueOf, Metrics
  <1> QED  BY <1>1, <1>3, <1>4

-----------------------------------------------------------------------------
(* A sample given to the store                                             *)

Feed(s, x) == [record(s, x.key, x.t_ns, x.value) EXCEPT !.fed = Append(@, x)]

(* What record makes of the fields of the store.                           *)
IsFed(f, s, x) ==
    /\ DOMAIN f = DOMAIN s /\ f.window_ns = s.window_ns /\ f.fed = Append(s.fed, x)
    /\ TooEarly(s, x.t_ns) =>
            /\ f.origin_ns = Origin(s, x.t_ns) /\ f.latest_bin_idx = s.latest_bin_idx
            /\ f.series = s.series /\ f.panicked = s.panicked
    /\ ~TooEarly(s, x.t_ns) /\ Panics(s, x.key, x.t_ns) =>
            /\ f.origin_ns = s.origin_ns /\ f.latest_bin_idx = s.latest_bin_idx
            /\ f.series = s.series /\ f.panicked = TRUE
    /\ ~TooEarly(s, x.t_ns) /\ ~Panics(s, x.key, x.t_ns) =>
            /\ f.origin_ns = Origin(s, x.t_ns) /\ f.panicked = s.panicked
            /\ f.latest_bin_idx = LatestWith(s, x.t_ns)
            /\ f.series = SeriesWith(s, x.key, x.t_ns, x.value)

LEMMA FeedCases ==
    ASSUME NEW keys, NEW s, StoreOk(s, keys), NEW x
    PROVE  IsFed(Feed(s, x), s, x)
  <1> DEFINE r == record(s, x.key, x.t_ns, x.value)
             f == Feed(s, x)
  <1>1. DOMAIN s = {"origin_ns", "window_ns", "latest_bin_idx", "series", "panicked", "fed"}
    BY DEF StoreOk
  <1>2. IsRecorded(r, s, x.key, x.t_ns, x.value)
    BY RecordCases
  <1>3. f = [r EXCEPT !.fed = Append(r.fed, x)]
    BY Zenon DEF Feed
  <1> HIDE DEF r, f
  <1>4. CASE TooEarly(s, x.t_ns)
    <2>1. r = [s EXCEPT !.origin_ns = Origin(s, x.t_ns)]
      BY <1>2, <1>4 DEF IsRecorded
    <2> QED  BY ONLY <1>1, <1>3, <1>4, <2>1 DEF IsFed, f
  <1>5. CASE ~TooEarly(s, x.t_ns) /\ Panics(s, x.key, x.t_ns)
    <2>1. r = [s EXCEPT !.panicked = TRUE]
      BY <1>2, <1>5 DEF IsRecorded
    <2> QED  BY ONLY <1>1, <1>3, <1>5, <2>1 DEF IsFed, f
  <1>6. CASE ~TooEarly(s, x.t_ns) /\ ~Panics(s, x.key, x.t_ns)
    <2>1. r = [s EXCEPT !.origin_ns = Origin(s, x.t_ns),
                        !.latest_bin_idx = LatestWith(s, x.t_ns),
                            !.series = SeriesWith(s, x.key, x.t_ns, x.value)]
      BY <1>2, <1>6 DEF IsRecorded
    <2> QED  BY ONLY <1>1, <1>3, <1>6, <2>1 DEF IsFed, f
  <1> QED  BY <1>4, <1>5, <1>6 DEF f

LEMMA FeedOk ==
    ASSUME StoreAssumption, NEW keys, NEW s, StoreOk(s, keys), NEW x \in Sample(keys)
    PROVE  StoreOk(Feed(s, x), keys)
  <1> DEFINE f == Feed(s, x)
  <1>1. x.key \in SeriesKey(keys) /\ x.t_ns \in Nat /\ x.value \in Nat
    BY DEF Sample
  <1>0. IsFed(f, s, x)
    BY FeedCases
  <1> HIDE DEF f
  <1>2. DOMAIN f = DOMAIN s /\ f.window_ns = s.window_ns /\ f.fed = Append(s.fed, x)
    BY <1>0 DEF IsFed
  <1>3. f.fed \in Seq(Sample(keys))
    BY <1>2 DEF StoreOk
  <1>4. Origin(s, x.t_ns) \in Nat
    BY <1>1, OriginFacts
  <1>5. CASE TooEarly(s, x.t_ns) \/ Panics(s, x.key, x.t_ns)
    <2>1. /\ f.series = s.series /\ f.panicked \in BOOLEAN /\ f.origin_ns \in Nat
          /\ f.latest_bin_idx = s.latest_bin_idx
      <3>1. CASE TooEarly(s, x.t_ns)
        <4>1. f.origin_ns = Origin(s, x.t_ns) /\ f.latest_bin_idx = s.latest_bin_idx
              /\ f.series = s.series /\ f.panicked = s.panicked
          BY <1>0, <3>1 DEF IsFed
        <4> QED  BY <1>4, <4>1 DEF StoreOk
      <3>2. CASE ~TooEarly(s, x.t_ns) /\ Panics(s, x.key, x.t_ns)
        <4>1. f.origin_ns = s.origin_ns /\ f.latest_bin_idx = s.latest_bin_idx
              /\ f.series = s.series /\ f.panicked = TRUE
          BY <1>0, <3>2 DEF IsFed
        <4> QED  BY <4>1 DEF StoreOk
      <3> QED  BY <1>5, <3>1, <3>2
    <2>2. /\ DOMAIN f = {"origin_ns", "window_ns", "latest_bin_idx", "series", "panicked", "fed"}
          /\ f.window_ns \in Nat /\ f.latest_bin_idx \in Nat
      BY <1>2, <2>1 DEF StoreOk
    <2>3. /\ DOMAIN f.series \subseteq SeriesKey(keys) /\ IsFiniteSet(DOMAIN f.series)
          /\ \A k \in DOMAIN f.series : SeriesOk(f.series[k])
      BY <2>1 DEF StoreOk
    <2> QED  BY <1>3, <2>1, <2>2, <2>3, Zenon DEF StoreOk, f
  <1>6. CASE ~TooEarly(s, x.t_ns) /\ ~Panics(s, x.key, x.t_ns)
    <2>1. /\ f.origin_ns = Origin(s, x.t_ns) /\ f.panicked = s.panicked
          /\ f.latest_bin_idx = LatestWith(s, x.t_ns)
          /\ f.series = SeriesWith(s, x.key, x.t_ns, x.value)
      BY <1>0, <1>6 DEF IsFed
    <2>2. f.latest_bin_idx \in Nat
      <3>1. BinIdx(s, x.t_ns) \in Nat /\ s.latest_bin_idx \in Nat
        BY <1>1, <1>6, OriginFacts DEF Panics, StoreOk
      <3> QED  BY <2>1, <3>1, MaxOfTwo DEF LatestWith
    <2>3. DOMAIN f.series = DOMAIN s.series \cup {x.key}
      BY <2>1 DEF SeriesWith
    <2>4. IsFiniteSet(DOMAIN f.series) /\ DOMAIN f.series \subseteq SeriesKey(keys)
      <3>1. IsFiniteSet(DOMAIN s.series) /\ DOMAIN s.series \subseteq SeriesKey(keys)
        BY DEF StoreOk
      <3>2. IsFiniteSet(DOMAIN s.series \cup {x.key})
        BY <3>1, FS_AddElement
      <3> QED  BY <1>1, <2>3, <3>1, <3>2
    <2>5. SeriesOk(Recorded(s, x.key, x.t_ns, x.value))
      BY <1>1, <1>6, RecordedFacts
    <2>6. \A k \in DOMAIN f.series : SeriesOk(f.series[k])
      BY <2>1, <2>3, <2>5 DEF StoreOk, SeriesWith
    <2>7. f.origin_ns \in Nat /\ f.window_ns \in Nat /\ f.panicked \in BOOLEAN
      <3>1. s.window_ns \in Nat /\ s.panicked \in BOOLEAN
        BY DEF StoreOk
      <3> QED  BY <1>2, <1>4, <2>1, <3>1
    <2>8. DOMAIN f = {"origin_ns", "window_ns", "latest_bin_idx", "series", "panicked", "fed"}
      BY <1>2 DEF StoreOk
    <2> QED  BY <1>3, <2>2, <2>4, <2>6, <2>7, <2>8, Zenon DEF StoreOk, f
  <1> QED  BY <1>5, <1>6

-----------------------------------------------------------------------------
(* Samples in the order of their times                                     *)

InTime(s) == \A i \in 1..(Len(s.fed) - 1) : s.fed[i].t_ns <= s.fed[i + 1].t_ns

(* The last sample is not before the origin, and no series begins after    *)
(* its bin.  While the origin is still zero, all bins are the first one.   *)
LastIn(s) ==
    LET last == s.fed[Len(s.fed)].t_ns IN
    /\ s.origin_ns <= last
    /\ \A k \in DOMAIN s.series : s.series[k].base_idx <= (last - s.origin_ns) \div s.window_ns
    /\ s.origin_ns = 0 =>
          last <= s.window_ns \div 2 /\ \A k \in DOMAIN s.series : s.series[k].base_idx = 0

Steady(s) ==
    s.window_ns # 0 /\ InTime(s) =>
        /\ ~s.panicked
        /\ s.fed = <<>> => s.origin_ns = 0 /\ DOMAIN s.series = {}
        /\ s.fed # <<>> => LastIn(s)

(* A sample that is not before the last one has a place in any series.     *)
LEMMA InTimeFits ==
    ASSUME NEW keys, NEW s, StoreOk(s, keys), s.window_ns # 0, NEW t_ns \in Nat,
           NEW n \in Nat, n <= t_ns, s.origin_ns <= n,
           \A k \in DOMAIN s.series : s.series[k].base_idx <= (n - s.origin_ns) \div s.window_ns,
           s.origin_ns = 0 => \A k \in DOMAIN s.series : s.series[k].base_idx = 0
    PROVE  /\ ~TooEarly(s, t_ns)
           /\ \A key : ~Panics(s, key, t_ns)
           /\ \A k \in DOMAIN s.series : s.series[k].base_idx <= BinIdx(s, t_ns)
  <1> DEFINE w == s.window_ns
  <1>1. s.origin_ns \in Nat /\ w \in Nat \ {0}
        /\ \A k \in DOMAIN s.series : s.series[k].base_idx \in Nat
    BY DEF StoreOk, SeriesOk
  <1>2. s.origin_ns # 0 => Origin(s, t_ns) = s.origin_ns
    BY DEF Origin
  <1>3. ~TooEarly(s, t_ns)
    BY <1>1, <1>2, OriginFacts DEF TooEarly
  <1>4. BinIdx(s, t_ns) \in Nat
    BY <1>3, OriginFacts
  <1>5. ASSUME NEW k \in DOMAIN s.series
        PROVE  s.series[k].base_idx <= BinIdx(s, t_ns)
    <2>1. CASE s.origin_ns = 0
      BY <1>1, <1>4, <2>1
    <2>2. CASE s.origin_ns # 0
      <3>1. n - s.origin_ns \in Nat /\ t_ns - s.origin_ns \in Nat
            /\ n - s.origin_ns <= t_ns - s.origin_ns
        BY <1>1
      <3>2. (n - s.origin_ns) \div w \in Nat
            /\ (n - s.origin_ns) \div w <= (t_ns - s.origin_ns) \div w
        BY <1>1, <3>1, Quotients
      <3>3. BinIdx(s, t_ns) = (t_ns - s.origin_ns) \div w
        BY <1>2, <2>2 DEF BinIdx
      <3>4. s.series[k].base_idx <= (n - s.origin_ns) \div w
        OBVIOUS
      <3> HIDE DEF w
      <3> QED  BY ONLY <1>1, <1>4, <3>2, <3>3, <3>4
    <2> QED  BY <2>1, <2>2
  <1>6. ASSUME NEW key
        PROVE  ~Panics(s, key, t_ns)
    BY <1>1, <1>4, <1>5 DEF Panics, BaseIdx
  <1> QED  BY <1>3, <1>5, <1>6

LEMMA FedInTime ==
    ASSUME NEW keys, NEW s, StoreOk(s, keys), NEW x \in Sample(keys), NEW f,
           f.fed = Append(s.fed, x), InTime(f)
    PROVE  /\ InTime(s) /\ f.fed # <<>> /\ f.fed[Len(f.fed)] = x
           /\ s.fed # <<>> => s.fed[Len(s.fed)].t_ns \in Nat /\ s.fed[Len(s.fed)].t_ns <= x.t_ns
  <1>1. s.fed \in Seq(Sample(keys))
    BY DEF StoreOk
  <1> DEFINE n == Len(s.fed)
  <1>2. /\ n \in Nat /\ Len(f.fed) = n + 1 /\ f.fed[n + 1] = x
        /\ \A i \in 1..n : f.fed[i] = s.fed[i]
    BY <1>1
  <1>3. \A i \in 1..n : f.fed[i].t_ns <= f.fed[i + 1].t_ns
    BY <1>2 DEF InTime
  <1>4. InTime(s)
    <2> SUFFICES ASSUME NEW i \in 1..(n - 1)
                 PROVE  s.fed[i].t_ns <= s.fed[i + 1].t_ns
      BY DEF InTime
    <2>1. i \in 1..n /\ i + 1 \in 1..n
      BY <1>2
    <2> QED  BY <1>2, <1>3, <2>1
  <1>5. ASSUME s.fed # <<>>
        PROVE  s.fed[n].t_ns \in Nat /\ s.fed[n].t_ns <= x.t_ns
    <2>1. n \in 1..n /\ s.fed[n] \in Sample(keys)
      BY <1>1, <1>2, <1>5
    <2> QED  BY <1>2, <1>3, <2>1 DEF Sample
  <1> QED  BY <1>2, <1>4, <1>5

LEMMA FeedSteady ==
    ASSUME StoreAssumption, NEW keys, NEW s, StoreOk(s, keys), NEW x \in Sample(keys),
           ~s.panicked, Steady(s)
    PROVE  Steady(Feed(s, x))
  <1> DEFINE f == Feed(s, x)
             w == s.window_ns
             t == x.t_ns
  <1>0. IsFed(f, s, x)
    BY FeedCases
  <1> HIDE DEF f
  <1>1. f.window_ns = w /\ f.fed = Append(s.fed, x)
    BY <1>0 DEF IsFed
  <1> SUFFICES ASSUME w # 0, InTime(f)
               PROVE  ~f.panicked /\ f.fed # <<>> /\ LastIn(f)
    BY <1>1 DEF Steady, f
  <1>2. /\ InTime(s) /\ f.fed # <<>> /\ f.fed[Len(f.fed)] = x
        /\ s.fed # <<>> => s.fed[Len(s.fed)].t_ns \in Nat /\ s.fed[Len(s.fed)].t_ns <= t
    BY <1>1, FedInTime
  <1>3. t \in Nat /\ x.value \in Nat /\ w \in Nat \ {0} /\ s.origin_ns \in Nat
    BY DEF Sample, StoreOk
  <1>4. /\ s.fed = <<>> => s.origin_ns = 0 /\ DOMAIN s.series = {}
        /\ s.fed # <<>> => LastIn(s)
    BY <1>2 DEF Steady
  <1>5. /\ ~TooEarly(s, t)
        /\ \A key : ~Panics(s, key, t)
        /\ \A k \in DOMAIN s.series : s.series[k].base_idx <= BinIdx(s, t)
    <2>1. CASE s.fed = <<>>
      <3>1. s.origin_ns = 0 /\ DOMAIN s.series = {}
        BY <1>4, <2>1
      <3>2. (0 - 0) \div w = 0
        BY <1>3
      <3> QED  BY <1>3, <3>1, <3>2, InTimeFits
    <2>2. CASE s.fed # <<>>
      <3> DEFINE n == s.fed[Len(s.fed)].t_ns
      <3>1. n \in Nat /\ n <= t
        BY <1>2, <2>2
      <3>2. /\ s.origin_ns <= n
            /\ \A k \in DOMAIN s.series : s.series[k].base_idx <= (n - s.origin_ns) \div w
            /\ s.origin_ns = 0 => \A k \in DOMAIN s.series : s.series[k].base_idx = 0
        BY <1>4, <2>2 DEF LastIn
      <3> HIDE DEF n
      <3> QED  BY <1>3, <3>1, <3>2, InTimeFits
    <2> QED  BY <2>1, <2>2
  <1>6. f.origin_ns = Origin(s, t) /\ f.panicked = s.panicked
        /\ f.series = SeriesWith(s, x.key, t, x.value)
    BY <1>0, <1>5 DEF IsFed
  <1>7. Origin(s, t) \in Nat /\ Origin(s, t) <= t /\ BinIdx(s, t) \in Nat
    BY <1>3, <1>5, OriginFacts DEF TooEarly
  <1>8. /\ SeriesOk(Recorded(s, x.key, t, x.value))
        /\ Recorded(s, x.key, t, x.value).base_idx <= BinIdx(s, t)
    BY <1>3, <1>5, RecordedFacts
  <1>9. \A k \in DOMAIN f.series : f.series[k].base_idx <= BinIdx(s, t)
                                   /\ f.series[k].base_idx \in Nat
    <2>1. DOMAIN f.series = DOMAIN s.series \cup {x.key}
      BY <1>6 DEF SeriesWith
    <2>2. \A k \in DOMAIN f.series : f.series[k] =
              IF k = x.key THEN Recorded(s, x.key, t, x.value) ELSE s.series[k]
      BY <1>6 DEF SeriesWith
    <2>3. \A k \in DOMAIN s.series : s.series[k].base_idx \in Nat
      BY DEF StoreOk, SeriesOk
    <2>4. Recorded(s, x.key, t, x.value).base_idx \in Nat
      BY <1>8 DEF SeriesOk
    <2> QED  BY <1>5, <1>8, <2>1, <2>2, <2>3, <2>4
  <1>10. BinIdx(s, t) = (t - f.origin_ns) \div w
    BY <1>6 DEF BinIdx
  <1>11. ASSUME f.origin_ns = 0
         PROVE  t <= w \div 2 /\ \A k \in DOMAIN f.series : f.series[k].base_idx = 0
    <2>1. s.origin_ns = 0
      BY <1>6, <1>11 DEF Origin
    <2>2. w \div 2 \in Nat /\ w \div 2 < w
      BY <1>3
    <2>3. t <= w \div 2
      BY <1>3, <1>6, <1>11, <2>1, <2>2 DEF Origin, Monus
    <2>4. (t - 0) \div w = 0
      BY <1>3, <2>2, <2>3, Quotients
    <2>5. BinIdx(s, t) = 0
      BY <1>10, <1>11, <2>4
    <2> QED  BY <1>9, <2>3, <2>5
  <1>12. LastIn(f)
    <2>1. f.fed[Len(f.fed)].t_ns = t
      BY <1>2
    <2> QED  BY <1>1, <1>6, <1>7, <1>9, <1>10, <1>11, <2>1 DEF LastIn
  <1> QED  BY <1>2, <1>6, <1>12

-----------------------------------------------------------------------------
(* Recording a list of ids                                                 *)

IsGraph(g) ==
    DOMAIN g = {"locked_stack", "aggregation", "metric", "window_ns", "split_keys",
                "hidden_series", "details_selected", "focus", "sort_column", "store"}

SampleOf(g, a, span) ==
    [id |-> span.id, key |-> collect_splits_for(a, span.id, g.split_keys),
     t_ns |-> span.closed_at_ns, value |-> ValueOf(g.metric, a, span)]

LEMMA RecordSpanIs ==
    ASSUME NEW g, NEW a, NEW span
    PROVE  record_span(g, a, span) =
              IF g.store.panicked THEN g
              ELSE [g EXCEPT !.store = Feed(g.store, SampleOf(g, a, span))]
  BY DEF record_span, Feed, SampleOf

LEMMA SampleFacts ==
    ASSUME AggregatorAssumption, GraphAssumption, NEW a, RingFor(a), NEW span \in Spans,
           NEW g, g.metric \in Metrics
    PROVE  SampleOf(g, a, span) \in Sample(g.split_keys) /\ SampleOf(g, a, span).id = span.id
  <1>1. /\ span.id \in Nat /\ span.closed_at_ns \in Nat
        /\ collect_splits_for(a, span.id, g.split_keys) \in SeriesKey(g.split_keys)
        /\ ValueOf(g.metric, a, span) \in Nat
    BY SpanFacts, SplitsFacts, ValueFacts
  <1> QED  BY ONLY <1>1 DEF SampleOf, Sample

FedIds(s) == {x.id : x \in ToSet(s.fed)}
ShownIds(g, a, ids, n) == {id \in {ids[i] : i \in 1..n} : Shows(g, a, id)}

(* The samples that the spans of the ring give.                            *)
Samples(g, a) == {SampleOf(g, a, a.by_id[id].span) : id \in DOMAIN a.by_id}

SameView(h, g) ==
    /\ IsGraph(h)
    /\ h.locked_stack = g.locked_stack /\ h.aggregation = g.aggregation /\ h.metric = g.metric
    /\ h.window_ns = g.window_ns /\ h.split_keys = g.split_keys
    /\ h.hidden_series = g.hidden_series /\ h.details_selected = g.details_selected
    /\ h.focus = g.focus /\ h.sort_column = g.sort_column

LEMMA SameSamples ==
    ASSUME NEW g, NEW h, h.metric = g.metric, h.split_keys = g.split_keys, NEW a
    PROVE  Samples(h, a) = Samples(g, a)
  BY DEF Samples, SampleOf

(* h is g with the first n of the ids recorded.                            *)
RecordedUpTo(h, g, a, ids, n) ==
    /\ SameView(h, g)
    /\ StoreOk(h.store, g.split_keys) /\ h.store.window_ns = g.store.window_ns
    /\ ~h.store.panicked =>
          ~g.store.panicked /\ FedIds(g.store) \cup ShownIds(g, a, ids, n) \subseteq FedIds(h.store)
    /\ Steady(g.store) => Steady(h.store)
    /\ ToSet(h.store.fed) \subseteq ToSet(g.store.fed) \cup Samples(g, a)

LEMMA FeedIds ==
    ASSUME NEW keys, NEW s, StoreOk(s, keys), NEW x \in Sample(keys)
    PROVE  FedIds(Feed(s, x)) = FedIds(s) \cup {x.id}
  <1>1. Feed(s, x).fed = Append(s.fed, x)
    BY FeedCases DEF IsFed
  <1>2. ToSet(Append(s.fed, x)) = ToSet(s.fed) \cup {x}
    BY AppendFacts DEF StoreOk
  <1> QED  BY <1>1, <1>2 DEF FedIds

RecordingFrom(g, a) ==
    /\ IsGraph(g) /\ g.metric \in Metrics /\ RingFor(a)
    /\ StoreOk(g.store, g.split_keys)

LEMMA RecordStep ==
    ASSUME AggregatorAssumption, GraphAssumption, StoreAssumption,
           NEW g, NEW a, RecordingFrom(g, a), NEW ids, NEW n \in Nat,
           NEW h, RecordedUpTo(h, g, a, ids, n)
    PROVE  RecordedUpTo(RecordNext(g, a, ids, n + 1, h), g, a, ids, n + 1)
  <1> DEFINE id == ids[n + 1]
             next == RecordNext(g, a, ids, n + 1, h)
  <1>1. ShownIds(g, a, ids, n + 1) =
            ShownIds(g, a, ids, n) \cup (IF Shows(g, a, id) THEN {id} ELSE {})
    <2>1. \A i \in 1..(n + 1) : i \in 1..n \/ i = n + 1
      OBVIOUS
    <2>2. \A i \in 1..n : i \in 1..(n + 1)
      OBVIOUS
    <2>3. n + 1 \in 1..(n + 1)
      OBVIOUS
    <2>4. {ids[i] : i \in 1..(n + 1)} = {ids[i] : i \in 1..n} \cup {id}
      BY <2>1, <2>2, <2>3
    <2> QED  BY <2>4 DEF ShownIds
  <1>2. CASE ~Shows(g, a, id)
    <2>1. next = h
      BY <1>2 DEF RecordNext
    <2>2. ShownIds(g, a, ids, n + 1) = ShownIds(g, a, ids, n)
      BY <1>1, <1>2
    <2> QED  BY <2>1, <2>2 DEF RecordedUpTo
  <1>3. CASE Shows(g, a, id)
    <2> DEFINE span == a.by_id[id].span
               x == SampleOf(h, a, span)
    <2>1. span \in Spans /\ span.id = id
      BY <1>3 DEF RecordingFrom, RingFor, Shows
    <2>2. next = record_span(h, a, span)
      BY <1>3 DEF RecordNext
    <2>3. h.split_keys = g.split_keys /\ h.metric \in Metrics /\ SameView(h, g)
      BY DEF RecordedUpTo, RecordingFrom, SameView
    <2>4. x \in Sample(g.split_keys) /\ x.id = id
      BY <2>1, <2>3, SampleFacts DEF RecordingFrom
    <2>10. x \in Samples(g, a)
      <3>1. x = SampleOf(g, a, span)
        BY <2>3 DEF SampleOf, SameView
      <3> QED  BY <1>3, <3>1 DEF Samples, Shows
    <2> HIDE DEF span, x, next
    <2>5. CASE h.store.panicked
      <3>1. next = h
        BY <2>2, <2>5, RecordSpanIs
      <3> QED  BY <2>5, <3>1 DEF RecordedUpTo, next
    <2>6. CASE ~h.store.panicked
      <3>1. StoreOk(h.store, g.split_keys)
        BY DEF RecordedUpTo
      <3>2. next = [h EXCEPT !.store = Feed(h.store, x)]
        BY <2>2, <2>6, RecordSpanIs DEF x
      <3>3. next.store = Feed(h.store, x) /\ SameView(next, g)
        BY <2>3, <3>2 DEF SameView, IsGraph
      <3>4. StoreOk(next.store, g.split_keys) /\ next.store.window_ns = g.store.window_ns
        <4>1. StoreOk(Feed(h.store, x), g.split_keys)
          BY <2>4, <3>1, FeedOk
        <4>2. Feed(h.store, x).window_ns = h.store.window_ns
          BY <2>4, <3>1, FeedCases DEF IsFed
        <4> QED  BY <3>3, <4>1, <4>2 DEF RecordedUpTo
      <3>5. FedIds(next.store) = FedIds(h.store) \cup {id}
        BY <2>4, <3>1, <3>3, FeedIds
      <3>6. Steady(g.store) => Steady(next.store)
        BY <2>4, <2>6, <3>1, <3>3, FeedSteady DEF RecordedUpTo
      <3>7. ~g.store.panicked
            /\ FedIds(g.store) \cup ShownIds(g, a, ids, n + 1) \subseteq FedIds(next.store)
        BY <1>1, <1>3, <2>6, <3>5 DEF RecordedUpTo
      <3>8. ToSet(next.store.fed) = ToSet(h.store.fed) \cup {x}
        <4>1. Feed(h.store, x).fed = Append(h.store.fed, x)
          <5>1. PICK s : s = h.store
            OBVIOUS
          <5>2. IsFed(Feed(s, x), s, x)
            BY <2>4, <3>1, <5>1, FeedCases
          <5> QED  BY <5>1, <5>2 DEF IsFed
        <4>2. ToSet(Append(h.store.fed, x)) = ToSet(h.store.fed) \cup {x}
          BY <2>4, <3>1, AppendFacts DEF StoreOk
        <4> QED  BY <3>3, <4>1, <4>2
      <3>9. ToSet(next.store.fed) \subseteq ToSet(g.store.fed) \cup Samples(g, a)
        BY <2>10, <3>8 DEF RecordedUpTo
      <3> QED  BY <3>3, <3>4, <3>6, <3>7, <3>9 DEF RecordedUpTo, next
    <2> QED  BY <2>5, <2>6 DEF next
  <1> QED  BY <1>2, <1>3

LEMMA RecordAllFacts ==
    ASSUME AggregatorAssumption, GraphAssumption, StoreAssumption,
           NEW g, NEW a, RecordingFrom(g, a), NEW ids \in Seq(Nat)
    PROVE  RecordedUpTo(RecordAll(g, a, ids), g, a, ids, Len(ids))
  <1> DEFINE r == Recording(g, a, ids)
             len == Len(ids)
             T == {n \in Nat : n <= len => RecordedUpTo(r[n], g, a, ids, n)}
  <1>0. len \in Nat
    OBVIOUS
  <1>1. r[0] = g /\ \A n \in 1..len : r[n] = RecordNext(g, a, ids, n, r[n - 1])
    BY <1>0, RecordingEquation
  <1> HIDE DEF r, len
  <1>2. 0 \in T
    <2>1. SameView(g, g)
      BY DEF RecordingFrom, SameView
    <2>2. ShownIds(g, a, ids, 0) = {}
      BY DEF ShownIds
    <2>3. RecordedUpTo(g, g, a, ids, 0)
      BY <2>1, <2>2 DEF RecordedUpTo, RecordingFrom
    <2> QED  BY <1>1, <2>3
  <1>3. ASSUME NEW n \in Nat, n \in T
        PROVE  n + 1 \in T
    <2> SUFFICES ASSUME n + 1 <= len
                 PROVE  RecordedUpTo(r[n + 1], g, a, ids, n + 1)
      OBVIOUS
    <2>1. n + 1 \in 1..len /\ (n + 1) - 1 = n /\ n <= len
      BY <1>0
    <2>2. RecordedUpTo(r[n], g, a, ids, n)
      BY <1>3, <2>1
    <2>3. RecordedUpTo(RecordNext(g, a, ids, n + 1, r[n]), g, a, ids, n + 1)
      BY <2>2, RecordStep
    <2> QED  BY <1>1, <2>1, <2>3
  <1> HIDE DEF T
  <1>4. len \in T
    BY <1>0, <1>2, <1>3, Induction
  <1>5. RecordedUpTo(r[len], g, a, ids, len)
    BY <1>0, <1>4 DEF T
  <1> QED  BY <1>5 DEF RecordAll, r, len

(* The store is empty after a wipe.                                        *)
LEMMA WipedFacts ==
    ASSUME NEW keys, NEW s, NEW any, StoreOk(s, any), NEW window_ns \in Nat
    PROVE  LET w == reset_window(s, window_ns)
           IN  /\ StoreOk(w, keys) /\ w.window_ns = window_ns /\ w.panicked = s.panicked
               /\ ToSet(w.fed) = {}
               /\ ~s.panicked => Steady(w)
  <1> DEFINE w == reset_window(s, window_ns)
  <1>1. DOMAIN s = {"origin_ns", "window_ns", "latest_bin_idx", "series", "panicked", "fed"}
        /\ s.panicked \in BOOLEAN
    BY DEF StoreOk
  <1>2. /\ DOMAIN w = DOMAIN s /\ w.window_ns = window_ns /\ w.panicked = s.panicked
        /\ w.series = <<>> /\ w.origin_ns = 0 /\ w.latest_bin_idx = 0 /\ w.fed = <<>>
    BY <1>1 DEF reset_window, wipe
  <1> HIDE DEF w
  <1>3. DOMAIN w.series = {} /\ IsFiniteSet(DOMAIN w.series) /\ w.fed \in Seq(Sample(keys))
    BY <1>2, FS_EmptySet
  <1>4. StoreOk(w, keys)
    BY <1>1, <1>2, <1>3 DEF StoreOk
  <1>5. ~s.panicked => Steady(w)
    BY <1>1, <1>2, <1>3 DEF Steady
  <1>6. ToSet(w.fed) = {}
    BY <1>2 DEF ToSet
  <1> QED  BY <1>2, <1>4, <1>5, <1>6 DEF w

(* A graph that is hydrated anew.                                          *)
LEMMA RehydrateFacts ==
    ASSUME AggregatorAssumption, GraphAssumption, StoreAssumption,
           NEW g, NEW a, IsGraph(g), g.metric \in Metrics, RingFor(a), g.window_ns \in Nat,
           NEW any, StoreOk(g.store, any), ~g.store.panicked, a.order \in Seq(Nat)
    PROVE  LET h == rehydrate(g, a)
           IN  /\ SameView(h, g) /\ StoreOk(h.store, g.split_keys)
               /\ h.store.window_ns = g.window_ns /\ Steady(h.store)
               /\ ~h.store.panicked =>
                     {id \in ToSet(a.order) : Shows(g, a, id)} \subseteq FedIds(h.store)
               /\ ToSet(h.store.fed) \subseteq Samples(h, a)
  <1> DEFINE h == rehydrate(g, a)
             w == [g EXCEPT !.store = reset_window(g.store, g.window_ns)]
  <1>1. h = RecordAll(w, a, a.order)
    BY DEF rehydrate
  <1>2. SameView(w, g) /\ w.store = reset_window(g.store, g.window_ns)
    BY DEF IsGraph, SameView
  <1> HIDE DEF w, h
  <1>3. /\ StoreOk(w.store, g.split_keys) /\ w.store.window_ns = g.window_ns
        /\ ~w.store.panicked /\ Steady(w.store) /\ ToSet(w.store.fed) = {}
    <2>1. PICK s : s = reset_window(g.store, g.window_ns)
      OBVIOUS
    <2>2. /\ StoreOk(s, g.split_keys) /\ s.window_ns = g.window_ns
          /\ s.panicked = g.store.panicked /\ ToSet(s.fed) = {} /\ Steady(s)
      BY <2>1, WipedFacts
    <2> QED  BY <1>2, <2>1, <2>2
  <1>4. RecordingFrom(w, a)
    BY <1>2, <1>3 DEF RecordingFrom, SameView
  <1>5. RecordedUpTo(h, w, a, a.order, Len(a.order))
    BY <1>1, <1>4, RecordAllFacts
  <1>6. ShownIds(w, a, a.order, Len(a.order)) = {id \in ToSet(a.order) : Shows(g, a, id)}
    <2>1. {a.order[i] : i \in 1..Len(a.order)} = ToSet(a.order)
      BY DEF ToSet
    <2>2. \A id : Shows(w, a, id) <=> Shows(g, a, id)
      BY <1>2 DEF SameView, Shows
    <2> QED  BY <2>1, <2>2 DEF ShownIds
  <1>7. SameView(h, g)
    BY <1>2, <1>5 DEF RecordedUpTo, SameView
  <1>8. ToSet(h.store.fed) \subseteq Samples(h, a)
    <2>1. ToSet(h.store.fed) \subseteq Samples(w, a)
      BY <1>3, <1>5 DEF RecordedUpTo
    <2>2. Samples(w, a) = Samples(h, a)
      BY <1>5, SameSamples DEF RecordedUpTo, SameView
    <2> QED  BY <2>1, <2>2
  <1> QED  BY <1>2, <1>3, <1>5, <1>6, <1>7, <1>8 DEF RecordedUpTo, SameView, h

-----------------------------------------------------------------------------
(* What is shown of a series                                               *)

LEMMA MaxOfNats ==
    ASSUME NEW S, IsFiniteSet(S), S \subseteq Nat, S # {}
    PROVE  Max(S) \in S
  <1> DEFINE T == {s \in SUBSET S : s = {} \/ \E n \in s : \A m \in s : m <= n}
  <1>1. {} \in T
    OBVIOUS
  <1>2. ASSUME NEW s \in SUBSET S, s # {}, s \ {Pick(s)} \in T
        PROVE  s \in T
    <2> DEFINE p == Pick(s)
    <2>1. p \in s /\ p \in Nat
      BY <1>2, PickFacts
    <2> HIDE DEF p
    <2>2. CASE s \ {p} = {}
      <3>1. \A m \in s : m = p
        BY <2>2
      <3> QED  BY <2>1, <3>1
    <2>3. CASE s \ {p} # {}
      <3>1. PICK n \in s \ {p} : \A m \in s \ {p} : m <= n
        BY <1>2, <2>3 DEF p
      <3>2. n \in Nat /\ \A m \in s : m \in Nat
        OBVIOUS
      <3>3. CASE n <= p
        <4>1. \A m \in s : m <= p
          BY <2>1, <3>1, <3>2, <3>3
        <4> QED  BY <2>1, <4>1
      <3>4. CASE p < n
        <4>1. \A m \in s : m <= n
          BY <2>1, <3>1, <3>2, <3>4
        <4> QED  BY <3>1, <4>1
      <3> QED  BY <2>1, <3>2, <3>3, <3>4
    <2> QED  BY <2>2, <2>3
  <1> HIDE DEF T
  <1>3. SUBSET S \subseteq T
    BY <1>1, <1>2, SubsetInduction
  <1>4. PICK n \in S : \A m \in S : m <= n
    BY <1>3 DEF T
  <1> QED  BY <1>4 DEF Max

(* Only the bins that are there, of which there is one.                    *)
LEMMA PresentFacts ==
    ASSUME NEW bins \in Seq(GoodBin), bins # <<>>, Last(bins) # NoBin
    PROVE  /\ Present(bins) \in Seq(GoodBin) /\ Len(Present(bins)) \in Nat \ {0}
           /\ \A i \in 1..Len(Present(bins)) : Present(bins)[i] # NoBin
  <1> DEFINE there == {i \in DOMAIN bins : bins[i] # NoBin}
             kept == InOrder(there, <)
             p == Present(bins)
  <1>1. Len(bins) \in Nat \ {0} /\ DOMAIN bins = 1..Len(bins)
    OBVIOUS
  <1>2. IsFiniteSet(there) /\ there \subseteq Int /\ there # {}
    <2>1. IsFiniteSet(1..Len(bins))
      BY <1>1, FS_Interval
    <2>2. there \in SUBSET (1..Len(bins))
      BY <1>1
    <2>3. Len(bins) \in there
      BY <1>1 DEF Last
    <2> HIDE DEF there
    <2>4. IsFiniteSet(there)
      BY <2>1, <2>2, FS_Subset
    <2> QED  BY <1>1, <2>2, <2>3, <2>4
  <1>3. /\ kept \in Seq(there) /\ ToSet(kept) = there
    <2> HIDE DEF there
    <2> QED  BY <1>2, NumbersInOrder
  <1>4. p = [i \in DOMAIN kept |-> bins[kept[i]]]
    BY DEF Present, Filter
  <1> HIDE DEF kept, p
  <1>5. Len(kept) \in Nat \ {0} /\ DOMAIN kept = 1..Len(kept) /\ \A i \in 1..Len(kept) : kept[i] \in there
    <2>1. DOMAIN kept # {}
      BY <1>2, <1>3 DEF ToSet
    <2> QED  BY <1>3, <2>1
  <1>6. \A i \in 1..Len(kept) : bins[kept[i]] \in GoodBin /\ bins[kept[i]] # NoBin
    BY <1>1, <1>5
  <1>7. p \in Seq(GoodBin) /\ Len(p) = Len(kept) /\ \A i \in 1..Len(kept) : p[i] = bins[kept[i]]
    BY <1>4, <1>5, <1>6
  <1> QED  BY <1>5, <1>6, <1>7 DEF p

(* Sorting the samples of a bin takes none away.                           *)
LEMMA SortedValues ==
    ASSUME NEW values \in Seq(Nat)
    PROVE  /\ StableSort(values, LAMBDA value : value) \in Seq(Nat)
           /\ Len(StableSort(values, LAMBDA value : value)) = Len(values)
  <1> DEFINE D == DOMAIN values
             sooner(i, j) == values[i] < values[j] \/ (values[i] = values[j] /\ i < j)
             R == {p \in D \X D : sooner(p[1], p[2])}
  <1>1. D = 1..Len(values) /\ Len(values) \in Nat /\ \A i \in D : values[i] \in Nat /\ i \in Int
    OBVIOUS
  <1>2. \A i, j \in D : <<i, j>> \in R <=> sooner(i, j)
    OBVIOUS
  <1>3. \A j \in D : BelowIn(R, D, j) = {i \in D : sooner(i, j)}
    BY <1>2 DEF BelowIn
  <1>4. StrictOrder(R, D)
    <2> HIDE DEF R, D
    <2> QED  BY <1>1, <1>2 DEF StrictOrder
  <1> HIDE DEF R
  <1> DEFINE a(n) == CHOOSE j \in D : Cardinality({i \in D : sooner(i, j)}) = n - 1
             b(n) == CHOOSE j \in D : Cardinality(BelowIn(R, D, j)) = n - 1
             order == [n \in 1..Cardinality(D) |-> a(n)]
  <1>5. \A n : a(n) = b(n)
    BY ONLY <1>3
  <1>6. order = Ordered(R, D)
    <2>1. Ordered(R, D) = [n \in 1..Cardinality(D) |-> b(n)]
      BY DEF Ordered
    <2> HIDE DEF a, b
    <2> QED  BY ONLY <1>5, <2>1
  <1>7. IsFiniteSet(D) /\ Cardinality(D) = Len(values)
    <2> DEFINE n == Len(values)
    <2>1. n \in Nat /\ D = 1..n
      BY <1>1
    <2> HIDE DEF n, D
    <2>2. IsFiniteSet(1..n) /\ Cardinality(1..n) = n
      BY <2>1, FS_Interval
    <2> QED  BY <2>1, <2>2 DEF n
  <1>8. order \in Seq(D) /\ Len(order) = Len(values)
    BY <1>4, <1>6, <1>7, OrderedFacts
  <1>9. StableSort(values, LAMBDA value : value) = [i \in D |-> values[order[i]]]
    BY DEF StableSort, InOrder
  <1> HIDE DEF order
  <1>10. \A i \in D : values[order[i]] \in Nat
    BY <1>1, <1>8
  <1> QED  BY <1>1, <1>9, <1>10

LEMMA AggregateFacts ==
    ASSUME NEW bin \in GoodBin, NEW mode \in AggMode
    PROVE  aggregate(bin, mode) \in Nat
  <1> DEFINE sorted == StableSort(bin.samples, LAMBDA value : value)
             n == Len(sorted)
             idx == (2 * mode.p * (n - 1) + 100) \div 200
             nth == sorted[Min({idx, n - 1}) + 1]
  <1>1. /\ bin.count \in Nat /\ bin.sum_ns \in Nat /\ bin.min_ns \in Nat /\ bin.max_ns \in Nat
        /\ bin.samples \in Seq(Nat) /\ (bin.count > 0 => bin.samples # <<>>)
    BY DEF GoodBin, BinOk, BinType, NoBin
  <1>2. CASE bin.count = 0
    BY <1>2 DEF aggregate
  <1>3. CASE bin.count # 0
    <2>1. sorted \in Seq(Nat) /\ n = Len(bin.samples)
      BY <1>1, SortedValues
    <2> HIDE DEF sorted
    <2>2. n \in Nat \ {0}
      BY <1>1, <1>3, <2>1
    <2>3. mode.p \in Nat /\ mode.kind \in {"Min", "Avg", "Max", "Percentile"}
      BY DEF AggMode, Mode, Percentile
    <2>4. idx \in Nat
      <3> DEFINE k == mode.p * (n - 1)
      <3>1. k \in Nat /\ 2 * mode.p * (n - 1) = 2 * k
        BY <2>2, <2>3
      <3> HIDE DEF k
      <3>2. (2 * k + 100) \div 200 \in Nat
        BY <3>1
      <3> QED  BY <3>1, <3>2
    <2> HIDE DEF idx
    <2>5. nth \in Nat
      <3>1. Min({idx, n - 1}) \in 0..(n - 1)
        BY <2>2, <2>4, MinOfTwo
      <3> QED  BY <2>1, <2>2, <3>1
    <2>6. bin.sum_ns \div bin.count \in Nat
      <3>1. bin.sum_ns \in Nat /\ bin.sum_ns <= bin.sum_ns /\ bin.count \in Nat \ {0}
        BY <1>1, <1>3
      <3> QED  BY ONLY <3>1, Quotients
    <2>7. \/ aggregate(bin, mode) = bin.min_ns \/ aggregate(bin, mode) = bin.max_ns
          \/ aggregate(bin, mode) = bin.sum_ns \div bin.count
          \/ aggregate(bin, mode) = nth
      BY <1>3, <2>3, Zenon DEF aggregate, sorted, idx
    <2> QED  BY <1>1, <2>5, <2>6, <2>7
  <1> QED  BY <1>2, <1>3

IsSummary(x) ==
    x.count \in Nat /\ x.min_ns \in Nat /\ x.max_ns \in Nat /\ x.avg_ns \in Nat /\ x.last_ns \in Nat

(* The numbers of a table over the bins.                                   *)
LEMMA NumbersOver ==
    ASSUME NEW len \in Nat \ {0}, NEW f \in [1..len -> Nat]
    PROVE  /\ SumFunction(f) \in Nat
           /\ Min({f[i] : i \in 1..len}) \in Nat
           /\ Max({f[i] : i \in 1..len}) \in Nat
           /\ f[1] > 0 => SumFunction(f) > 0
  <1> DEFINE U == 1..len
             S == {f[i] : i \in U}
  <1>1. IsFiniteSet(U) /\ 1 \in U
    BY FS_Interval
  <1>2. DOMAIN f = U /\ \A i \in U : f[i] \in Nat
    OBVIOUS
  <1>3. S \subseteq Nat /\ S # {}
    BY <1>1, <1>2
  <1>4. IsFiniteSet(S)
    <2>1. f \in Surjection(U, S)
      BY <1>2 DEF Surjection
    <2> HIDE DEF U, S
    <2> QED  BY <1>1, <2>1, FS_Surjection
  <1>5. Min(S) \in Nat /\ Max(S) \in Nat
    <2> HIDE DEF S
    <2> QED  BY <1>3, <1>4, MinOfNats, MaxOfNats
  <1> HIDE DEF U
  <1>6. SumFunctionOnSet(f, U) \in Nat
        /\ SumFunctionOnSet(f, U) = f[1] + SumFunctionOnSet(f, U \ {1})
    BY <1>1, <1>2, SumFacts
  <1>7. SumFunctionOnSet(f, U \ {1}) \in Nat
    <2>1. U \ {1} \in SUBSET U
      OBVIOUS
    <2>2. IsFiniteSet(U \ {1})
      BY <1>1, <2>1, FS_Subset
    <2>3. \A i \in U \ {1} : f[i] \in Nat
      BY <1>2
    <2> QED  BY <2>2, <2>3, SumFacts
  <1>8. SumFunction(f) = SumFunctionOnSet(f, U)
    BY <1>2 DEF SumFunction
  <1> QED  BY <1>1, <1>2, <1>5, <1>6, <1>7, <1>8 DEF U

LEMMA SummaryFacts ==
    ASSUME NEW x, SeriesOk(x), NEW mode \in AggMode, NEW metric
    PROVE  IsSummary(Summary(x, mode, metric))
  <1> DEFINE bins == Present(x.bins)
             all == DOMAIN bins
             counts == [i \in all |-> bins[i].count]
             mins == [i \in all |-> bins[i].min_ns]
             maxs == [i \in all |-> bins[i].max_ns]
             sums == [i \in all |-> bins[i].sum_ns]
             r == Summary(x, mode, metric)
  <1>1. x.bins \in Seq(GoodBin) /\ x.bins # <<>> /\ Last(x.bins) # NoBin
    BY DEF SeriesOk
  <1>2. /\ bins \in Seq(GoodBin) /\ Len(bins) \in Nat \ {0}
        /\ \A i \in 1..Len(bins) : bins[i] # NoBin
    BY <1>1, PresentFacts
  <1>3. IF metric = "Count"
        THEN r = [count |-> SumFunction(counts),
                  min_ns |-> Min({bins[i].count : i \in all}),
                  max_ns |-> Max({bins[i].count : i \in all}),
                  avg_ns |-> SumFunction(counts) \div Len(bins),
                  last_ns |-> Last(bins).count]
        ELSE r = [count |-> SumFunction(counts),
                  min_ns |-> Min({bins[i].min_ns : i \in all}),
                  max_ns |-> Max({bins[i].max_ns : i \in all}),
                  avg_ns |-> SumFunction(sums) \div SumFunction(counts),
                  last_ns |-> aggregate(Last(bins), mode)]
    BY DEF Summary
  <1> HIDE DEF bins, r
  <1>4. /\ all = 1..Len(bins)
        /\ \A i \in all : /\ bins[i] \in GoodBin /\ bins[i].count \in Nat /\ bins[i].count > 0
                          /\ bins[i].min_ns \in Nat /\ bins[i].max_ns \in Nat
                          /\ bins[i].sum_ns \in Nat
    <2>1. all = 1..Len(bins) /\ \A i \in all : bins[i] \in GoodBin
      BY <1>2
    <2>2. \A i \in all : bins[i] \in BinType /\ bins[i].count > 0
      BY <1>2, <2>1 DEF GoodBin, BinOk
    <2> QED  BY <2>1, <2>2 DEF BinType
  <1> HIDE DEF all
  <1>5. /\ counts \in [1..Len(bins) -> Nat] /\ mins \in [1..Len(bins) -> Nat]
        /\ maxs \in [1..Len(bins) -> Nat] /\ sums \in [1..Len(bins) -> Nat]
        /\ counts[1] > 0
    BY <1>2, <1>4
  <1>6. /\ {counts[i] : i \in 1..Len(bins)} = {bins[i].count : i \in all}
        /\ {mins[i] : i \in 1..Len(bins)} = {bins[i].min_ns : i \in all}
        /\ {maxs[i] : i \in 1..Len(bins)} = {bins[i].max_ns : i \in all}
    BY <1>4
  <1> HIDE DEF counts, mins, maxs, sums
  <1>7. /\ SumFunction(counts) \in Nat /\ SumFunction(counts) > 0 /\ SumFunction(sums) \in Nat
        /\ Min({bins[i].count : i \in all}) \in Nat /\ Max({bins[i].count : i \in all}) \in Nat
        /\ Min({bins[i].min_ns : i \in all}) \in Nat /\ Max({bins[i].max_ns : i \in all}) \in Nat
    <2>1. SumFunction(counts) \in Nat /\ SumFunction(counts) > 0
          /\ Min({counts[i] : i \in 1..Len(bins)}) \in Nat
          /\ Max({counts[i] : i \in 1..Len(bins)}) \in Nat
      BY <1>2, <1>5, NumbersOver
    <2>2. SumFunction(sums) \in Nat
      BY <1>2, <1>5, NumbersOver
    <2>3. Min({mins[i] : i \in 1..Len(bins)}) \in Nat
      BY <1>2, <1>5, NumbersOver
    <2>4. Max({maxs[i] : i \in 1..Len(bins)}) \in Nat
      BY <1>2, <1>5, NumbersOver
    <2> QED  BY ONLY <1>6, <2>1, <2>2, <2>3, <2>4
  <1>8. Last(bins).count \in Nat /\ aggregate(Last(bins), mode) \in Nat
    <2>1. Last(bins) \in GoodBin /\ Last(bins).count \in Nat
      BY <1>2, <1>4 DEF Last
    <2> QED  BY <2>1, AggregateFacts
  <1>9. SumFunction(counts) \div Len(bins) \in Nat
        /\ SumFunction(sums) \div SumFunction(counts) \in Nat
    BY <1>2, <1>7
  <1>10. CASE metric = "Count"
    <2>1. r = [count |-> SumFunction(counts),
               min_ns |-> Min({bins[i].count : i \in all}),
               max_ns |-> Max({bins[i].count : i \in all}),
               avg_ns |-> SumFunction(counts) \div Len(bins),
               last_ns |-> Last(bins).count]
      BY ONLY <1>3, <1>10
    <2> QED  BY ONLY <1>7, <1>8, <1>9, <2>1 DEF IsSummary, r
  <1>11. CASE metric # "Count"
    <2>1. r = [count |-> SumFunction(counts),
               min_ns |-> Min({bins[i].min_ns : i \in all}),
               max_ns |-> Max({bins[i].max_ns : i \in all}),
               avg_ns |-> SumFunction(sums) \div SumFunction(counts),
               last_ns |-> aggregate(Last(bins), mode)]
      BY ONLY <1>3, <1>11
    <2> QED  BY ONLY <1>7, <1>8, <1>9, <2>1 DEF IsSummary, r
  <1> QED  BY <1>10, <1>11

-----------------------------------------------------------------------------
(* The list of the series                                                  *)

SplitKeys(g) == g.split_keys \subseteq Keys \cap AllStrings
Columns(g) == g.split_keys \cup {"Count", "Min", "Avg", "Max", "Last"}

LEMMA SortKeyFacts ==
    ASSUME OrderingAssumption, NEW g, NEW summary, NEW key, IsSummary(summary[key]), IsSplits(key)
    PROVE  SortKey(g, summary, key) \in Int
  <1> DEFINE x == summary[key]
             rank == IF g.sort_column \in DOMAIN key THEN Rank(key[g.sort_column]) ELSE 0
  <1>1. rank \in Int
    <2>1. g.sort_column \in DOMAIN key => key[g.sort_column] \in AllStrings
      BY DEF IsSplits
    <2> QED  BY <2>1, RankFacts
  <1>2. /\ x.count \in Int /\ x.min_ns \in Int /\ x.max_ns \in Int /\ x.avg_ns \in Int
        /\ x.last_ns \in Int
    BY DEF IsSummary
  <1> HIDE DEF rank, x
  <1>3. -x.count \in Int /\ -x.avg_ns \in Int /\ -x.max_ns \in Int /\ -x.last_ns \in Int
    BY <1>2
  <1>4. \/ SortKey(g, summary, key) = -x.count \/ SortKey(g, summary, key) = x.min_ns
        \/ SortKey(g, summary, key) = -x.avg_ns \/ SortKey(g, summary, key) = -x.max_ns
        \/ SortKey(g, summary, key) = -x.last_ns \/ SortKey(g, summary, key) = rank
    BY Zenon DEF SortKey, x, rank
  <1> QED  BY <1>1, <1>2, <1>3, <1>4

(* Every series has a place in the list, and every place a series.         *)
LEMMA SeriesKeysFacts ==
    ASSUME OrderingAssumption, NEW g, SplitKeys(g), StoreOk(g.store, g.split_keys),
           g.aggregation \in AggMode
    PROVE  /\ series_keys(g) \in Seq(DOMAIN g.store.series)
           /\ ToSet(series_keys(g)) = DOMAIN g.store.series
           /\ Len(series_keys(g)) \in Nat
  <1> DEFINE D == DOMAIN g.store.series
             summary == series_summary(g.store, g.aggregation, g.metric)
             sorts(key) == <<SortKey(g, summary, key)>> \o Pairs(key)
             R == {p \in D \X D : Before(sorts(p[1]), sorts(p[2]))}
  <1>1. IsFiniteSet(D) /\ \A key \in D : SeriesOk(g.store.series[key]) /\ IsSplits(key)
    <2>1. D \subseteq SeriesKey(g.split_keys) /\ IsFiniteSet(D)
          /\ \A key \in D : SeriesOk(g.store.series[key])
      BY DEF StoreOk
    <2>2. ASSUME NEW key \in D
          PROVE  IsSplits(key)
      <3>1. PICK K \in SUBSET g.split_keys : key \in [K -> AllStrings]
        BY <2>1 DEF SeriesKey
      <3>2. K \subseteq AllStrings
        BY DEF SplitKeys
      <3> QED  BY <3>1, <3>2 DEF IsSplits
    <2> QED  BY <2>1, <2>2
  <1>2. ASSUME NEW key \in D
        PROVE  SortKey(g, summary, key) \in Int
    <2>1. summary[key] = Summary(g.store.series[key], g.aggregation, g.metric)
      BY DEF series_summary
    <2>2. IsSummary(summary[key])
      BY <1>1, <2>1, SummaryFacts
    <2> HIDE DEF summary
    <2> QED  BY <1>1, <2>2, SortKeyFacts
  <1> HIDE DEF summary
  <1>3. ASSUME NEW m \in D, NEW n \in D
        PROVE  sorts(m) \in Seq(Int) /\ (sorts(m) = sorts(n) => m = n)
    <2> DEFINE a == SortKey(g, summary, m)
               b == SortKey(g, summary, n)
               p == Pairs(m)
               q == Pairs(n)
    <2>1. a \in Int /\ b \in Int /\ p \in Seq(Int) /\ q \in Seq(Int) /\ (p = q => m = n)
      BY <1>1, <1>2, PairsFacts
    <2> HIDE DEF a, b, p, q
    <2>2. <<a>> \o p \in Seq(Int)
      BY <2>1
    <2>3. ASSUME <<a>> \o p = <<b>> \o q
          PROVE  p = q
      <3> DEFINE u == <<a>> \o p
                 v == <<b>> \o q
      <3>1. /\ Len(u) = Len(p) + 1 /\ Len(v) = Len(q) + 1
            /\ \A i \in 1..Len(p) : u[i + 1] = p[i]
            /\ \A i \in 1..Len(q) : v[i + 1] = q[i]
            /\ Len(p) \in Nat /\ Len(q) \in Nat
        BY <2>1
      <3>2. u = v
        BY <2>3
      <3> HIDE DEF u, v
      <3>3. Len(p) = Len(q) /\ \A i \in 1..Len(p) : p[i] = q[i]
        BY <3>1, <3>2
      <3> QED  BY <2>1, <3>3
    <2> QED  BY <2>1, <2>2, <2>3 DEF a, b, p, q
  <1> HIDE DEF sorts
  <1>4. \A m, n \in D : <<m, n>> \in R <=> Before(sorts(m), sorts(n))
    OBVIOUS
  <1>5. \A n \in D : BelowIn(R, D, n) = {m \in D : Before(sorts(m), sorts(n))}
    BY <1>4 DEF BelowIn
  <1> HIDE DEF D
  <1>6. StrictOrder(R, D)
    <2> HIDE DEF R
    <2>1. \A m \in D : <<m, m>> \notin R
      BY <1>3, <1>4, BeforeIrreflexive
    <2>2. \A l, m, n \in D : <<l, m>> \in R /\ <<m, n>> \in R => <<l, n>> \in R
      BY <1>3, <1>4, BeforeTransitive
    <2>3. \A m, n \in D : m # n => <<m, n>> \in R \/ <<n, m>> \in R
      BY <1>3, <1>4, BeforeTotal
    <2> QED  BY <2>1, <2>2, <2>3 DEF StrictOrder
  <1> HIDE DEF R
  <1> DEFINE a(i) == CHOOSE n \in D : Cardinality({m \in D : Before(sorts(m), sorts(n))}) = i - 1
             b(i) == CHOOSE n \in D : Cardinality(BelowIn(R, D, n)) = i - 1
             o == series_keys(g)
  <1>7. \A i : a(i) = b(i)
    BY ONLY <1>5
  <1>8. o = Ordered(R, D)
    <2>1. o = [i \in 1..Cardinality(D) |-> a(i)]
      BY DEF series_keys, InOrder, D, sorts, summary
    <2>2. Ordered(R, D) = [i \in 1..Cardinality(D) |-> b(i)]
      BY DEF Ordered
    <2> HIDE DEF a, b, o
    <2> QED  BY ONLY <1>7, <2>1, <2>2
  <1> HIDE DEF o
  <1>9. o \in Seq(D) /\ ToSet(o) = D /\ Len(o) = Cardinality(D) /\ Cardinality(D) \in Nat
    BY <1>1, <1>6, <1>8, OrderedFacts DEF D
  <1> QED  BY <1>9 DEF o, D

LEMMA Concatenated ==
    ASSUME NEW S, NEW s \in Seq(S), NEW t \in Seq(S)
    PROVE  s \o t \in Seq(S) /\ Len(s \o t) = Len(s) + Len(t) /\ Len(s) \in Nat
  OBVIOUS

LEMMA ColumnsFacts ==
    ASSUME OrderingAssumption, NEW g, SplitKeys(g)
    PROVE  /\ series_table_columns(g) \in Seq(Columns(g))
           /\ ToSet(series_table_columns(g)) = Columns(g)
           /\ Len(series_table_columns(g)) \in Nat \ {0}
  <1> DEFINE keys == Alphabetically(g.split_keys)
             named == <<"Count", "Min", "Avg", "Max", "Last">>
             cols == series_table_columns(g)
  <1>1. keys \in Seq(g.split_keys) /\ ToSet(keys) = g.split_keys
    BY AlphabeticallyFacts DEF SplitKeys
  <1>2. named \in Seq({"Count", "Min", "Avg", "Max", "Last"}) /\ Len(named) = 5
        /\ ToSet(named) = {"Count", "Min", "Avg", "Max", "Last"}
    <2>1. DOMAIN named = {1, 2, 3, 4, 5}
      OBVIOUS
    <2>2. /\ named[1] = "Count" /\ named[2] = "Min" /\ named[3] = "Avg" /\ named[4] = "Max"
          /\ named[5] = "Last"
      OBVIOUS
    <2>3. ToSet(named) = {"Count", "Min", "Avg", "Max", "Last"}
      <3> HIDE DEF named
      <3> QED  BY <2>1, <2>2 DEF ToSet
    <2> QED  BY <2>3
  <1> HIDE DEF keys, named
  <1>3. cols = keys \o named
    BY DEF series_table_columns, keys, named
  <1> HIDE DEF cols
  <1>4. keys \in Seq(Columns(g)) /\ named \in Seq(Columns(g))
    BY <1>1, <1>2 DEF Columns
  <1>5. ToSet(cols) = Columns(g)
    BY <1>1, <1>2, <1>3, <1>4, ConcatSet DEF Columns
  <1>6. cols \in Seq(Columns(g)) /\ Len(cols) = Len(keys) + 5 /\ Len(keys) \in Nat
    <2> DEFINE S == Columns(g)
    <2> HIDE DEF S
    <2>1. keys \in Seq(S) /\ named \in Seq(S) /\ Len(named) = 5
      BY <1>2, <1>4 DEF S
    <2>2. keys \o named \in Seq(S) /\ Len(keys \o named) = Len(keys) + Len(named)
          /\ Len(keys) \in Nat
      BY <2>1, Concatenated
    <2> QED  BY <1>3, <2>1, <2>2 DEF S
  <1> QED  BY <1>5, <1>6 DEF cols

LEMMA CandidatesFacts ==
    ASSUME AggregatorAssumption, GraphAssumption, OrderingAssumption, RingInv
    PROVE  Candidates \in Seq(Keys \cap AllStrings) /\ Len(Candidates) \in Nat
  <1> DEFINE ids == {i \in DOMAIN agg.by_id : agg.by_id[i].bucket.stack = gs.locked_stack}
             keys == UNION {DOMAIN agg.by_id[id].span.fields : id \in ids}
  <1>1. \A id \in DOMAIN agg.by_id : agg.by_id[id].span \in Spans
    BY RingIsFor DEF RingFor
  <1>2. keys \subseteq Keys \cap AllStrings
    BY <1>1, SpanFacts
  <1>3. Candidates = IF gs.focus = "Chart" THEN <<>> ELSE Alphabetically(keys)
    BY DEF Candidates, candidate_split_keys_for
  <1> HIDE DEF keys
  <1>4. Alphabetically(keys) \in Seq(keys)
    BY <1>2, AlphabeticallyFacts
  <1>5. Alphabetically(keys) \in Seq(Keys \cap AllStrings)
    BY <1>2, <1>4
  <1>6. Candidates \in Seq(Keys \cap AllStrings)
    <2>1. CASE gs.focus = "Chart"
      BY <1>3, <2>1
    <2>2. CASE gs.focus # "Chart"
      BY <1>3, <1>5, <2>2
    <2> QED  BY <2>1, <2>2
  <1> QED  BY <1>6

-----------------------------------------------------------------------------
(* The state of the view                                                   *)

ViewShape(g) ==
    /\ IsGraph(g)
    /\ g.locked_stack # <<>> /\ g.window_ns \in Windows /\ g.aggregation \in Modes
    /\ g.metric \in Metrics
    /\ g.details_selected \in Nat /\ g.focus \in {"Chart", "Details"}
    /\ SplitKeys(g) /\ g.sort_column \in Columns(g)
    /\ \A key \in g.hidden_series : DOMAIN key \subseteq g.split_keys

ViewOk(g) ==
    /\ ViewShape(g)
    /\ StoreOk(g.store, g.split_keys) /\ g.store.window_ns = g.window_ns /\ Steady(g.store)

(* What is in the ring and not in the store is among the ids to come.      *)
Covers(g, a, ids) ==
    ~g.store.panicked => {id \in DOMAIN a.by_id : Shows(g, a, id)} \subseteq FedIds(g.store) \cup ids

GraphInv ==
    /\ RingInv /\ StacksOk
    /\ inserted \in Seq(Nat)
    /\ InGraph => ViewOk(gs) /\ Covers(gs, agg, ToSet(inserted))

LEMMA SameShape ==
    ASSUME NEW g, ViewShape(g), NEW h, SameView(h, g)
    PROVE  ViewShape(h) /\ \A a, id : Shows(h, a, id) <=> Shows(g, a, id)
  BY DEF SameView, ViewShape, SplitKeys, Columns, Shows

LEMMA WindowsAreNat ==
    ASSUME GraphAssumption
    PROVE  Windows \subseteq Nat /\ DefaultWindow \in Windows /\ Mode("Avg") \in Modes
           /\ Modes \subseteq AggMode
  BY DEF GraphAssumption

LEMMA RehydrateOk ==
    ASSUME AggregatorAssumption, GraphAssumption, StoreAssumption, RingInv,
           NEW g, ViewShape(g), NEW any, StoreOk(g.store, any), ~g.store.panicked
    PROVE  LET h == rehydrate(g, agg)
           IN  /\ ViewOk(h) /\ Covers(h, agg, {}) /\ SameView(h, g)
               /\ ToSet(h.store.fed) \subseteq Samples(h, agg)
  <1> DEFINE h == rehydrate(g, agg)
  <1>1. IsGraph(g) /\ g.metric \in Metrics /\ g.window_ns \in Nat
    BY WindowsAreNat DEF ViewShape
  <1>2. agg.order \in Seq(Nat) /\ ToSet(agg.order) = DOMAIN agg.by_id /\ RingFor(agg)
    BY RingIsFor DEF RingInv, AggInv, AggOk, RingOk
  <1>3. /\ SameView(h, g) /\ StoreOk(h.store, g.split_keys)
        /\ h.store.window_ns = g.window_ns /\ Steady(h.store)
        /\ ~h.store.panicked =>
              {id \in ToSet(agg.order) : Shows(g, agg, id)} \subseteq FedIds(h.store)
        /\ ToSet(h.store.fed) \subseteq Samples(h, agg)
    BY <1>1, <1>2, RehydrateFacts
  <1> HIDE DEF h
  <1>4. ViewShape(h) /\ \A id : Shows(h, agg, id) <=> Shows(g, agg, id)
    BY <1>3, SameShape
  <1>5. h.split_keys = g.split_keys /\ h.window_ns = g.window_ns
    BY <1>3 DEF SameView
  <1>6. ViewOk(h)
    BY <1>3, <1>4, <1>5 DEF ViewOk
  <1>7. Covers(h, agg, {})
    BY <1>2, <1>3, <1>4 DEF Covers
  <1> QED  BY <1>3, <1>6, <1>7 DEF h

LEMMA NewGraphOk ==
    ASSUME GraphAssumption, NEW stack, stack # <<>>
    PROVE  ViewShape(GraphState(stack)) /\ StoreOk(GraphState(stack).store, {})
           /\ ~GraphState(stack).store.panicked
  <1> DEFINE g == GraphState(stack)
  <1>1. /\ g.locked_stack = stack /\ g.aggregation = Mode("Avg") /\ g.metric = "Total"
        /\ g.window_ns = DefaultWindow /\ g.split_keys = {} /\ g.hidden_series = {}
        /\ g.details_selected = 0 /\ g.focus = "Chart" /\ g.sort_column = "Count"
        /\ g.store = NewStore(DefaultWindow) /\ IsGraph(g)
    BY DEF GraphState, IsGraph
  <1> DEFINE s == NewStore(DefaultWindow)
  <1>2. /\ s.origin_ns = 0 /\ s.window_ns = DefaultWindow /\ s.latest_bin_idx = 0
        /\ s.series = <<>> /\ s.panicked = FALSE /\ s.fed = <<>>
        /\ DOMAIN s = {"origin_ns", "window_ns", "latest_bin_idx", "series", "panicked", "fed"}
    BY DEF NewStore
  <1> HIDE DEF g, s
  <1>3. DOMAIN s.series = {} /\ IsFiniteSet(DOMAIN s.series)
    BY <1>2, FS_EmptySet
  <1>4. StoreOk(s, {})
    <2>1. s.fed \in Seq(Sample({})) /\ DefaultWindow \in Nat
      BY <1>2, WindowsAreNat
    <2>2. DOMAIN s.series \subseteq SeriesKey({}) /\ \A k \in DOMAIN s.series : SeriesOk(s.series[k])
      BY <1>3
    <2>3. s.origin_ns \in Nat /\ s.latest_bin_idx \in Nat /\ s.window_ns \in Nat
      <3>1. /\ s.origin_ns = 0 /\ s.window_ns = DefaultWindow /\ s.latest_bin_idx = 0
        BY <1>2
      <3> QED  BY <2>1, <3>1
    <2>4. s.panicked \in BOOLEAN
      <3>1. s.panicked = FALSE
        BY <1>2, Zenon
      <3> QED  BY ONLY <3>1, Zenon
    <2> QED  BY ONLY <1>2, <1>3, <2>1, <2>2, <2>3, <2>4, Zenon DEF StoreOk
  <1>5. ViewShape(g)
    BY <1>1, WindowsAreNat DEF ViewShape, SplitKeys, Columns, Metrics
  <1> QED  BY <1>1, <1>2, <1>4, <1>5 DEF g, s

(* The samples of h are of the ring now, or g had them under the same      *)
(* metric and split keys.                                                  *)
Follows(h, g, a) ==
    \/ ToSet(h.store.fed) \subseteq Samples(h, a)
    \/ /\ h.metric = g.metric /\ h.split_keys = g.split_keys
       /\ ToSet(h.store.fed) \subseteq ToSet(g.store.fed) \cup Samples(h, a)

(* An arm that leaves the stack, the split keys, the window and the store. *)
LEMMA MarksArm ==
    ASSUME NEW g, ViewOk(g), NEW h, IsGraph(h),
           h.locked_stack = g.locked_stack, h.window_ns = g.window_ns, h.metric = g.metric,
           h.split_keys = g.split_keys, h.store = g.store,
           h.aggregation \in Modes, h.details_selected \in Nat,
           h.focus \in {"Chart", "Details"}, h.sort_column \in Columns(g),
           \A key \in h.hidden_series : DOMAIN key \subseteq g.split_keys
    PROVE  /\ ViewOk(h) /\ \A a, ids : Covers(g, a, ids) => Covers(h, a, ids)
           /\ \A f, a : Follows(g, f, a) => Follows(h, f, a)
           /\ \A a : Follows(h, g, a)
  <1>1. ViewShape(h)
    BY DEF ViewOk, ViewShape, SplitKeys, Columns
  <1>2. ViewOk(h)
    BY <1>1 DEF ViewOk
  <1>3. \A a, id : Shows(h, a, id) <=> Shows(g, a, id)
    BY DEF Shows
  <1>4. \A a : Samples(h, a) = Samples(g, a)
    BY SameSamples
  <1> QED  BY <1>2, <1>3, <1>4 DEF Covers, Follows

(* What every arm but the opening one finds.                               *)
AtArm ==
    /\ GraphInv /\ ViewOk(gs) /\ Covers(gs, agg, {})
    /\ ~gs.store.panicked /\ inserted = <<>>
    /\ gs.aggregation \in AggMode

LEMMA ArmStart ==
    ASSUME GraphAssumption, GraphInv, NEW h, Arm(h)
    PROVE  AtArm /\ gs' = h /\ inserted' = <<>> /\ UNCHANGED aggVars
  <1>1. InGraph /\ inserted = <<>> /\ ~gs.store.panicked /\ gs' = h /\ inserted' = inserted
        /\ UNCHANGED aggVars
    BY DEF Arm, Idle
  <1>2. ToSet(inserted) = {}
    BY <1>1 DEF ToSet
  <1>3. gs.aggregation \in AggMode
    BY <1>1, WindowsAreNat DEF GraphInv, ViewOk, ViewShape
  <1> QED  BY <1>1, <1>2, <1>3 DEF GraphInv, AtArm

NextOk == ViewOk(gs') /\ Covers(gs', agg, {}) /\ Follows(gs', gs, agg)

LEMMA CommitModeArm ==
    ASSUME GraphAssumption, GraphInv, NEW mode \in Modes, GraphAggInputCommit(mode)
    PROVE  NextOk
  <1>1. AtArm /\ gs' = [gs EXCEPT !.aggregation = mode]
    BY ArmStart DEF GraphAggInputCommit
  <1> QED  BY <1>1, MarksArm DEF AtArm, NextOk, ViewOk, ViewShape, IsGraph

LEMMA MetricArm ==
    ASSUME AggregatorAssumption, GraphAssumption, StoreAssumption, GraphInv, ToggleGraphMetric
    PROVE  NextOk
  <1> DEFINE g == [gs EXCEPT !.metric = NextMetric(@)]
  <1>1. AtArm /\ gs' = rehydrate(g, agg)
    BY ArmStart DEF ToggleGraphMetric
  <1>2. NextMetric(gs.metric) \in Metrics
    <2>1. gs.metric \in Metrics
      BY <1>1 DEF AtArm, ViewOk, ViewShape
    <2> QED  BY <2>1, Zenon DEF NextMetric, Metrics
  <1>3. ViewShape(g) /\ g.store = gs.store
    BY <1>1, <1>2 DEF AtArm, ViewOk, ViewShape, IsGraph, SplitKeys, Columns
  <1> HIDE DEF g
  <1>4. RingInv /\ StoreOk(g.store, gs.split_keys) /\ ~g.store.panicked
    BY <1>1, <1>3 DEF AtArm, GraphInv, ViewOk
  <1> QED  BY <1>1, <1>3, <1>4, RehydrateOk DEF NextOk, Follows

LEMMA WindowArm ==
    ASSUME AggregatorAssumption, GraphAssumption, StoreAssumption, GraphInv,
           NEW window_ns \in Windows, GraphWindowInputCommit(window_ns)
    PROVE  NextOk
  <1> DEFINE g == [gs EXCEPT !.window_ns = window_ns]
  <1>1. AtArm /\ gs' = rehydrate(g, agg)
    BY ArmStart DEF GraphWindowInputCommit
  <1>2. ViewShape(g) /\ g.store = gs.store
    BY <1>1 DEF AtArm, ViewOk, ViewShape, IsGraph, SplitKeys, Columns
  <1> HIDE DEF g
  <1>3. RingInv /\ StoreOk(g.store, gs.split_keys) /\ ~g.store.panicked
    BY <1>1, <1>2 DEF AtArm, GraphInv, ViewOk
  <1> QED  BY <1>1, <1>2, <1>3, RehydrateOk DEF NextOk, Follows

LEMMA SeriesOfView ==
    ASSUME OrderingAssumption, AtArm
    PROVE  /\ series_keys(gs) \in Seq(DOMAIN gs.store.series)
           /\ Len(series_keys(gs)) \in Nat
  BY SeriesKeysFacts DEF AtArm, ViewOk, ViewShape

LEMMA FocusArm ==
    ASSUME GraphAssumption, OrderingAssumption, GraphInv, GraphSwitchFocus
    PROVE  NextOk
  <1> DEFINE m == gs.details_selected
             n == Monus(Len(series_keys(gs)), 1)
             last == Min({m, n})
  <1>1. AtArm /\ gs' = IF gs.focus = "Chart" THEN [gs EXCEPT !.focus = "Details"]
                       ELSE [gs EXCEPT !.focus = "Chart", !.details_selected = last]
    BY ArmStart DEF GraphSwitchFocus
  <1>2. n \in Nat
    BY <1>1, SeriesOfView DEF Monus
  <1>3. m \in Nat
    BY <1>1 DEF AtArm, ViewOk, ViewShape
  <1> HIDE DEF m, n
  <1>4. last \in Nat
    BY <1>2, <1>3, MinOfTwo
  <1> HIDE DEF last
  <1>5. CASE gs.focus = "Chart"
    <2>1. gs' = [gs EXCEPT !.focus = "Details"]
      BY <1>1, <1>5
    <2> QED  BY <1>1, <2>1, MarksArm DEF AtArm, NextOk, ViewOk, ViewShape, IsGraph
  <1>6. CASE gs.focus # "Chart"
    <2>1. gs' = [gs EXCEPT !.focus = "Chart", !.details_selected = last]
      BY <1>1, <1>6
    <2>2. /\ IsGraph(gs') /\ gs'.focus = "Chart" /\ gs'.details_selected = last
          /\ gs'.locked_stack = gs.locked_stack /\ gs'.window_ns = gs.window_ns
          /\ gs'.metric = gs.metric /\ gs'.split_keys = gs.split_keys /\ gs'.store = gs.store
          /\ gs'.aggregation = gs.aggregation /\ gs'.sort_column = gs.sort_column
          /\ gs'.hidden_series = gs.hidden_series
      BY <1>1, <2>1 DEF AtArm, ViewOk, ViewShape, IsGraph
    <2>3. /\ ViewOk(gs) /\ gs'.aggregation \in Modes /\ gs'.details_selected \in Nat
          /\ gs'.focus \in {"Chart", "Details"} /\ gs'.sort_column \in Columns(gs)
          /\ \A key \in gs'.hidden_series : DOMAIN key \subseteq gs.split_keys
      BY <1>1, <1>4, <2>2 DEF AtArm, ViewOk, ViewShape
    <2>4. /\ ViewOk(gs') /\ \A a, ids : Covers(gs, a, ids) => Covers(gs', a, ids)
          /\ \A a : Follows(gs', gs, a)
      BY <2>2, <2>3, MarksArm
    <2> QED  BY <1>1, <2>4 DEF AtArm, NextOk
  <1> QED  BY <1>5, <1>6

LEMMA CursorArms ==
    ASSUME AggregatorAssumption, GraphAssumption, OrderingAssumption, GraphInv,
           GraphSelectUp \/ GraphSelectDown
    PROVE  NextOk
  <1>1. ASSUME NEW n \in Nat, AtArm, gs' = [gs EXCEPT !.details_selected = n]
        PROVE  NextOk
    BY <1>1, MarksArm DEF AtArm, NextOk, ViewOk, ViewShape, IsGraph
  <1>2. CASE GraphSelectUp
    <2> DEFINE n == Monus(gs.details_selected, 1)
    <2>1. AtArm /\ gs' = [gs EXCEPT !.details_selected = n]
      BY <1>2, ArmStart DEF GraphSelectUp
    <2>2. n \in Nat
      BY <2>1 DEF AtArm, ViewOk, ViewShape, Monus
    <2> QED  BY <1>1, <2>1, <2>2
  <1>3. CASE GraphSelectDown
    <2> DEFINE total == Len(series_keys(gs)) + Len(Candidates)
               n == Min({gs.details_selected + 1, total - 1})
    <2>1. AtArm /\ gs' = [gs EXCEPT !.details_selected = n] /\ total > 0
      BY <1>3, ArmStart DEF GraphSelectDown
    <2>2. total - 1 \in Nat
      BY <2>1, SeriesOfView, CandidatesFacts DEF AtArm, GraphInv
    <2>3. gs.details_selected + 1 \in Nat
      BY <2>1 DEF AtArm, ViewOk, ViewShape
    <2> HIDE DEF total
    <2>4. n \in Nat
      BY <2>2, <2>3, MinOfTwo
    <2> HIDE DEF n
    <2> QED  BY <1>1, <2>1, <2>4
  <1> QED  BY <1>2, <1>3

LEMMA SortArm ==
    ASSUME GraphAssumption, OrderingAssumption, GraphInv, NEW step \in {-1, 1},
           GraphSortColumn(step)
    PROVE  NextOk
  <1> DEFINE cols == series_table_columns(gs)
             idx == SelectInSeq(cols, LAMBDA c : c = gs.sort_column)
             to == IF idx = 0 THEN (IF step = 1 THEN 1 ELSE Len(cols)) ELSE idx + step
             col == IF to \in DOMAIN cols THEN cols[to]
                    ELSE IF step = 1 THEN cols[1] ELSE Last(cols)
  <1>1. AtArm /\ gs' = [gs EXCEPT !.sort_column = col]
    BY ArmStart DEF GraphSortColumn
  <1>2. cols \in Seq(Columns(gs)) /\ Len(cols) \in Nat \ {0}
    BY <1>1, ColumnsFacts DEF AtArm, ViewOk, ViewShape
  <1> HIDE DEF cols, to
  <1>3. col \in Columns(gs)
    BY <1>2 DEF Last
  <1> HIDE DEF col
  <1> QED  BY <1>1, <1>3, MarksArm DEF AtArm, NextOk, ViewOk, ViewShape, IsGraph

LEMMA SplitArm ==
    ASSUME AggregatorAssumption, GraphAssumption, OrderingAssumption, StoreAssumption,
           AtArm, NEW row \in 1..Len(Candidates), gs' = SplitBy(Candidates[row])
    PROVE  NextOk
  <1> DEFINE key == Candidates[row]
             keys == Flip(gs.split_keys, key)
             column == IF gs.sort_column \in Keys \ keys THEN "Count" ELSE gs.sort_column
             g == [gs EXCEPT !.split_keys = keys, !.hidden_series = {}, !.sort_column = column]
             split == rehydrate(g, agg)
             n == Len(series_keys(split)) + SelectInSeq(Candidates, LAMBDA c : c = key) - 1
  <1>1. gs' = [split EXCEPT !.details_selected = n]
    BY DEF SplitBy
  <1>2. ViewShape(gs) /\ IsGraph(gs) /\ RingInv
    BY DEF AtArm, ViewOk, ViewShape, GraphInv
  <1>3. Candidates \in Seq(Keys \cap AllStrings)
    BY <1>2, CandidatesFacts
  <1>4. keys \subseteq Keys \cap AllStrings
    <2>1. key \in Keys \cap AllStrings
      BY <1>3
    <2> HIDE DEF key
    <2> QED  BY <1>2, <2>1 DEF ViewShape, SplitKeys, Flip
  <1>5. SelectInSeq(Candidates, LAMBDA c : c = key) \in 1..Len(Candidates)
    <2> DEFINE places == {i \in 1..Len(Candidates) : Candidates[i] = key}
    <2>1. SelectInSeq(Candidates, LAMBDA c : c = key) = IF places # {} THEN Min(places) ELSE 0
      BY DEF SelectInSeq
    <2>2. row \in places /\ places \subseteq 1..Len(Candidates) /\ places \subseteq Nat
      OBVIOUS
    <2> HIDE DEF places
    <2> QED  BY <2>1, <2>2, MinOfNats
  <1> HIDE DEF key, keys
  <1>6. gs.sort_column \in gs.split_keys \cup {"Count", "Min", "Avg", "Max", "Last"}
        /\ gs.split_keys \subseteq Keys
    BY <1>2 DEF ViewShape, SplitKeys, Columns
  <1>7. column \in keys \cup {"Count", "Min", "Avg", "Max", "Last"}
    BY <1>6
  <1> HIDE DEF column
  <1>8. /\ IsGraph(g) /\ g.split_keys = keys /\ g.hidden_series = {} /\ g.sort_column = column
        /\ g.locked_stack = gs.locked_stack /\ g.window_ns = gs.window_ns
        /\ g.metric = gs.metric /\ g.store = gs.store /\ g.aggregation = gs.aggregation
        /\ g.details_selected = gs.details_selected /\ g.focus = gs.focus
    BY <1>2 DEF IsGraph
  <1> HIDE DEF g
  <1>9. ViewShape(g)
    BY <1>2, <1>4, <1>7, <1>8 DEF ViewShape, SplitKeys, Columns
  <1>10. StoreOk(g.store, gs.split_keys) /\ ~g.store.panicked
    BY <1>8 DEF AtArm, ViewOk
  <1>11. ViewOk(split) /\ Covers(split, agg, {}) /\ ToSet(split.store.fed) \subseteq Samples(split, agg)
    BY <1>2, <1>9, <1>10, RehydrateOk
  <1> HIDE DEF split
  <1>12. ViewShape(split) /\ IsGraph(split) /\ split.aggregation \in AggMode
    BY <1>11, WindowsAreNat DEF ViewOk, ViewShape
  <1>13. Len(series_keys(split)) \in Nat
    BY <1>11, <1>12, SeriesKeysFacts DEF ViewOk, ViewShape
  <1>14. n \in Nat
    BY <1>3, <1>5, <1>13
  <1> HIDE DEF n
  <1>15. /\ IsGraph(gs') /\ gs'.details_selected = n
         /\ gs'.locked_stack = split.locked_stack /\ gs'.window_ns = split.window_ns
         /\ gs'.metric = split.metric /\ gs'.split_keys = split.split_keys
         /\ gs'.store = split.store /\ gs'.aggregation = split.aggregation
         /\ gs'.sort_column = split.sort_column /\ gs'.hidden_series = split.hidden_series
         /\ gs'.focus = split.focus
    BY <1>1, <1>12 DEF IsGraph
  <1>16. Follows(split, gs, agg)
    BY <1>11 DEF Follows
  <1> QED  BY <1>11, <1>12, <1>14, <1>15, <1>16, MarksArm DEF NextOk, ViewShape

LEMMA ToggleSplitArm ==
    ASSUME AggregatorAssumption, GraphAssumption, OrderingAssumption, StoreAssumption,
           GraphInv, GraphToggleSplit
    PROVE  NextOk /\ inserted' = <<>> /\ UNCHANGED aggVars
  <1> DEFINE series == series_keys(gs)
             row == gs.details_selected + 1
             hidden == Flip(gs.hidden_series, series[row])
             marked == [gs EXCEPT !.hidden_series = hidden]
             split == SplitBy(Candidates[row - Len(series)])
  <1>1. \/ row <= Len(series) /\ Arm(marked)
        \/ row > Len(series) /\ row - Len(series) <= Len(Candidates) /\ Arm(split)
    BY DEF GraphToggleSplit
  <1> HIDE DEF marked, split
  <1>2. AtArm /\ inserted' = <<>> /\ UNCHANGED aggVars
    BY <1>1, ArmStart
  <1>3. /\ series \in Seq(DOMAIN gs.store.series) /\ Len(series) \in Nat
        /\ gs.details_selected \in Nat
    BY <1>2, SeriesOfView DEF AtArm, ViewOk, ViewShape
  <1> HIDE DEF series
  <1>4. CASE row <= Len(series) /\ Arm(marked)
    <2>1. gs' = marked
      BY <1>4, ArmStart
    <2>2. series[row] \in DOMAIN gs.store.series
      BY <1>3, <1>4
    <2>3. DOMAIN series[row] \subseteq gs.split_keys
      <3>1. series[row] \in SeriesKey(gs.split_keys)
        BY <1>2, <2>2 DEF AtArm, ViewOk, StoreOk
      <3> QED  BY <3>1 DEF SeriesKey
    <2>4. \A key \in hidden : DOMAIN key \subseteq gs.split_keys
      BY <1>2, <2>3 DEF AtArm, ViewOk, ViewShape, Flip
    <2> HIDE DEF hidden
    <2>5. NextOk
      BY <1>2, <2>1, <2>4, MarksArm DEF AtArm, NextOk, ViewOk, ViewShape, IsGraph, marked
    <2> QED  BY <1>2, <2>5
  <1>5. CASE row > Len(series) /\ row - Len(series) <= Len(Candidates) /\ Arm(split)
    <2>1. gs' = split
      BY <1>5, ArmStart
    <2>2. Len(Candidates) \in Nat
      BY <1>2, CandidatesFacts DEF AtArm, GraphInv
    <2>3. row - Len(series) \in 1..Len(Candidates)
      BY <1>3, <1>5, <2>2
    <2>4. NextOk
      BY <1>2, <2>1, <2>3, SplitArm DEF split
    <2> QED  BY <1>2, <2>4
  <1> QED  BY <1>1, <1>4, <1>5

-----------------------------------------------------------------------------
(* The invariant, step by step                                             *)

LEMMA InitGraph ==
    ASSUME AggregatorAssumption, GraphInit
    PROVE  GraphInv
  <1>1. RingInv
    BY InitRing
  <1>2. inserted = <<>> /\ ~InGraph /\ DOMAIN agg.by_id = {} /\ DOMAIN agg.buckets = {}
    BY DEF GraphInit, AggInit, InGraph
  <1>3. StacksOk
    BY <1>2 DEF StacksOk, InRing
  <1>4. inserted \in Seq(Nat)
    BY <1>2
  <1> QED  BY <1>1, <1>2, <1>3, <1>4 DEF GraphInv

LEMMA NextStacks ==
    ASSUME AggregatorAssumption, GraphInv, [GraphNext]_graphVars
    PROVE  StacksOk'
  <1>1. [AggNext]_aggVars
    BY GraphSteps DEF graphVars
  <1> QED  BY <1>1, StacksStep DEF GraphInv, RingInv, AggNext

(* Nothing is recorded, and the view stays.                                *)
LEMMA AbsorbingGraph ==
    ASSUME AggregatorAssumption, GraphInv,
           Absorbing \/ \E span \in Spans : SpanReceived(span)
    PROVE  /\ inserted' \in Seq(Nat) /\ gs' = gs
           /\ InGraph => Covers(gs, agg', ToSet(inserted'))
  <1>1. inserted \in Seq(Nat) /\ AggInv /\ (InGraph => Covers(gs, agg, ToSet(inserted)))
    BY DEF GraphInv, RingInv
  <1>2. ASSUME NEW span \in Spans, SpanReceived(span)
        PROVE  inserted' = inserted /\ gs' = gs /\ agg' = agg
    BY <1>2 DEF SpanReceived, absorb
  <1>3. CASE ParkStep /\ UNCHANGED <<inserted, gs>>
    <2>1. agg'.by_id = agg.by_id
      BY <1>1, <1>3, NextCall, ParkFacts DEF ParkStep, ParentMissing, AggInv, InRing
    <2>2. \A id : Shows(gs, agg', id) <=> Shows(gs, agg, id)
      BY <2>1 DEF Shows
    <2> QED  BY <1>1, <1>3, <2>1, <2>2 DEF Covers
  <1>4. CASE InsertStep /\ inserted' = Append(inserted, Head(todo).id) /\ UNCHANGED gs
    <2> DEFINE span == Head(todo)
    <2>1. /\ agg' = InsertSpan(agg, span) /\ span \in received /\ span \in Spans
          /\ span.id \notin InRing /\ span \notin ParkedIn(agg.pending) /\ span.id \in Nat
      BY <1>1, <1>4, NextCall DEF InsertStep, AggInv, AggregatorAssumption
    <2>2. inserted' = Append(inserted, span.id) /\ gs' = gs
      BY <1>4
    <2> HIDE DEF span
    <2>3. /\ DOMAIN agg'.by_id \subseteq DOMAIN agg.by_id \cup {span.id}
          /\ \A id \in DOMAIN agg'.by_id \cap DOMAIN agg.by_id :
                agg'.by_id[id].bucket = agg.by_id[id].bucket
      BY <1>1, <2>1, InsertFacts DEF AggInv, InRing
    <2>4. inserted' \in Seq(Nat) /\ ToSet(inserted') = ToSet(inserted) \cup {span.id}
      BY <1>1, <2>1, <2>2, AppendFacts
    <2>5. ASSUME NEW id \in DOMAIN agg'.by_id, Shows(gs, agg', id)
          PROVE  id = span.id \/ (id \in DOMAIN agg.by_id /\ Shows(gs, agg, id))
      BY <2>3, <2>5 DEF Shows
    <2>6. InGraph => Covers(gs, agg', ToSet(inserted'))
      BY <1>1, <2>4, <2>5 DEF Covers
    <2> QED  BY <2>2, <2>4, <2>6
  <1> QED  BY <1>1, <1>2, <1>3, <1>4 DEF Absorbing

LEMMA RecordedGraph ==
    ASSUME AggregatorAssumption, GraphAssumption, StoreAssumption, GraphInv, RecordInserted
    PROVE  /\ inserted' = <<>> /\ UNCHANGED aggVars
           /\ InGraph => NextOk
           /\ ~InGraph => gs' = gs
  <1>1. /\ gs' = (IF InGraph THEN RecordAll(gs, agg, inserted) ELSE gs)
        /\ inserted' = <<>> /\ UNCHANGED aggVars
    BY DEF RecordInserted
  <1> SUFFICES ASSUME InGraph
               PROVE  NextOk
    BY <1>1
  <1>2. /\ inserted \in Seq(Nat) /\ RingFor(agg) /\ ViewOk(gs) /\ ViewShape(gs)
        /\ Covers(gs, agg, ToSet(inserted))
    BY RingIsFor DEF GraphInv, ViewOk
  <1>3. RecordingFrom(gs, agg)
    BY <1>2 DEF RecordingFrom, ViewOk, ViewShape
  <1> DEFINE h == RecordAll(gs, agg, inserted)
  <1>4. RecordedUpTo(h, gs, agg, inserted, Len(inserted))
    BY <1>2, <1>3, RecordAllFacts
  <1> HIDE DEF h
  <1>5. ViewShape(h) /\ (\A id : Shows(h, agg, id) <=> Shows(gs, agg, id))
        /\ h.split_keys = gs.split_keys /\ h.window_ns = gs.window_ns
    BY <1>2, <1>4, SameShape DEF RecordedUpTo, SameView
  <1>6. ViewOk(h)
    BY <1>2, <1>4, <1>5 DEF ViewOk, RecordedUpTo
  <1>7. Covers(h, agg, {})
    <2>1. ShownIds(gs, agg, inserted, Len(inserted)) = {id \in ToSet(inserted) : Shows(gs, agg, id)}
      <3>1. {inserted[i] : i \in 1..Len(inserted)} = ToSet(inserted)
        BY <1>2 DEF ToSet
      <3> QED  BY <3>1 DEF ShownIds
    <2> QED  BY <1>2, <1>4, <1>5, <2>1 DEF Covers, RecordedUpTo
  <1>8. Follows(h, gs, agg)
    <2>1. h.metric = gs.metric /\ h.split_keys = gs.split_keys
      BY <1>4 DEF RecordedUpTo, SameView
    <2> QED  BY <1>4, <2>1, SameSamples DEF RecordedUpTo, Follows
  <1> QED  BY <1>1, <1>6, <1>7, <1>8 DEF NextOk, h

LEMMA ToggleGraphOk ==
    ASSUME AggregatorAssumption, GraphAssumption, StoreAssumption, GraphInv, ToggleGraph
    PROVE  /\ inserted' = <<>> /\ UNCHANGED aggVars
           /\ gs' = NoGraph \/ NextOk
  <1>1. /\ inserted = <<>> /\ inserted' = <<>> /\ UNCHANGED aggVars
        /\ \/ gs' = NoGraph
           \/ \E bucket \in DOMAIN agg.buckets : gs' = rehydrate(GraphState(bucket.stack), agg)
    BY DEF ToggleGraph, Idle
  <1>2. ASSUME NEW bucket \in DOMAIN agg.buckets, gs' = rehydrate(GraphState(bucket.stack), agg)
        PROVE  NextOk
    <2> DEFINE stack == bucket.stack
               g == GraphState(stack)
    <2>1. RingInv /\ stack # <<>>
      BY DEF GraphInv, StacksOk, Stacks
    <2> HIDE DEF stack
    <2>2. ViewShape(g) /\ StoreOk(g.store, {}) /\ ~g.store.panicked
      BY <2>1, NewGraphOk
    <2> HIDE DEF g
    <2>3. /\ ViewOk(rehydrate(g, agg)) /\ Covers(rehydrate(g, agg), agg, {})
          /\ Follows(rehydrate(g, agg), gs, agg)
      BY <2>1, <2>2, RehydrateOk DEF Follows
    <2> QED  BY <1>2, <2>3 DEF NextOk, g, stack
  <1> QED  BY <1>1, <1>2

(* Each arm of the graph.                                                  *)
LEMMA ArmsOk ==
    ASSUME AggregatorAssumption, GraphAssumption, OrderingAssumption, StoreAssumption, GraphInv,
           \/ ToggleGraphMetric \/ GraphSwitchFocus \/ GraphSelectUp \/ GraphSelectDown
           \/ GraphToggleSplit
           \/ \E mode \in Modes : GraphAggInputCommit(mode)
           \/ \E window_ns \in Windows : GraphWindowInputCommit(window_ns)
           \/ \E step \in {-1, 1} : GraphSortColumn(step)
    PROVE  NextOk /\ inserted' = <<>> /\ UNCHANGED aggVars
  <1>1. \A h : Arm(h) => inserted' = <<>> /\ UNCHANGED aggVars
    BY DEF Arm, Idle
  <1>2. CASE ToggleGraphMetric
    BY <1>1, <1>2, MetricArm DEF ToggleGraphMetric
  <1>3. CASE GraphSwitchFocus
    BY <1>1, <1>3, FocusArm DEF GraphSwitchFocus
  <1>4. CASE GraphSelectUp \/ GraphSelectDown
    BY <1>1, <1>4, CursorArms DEF GraphSelectUp, GraphSelectDown
  <1>5. CASE GraphToggleSplit
    BY <1>5, ToggleSplitArm
  <1>6. ASSUME NEW mode \in Modes, GraphAggInputCommit(mode)
        PROVE  NextOk /\ inserted' = <<>> /\ UNCHANGED aggVars
    BY <1>1, <1>6, CommitModeArm DEF GraphAggInputCommit
  <1>7. ASSUME NEW window_ns \in Windows, GraphWindowInputCommit(window_ns)
        PROVE  NextOk /\ inserted' = <<>> /\ UNCHANGED aggVars
    BY <1>1, <1>7, WindowArm DEF GraphWindowInputCommit
  <1>8. ASSUME NEW step \in {-1, 1}, GraphSortColumn(step)
        PROVE  NextOk /\ inserted' = <<>> /\ UNCHANGED aggVars
    <2>1. NextOk
      BY <1>8, SortArm
    <2>2. \E h : Arm(h)
      BY <1>8 DEF GraphSortColumn
    <2> QED  BY <1>1, <2>1, <2>2
  <1> QED  BY <1>2, <1>3, <1>4, <1>5, <1>6, <1>7, <1>8

LEMMA NextGraph ==
    ASSUME AggregatorAssumption, GraphAssumption, OrderingAssumption, StoreAssumption,
           GraphInv, [GraphNext]_graphVars
    PROVE  GraphInv'
  <1>1. RingInv' /\ StacksOk'
    BY NextRing, NextStacks DEF GraphInv
  <1>2. /\ inserted \in Seq(Nat)
        /\ InGraph => ViewOk(gs) /\ Covers(gs, agg, ToSet(inserted))
    BY DEF GraphInv
  <1>3. ASSUME inserted' = <<>>, UNCHANGED aggVars, gs' = NoGraph \/ NextOk
        PROVE  GraphInv'
    <2>1. inserted' \in Seq(Nat) /\ ToSet(inserted') = {} /\ agg' = agg
      BY <1>3 DEF ToSet, aggVars
    <2>2. gs' = NoGraph => ~InGraph'
      BY DEF InGraph, NoGraph
    <2> QED  BY <1>1, <1>3, <2>1, <2>2 DEF GraphInv, NextOk
  <1>4. CASE UNCHANGED graphVars
    BY <1>1, <1>2, <1>4 DEF graphVars, aggVars, GraphInv, InGraph, NoGraph
  <1>5. CASE Absorbing \/ \E span \in Spans : SpanReceived(span)
    <2>1. /\ inserted' \in Seq(Nat) /\ gs' = gs
          /\ InGraph => Covers(gs, agg', ToSet(inserted'))
      BY <1>5, AbsorbingGraph
    <2>2. InGraph' <=> InGraph
      BY <2>1 DEF InGraph, NoGraph
    <2> QED  BY <1>1, <1>2, <2>1, <2>2 DEF GraphInv
  <1>6. CASE RecordInserted
    <2>1. ~InGraph => gs = NoGraph
      BY DEF InGraph
    <2> QED  BY <1>3, <1>6, <2>1, RecordedGraph
  <1>7. CASE ToggleGraph
    BY <1>3, <1>7, ToggleGraphOk
  <1> QED  BY <1>3, <1>4, <1>5, <1>6, <1>7, ArmsOk DEF GraphNext

-----------------------------------------------------------------------------
(* What a sample says is true of its span                                  *)

TakenOf(seen, span) ==
    SumFunction([child \in {c \in seen : c.parent_id = span.id} |-> child.total_ns])
MeasuresOf(seen, metric, span) ==
    CASE metric = "Total" -> {span.total_ns}
      [] metric = "SelfTime" -> Monus(span.total_ns, TakenOf(seen, span))..span.total_ns
      [] metric = "Count" -> {1}

(* What children took only grows with what came.                           *)
LEMMA TakenGrows ==
    ASSUME AggregatorAssumption, NEW later, later \subseteq Spans, NEW seen, seen \subseteq later,
           NEW span
    PROVE  /\ TakenOf(seen, span) \in Nat /\ TakenOf(later, span) \in Nat
           /\ TakenOf(seen, span) <= TakenOf(later, span)
  <1> DEFINE U == {c \in later : c.parent_id = span.id}
             S == {c \in seen : c.parent_id = span.id}
             f == [child \in U |-> child.total_ns]
             h == [child \in S |-> child.total_ns]
  <1>1. /\ S \in SUBSET U /\ U \subseteq Spans /\ DOMAIN f = U /\ DOMAIN h = S
        /\ (\A c \in U : f[c] \in Nat) /\ \A c \in S : h[c] = f[c]
    BY DEF AggregatorAssumption
  <1>2. IsFiniteSet(U)
    BY <1>1, FS_Subset DEF AggregatorAssumption
  <1>3. IsFiniteSet(S)
    BY <1>1, <1>2, FS_Subset
  <1>4. TakenOf(later, span) = SumFunctionOnSet(f, U) /\ TakenOf(seen, span) = SumFunctionOnSet(h, S)
    BY DEF TakenOf, SumFunction
  <1> HIDE DEF U, S, f, h
  <1>5. \A c \in S : f[c] \in Nat
    BY <1>1
  <1>6. SumFunctionOnSet(h, S) = SumFunctionOnSet(f, S)
    BY ONLY <1>1, <1>3, <1>5, SumSame
  <1>7. SumFunctionOnSet(f, S) \in Nat /\ SumFunctionOnSet(f, S) <= SumFunctionOnSet(f, U)
    BY ONLY <1>1, <1>2, SumGrows
  <1>8. SumFunctionOnSet(f, U) \in Nat
    BY ONLY <1>1, <1>2, SumFacts
  <1> QED  BY <1>4, <1>6, <1>7, <1>8

LEMMA MeasuresGrow ==
    ASSUME AggregatorAssumption, NEW later, later \subseteq Spans, NEW seen, seen \subseteq later,
           NEW span \in Spans, NEW metric \in Metrics
    PROVE  MeasuresOf(seen, metric, span) \subseteq MeasuresOf(later, metric, span)
  <1>1. /\ TakenOf(seen, span) \in Nat /\ TakenOf(later, span) \in Nat
        /\ TakenOf(seen, span) <= TakenOf(later, span) /\ span.total_ns \in Nat
    BY TakenGrows DEF AggregatorAssumption
  <1>2. Monus(span.total_ns, TakenOf(later, span)) <= Monus(span.total_ns, TakenOf(seen, span))
        /\ Monus(span.total_ns, TakenOf(later, span)) \in Nat
        /\ Monus(span.total_ns, TakenOf(seen, span)) \in Nat
    BY <1>1 DEF Monus
  <1>3. Monus(span.total_ns, TakenOf(seen, span))..span.total_ns
            \subseteq Monus(span.total_ns, TakenOf(later, span))..span.total_ns
    BY <1>1, <1>2
  <1>4. CASE metric = "SelfTime"
    <2>1. MeasuresOf(seen, metric, span) = Monus(span.total_ns, TakenOf(seen, span))..span.total_ns
          /\ MeasuresOf(later, metric, span) = Monus(span.total_ns, TakenOf(later, span))..span.total_ns
      BY <1>4, Zenon DEF MeasuresOf
    <2> QED  BY <1>3, <2>1
  <1>5. CASE metric # "SelfTime"
    BY <1>5, Zenon DEF MeasuresOf, Metrics
  <1> QED  BY <1>4, <1>5

(* The children in the ring are among those that came.                     *)
LEMMA ChildTimeTaken ==
    ASSUME AggregatorAssumption, RingInv, NEW span
    PROVE  /\ ChildTime(agg.by_id, span.id) \in Nat
           /\ ChildTime(agg.by_id, span.id) <= TakenOf(received, span)
           /\ TakenOf(received, span) \in Nat
  <1> DEFINE ring == agg.by_id
             R == Children(ring, span.id)
             f == [c \in R |-> ring[c].total_ns]
             m == [c \in R |-> ring[c].span]
             N == {m[c] : c \in R}
             U == {c \in received : c.parent_id = span.id}
             g == [child \in U |-> child.total_ns]
  <1>1. /\ received \subseteq Spans
        /\ \A c \in DOMAIN ring : /\ ring[c].span \in received /\ ring[c].span.id = c
                                  /\ ring[c].total_ns = ring[c].span.total_ns
    BY DEF RingInv, AggInv, AggOk, RingOk, IsEntry
  <1>2. R \subseteq DOMAIN ring /\ \A c \in R : ring[c].span.parent_id = span.id
    BY DEF Children
  <1>3. IsFiniteSet(R)
    BY <1>2, FS_Subset DEF RingInv, LedgerInv, LedgerOk, Booked, Timed
  <1>4. U \subseteq Spans /\ \A c \in U : g[c] \in Nat
    BY <1>1 DEF AggregatorAssumption
  <1>5. IsFiniteSet(U)
    BY <1>4, FS_Subset DEF AggregatorAssumption
  <1> HIDE DEF ring, R
  <1>6. N \in SUBSET U
    BY <1>1, <1>2
  <1>7. /\ \A c, d \in R : m[c] = m[d] => c = d
        /\ \A c \in R : f[c] \in Nat /\ g[m[c]] = f[c]
    BY <1>1, <1>2 DEF AggregatorAssumption
  <1>8. TakenOf(received, span) = SumFunctionOnSet(g, U)
    BY DEF TakenOf, SumFunction
  <1>9. ChildTime(agg.by_id, span.id) = SumFunctionOnSet(f, R)
    BY DEF ChildTime, SumFunction, ring, R
  <1> HIDE DEF f, g, m, U
  <1>10. SumFunctionOnSet(g, N) = SumFunctionOnSet(f, R)
    BY <1>3, <1>7, SumRenamed
  <1> HIDE DEF N
  <1>11. /\ SumFunctionOnSet(g, N) \in Nat /\ SumFunctionOnSet(g, N) <= SumFunctionOnSet(g, U)
         /\ SumFunctionOnSet(g, U) \in Nat
    BY <1>4, <1>5, <1>6, SumGrows, SumFacts
  <1> QED  BY <1>8, <1>9, <1>10, <1>11

LEMMA ValueIsMeasure ==
    ASSUME AggregatorAssumption, RingInv, NEW id \in InRing, NEW metric \in Metrics
    PROVE  LET span == agg.by_id[id].span
           IN  ValueOf(metric, agg, span) \in MeasuresOf(received, metric, span)
  <1>0. PICK span : span = agg.by_id[id].span
    OBVIOUS
  <1>1. span \in Spans /\ span.id = id /\ span.total_ns \in Nat
    BY <1>0 DEF RingInv, AggInv, AggOk, RingOk, AggregatorAssumption, InRing
  <1>2. At(agg.child_sum, span.id, 0) = ChildTime(agg.by_id, span.id)
    BY <1>1 DEF RingInv, LedgerInv, LedgerOk, SumsOk, InRing
  <1>3. /\ ChildTime(agg.by_id, span.id) \in Nat /\ TakenOf(received, span) \in Nat
        /\ ChildTime(agg.by_id, span.id) <= TakenOf(received, span)
    BY ChildTimeTaken
  <1>4. Monus(span.total_ns, At(agg.child_sum, span.id, 0))
            \in Monus(span.total_ns, TakenOf(received, span))..span.total_ns
    BY <1>1, <1>2, <1>3 DEF Monus
  <1>5. ValueOf(metric, agg, span) \in MeasuresOf(received, metric, span)
    <2>1. CASE metric = "SelfTime"
      BY <1>4, <2>1, Zenon DEF ValueOf, MeasuresOf
    <2>2. CASE metric # "SelfTime"
      BY <2>2, Zenon DEF ValueOf, MeasuresOf, Metrics
    <2> QED  BY <2>1, <2>2
  <1> QED  BY <1>0, <1>5

(* The walk from a span up through the ring.                               *)
LastStep(a) == Min({WalkDepth - 1, Cardinality(DOMAIN a.by_id)})
StepUp(a, n, id, before) ==
    IF n = 0 THEN id
    ELSE IF before \in DOMAIN a.by_id THEN a.by_id[before].span.parent_id
    ELSE NoParent
IsWalk(up, a, id, last) == up = [n \in 0..last |-> StepUp(a, n, id, up[n - 1])]

Holders(up, a, last, key) ==
    {n \in 0..last : /\ up[n] \in DOMAIN a.by_id
                     /\ key \in DOMAIN a.by_id[up[n]].span.fields}
WalkSplits(up, a, last, keys) ==
    [key \in {k \in keys : Holders(up, a, last, k) # {}} |->
        a.by_id[up[Min(Holders(up, a, last, key))]].span.fields[key]]

LEMMA SplitsAreWalked ==
    ASSUME NEW a, NEW id, NEW keys, NEW w, IsWalk(w, a, id, LastStep(a))
    PROVE  \E up : /\ IsWalk(up, a, id, LastStep(a))
                   /\ collect_splits_for(a, id, keys) = WalkSplits(up, a, LastStep(a), keys)
  <1> DEFINE steps == 0..LastStep(a)
             up[n \in steps] ==
                IF n = 0 THEN id
                ELSE IF up[n - 1] \in DOMAIN a.by_id THEN a.by_id[up[n - 1]].span.parent_id
                ELSE NoParent
  <1>1. up = [n \in steps |-> IF n = 0 THEN id
                              ELSE IF up[n - 1] \in DOMAIN a.by_id
                                   THEN a.by_id[up[n - 1]].span.parent_id
                              ELSE NoParent]
    BY DEF IsWalk, StepUp
  <1>2. IsWalk(up, a, id, LastStep(a))
    BY <1>1, Zenon DEF IsWalk, StepUp
  <1>3. collect_splits_for(a, id, keys) = WalkSplits(up, a, LastStep(a), keys)
    BY Zenon DEF collect_splits_for, WalkSplits, Holders, LastStep
  <1> QED  BY <1>2, <1>3

(* In a line whose spans are all in the ring, the walk goes up the line.   *)
InLine(line, ring) ==
    /\ Len(line) \in Nat \ {0} /\ Descends(line)
    /\ NoParent \notin DOMAIN ring
    /\ \A i \in 1..Len(line) : line[i].id \in DOMAIN ring /\ ring[line[i].id].span = line[i]

UpTheLine(line, n) == IF n < Len(line) THEN line[Len(line) - n].id ELSE NoParent

LEMMA StepUpTheLine ==
    ASSUME NEW a, NEW line, InLine(line, a.by_id), NEW n \in Nat \ {0}, NEW id
    PROVE  StepUp(a, n, id, UpTheLine(line, n - 1)) = UpTheLine(line, n)
  <1> DEFINE len == Len(line)
  <1>1. CASE n < len
    <2>1. /\ len - (n - 1) \in 2..len /\ (len - (n - 1)) - 1 = len - n /\ n - 1 < len
      BY <1>1 DEF InLine
    <2> DEFINE i == len - (n - 1)
    <2> HIDE DEF i
    <2>2. i \in 2..len /\ i \in 1..len /\ UpTheLine(line, n - 1) = line[i].id
          /\ UpTheLine(line, n) = line[i - 1].id
      BY <1>1, <2>1 DEF UpTheLine, i
    <2>3. line[i].id \in DOMAIN a.by_id /\ a.by_id[line[i].id].span = line[i]
          /\ line[i].parent_id = line[i - 1].id
      BY <2>2 DEF InLine, Descends
    <2> QED  BY <2>2, <2>3 DEF StepUp
  <1>2. CASE n = len
    <2>1. n - 1 < len /\ len - (n - 1) = 1 /\ ~(n < len) /\ 1 \in 1..len
      BY <1>2 DEF InLine
    <2>2. UpTheLine(line, n - 1) = line[1].id /\ UpTheLine(line, n) = NoParent
      BY <2>1 DEF UpTheLine
    <2>3. /\ line[1].id \in DOMAIN a.by_id /\ a.by_id[line[1].id].span = line[1]
          /\ line[1].parent_id = NoParent
      BY <2>1 DEF InLine, Descends
    <2> QED  BY <2>2, <2>3 DEF StepUp
  <1>3. CASE n > len
    <2>1. ~(n - 1 < len) /\ ~(n < len)
      BY <1>3 DEF InLine
    <2>2. UpTheLine(line, n - 1) = NoParent /\ UpTheLine(line, n) = NoParent
      BY <2>1 DEF UpTheLine
    <2> QED  BY <2>2 DEF StepUp, InLine
  <1>4. len \in Nat
    BY DEF InLine
  <1> QED  BY <1>1, <1>2, <1>3, <1>4

LEMMA WalkExists ==
    ASSUME NEW a, NEW line, InLine(line, a.by_id), NEW last \in Nat
    PROVE  \E w : IsWalk(w, a, line[Len(line)].id, last)
  <1> DEFINE w == [n \in 0..last |-> UpTheLine(line, n)]
             id == line[Len(line)].id
  <1>1. ASSUME NEW n \in 0..last
        PROVE  w[n] = StepUp(a, n, id, w[n - 1])
    <2>1. CASE n = 0
      BY <2>1 DEF StepUp, UpTheLine, InLine
    <2>2. CASE n # 0
      <3>1. n - 1 \in 0..last /\ n \in Nat \ {0}
        BY <2>2
      <3>2. w[n] = UpTheLine(line, n) /\ w[n - 1] = UpTheLine(line, n - 1)
        BY <3>1
      <3> QED  BY <3>1, <3>2, StepUpTheLine
    <2> QED  BY <2>1, <2>2
  <1>2. w = [n \in 0..last |-> w[n]]
    OBVIOUS
  <1> HIDE DEF w
  <1>3. w = [n \in 0..last |-> StepUp(a, n, id, w[n - 1])]
    BY <1>1, <1>2
  <1> QED  BY <1>3 DEF IsWalk

LEMMA WalkGoesUp ==
    ASSUME NEW a, NEW line, InLine(line, a.by_id), NEW last \in Nat, NEW up,
           IsWalk(up, a, line[Len(line)].id, last)
    PROVE  \A n \in 0..last : up[n] = UpTheLine(line, n)
  <1> DEFINE T == {n \in Nat : n <= last => up[n] = UpTheLine(line, n)}
             id == line[Len(line)].id
  <1>1. \A n \in 0..last : up[n] = StepUp(a, n, id, up[n - 1])
    BY DEF IsWalk
  <1>2. 0 \in T
    <2>1. up[0] = id
      BY <1>1 DEF StepUp
    <2> QED  BY <2>1 DEF UpTheLine, InLine
  <1>3. ASSUME NEW n \in Nat, n \in T
        PROVE  n + 1 \in T
    <2> SUFFICES ASSUME n + 1 <= last
                 PROVE  up[n + 1] = UpTheLine(line, n + 1)
      OBVIOUS
    <2>1. n + 1 \in 0..last /\ n + 1 \in Nat \ {0} /\ (n + 1) - 1 = n /\ n <= last
      OBVIOUS
    <2>2. up[n] = UpTheLine(line, n)
      BY <1>3, <2>1
    <2>3. StepUp(a, n + 1, id, UpTheLine(line, n)) = UpTheLine(line, n + 1)
      BY <2>1, StepUpTheLine
    <2>4. up[n + 1] = StepUp(a, n + 1, id, up[n])
      BY <1>1, <2>1
    <2> QED  BY <2>2, <2>3, <2>4
  <1> HIDE DEF T
  <1>4. Nat \subseteq T
    BY <1>2, <1>3, Induction
  <1> QED  BY <1>4 DEF T

LEMMA LeastIs ==
    ASSUME NEW S, S \subseteq Int, NEW n \in S
    PROVE  /\ (\A m \in S : n <= m) => Min(S) = n
           /\ (\A m \in S : m <= n) => Max(S) = n
  <1>1. ASSUME \A m \in S : n <= m
        PROVE  Min(S) = n
    <2>1. \A k \in S : (\A m \in S : k <= m) => k = n
      BY <1>1
    <2> QED  BY <1>1, <2>1 DEF Min
  <1>2. ASSUME \A m \in S : m <= n
        PROVE  Max(S) = n
    <2>1. \A k \in S : (\A m \in S : k >= m) => k = n
      BY <1>2
    <2>2. \A m \in S : n >= m
      BY <1>2
    <2> QED  BY <2>1, <2>2 DEF Max
  <1> QED  BY <1>1, <1>2

LEMMA WalkedIsSeries ==
    ASSUME GraphAssumption, NEW a, NEW line \in Seq(Spans), InLine(line, a.by_id),
           Cardinality(DOMAIN a.by_id) \in Nat, Len(line) <= Cardinality(DOMAIN a.by_id), NEW keys
    PROVE  collect_splits_for(a, line[Len(line)].id, keys) = SeriesOf(line, keys)
  <1> DEFINE len == Len(line)
             id == line[Len(line)].id
  <1>0. PICK last : last = LastStep(a)
    OBVIOUS
  <1>1. /\ last \in Nat /\ WalkDepth \in Nat \ {0} /\ len \in Nat \ {0} /\ DOMAIN line = 1..len
        /\ \A n \in Nat : n < len => (n <= last <=> n <= WalkDepth - 1)
    <2>1. WalkDepth \in Nat \ {0}
      BY DEF GraphAssumption
    <2>2. PICK c \in Nat : c = Cardinality(DOMAIN a.by_id)
      OBVIOUS
    <2>3. WalkDepth - 1 \in Nat
      BY <2>1
    <2>4. last \in {WalkDepth - 1, c} /\ last <= WalkDepth - 1 /\ last <= c
      BY ONLY <1>0, <2>2, <2>3, MinOfTwo DEF LastStep
    <2>5. len \in Nat \ {0} /\ len <= c /\ DOMAIN line = 1..len
      BY <2>2 DEF InLine
    <2> QED  BY <2>1, <2>3, <2>4, <2>5
  <1>2. PICK up : /\ IsWalk(up, a, id, last)
                  /\ collect_splits_for(a, id, keys) = WalkSplits(up, a, last, keys)
    <2>1. PICK w : IsWalk(w, a, id, LastStep(a))
      BY <1>0, <1>1, WalkExists
    <2> QED  BY <1>0, <2>1, SplitsAreWalked
  <1>3. \A n \in 0..last : up[n] = UpTheLine(line, n)
    BY <1>1, <1>2, WalkGoesUp
  <1>4. ASSUME NEW n \in 0..last, n < len
        PROVE  /\ len - n \in 1..len /\ up[n] \in DOMAIN a.by_id
               /\ a.by_id[up[n]].span = line[len - n]
    <2>1. len - n \in 1..len
      BY <1>1, <1>4
    <2>2. up[n] = line[len - n].id
      BY <1>3, <1>4 DEF UpTheLine
    <2> QED  BY <2>1, <2>2 DEF InLine
  <1>5. ASSUME NEW n \in 0..last, ~(n < len)
        PROVE  up[n] \notin DOMAIN a.by_id
    BY <1>3, <1>5 DEF UpTheLine, InLine
  <1> HIDE DEF len, id
  <1>6. ASSUME NEW key, NEW i \in 1..len
        PROVE  i \in Near(line, key) <=> len - i \in Holders(up, a, last, key)
    <2>1. len - i \in Nat /\ len - i < len /\ len - (len - i) = i
      BY <1>1
    <2>2. i > len - WalkDepth <=> len - i <= WalkDepth - 1
      BY <1>1
    <2>3. i > len - WalkDepth <=> len - i \in 0..last
      <3>1. len - i <= last <=> len - i <= WalkDepth - 1
        BY <1>1, <2>1
      <3> QED  BY <1>1, <2>1, <2>2, <3>1
    <2>4. i \in Near(line, key) <=> i > len - WalkDepth /\ key \in DOMAIN line[i].fields
      BY <1>1 DEF Near, With, len
    <2>5. len - i \in 0..last => up[len - i] \in DOMAIN a.by_id /\ a.by_id[up[len - i]].span = line[i]
      BY <1>4, <2>1
    <2> QED  BY <2>3, <2>4, <2>5 DEF Holders
  <1>7. ASSUME NEW key
        PROVE  /\ Near(line, key) \subseteq 1..len
               /\ Holders(up, a, last, key) \subseteq {n \in 0..last : n < len}
    BY <1>1, <1>5 DEF Near, With, Holders
  <1>8. ASSUME NEW key
        PROVE  Holders(up, a, last, key) = {} <=> Near(line, key) = {}
    <2>1. \A n \in Holders(up, a, last, key) : len - n \in Near(line, key)
      <3> TAKE n \in Holders(up, a, last, key)
      <3>1. n \in 0..last /\ n < len
        BY <1>7
      <3>2. len - n \in 1..len /\ len - (len - n) = n
        BY <1>1, <3>1
      <3> QED  BY <1>6, <3>2
    <2>2. \A i \in Near(line, key) : len - i \in Holders(up, a, last, key)
      BY <1>6, <1>7
    <2> QED  BY <2>1, <2>2
  <1>9. ASSUME NEW key, Near(line, key) # {}
        PROVE  /\ Max(Near(line, key)) \in 1..len
               /\ a.by_id[up[Min(Holders(up, a, last, key))]].span = line[Max(Near(line, key))]
    <2>1. PICK H : H = Holders(up, a, last, key)
      OBVIOUS
    <2>2. PICK N : N = Near(line, key)
      OBVIOUS
    <2>3. /\ N \subseteq 1..len /\ H \subseteq {n \in 0..last : n < len} /\ H # {} /\ N # {}
          /\ \A i \in 1..len : i \in N <=> len - i \in H
      BY <1>6, <1>7, <1>8, <1>9, <2>1, <2>2
    <2>4. PICK n \in H : \A m \in H : n <= m
      <3>1. H \subseteq Nat
        BY <1>1, <2>3
      <3> QED  BY <2>3, <3>1, LeastNatural
    <2>5. Min(H) = n
      <3>1. H \subseteq Int
        BY <1>1, <2>3
      <3> QED  BY <2>4, <3>1, LeastIs
    <2>6. n \in 0..last /\ n < len /\ len - n \in 1..len /\ len - (len - n) = n
      BY <1>1, <2>3
    <2>7. len - n \in N /\ \A i \in N : i <= len - n
      <3>1. len - n \in N
        BY <2>3, <2>6
      <3>2. ASSUME NEW i \in N
            PROVE  i <= len - n
        <4>1. i \in 1..len /\ len - i \in H
          BY <2>3
        <4>2. n <= len - i
          BY <2>4, <4>1
        <4> QED  BY <1>1, <2>6, <4>1, <4>2
      <3> QED  BY <3>1, <3>2
    <2>8. Max(N) = len - n
      <3>1. N \subseteq Int
        BY <1>1, <2>3
      <3> QED  BY <2>7, <3>1, LeastIs
    <2> QED  BY <1>4, <2>1, <2>2, <2>5, <2>6, <2>8
  <1>10. WalkSplits(up, a, last, keys) = SeriesOf(line, keys)
    <2>1. {k \in keys : Holders(up, a, last, k) # {}} = {k \in keys : Near(line, k) # {}}
      BY <1>8
    <2> QED  BY <1>9, <2>1 DEF WalkSplits, SeriesOf
  <1> QED  BY <1>2, <1>10 DEF id

(* While nothing has to leave, the line of a span is in the ring.          *)
LEMMA LineInRing ==
    ASSUME AggregatorAssumption, RingInv, PathsOk, NEW id \in InRing, NEW line \in Lines,
           Last(line) = agg.by_id[id].span
    PROVE  /\ line \in Seq(Spans) /\ line # <<>> /\ InLine(line, agg.by_id)
           /\ line[Len(line)].id = id
           /\ Cardinality(DOMAIN agg.by_id) \in Nat
           /\ Len(line) <= Cardinality(DOMAIN agg.by_id)
  <1> DEFINE len == Len(line)
             ring == agg.by_id
             T == {n \in Nat : n < len => /\ line[len - n].id \in InRing
                                          /\ ring[line[len - n].id].span = line[len - n]}
  <1>1. line \in Seq(Spans) /\ line # <<>> /\ Descends(line)
    BY LinesFacts
  <1>2. len \in Nat \ {0} /\ DOMAIN line = 1..len /\ \A i \in 1..len : line[i] \in Spans
    BY <1>1
  <1>3. /\ \A i \in InRing : ring[i].span \in Spans /\ ring[i].span.id = i
        /\ \A s \in Spans : s.id # NoParent
        /\ \A s, t \in Spans : s.id = t.id => s = t
    BY DEF RingInv, AggInv, AggOk, RingOk, InRing, AggregatorAssumption
  <1>4. line[len] = ring[id].span /\ line[len].id = id
    BY <1>1, <1>3 DEF Last
  <1> HIDE DEF len
  <1>5. 0 \in T
    BY <1>2, <1>4
  <1>6. ASSUME NEW n \in Nat, n \in T
        PROVE  n + 1 \in T
    <2> SUFFICES ASSUME n + 1 < len
                 PROVE  /\ line[len - (n + 1)].id \in InRing
                        /\ ring[line[len - (n + 1)].id].span = line[len - (n + 1)]
      OBVIOUS
    <2> DEFINE i == len - n
    <2>1. i \in 2..len /\ i \in 1..len /\ i - 1 \in 1..len /\ len - (n + 1) = i - 1 /\ n < len
      BY <1>2
    <2>2. line[i].id \in InRing /\ ring[line[i].id].span = line[i]
      BY <1>6, <2>1
    <2> HIDE DEF i
    <2>3. line[i].parent_id = line[i - 1].id /\ line[i - 1] \in Spans
      BY <1>1, <1>2, <2>1 DEF Descends, len
    <2>4. ParentOf(line[i].id) = line[i - 1].id
      BY <2>2, <2>3 DEF ParentOf
    <2>5. line[i - 1].id \in InRing
      BY <1>3, <2>2, <2>3, <2>4 DEF PathsOk
    <2>6. ring[line[i - 1].id].span = line[i - 1]
      BY <1>3, <2>3, <2>5
    <2> QED  BY <2>1, <2>5, <2>6
  <1> HIDE DEF T
  <1>7. Nat \subseteq T
    BY <1>5, <1>6, Induction
  <1>8. ASSUME NEW i \in 1..len
        PROVE  line[i].id \in InRing /\ ring[line[i].id].span = line[i]
    <2>1. len - i \in Nat /\ len - i < len /\ len - (len - i) = i
      BY <1>2
    <2>2. len - i \in T
      BY <1>7, <2>1
    <2> QED  BY <2>1, <2>2 DEF T
  <1>9. NoParent \notin InRing
    BY <1>3
  <1>10. InLine(line, agg.by_id)
    BY <1>1, <1>2, <1>8, <1>9 DEF InLine, len, InRing
  <1>11. IsFiniteSet(InRing) /\ Cardinality(InRing) \in Nat
    BY FS_CardinalityType DEF RingInv, LedgerInv, LedgerOk, Booked, Timed, InRing
  <1>12. len <= Cardinality(InRing)
    <2> DEFINE ids == [i \in 1..len |-> line[i].id]
    <2>1. IsInjective(line)
      BY <1>1, LineInjective
    <2>2. ids \in Injection(1..len, InRing)
      <3>1. ids \in [1..len -> InRing]
        BY <1>8
      <3>2. \A i, j \in 1..len : ids[i] = ids[j] => i = j
        BY <1>2, <1>3, <2>1 DEF IsInjective
      <3> QED  BY <3>1, <3>2 DEF Injection, IsInjective
    <2> HIDE DEF ids
    <2>3. Cardinality(1..len) <= Cardinality(InRing)
      BY <1>11, <2>2, FS_Injection
    <2>4. Cardinality(1..len) = len
      <3>1. 1 \in Int /\ len \in Int
        BY <1>2
      <3>2. Cardinality(1..len) = IF 1 > len THEN 0 ELSE len - 1 + 1
        BY <3>1, FS_Interval
      <3> QED  BY <1>2, <3>2
    <2> QED  BY <2>3, <2>4
  <1> QED  BY <1>1, <1>4, <1>10, <1>11, <1>12 DEF len, InRing

(* What SamplesTrue says of one sample, given what came and whether all of *)
(* it found room.                                                          *)
TrueSample(x, metric, keys, seen, roomy) ==
    \E span \in seen :
        /\ x.id = span.id /\ x.t_ns = span.closed_at_ns
        /\ x.value \in MeasuresOf(seen, metric, span)
        /\ roomy => \E line \in Lines : Last(line) = span /\ x.key = SeriesOf(line, keys)

SamplesOk == \A x \in ToSet(gs.store.fed) :
                TrueSample(x, gs.metric, gs.split_keys, received, Roomy)

LEMMA StaysTrue ==
    ASSUME AggregatorAssumption, NEW later, later \subseteq Spans, NEW seen, seen \subseteq later,
           NEW metric \in Metrics, NEW keys, NEW roomy, NEW still, still => roomy,
           NEW x, TrueSample(x, metric, keys, seen, roomy)
    PROVE  TrueSample(x, metric, keys, later, still)
  <1>1. PICK span \in seen :
            /\ x.id = span.id /\ x.t_ns = span.closed_at_ns
            /\ x.value \in MeasuresOf(seen, metric, span)
            /\ roomy => \E line \in Lines : Last(line) = span /\ x.key = SeriesOf(line, keys)
    BY Zenon DEF TrueSample
  <1>2. MeasuresOf(seen, metric, span) \subseteq MeasuresOf(later, metric, span)
    BY MeasuresGrow
  <1> QED  BY <1>1, <1>2, Zenon DEF TrueSample

(* The samples that the ring gives now are true.                           *)
LEMMA RingGivesTrue ==
    ASSUME AggregatorAssumption, GraphAssumption, RingInv, LinesOk, RoomInv,
           NEW g, g.metric \in Metrics, NEW x \in Samples(g, agg)
    PROVE  TrueSample(x, g.metric, g.split_keys, received, Roomy)
  <1>1. PICK id \in InRing : x = SampleOf(g, agg, agg.by_id[id].span)
    BY DEF Samples, InRing
  <1> DEFINE span == agg.by_id[id].span
  <1>2. span \in received /\ span.id = id
    BY DEF RingInv, AggInv, AggOk, RingOk, InRing
  <1>3. /\ x.id = span.id /\ x.t_ns = span.closed_at_ns
        /\ x.value = ValueOf(g.metric, agg, span)
        /\ x.key = collect_splits_for(agg, id, g.split_keys)
    BY <1>1, <1>2 DEF SampleOf
  <1>4. x.value \in MeasuresOf(received, g.metric, span)
    BY <1>3, ValueIsMeasure
  <1>5. ASSUME Roomy
        PROVE  \E line \in Lines : Last(line) = span /\ x.key = SeriesOf(line, g.split_keys)
    <2>1. PathsOk
      BY <1>5 DEF RoomInv, RoomyOk
    <2>2. PICK line \in Lines : Last(line) = span
      BY DEF LinesOk, LineOk
    <2>3. /\ line \in Seq(Spans) /\ InLine(line, agg.by_id) /\ line[Len(line)].id = id
          /\ Cardinality(DOMAIN agg.by_id) \in Nat /\ Len(line) <= Cardinality(DOMAIN agg.by_id)
      BY <2>1, <2>2, LineInRing
    <2>4. collect_splits_for(agg, line[Len(line)].id, g.split_keys) = SeriesOf(line, g.split_keys)
      BY <2>3, WalkedIsSeries
    <2> QED  BY <1>3, <2>2, <2>3, <2>4
  <1> HIDE DEF span
  <1> QED  BY <1>2, <1>3, <1>4, <1>5, Zenon DEF TrueSample

SamplesInv == GraphInv /\ LinesOk /\ RoomInv /\ SamplesOk

(* What came before stays true while the aggregator takes a step.          *)
LEMMA OldSamples ==
    ASSUME AggregatorAssumption, AggInv, [AggNext]_aggVars,
           NEW metric \in Metrics, NEW keys, NEW x, TrueSample(x, metric, keys, received, Roomy)
    PROVE  TrueSample(x, metric, keys, received', Roomy')
  <1>1. received' \subseteq Spans
    <2>1. AggInv'
      BY NextInv
    <2> QED  BY <2>1 DEF AggInv
  <1>2. received \subseteq received' /\ (Roomy' => Roomy)
    BY OnlyGrows
  <1>3. PICK later : later = received'
    OBVIOUS
  <1>4. PICK seen : seen = received
    OBVIOUS
  <1>5. PICK still \in BOOLEAN : still <=> Roomy'
    OBVIOUS
  <1>6. PICK roomy \in BOOLEAN : roomy <=> Roomy
    OBVIOUS
  <1>7. TrueSample(x, metric, keys, seen, roomy)
    BY <1>4, <1>6, Zenon DEF TrueSample
  <1>8. TrueSample(x, metric, keys, later, still)
    BY <1>1, <1>2, <1>3, <1>4, <1>5, <1>6, <1>7, StaysTrue
  <1> QED  BY <1>3, <1>5, <1>8, Zenon DEF TrueSample

LEMMA NextSamples ==
    ASSUME AggregatorAssumption, GraphAssumption, OrderingAssumption, StoreAssumption,
           SamplesInv, [GraphNext]_graphVars
    PROVE  SamplesInv'
  <1>1. [AggNext]_aggVars
    BY GraphSteps DEF graphVars
  <1>2. AggInv /\ RingInv
    BY DEF SamplesInv, GraphInv, RingInv
  <1>3. GraphInv' /\ LinesOk' /\ RoomInv'
    BY <1>1, <1>2, NextGraph, LinesStep, NextRoom DEF SamplesInv
  <1>4. gs.store.fed # <<>> => InGraph
    BY DEF InGraph, NoGraph, NewStore
  <1>5. ASSUME NEW x \in ToSet(gs.store.fed)
        PROVE  gs.metric \in Metrics /\ TrueSample(x, gs.metric, gs.split_keys, received', Roomy')
    <2>1. InGraph
      BY <1>4, <1>5 DEF ToSet
    <2>2. gs.metric \in Metrics
      BY <2>1 DEF SamplesInv, GraphInv, ViewOk, ViewShape
    <2>3. TrueSample(x, gs.metric, gs.split_keys, received, Roomy)
      BY <1>5 DEF SamplesInv, SamplesOk
    <2> QED  BY <1>1, <1>2, <2>2, <2>3, OldSamples
  <1>6. CASE gs' = gs
    BY <1>3, <1>5, <1>6 DEF SamplesInv, SamplesOk
  <1>7. CASE gs' = NoGraph
    <2>1. ToSet(gs'.store.fed) = {}
      BY <1>7 DEF NoGraph, NewStore, ToSet
    <2> QED  BY <1>3, <2>1 DEF SamplesInv, SamplesOk
  <1>8. CASE NextOk /\ UNCHANGED aggVars
    <2>1. received' = received /\ agg' = agg /\ (Roomy' <=> Roomy)
      BY <1>8 DEF aggVars, Roomy
    <2>2. PICK h : h = gs'
      OBVIOUS
    <2>3. h.metric \in Metrics /\ Follows(h, gs, agg)
      BY <1>8, <2>2 DEF NextOk, ViewOk, ViewShape
    <2>4. ASSUME NEW x \in Samples(h, agg)
          PROVE  TrueSample(x, h.metric, h.split_keys, received, Roomy)
      BY <1>2, <2>3, RingGivesTrue DEF SamplesInv
    <2>5. ASSUME NEW x \in ToSet(h.store.fed)
          PROVE  TrueSample(x, h.metric, h.split_keys, received, Roomy)
      BY <2>3, <2>4 DEF Follows, SamplesInv, SamplesOk
    <2>6. ASSUME NEW x \in ToSet(gs'.store.fed)
          PROVE  TrueSample(x, gs'.metric, gs'.split_keys, received', Roomy')
      BY <2>1, <2>2, <2>5 DEF TrueSample
    <2> QED  BY <1>3, <2>6 DEF SamplesInv, SamplesOk
  <1>9. GraphInv
    BY DEF SamplesInv
  <1>10. CASE UNCHANGED graphVars
    BY <1>6, <1>10 DEF graphVars
  <1>11. CASE Absorbing \/ \E span \in Spans : SpanReceived(span)
    BY <1>6, <1>9, <1>11, AbsorbingGraph
  <1>12. CASE RecordInserted
    BY <1>6, <1>8, <1>9, <1>12, RecordedGraph
  <1>13. CASE ToggleGraph
    BY <1>7, <1>8, <1>9, <1>13, ToggleGraphOk
  <1> QED  BY <1>8, <1>9, <1>10, <1>11, <1>12, <1>13, ArmsOk DEF GraphNext

-----------------------------------------------------------------------------
(* Theorems                                                                *)

(* The ring under the graph is in order, what is in it was recorded or is  *)
(* about to be, and what the view keeps is well formed.                    *)
THEOREM GraphInvariant == GraphSpec => []GraphInv
  <1>1. GraphInit => GraphInv
    BY AggregatorAssumption, InitGraph
  <1>2. GraphInv /\ [GraphNext]_graphVars => GraphInv'
    BY AggregatorAssumption, GraphAssumption, OrderingAssumption, StoreAssumption, NextGraph
  <1> QED  BY <1>1, <1>2, PTL DEF GraphSpec

(* However spans arrive, wait for their parents, are freed in a row or     *)
(* leave the ring, and whatever the user does to the graph: a span of its  *)
(* stack that is in the ring is in its store (state.rs:213-220).           *)
THEOREM NoSpanUncharted == GraphSpec => []EverySpanCharted
  <1>1. GraphInv => EverySpanCharted
    <2> SUFFICES ASSUME GraphInv, Idle, InGraph
                 PROVE  {id \in InRing : agg.by_id[id].bucket.stack = gs.locked_stack}
                            \subseteq {s.id : s \in Fed}
      BY DEF EverySpanCharted
    <2>1. inserted = <<>> /\ ~gs.store.panicked
      BY DEF Idle
    <2>2. ToSet(inserted) = {}
      BY <2>1 DEF ToSet
    <2>3. {id \in DOMAIN agg.by_id : Shows(gs, agg, id)} \subseteq FedIds(gs.store)
      BY <2>1, <2>2 DEF GraphInv, Covers
    <2> QED  BY <2>3 DEF Shows, FedIds, Fed, store, InRing
  <1> QED  BY <1>1, GraphInvariant, PTL

(* For any window but zero and any caps, the store only panics on spans    *)
(* that are recorded out of the order of their times (graph.rs:246-248).   *)
THEOREM PanicNeedsDisorder == GraphSpec => []PanicsOnlyOutOfOrder
  <1>1. GraphInv => PanicsOnlyOutOfOrder
    <2> SUFFICES ASSUME GraphInv, InGraph, store.panicked, store.window_ns # 0
                 PROVE  \E i \in 1..(Len(store.fed) - 1) :
                            store.fed[i].t_ns > store.fed[i + 1].t_ns
      BY DEF PanicsOnlyOutOfOrder
    <2>1. StoreOk(store, gs.split_keys) /\ Steady(store)
      BY DEF GraphInv, ViewOk, store
    <2>2. PICK i \in 1..(Len(store.fed) - 1) : ~(store.fed[i].t_ns <= store.fed[i + 1].t_ns)
      BY <2>1 DEF Steady, InTime
    <2>3. store.fed \in Seq(Sample(gs.split_keys))
      BY <2>1 DEF StoreOk
    <2>4. i \in 1..Len(store.fed) /\ i + 1 \in 1..Len(store.fed)
      BY <2>3
    <2>5. store.fed[i] \in Sample(gs.split_keys) /\ store.fed[i + 1] \in Sample(gs.split_keys)
      BY ONLY <2>3, <2>4
    <2>6. store.fed[i].t_ns \in Nat /\ store.fed[i + 1].t_ns \in Nat
      BY <2>5 DEF Sample
    <2> QED  BY <2>2, <2>6
  <1> QED  BY <1>1, GraphInvariant, PTL

(* The view is well formed: every series keeps its cap and ends with a bin *)
(* that is there, and the marks of the user name columns and series that   *)
(* the table can still show (core.rs:816-826).                             *)
THEOREM GraphTyped == GraphSpec => []GraphTypeOK
  <1>1. GraphInv => GraphTypeOK
    <2> SUFFICES ASSUME GraphInv, InGraph
                 PROVE  /\ gs.locked_stack # <<>> /\ gs.window_ns \in Windows
                        /\ gs.aggregation \in Modes /\ store.window_ns = gs.window_ns
                        /\ gs.details_selected \in Nat /\ gs.focus \in {"Chart", "Details"}
                        /\ \A key \in DOMAIN store.series :
                              LET s == store.series[key] IN
                              s.bins # <<>> /\ Len(s.bins) <= BIN_CAP /\ Last(s.bins) # NoBin
                        /\ Contains(series_table_columns(gs), gs.sort_column)
                        /\ \A key \in gs.hidden_series : DOMAIN key \subseteq gs.split_keys
      BY DEF GraphTypeOK
    <2>1. ViewShape(gs) /\ StoreOk(store, gs.split_keys) /\ store.window_ns = gs.window_ns
      BY DEF GraphInv, ViewOk, store
    <2>2. BIN_CAP \in Nat
      BY StoreAssumption DEF StoreAssumption
    <2>3. ASSUME NEW key \in DOMAIN store.series
          PROVE  LET s == store.series[key] IN
                 s.bins # <<>> /\ Len(s.bins) <= BIN_CAP /\ Last(s.bins) # NoBin
      BY <2>1, <2>2, <2>3 DEF StoreOk, SeriesOk
    <2>4. Contains(series_table_columns(gs), gs.sort_column)
      <3> DEFINE cols == series_table_columns(gs)
      <3>1. cols \in Seq(Columns(gs)) /\ ToSet(cols) = Columns(gs)
        BY <2>1, OrderingAssumption, ColumnsFacts DEF ViewShape
      <3>2. gs.sort_column \in ToSet(cols)
        BY <2>1, <3>1 DEF ViewShape
      <3> HIDE DEF cols
      <3>3. \E i \in 1..Len(cols) : cols[i] = gs.sort_column
        BY <3>1, <3>2 DEF ToSet
      <3> QED  BY <3>3 DEF Contains, cols
    <2> QED  BY <2>1, <2>3, <2>4 DEF ViewShape
  <1> QED  BY <1>1, GraphInvariant, PTL

(* Every sample in the store is of a span that came, at its time, of the   *)
(* metric on display, and, while nothing had to leave the ring, in the     *)
(* series of its full ancestry by the present split keys: changing the     *)
(* metric or the keys leaves no sample of before (core.rs:555, graph.rs:   *)
(* 713, state.rs:187).                                                     *)
THEOREM SamplesAreTrue == GraphSpec => []SamplesTrue
  <1>1. GraphInit => SamplesInv
    <2> SUFFICES ASSUME GraphInit
                 PROVE  SamplesInv
      OBVIOUS
    <2>1. AggInit /\ gs = NoGraph
      BY DEF GraphInit
    <2>2. DOMAIN agg.by_id = {} /\ ToSet(gs.store.fed) = {}
      BY <2>1 DEF AggInit, NoGraph, NewStore, ToSet
    <2>3. LinesOk /\ SamplesOk
      BY <2>2 DEF LinesOk, SamplesOk, InRing
    <2> QED  BY <2>1, <2>3, AggregatorAssumption, InitGraph, InitRoom DEF SamplesInv
  <1>2. SamplesInv /\ [GraphNext]_graphVars => SamplesInv'
    BY AggregatorAssumption, GraphAssumption, OrderingAssumption, StoreAssumption, NextSamples
  <1>3. SamplesInv => SamplesTrue
    <2> SUFFICES ASSUME SamplesInv, NEW sample \in Fed
                 PROVE  \E span \in received :
                            /\ sample.id = span.id /\ sample.t_ns = span.closed_at_ns
                            /\ sample.value \in Measures(gs.metric, span)
                            /\ Roomy => \E line \in Lines :
                                            /\ Last(line) = span
                                            /\ sample.key = SeriesOf(line, gs.split_keys)
      BY DEF SamplesTrue, Roomy
    <2>1. TrueSample(sample, gs.metric, gs.split_keys, received, Roomy)
      BY DEF SamplesInv, SamplesOk, Fed, store
    <2>2. \A span : Measures(gs.metric, span) = MeasuresOf(received, gs.metric, span)
      BY Zenon DEF Measures, MeasuresOf, Taken, TakenOf
    <2> QED  BY <2>1, <2>2, Zenon DEF TrueSample
  <1> QED  BY <1>1, <1>2, <1>3, PTL DEF GraphSpec

=============================================================================
