----------------------------- MODULE MCExplore -----------------------------
(***************************************************************************)
(* TLC instance of the table, explore mode and the trace: two traces with  *)
(* one stack told apart by a field, and the tree of a trace from its spans *)
(* alone.                                                                  *)
(***************************************************************************)
EXTENDS Explore

Closed(id, parent_id, name, total_ns, opened_at_ns, fields, events) ==
    [id |-> id, parent_id |-> parent_id, name |-> name, total_ns |-> total_ns,
     opened_at_ns |-> opened_at_ns, fields |-> fields, events |-> events]

k == "k"
v(value) == [key \in {k} |-> value]
At5 == <<[name |-> "note", recorded_at_ns |-> 5, fields |-> <<>>]>>

Traces == {Closed(1, 0, "root", 9, 1, v("x"), At5), Closed(2, 1, "call", 1, 2, v("y"), <<>>),
           Closed(3, 1, "call", 3, 6, <<>>, At5), Closed(4, 3, "call", 2, 7, <<>>, <<>>),
           Closed(5, 0, "root", 2, 3, v("y"), <<>>)}

Strings == <<"call", "k", "note", "root", "x", "y">>
Typed == <<{"note", "root"}, {"note"}>>

-----------------------------------------------------------------------------

(* From a root down to the span, by parents in the ring; or nothing.       *)
RECURSIVE Path(_)
Path(id) ==
    IF id \notin InRing THEN <<>>
    ELSE IF SpanOf(id).parent_id = NoParent THEN <<id>>
    ELSE LET above == Path(SpanOf(id).parent_id)
         IN  IF above = <<>> THEN <<>> ELSE Append(above, id)

InThisTrace(id) == Path(id) # <<>> /\ Path(id)[1] = td.root_id
Uncovered(id) == \A n \in 1..(Len(Path(id)) - 1) : Path(id)[n] \notin td.collapsed

ParentRow(Shown, i) == Max({j \in 1..(i - 1) : Shown[j].depth < Shown[i].depth})
Time(row) == IF row.kind = "Span" THEN SpanOf(row.id).opened_at_ns
             ELSE SpanOf(row.id).events[row.idx].recorded_at_ns

(* The rows of a trace are its tree: every span whose ancestors are in the *)
(* ring and not collapsed, and every event of an open one, once, below its *)
(* parent and among its siblings by time, with the marker right; whatever  *)
(* came late or left the ring meanwhile (explore.rs:155-232).              *)
TraceIsTree ==
    InTrace =>
        LET Shown == visible_trace_rows(td)
            spans == {i \in DOMAIN Shown : Shown[i].kind = "Span"}
            members == {id \in InRing : InThisTrace(id) /\ Uncovered(id)}
            events == {<<id, n>> \in members \X (1..1) :
                            id \notin td.collapsed /\ n \in DOMAIN SpanOf(id).events}
        IN  /\ {Shown[i].id : i \in spans} = members
            /\ {<<Shown[i].id, Shown[i].idx>> : i \in DOMAIN Shown \ spans} = events
            /\ Len(Shown) = Cardinality(members) + Cardinality(events)
            /\ \A i \in DOMAIN Shown :
                /\ i # 1 => Shown[ParentRow(Shown, i)].id = IF i \in spans THEN SpanOf(Shown[i].id).parent_id
                                                     ELSE Shown[i].id
                /\ i \in spans =>
                    (Shown[i].has_children <=>
                        \/ SpanOf(Shown[i].id).events # <<>>
                        \/ \E c \in InRing : SpanOf(c).parent_id = Shown[i].id)
                /\ \A j \in 2..(i - 1) : ParentRow(Shown, i) = ParentRow(Shown, j) => Time(Shown[j]) <= Time(Shown[i])

=============================================================================
