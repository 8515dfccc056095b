------------------------------ MODULE MCGraph ------------------------------
(***************************************************************************)
(* TLC instance of the graph view: three calls of one stack, told apart by *)
(* a field of their own or of their root.                                  *)
(***************************************************************************)
EXTENDS Graph

Closed(id, parent_id, name, total_ns, closed_at_ns, fields) ==
    [id |-> id, parent_id |-> parent_id, name |-> name, total_ns |-> total_ns,
     closed_at_ns |-> closed_at_ns, fields |-> fields]

k == "k"
v(value) == [key \in {k} |-> value]

Traffic == {Closed(1, 0, "root", 9, 12, v("x")), Closed(2, 1, "call", 2, 5, v("y")),
            Closed(3, 1, "call", 1, 8, <<>>),
            Closed(4, 0, "root", 4, 12, v("x")), Closed(5, 4, "call", 3, 11, <<>>)}

Strings == <<"k", "x", "y">>
JustAvg == {Mode("Avg")}

=============================================================================
