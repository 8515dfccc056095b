---------------------------- MODULE MCAggregator ----------------------------
(***************************************************************************)
(* TLC instance of the aggregator: the spans that come.                    *)
(***************************************************************************)
EXTENDS Ancestry

S(id, parent_id, name, total_ns, fields) ==
    [id |-> id, parent_id |-> parent_id, name |-> name, total_ns |-> total_ns,
     fields |-> fields]

k == "k"
v(value) == [key \in {k} |-> value]

(* Children whose sum exceeds their parent, a chain of four, siblings of   *)
(* one name, and a second tree that pushes the first out.                  *)
OneHost == {S(1, 0, "root", 3, v("x")), S(2, 1, "call", 2, <<>>), S(3, 1, "call", 2, v("y")),
            S(4, 2, "call", 1, <<>>), S(5, 0, "root", 1, <<>>), S(6, 5, "call", 1, v("x")),
            S(7, 4, "call", 1, v("y"))}

=============================================================================
