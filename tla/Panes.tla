------------------------------- MODULE Panes -------------------------------
(***************************************************************************)
(* The stack table of the console (the table's arms of model/core.rs) over *)
(* the aggregator: the rows of the tree that are visible, the cursor, what *)
(* is expanded, and the details pane with the keys to split by.  A row is  *)
(* a bucket; the list of rows is the buckets in the order RowBefore.       *)
(*                                                                         *)
(* Each key action is an arm of the reducer.  The arms do not look at the  *)
(* view, so a key that was typed ahead works in any (module Explore).      *)
(***************************************************************************)
EXTENDS Aggregator, Ordering

CONSTANT MaxKeys  \* bound: keys the user presses

(* What rows and spans are sorted by is among the strings of the model.    *)
ASSUME PanesAssumption ==
    /\ MaxKeys \in Nat
    /\ \A s \in Spans : {s.name} \cup DOMAIN s.fields \cup Range(s.fields) \subseteq AllStrings

VARIABLES
    expanded,          \* stacks whose children are shown
    selected,          \* cursor of the table
    focus,
    details_selected,  \* cursor of the details pane
    pressed            \* keys so far

panesVars == <<expanded, selected, focus, details_selected>>

PanesInit ==
    /\ expanded = {} /\ selected = 0
    /\ focus = "Stacks" /\ details_selected = 0
    /\ pressed = 0

-----------------------------------------------------------------------------
(* Rows                                                                    *)

Rows == DOMAIN agg.buckets

(* Mutant: rows of one split value stand together.                         *)
BySplitsFirst(m, n) ==
    \/ Before(Pairs(m.splits), Pairs(n.splits))
    \/ m.splits = n.splits /\ Before(Ranks(m.stack), Ranks(n.stack))

RowBefore(m, n) ==
    \/ Before(Ranks(m.stack), Ranks(n.stack))
    \/ m.stack = n.stack /\ Before(Pairs(m.splits), Pairs(n.splits))

(* A row is visible if every proper prefix of its stack is expanded; the   *)
(* visible rows are numbered from 0.                                       *)
Ancestors(stack) == {SubSeq(stack, 1, n) : n \in 1..(Len(stack) - 1)}
Visible(open) == {row \in Rows : Ancestors(row.stack) \subseteq open}
Position(open, row) == Cardinality({r \in Visible(open) : RowBefore(r, row)})

After(row) == {r \in Rows : RowBefore(row, r)}
UpTo(row, last) == {r \in After(row) : r = last \/ RowBefore(r, last)}

(* The rows below a row follow it at once; the scan ends with its stack.   *)
has_children(row) ==
    \E below \in After(row) :
        /\ \A r \in UpTo(row, below) : IsPrefix(row.stack, r.stack)
        /\ Len(below.stack) > Len(row.stack)

(* The row at the cursor, for the arms that do nothing past the end, and   *)
(* for those that take the last row instead.                               *)
OnCursor(row) == row \in Visible(expanded) /\ Position(expanded, row) = selected

selected_visible_row ==
    LET last == Cardinality(Visible(expanded)) - 1
    IN  {row \in Visible(expanded) : Position(expanded, row) = Min({selected, last})}

candidate_split_keys ==
    IF selected_visible_row = {} THEN <<>>
    ELSE candidate_split_keys_for(agg, (CHOOSE row \in selected_visible_row : TRUE).stack)

current_pane_len ==
    IF focus = "Stacks" THEN Cardinality(Visible(expanded)) ELSE Len(candidate_split_keys)

(* The branches of a flat listing (util.rs): is there a row further down   *)
(* that shares the first depth - 1 levels with this one, and not the next? *)
has_sibling_after(row, depth) ==
    LET above(r) == SubSeq(r.stack, 1, depth - 1)
    IN  \E sibling \in After(row) :
            /\ \A r \in UpTo(row, sibling) : Len(r.stack) >= depth - 1 /\ above(r) = above(row)
            /\ Len(sibling.stack) >= depth /\ sibling.stack[depth] # row.stack[depth]

-----------------------------------------------------------------------------
(* Keys                                                                    *)

Press == AtRest /\ pressed < MaxKeys /\ pressed' = pressed + 1

MoveTo(cursor) ==
    /\ current_pane_len > 0
    /\ IF focus = "Stacks"
       THEN selected' = cursor /\ UNCHANGED details_selected
       ELSE details_selected' = cursor /\ UNCHANGED selected
    /\ UNCHANGED <<aggVars, expanded, focus>>

current_selected == IF focus = "Stacks" THEN selected ELSE details_selected

SelectUp == Press /\ MoveTo(IF current_selected > 0 THEN current_selected - 1 ELSE 0)

SelectDown == Press /\ MoveTo(Min({current_selected + 1, current_pane_len - 1}))

(* The arms on the row at the cursor.                                      *)
OnRow(row) == Press /\ focus = "Stacks" /\ OnCursor(row)

Expanding(open) ==
    /\ expanded' = open
    /\ UNCHANGED <<aggVars, selected, focus, details_selected>>

ExpandSelected(row) ==
    /\ OnRow(row) /\ has_children(row)
    /\ Expanding(expanded \cup {row.stack})

(* The row's stack and the stacks between it and each row below it.        *)
ExpandAllSelected(row) ==
    LET between(stack) == {p \in Ancestors(stack) : IsPrefix(row.stack, p)}
    IN  /\ OnRow(row)
        /\ Expanding(expanded \cup
                UNION {between(r.stack) : r \in {r \in Rows : IsPrefix(row.stack, r.stack)}})

Outside(stack) == {s \in expanded : ~IsPrefix(stack, s)}
Parent(stack) == SubSeq(stack, 1, Len(stack) - 1)

(* Mutant: what is expanded below the row stays so.                        *)
CollapseRowOnly(row) ==
    /\ OnRow(row) /\ row.stack \in expanded
    /\ Expanding(expanded \ {row.stack})

(* Mutant: the cursor stays where the row was.                             *)
CollapseInPlace(row) ==
    /\ OnRow(row)
    /\ \/ row.stack \in expanded /\ Expanding(Outside(row.stack))
       \/ /\ row.stack \notin expanded /\ Len(row.stack) > 1
          /\ Expanding(Outside(Parent(row.stack)))

(* A row that is not expanded gives way to its parent, if that has a row.  *)
CollapseSelected(row) ==
    LET open == Outside(Parent(row.stack))
        parents == {r \in Visible(open) : r.stack = Parent(row.stack)}
    IN  /\ OnRow(row)
        /\ \/ row.stack \in expanded /\ Expanding(Outside(row.stack))
           \/ /\ row.stack \notin expanded /\ Len(row.stack) > 1
              /\ expanded' = open
              /\ selected' = IF parents = {} THEN selected
                             ELSE Min({Position(open, r) : r \in parents})
              /\ UNCHANGED <<aggVars, focus, details_selected>>

SwitchFocus ==
    /\ Press
    /\ focus' = IF focus = "Stacks" THEN "Details" ELSE "Stacks"
    /\ details_selected' = IF focus = "Stacks" THEN 0 ELSE details_selected
    /\ UNCHANGED <<aggVars, expanded, selected>>

ToggleSplitSelected ==
    LET keys == candidate_split_keys
        key == keys[details_selected + 1]
    IN  /\ Press /\ focus = "Details"
        /\ details_selected + 1 \in DOMAIN keys
        /\ set_split_keys(IF key \in agg.split_keys THEN agg.split_keys \ {key}
                          ELSE agg.split_keys \cup {key})
        /\ expanded' = {} /\ selected' = 0
        /\ UNCHANGED <<focus, details_selected>>

(* SpanReceived, and what the aggregator makes of it or of a new split.    *)
AggStep ==
    /\ (\E span \in Spans : absorb(span)) \/ ParkStep \/ InsertStep \/ RestorePending
    /\ UNCHANGED <<panesVars, pressed>>

TableKey ==
    \/ SelectUp \/ SelectDown \/ SwitchFocus \/ ToggleSplitSelected
    \/ \E row \in Rows : ExpandSelected(row) \/ ExpandAllSelected(row) \/ CollapseSelected(row)

-----------------------------------------------------------------------------
(* Properties                                                              *)

(* Expanding needs a visible row and collapsing clears the subtree, so no  *)
(* stack is expanded below one that is not: a row that is opened again     *)
(* shows its children and nothing under them (core.rs:387-445).            *)
ExpandedIsClosed == \A stack \in expanded : Ancestors(stack) \subseteq expanded

(* The scans of neighbouring rows, which rely on the order of the rows     *)
(* (state.rs:407-411), see the whole tree of stacks whatever the splits:   *)
(* the marker of a row tells whether any row is below it, a branch of the  *)
(* listing ends with the last row that shares the levels above, and a row  *)
(* with its subtree stand together.                                        *)
TreeDrawn ==
    \A row \in Rows :
        /\ has_children(row) <=> \E r \in Rows : IsStrictPrefix(row.stack, r.stack)
        /\ \A depth \in 2..Len(row.stack) :
              has_sibling_after(row, depth) <=>
                \E r \in After(row) :
                    /\ Len(r.stack) >= depth
                    /\ SubSeq(r.stack, 1, depth - 1) = SubSeq(row.stack, 1, depth - 1)
                    /\ r.stack[depth] # row.stack[depth]
        /\ \A last \in After(row), r \in Rows :
              r \in UpTo(row, last) /\ IsPrefix(row.stack, last.stack)
              => IsPrefix(row.stack, r.stack)

Evicted == Cardinality(received) > agg.history_budget

(* While nothing had to leave the ring, the cursor is on a row, so that    *)
(* the arms that ignore a cursor past the end work (core.rs:387-442).      *)
CursorOnRow ==
    AtRest /\ ~Evicted => selected = 0 \/ selected < Cardinality(Visible(expanded))

(* Opening and closing happens below the row at the cursor, so the cursor  *)
(* stays on its bucket, or goes to the parent's row where there is one     *)
(* (core.rs:387-442).                                                      *)
KeepsPlace ==
    [][LET cursor(row) == row \in Visible(expanded') /\ Position(expanded', row) = selected'
       IN  \A row \in Rows :
            OnRow(row) /\ expanded' # expanded =>
                \/ cursor(row)
                \/ \E r \in Rows : cursor(r) /\ r.stack = Parent(row.stack)
                \/ \A r \in Rows : r.stack # Parent(row.stack)]_panesVars

=============================================================================
