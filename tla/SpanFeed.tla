------------------------------ MODULE SpanFeed ------------------------------
(***************************************************************************)
(* What the producer half of tracing-cache promises to the driver, without *)
(* slabs, sidecars, stacks or id reservations: spans open under a new      *)
(* actual id, larger than every id the same thread opened before; events   *)
(* are emitted for spans that are open; a span closes once, on any thread; *)
(* and what a thread closes and emits goes through its own buffers.        *)
(* SpanCache implements this under scoped guards and without Span clones.  *)
(***************************************************************************)
EXTENDS Buffers

CONSTANTS
    Ids,       \* actual ids
    MaxEvents  \* bound: events emitted

VARIABLES
    open,      \* ids of the open spans
    issued,    \* history: the spans opened, in order: their ids, their threads
    emitted    \* history: by whom and for which span each event was emitted

feedVars == <<bufVars, open, issued, emitted>>

FeedInit ==
    /\ BuffersInit
    /\ open = {}
    /\ issued = <<>>
    /\ emitted = <<>>

Open(t, id) ==
    /\ \A i \in DOMAIN issued :
          issued[i].id # id /\ (issued[i].by = t => issued[i].id < id)
    /\ open' = open \cup {id}
    /\ issued' = Append(issued, [by |-> t, id |-> id])
    /\ UNCHANGED <<bufVars, emitted>>

Emit(t, id) ==
    /\ flushing[t] = "no" /\ id \in open /\ Len(emitted) < MaxEvents
    /\ PushEvent(t, [parent_actual_id |-> id, event |-> Len(emitted) + 1])
    /\ emitted' = Append(emitted, [by |-> t, to |-> id])
    /\ UNCHANGED <<open, issued>>

Close(t, id) ==
    /\ flushing[t] = "no" /\ id \in open
    /\ PushSpan(t, id)
    /\ open' = open \ {id}
    /\ UNCHANGED <<issued, emitted>>

Flush(t) ==
    /\ flush_pending(t) \/ FlushEvents(t) \/ FlushSpans(t)
    /\ UNCHANGED <<open, issued, emitted>>

Exit(t) == LosePending(t) /\ UNCHANGED <<open, issued, emitted>>

FeedNext ==
    \E t \in Threads :
        \/ \E id \in Ids : Open(t, id) \/ Emit(t, id) \/ Close(t, id)
        \/ Flush(t)
        \/ Exit(t)

FeedSpec == FeedInit /\ [][FeedNext]_feedVars

=============================================================================
