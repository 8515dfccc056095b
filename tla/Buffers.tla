------------------------------ MODULE Buffers ------------------------------
(***************************************************************************)
(* How closed spans and events leave a thread: the thread-local PENDING    *)
(* buffers, and the flush into the span channel and the event channel.     *)
(* What a buffered span is, is left to the module that uses this one.      *)
(*                                                                         *)
(* The channels are the external crate spillway.  Each thread sends on its *)
(* own clone of the sender, which keeps its order; the receiver takes what *)
(* one clone holds as a batch; send_many takes a batch whole or refuses it *)
(* whole.  The capacity is soft: a send below it may overshoot.            *)
(***************************************************************************)
EXTENDS Integers, Sequences, SequencesExt, FiniteSets

CONSTANTS
    Threads,         \* application threads
    PendingBatch,    \* CacheConfig::pending_batch
    ChannelCapacity  \* CacheConfig::channel_capacity

ASSUME BuffersAssumption ==
    /\ IsFiniteSet(Threads)
    /\ PendingBatch \in Nat /\ ChannelCapacity \in Nat

VARIABLES
    PENDING_SPAN,   \* [thread]: closed spans not yet sent
    PENDING_EVENT,  \* [thread]: events not yet sent
    span_ch,        \* [thread]: closed spans sent and not yet received
    event_ch,       \* [thread]: events sent and not yet received
    flushing        \* [thread]: the send flush_pending does next, or "no"

bufVars == <<PENDING_SPAN, PENDING_EVENT, span_ch, event_ch, flushing>>

BuffersInit ==
    /\ PENDING_SPAN = [t \in Threads |-> <<>>]
    /\ PENDING_EVENT = [t \in Threads |-> <<>>]
    /\ span_ch = [t \in Threads |-> <<>>]
    /\ event_ch = [t \in Threads |-> <<>>]
    /\ flushing = [t \in Threads |-> "no"]

(* Mutant: the flush comes one record late.                                *)
FlushLate(t, len) ==
    flushing' = [flushing EXCEPT ![t] = IF len > PendingBatch THEN "events" ELSE "no"]

(* A push that brings the buffer to pending_batch starts a flush.          *)
FlushIfFull(t, len) ==
    flushing' = [flushing EXCEPT ![t] = IF len >= PendingBatch THEN "events" ELSE "no"]

PushSpan(t, span) ==
    /\ PENDING_SPAN' = [PENDING_SPAN EXCEPT ![t] = Append(@, span)]
    /\ FlushIfFull(t, Len(PENDING_SPAN[t]) + 1)
    /\ UNCHANGED <<PENDING_EVENT, span_ch, event_ch>>

PushEvent(t, msg) ==
    /\ PENDING_EVENT' = [PENDING_EVENT EXCEPT ![t] = Append(@, msg)]
    /\ FlushIfFull(t, Len(PENDING_EVENT[t]) + 1)
    /\ UNCHANGED <<PENDING_SPAN, span_ch, event_ch>>

(* An explicit call of flush_pending; with both buffers empty it does      *)
(* nothing.                                                                *)
flush_pending(t) ==
    /\ flushing[t] = "no"
    /\ PENDING_SPAN[t] # <<>> \/ PENDING_EVENT[t] # <<>>
    /\ flushing' = [flushing EXCEPT ![t] = "events"]
    /\ UNCHANGED <<PENDING_SPAN, PENDING_EVENT, span_ch, event_ch>>

Queued(ch) == FoldFunctionOnSet(LAMBDA q, n : n + Len(q), 0, ch, Threads)

Send(ch, t, batch) ==
    /\ batch # <<>>
    /\ Queued(ch) < ChannelCapacity
    /\ ch' = [ch EXCEPT ![t] = @ \o batch]

(* Error::Full: the drain is dropped.                                      *)
Refused(ch, batch) ==
    /\ batch # <<>>
    /\ Queued(ch) + Len(batch) > ChannelCapacity
    /\ UNCHANGED ch

SendMany(ch, t, batch) ==
    Send(ch, t, batch) \/ Refused(ch, batch) \/ (batch = <<>> /\ UNCHANGED ch)

(* Events go first, then the spans.                                        *)
FlushEvents(t) ==
    /\ flushing[t] = "events"
    /\ SendMany(event_ch, t, PENDING_EVENT[t])
    /\ PENDING_EVENT' = [PENDING_EVENT EXCEPT ![t] = <<>>]
    /\ flushing' = [flushing EXCEPT ![t] = "spans"]
    /\ UNCHANGED <<PENDING_SPAN, span_ch>>

FlushSpans(t) ==
    /\ flushing[t] = "spans"
    /\ SendMany(span_ch, t, PENDING_SPAN[t])
    /\ PENDING_SPAN' = [PENDING_SPAN EXCEPT ![t] = <<>>]
    /\ flushing' = [flushing EXCEPT ![t] = "no"]
    /\ UNCHANGED <<PENDING_EVENT, event_ch>>

(* A thread ends: its thread-locals die unsent.                            *)
LosePending(t) ==
    /\ flushing[t] = "no"
    /\ PENDING_SPAN' = [PENDING_SPAN EXCEPT ![t] = <<>>]
    /\ PENDING_EVENT' = [PENDING_EVENT EXCEPT ![t] = <<>>]
    /\ UNCHANGED <<span_ch, event_ch, flushing>>

=============================================================================
