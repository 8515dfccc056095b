----------------------------- MODULE SpanStream -----------------------------
(***************************************************************************)
(* What tracing-cache promises a subscriber: it sees only spans that have  *)
(* closed, each at most once, and a batch of them either whole or not at   *)
(* all.  A closed span may be lost on the way; nobody gets it then.        *)
(***************************************************************************)
EXTENDS Sequences, SequencesExt, FiniteSets

CONSTANTS Ids, Subscribers

VARIABLES
    phase,         \* [id]: "unopened", "open", "closed" (on its way), "gone"
    subscription,  \* [subscriber]: "none", "live", "dropped", "pruned"
    seen           \* [subscriber]: the ids its stream has carried, in order

streamVars == <<phase, subscription, seen>>

StreamInit ==
    /\ phase = [id \in Ids |-> "unopened"]
    /\ subscription = [s \in Subscribers |-> "none"]
    /\ seen = [s \in Subscribers |-> <<>>]

Advance(ids, from, to) ==
    /\ \A id \in ids : phase[id] = from
    /\ phase' = [id \in Ids |-> IF id \in ids THEN to ELSE phase[id]]

Open(id) == Advance({id}, "unopened", "open") /\ UNCHANGED <<subscription, seen>>
Close(id) == Advance({id}, "open", "closed") /\ UNCHANGED <<subscription, seen>>
Lose(ids) == Advance(ids, "closed", "gone") /\ UNCHANGED <<subscription, seen>>

Fanout(batch) ==
    /\ Advance(ToSet(batch), "closed", "gone")
    /\ \A s \in Subscribers :
          /\ seen'[s] = seen[s] \/ (subscription[s] = "live" /\ seen'[s] = seen[s] \o batch)
          /\ subscription'[s] = IF subscription[s] = "dropped" THEN "pruned"
                                                              ELSE subscription[s]
    /\ DOMAIN seen' = Subscribers /\ DOMAIN subscription' = Subscribers

Change(s, from, to) ==
    /\ subscription[s] = from
    /\ subscription' = [subscription EXCEPT ![s] = to]
    /\ UNCHANGED <<phase, seen>>

StreamNext ==
    \/ \E id \in Ids : Open(id) \/ Close(id)
    \/ \E ids \in SUBSET Ids : Lose(ids) \/ \E batch \in SetToSeqs(ids) : Fanout(batch)
    \/ \E s \in Subscribers : Change(s, "none", "live") \/ Change(s, "live", "dropped")

StreamSpec == StreamInit /\ [][StreamNext]_streamVars

=============================================================================
