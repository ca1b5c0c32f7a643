---------------------------- MODULE DurableOutbox ----------------------------
(***************************************************************************)
(* What the outbound journal promises its callers: an append-only list of  *)
(* intents, one per idempotency key, that nothing removes or changes.  An  *)
(* intent is acknowledged, or recorded as delivered, only once it is in    *)
(* the list.  ProductOutbox implements it across power loss.               *)
(***************************************************************************)
EXTENDS Naturals

CONSTANTS Key, Message, Capacity, None

VARIABLES records, delivered, acked

Candidate == [key : Key, msg : Message]
Slot == 0 .. Capacity - 1

Init ==
    /\ records = [s \in Slot |-> None]
    /\ delivered = {}
    /\ acked = {}

\* An intent takes a slot behind every committed one.
Commit(s, c) ==
    /\ \A t \in Slot : t >= s => records[t] = None
    /\ \A t \in Slot : records[t] # None => records[t].key # c.key
    /\ records' = [records EXCEPT ![s] = c]
    /\ UNCHANGED <<delivered, acked>>

Deliver(s) ==
    /\ records[s] # None
    /\ delivered' = delivered \cup {s}
    /\ UNCHANGED <<records, acked>>

Acknowledge(s) ==
    /\ records[s] # None
    /\ acked' = acked \cup {[cand |-> records[s], slot |-> s]}
    /\ UNCHANGED <<records, delivered>>

Next ==
    \E s \in Slot :
        \/ \E c \in Candidate : Commit(s, c)
        \/ Deliver(s)
        \/ Acknowledge(s)

Spec == Init /\ [][Next]_<<records, delivered, acked>>
=============================================================================
