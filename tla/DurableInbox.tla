---------------------------- MODULE DurableInbox ----------------------------
(***************************************************************************)
(* What the store of received messages promises the rest of the product:   *)
(* messages are appended under ascending handles, one per message id, are  *)
(* never lost, and a receipt is only given for a message that is there.    *)
(***************************************************************************)
EXTENDS Naturals

CONSTANT Receipt  \* [id, handle]

VARIABLES
    inbox,   \* receipts of the committed messages
    acked    \* receipts handed to callers

Init == inbox = {} /\ acked = {}

Appendable(r) == \A x \in inbox : x.id # r.id /\ x.handle < r.handle

Append(r) ==
    /\ Appendable(r)
    /\ inbox' = inbox \cup {r}
    /\ UNCHANGED acked

Acknowledge(r) ==
    /\ r \in inbox
    /\ acked' = acked \cup {r}
    /\ UNCHANGED inbox

Next == \E r \in Receipt : Append(r) \/ Acknowledge(r)

Spec == Init /\ [][Next]_<<inbox, acked>>
=============================================================================
