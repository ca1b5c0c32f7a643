---------------------------- MODULE ProductOutbox ----------------------------
(***************************************************************************)
(* The outbound LXMF journal (firmware/e290/src/product_outbox.rs): one    *)
(* flash sector per accepted message, appended and never erased.  A record *)
(* is programmed claim, body, commit marker; a fourth marker records the   *)
(* delivery receipt.  accept and mark_delivered are split at every flash   *)
(* access, because power may fail and the backend may report an error at   *)
(* each of them; everything in RAM is rebuilt by mount.                    *)
(***************************************************************************)
EXTENDS Naturals, NorFlash

CONSTANTS
    Key,         \* principal-scoped idempotency keys
    Message,     \* composed messages: destination, message id and exact wire
    Malformed,   \* messages whose wire is not 96..512 bytes for its destination
    Capacity,    \* OUTBOX_RECORD_CAPACITY
    None         \* no entry, no candidate

ASSUME OutboxAssumption ==
    /\ Capacity \in Nat \ {0}
    /\ Malformed \subseteq Message
    /\ None \notin [key : Key, msg : Message]
    /\ None \notin [cand : [key : Key, msg : Message], delivered : BOOLEAN]

Slot == 0 .. Capacity - 1
Candidate == [key : Key, msg : Message]
OutboxEntry == [cand : Candidate, delivered : BOOLEAN]

\* Program levels of a record: the claim, the body (header, wire and digest in
\* one write) and the commit marker are its fields.
Claimed == 2
BodyWritten == 4
Committed == 6

VARIABLES
    media,      \* flash: level and contents of each record, its delivered marker
    index,      \* MountedOutbox.index, by slot, which is its commit order
    next_slot,  \* MountedOutbox.next_slot
    pc,         \* where the running call is; "off" without power,
                \* "unavailable" when mount failed and the product runs without outbox
    op,         \* the candidate of the running accept
    target,     \* the slot of the running mark_delivered
    acked       \* submissions a caller was told are durable (Accepted or Replay)

vars == <<media, index, next_slot, pc, op, target, acked>>
ram == <<index, next_slot>>

Idle == {"off", "unavailable", "idle"}
Writing == {"claim", "body", "commit"}
ControlState == Idle \cup Writing \cup
    {"reconcile", "decide", "verify", "recover", "recovered", "mark", "mark_verify"}

TypeOK ==
    /\ media \in [Slot -> [level : 0 .. Committed, cand : Candidate \cup {None}, mark : Mark]]
    /\ index \in [Slot -> OutboxEntry \cup {None}]
    /\ next_slot \in 0 .. Capacity
    /\ pc \in ControlState
    /\ op \in Candidate \cup {None}
    /\ target \in Slot \cup {None}
    /\ acked \subseteq [cand : Candidate, slot : Slot]

IsErased(s) == media[s].level = Erased
IsCommitted(s) == media[s].level = Committed

\* inspect_record of a committed record.
EntryAt(s) == [cand |-> media[s].cand, delivered |-> media[s].mark = MarkComplete]

Indexed == {s \in Slot : index[s] # None}

\* idempotency: the indexed record of a key.
Holding(key) == {s \in Indexed : index[s].cand.key = key}

\* Mutant: any undelivered intent.
NextPendingAny(s) ==
    /\ s \in Indexed
    /\ ~index[s].delivered

\* next_pending: the first undelivered intent in commit order.
NextPending(s) ==
    /\ s \in Indexed
    /\ ~index[s].delivered
    /\ \A t \in Indexed : t < s => index[t].delivered

Init ==
    /\ media = [s \in Slot |-> [level |-> Erased, cand |-> None, mark |-> 0]]
    /\ index = [s \in Slot |-> None]
    /\ next_slot = 0
    /\ pc = "off"
    /\ op = None
    /\ target = None
    /\ acked = {}

(***************************************************************************)
(* mount.  A torn or committed record behind an erased one is Corrupt.     *)
(***************************************************************************)
Mountable == \A s, t \in Slot : s < t /\ IsErased(s) => IsErased(t)

FirstErased(n) ==
    /\ \A s \in Slot : s < n => ~IsErased(s)
    /\ n \in Slot => IsErased(n)

Mount ==
    /\ pc = "off"
    /\ Mountable
    /\ \E n \in 0 .. Capacity : FirstErased(n) /\ next_slot' = n
    /\ index' = [s \in Slot |-> IF IsCommitted(s) THEN EntryAt(s) ELSE None]
    /\ pc' = "idle"
    /\ UNCHANGED <<media, op, target, acked>>

\* A read error or corrupt media: the product boots without its outbox.
MountFails ==
    /\ pc = "off"
    /\ pc' = "unavailable"
    /\ UNCHANGED <<media, index, next_slot, op, target, acked>>

(***************************************************************************)
(* accept.                                                                 *)
(***************************************************************************)
Return == pc' = "idle" /\ op' = None
Acknowledge(s) == acked' = acked \cup {[cand |-> op, slot |-> s]}

AcceptCall(c) ==
    /\ pc = "idle"
    /\ pc' = "reconcile"
    /\ op' = c
    /\ UNCHANGED <<media, index, next_slot, target, acked>>

\* One turn of reconcile_append_frontier, called on entry ("reconcile") and after a
\* failed write ("recover").
Reconciling == pc \in {"reconcile", "recover"}
AfterReconcile == IF pc = "reconcile" THEN "decide" ELSE "recovered"

ReconcileDone ==
    /\ Reconciling
    /\ next_slot \in Slot => IsErased(next_slot)
    /\ pc' = AfterReconcile
    /\ UNCHANGED <<media, index, next_slot, op, target, acked>>

ReconcileTorn ==
    /\ Reconciling
    /\ next_slot \in Slot
    /\ ~IsErased(next_slot)
    /\ ~IsCommitted(next_slot)
    /\ next_slot' = next_slot + 1
    /\ UNCHANGED <<media, index, pc, op, target, acked>>

ReconcileCommitted ==
    /\ Reconciling
    /\ next_slot \in Slot
    /\ IsCommitted(next_slot)
    /\ index[next_slot] = None
    /\ index' = [index EXCEPT ![next_slot] = EntryAt(next_slot)]
    /\ next_slot' = next_slot + 1
    /\ UNCHANGED <<media, pc, op, target, acked>>

\* The record at the frontier cannot be read: accept returns the error.
ReconcileError ==
    /\ Reconciling
    /\ next_slot \in Slot
    /\ Return
    /\ UNCHANGED <<media, index, next_slot, target, acked>>

\* InvalidCandidate, IdempotencyConflict and CapacityExhausted.
AcceptRefused ==
    /\ pc = "decide"
    /\ \/ op.msg \in Malformed
       \/ \E s \in Holding(op.key) : index[s].cand # op
       \/ Holding(op.key) = {} /\ next_slot = Capacity
    /\ Return
    /\ UNCHANGED <<media, index, next_slot, target, acked>>

\* Mutant: replay any message under the key, whatever its content.
AcceptReplayAnyContent ==
    /\ pc = "decide"
    /\ op.msg \notin Malformed
    /\ \E s \in Holding(op.key) : Acknowledge(s)
    /\ Return
    /\ UNCHANGED <<media, index, next_slot, target>>

\* The exact message is already durable under this key.
AcceptReplay ==
    /\ pc = "decide"
    /\ op.msg \notin Malformed
    /\ \E s \in Holding(op.key) : index[s].cand = op /\ Acknowledge(s)
    /\ Return
    /\ UNCHANGED <<media, index, next_slot, target>>

\* Mutant: append without looking the key up.
AcceptWriteAlways ==
    /\ pc = "decide"
    /\ op.msg \notin Malformed
    /\ next_slot \in Slot
    /\ IsErased(next_slot)
    /\ pc' = "claim"
    /\ UNCHANGED <<media, index, next_slot, op, target, acked>>

\* write_record begins with ensure_erased.
AcceptWrite ==
    /\ pc = "decide"
    /\ op.msg \notin Malformed
    /\ Holding(op.key) = {}
    /\ next_slot \in Slot
    /\ IsErased(next_slot)
    /\ pc' = "claim"
    /\ UNCHANGED <<media, index, next_slot, op, target, acked>>

\* A sector that is not erased, or cannot be read, is a failed write.
AcceptNotErased ==
    /\ pc = "decide"
    /\ op.msg \notin Malformed
    /\ Holding(op.key) = {}
    /\ next_slot \in Slot
    /\ pc' = "recover"
    /\ UNCHANGED <<media, index, next_slot, op, target, acked>>

AfterWrite == CASE pc = "claim" -> "body" [] pc = "body" -> "commit" [] pc = "commit" -> "verify"

\* The body carries the candidate.
Program(level) ==
    media' = [media EXCEPT ![next_slot].level = level,
                           ![next_slot].cand = IF level < BodyWritten THEN None ELSE op]

WriteField ==
    /\ pc \in Writing
    /\ Program(Programmed(media[next_slot].level))
    /\ pc' = AfterWrite
    /\ UNCHANGED <<index, next_slot, op, target, acked>>

\* The backend reports an error: the field may nevertheless have been programmed.
WriteFieldError ==
    /\ pc \in Writing
    /\ \E level \in TornOrProgrammed(media[next_slot].level) : Program(level)
    /\ pc' = "recover"
    /\ UNCHANGED <<index, next_slot, op, target, acked>>

\* Mutant: the frontier moves one record too far.
AcceptVerifiedSkipping ==
    /\ pc = "verify"
    /\ index' = [index EXCEPT ![next_slot] = EntryAt(next_slot)]
    /\ next_slot' = next_slot + 2
    /\ Acknowledge(next_slot)
    /\ Return
    /\ UNCHANGED <<media, target>>

AcceptVerified ==
    /\ pc = "verify"
    /\ IsCommitted(next_slot)
    /\ EntryAt(next_slot) = [cand |-> op, delivered |-> FALSE]
    /\ index' = [index EXCEPT ![next_slot] = EntryAt(next_slot)]
    /\ next_slot' = next_slot + 1
    /\ Acknowledge(next_slot)
    /\ Return
    /\ UNCHANGED <<media, target>>

\* Mutant: give the unverified record up for lost.
AcceptUnverifiedAdvancing ==
    /\ pc = "verify"
    /\ next_slot' = next_slot + 1
    /\ Return
    /\ UNCHANGED <<media, index, target, acked>>

\* inspect_record fails after the commit marker: accept returns the error and leaves
\* the committed record for the next reconciliation.
AcceptUnverified ==
    /\ pc = "verify"
    /\ Return
    /\ UNCHANGED <<media, index, next_slot, target, acked>>

\* A write failed and reconciliation succeeded: the exact record counts as a replay,
\* otherwise accept returns the write error.
AcceptRecovered ==
    /\ pc = "recovered"
    /\ \E s \in Holding(op.key) : index[s].cand = op /\ Acknowledge(s)
    /\ Return
    /\ UNCHANGED <<media, index, next_slot, target>>

\* Mutant: never reuse a record a write failed on, programmed or not.
AcceptWriteErrorSkipping ==
    /\ pc = "recovered"
    /\ \A s \in Holding(op.key) : index[s].cand # op
    /\ next_slot' = IF next_slot \in Slot THEN next_slot + 1 ELSE next_slot
    /\ Return
    /\ UNCHANGED <<media, index, target, acked>>

AcceptWriteError ==
    /\ pc = "recovered"
    /\ \A s \in Holding(op.key) : index[s].cand # op
    /\ Return
    /\ UNCHANGED <<media, index, next_slot, target, acked>>

(***************************************************************************)
(* mark_delivered, for an entry the caller holds a copy of.                *)
(***************************************************************************)
MarkDelivered(s) ==
    /\ pc = "idle"
    /\ s \in Indexed
    /\ ~index[s].delivered
    /\ pc' = "mark"
    /\ target' = s
    /\ UNCHANGED <<media, index, next_slot, op, acked>>

MarkProgram(m) == media' = [media EXCEPT ![target].mark = m]

MarkWrite ==
    /\ pc = "mark"
    /\ MarkProgram(MarkComplete)
    /\ pc' = "mark_verify"
    /\ UNCHANGED <<index, next_slot, op, target, acked>>

\* The record is inspected after a write error too: the error only selects what is
\* returned when the marker is incomplete.
MarkWriteError ==
    /\ pc = "mark"
    /\ \E m \in MarkOutcomes(media[target].mark) : MarkProgram(m)
    /\ pc' = "mark_verify"
    /\ UNCHANGED <<index, next_slot, op, target, acked>>

\* Mutant: trust the write without reading the marker back.
MarkVerifiedUnread ==
    /\ pc = "mark_verify"
    /\ index' = [index EXCEPT ![target].delivered = TRUE]
    /\ pc' = "idle"
    /\ target' = None
    /\ UNCHANGED <<media, next_slot, op, acked>>

MarkVerified ==
    /\ pc = "mark_verify"
    /\ media[target].mark = MarkComplete
    /\ index' = [index EXCEPT ![target] = EntryAt(target)]
    /\ pc' = "idle"
    /\ target' = None
    /\ UNCHANGED <<media, next_slot, op, acked>>

MarkTorn ==
    /\ pc = "mark_verify"
    /\ media[target].mark # MarkComplete
    /\ pc' = "idle"
    /\ target' = None
    /\ UNCHANGED <<media, index, next_slot, op, acked>>

\* The record cannot be read back, complete or not.
MarkUnread ==
    /\ pc = "mark_verify"
    /\ pc' = "idle"
    /\ target' = None
    /\ UNCHANGED <<media, index, next_slot, op, acked>>

(***************************************************************************)
(* Power loss, at any point and in the middle of the current write.        *)
(***************************************************************************)
Interrupted ==
    \/ UNCHANGED media
    \/ /\ pc \in Writing
       /\ \E level \in TornOrProgrammed(media[next_slot].level) : Program(level)
    \/ /\ pc = "mark"
       /\ \E m \in MarkOutcomes(media[target].mark) : MarkProgram(m)

PowerLoss ==
    /\ pc # "off"
    /\ Interrupted
    /\ index' = [s \in Slot |-> None]
    /\ next_slot' = 0
    /\ pc' = "off"
    /\ op' = None
    /\ target' = None
    /\ UNCHANGED acked

\* What the calls do while the flash works, and what its faults make them do.
AcceptStep ==
    \/ ReconcileDone \/ ReconcileTorn \/ ReconcileCommitted
    \/ AcceptRefused \/ AcceptReplay \/ AcceptWrite
    \/ WriteField \/ AcceptVerified \/ AcceptRecovered \/ AcceptWriteError

MarkStep == MarkWrite \/ MarkVerified \/ MarkTorn

FlashFault ==
    \/ MountFails
    \/ ReconcileError \/ AcceptNotErased \/ WriteFieldError \/ AcceptUnverified
    \/ MarkWriteError \/ MarkUnread

Next ==
    \/ Mount
    \/ \E c \in Candidate : AcceptCall(c)
    \/ AcceptStep
    \/ \E s \in Slot : MarkDelivered(s)
    \/ MarkStep
    \/ FlashFault
    \/ PowerLoss

Spec == Init /\ [][Next]_vars

(***************************************************************************)
(* Properties.                                                             *)
(***************************************************************************)
\* Every submission a caller was told is Accepted or a Replay is a committed record
\* under the submission identifier it was given, in every state and after every power
\* loss, torn program or backend error ("Accepted product intent is persisted before
\* product success is reported").
AckedIsDurable ==
    \A a \in acked : IsCommitted(a.slot) /\ media[a.slot].cand = a.cand

\* No idempotency key ever owns two committed records, although accept may report an
\* error for a record that did commit and the caller then repeats the call: the
\* reconciliation at the head of accept finds that record first.
OneRecordPerKey ==
    \A s, t \in Slot :
        IsCommitted(s) /\ IsCommitted(t) /\ media[s].cand.key = media[t].cand.key => s = t

\* Whatever sequence of calls, errors and power losses led here, mount accepts the
\* media: accept never leaves an erased record in front of a programmed one.
AlwaysMountable == Mountable

\* Outside a running accept the index is the committed media up to the append frontier:
\* it holds exactly the committed records below next_slot, with their candidates, claims
\* no delivery the media lacks, and the media beyond the frontier record is untouched.
IndexMatchesMedia ==
    pc = "idle" =>
        /\ \A s \in Slot : s < next_slot => (s \in Indexed <=> IsCommitted(s))
        /\ \A s \in Slot : s >= next_slot => s \notin Indexed
        /\ \A s \in Indexed :
              /\ index[s].cand = media[s].cand
              /\ index[s].delivered => media[s].mark = MarkComplete
        /\ \A s \in Slot : s > next_slot => IsErased(s)

(***************************************************************************)
(* The promise of the journal, as an abstract specification.               *)
(***************************************************************************)
Durable == INSTANCE DurableOutbox WITH
    records <- [s \in Slot |-> IF IsCommitted(s) THEN media[s].cand ELSE None],
    delivered <- {s \in Slot : media[s].mark = MarkComplete},
    acked <- acked

\* Every step of the journal, power loss and torn program included, is a step of
\* DurableOutbox: append one record under a fresh key, deliver one, acknowledge one, or
\* nothing.
ImplementsDurableOutbox == Durable!Spec
=============================================================================
