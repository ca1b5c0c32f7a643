------------------------ MODULE ProductOutboxProofs ------------------------
(***************************************************************************)
(* The journal's safety properties, for every capacity, key and message    *)
(* set.  OutboxInv is the inductive invariant: the media part holds across *)
(* power loss, the frontier part says what a mounted index knows of the    *)
(* media, and the call part what a running call has established.           *)
(***************************************************************************)
EXTENDS ProductOutbox, TLAPS

MarkedIsCommitted == \A s \in Slot : media[s].mark # 0 => IsCommitted(s)
BodyHasCandidate == \A s \in Slot : media[s].level >= BodyWritten => media[s].cand \in Candidate

MediaInv ==
    /\ Mountable
    /\ OneRecordPerKey
    /\ AckedIsDurable
    /\ MarkedIsCommitted
    /\ BodyHasCandidate

FrontierInv ==
    /\ \A s \in Slot : s < next_slot => ~IsErased(s) /\ (IsCommitted(s) <=> s \in Indexed)
    /\ \A s \in Slot : s >= next_slot => s \notin Indexed
    /\ \A s \in Slot : s > next_slot => IsErased(s)
    /\ \A s \in Indexed :
          /\ index[s].cand = media[s].cand
          /\ index[s].delivered => media[s].mark = MarkComplete

Accepting == Writing \cup {"reconcile", "decide", "verify", "recover", "recovered"}

CallInv ==
    /\ pc \in Accepting => op \in Candidate
    /\ pc = "decide" /\ next_slot \in Slot => IsErased(next_slot)
    /\ pc \in Writing \cup {"verify"} =>
          /\ next_slot \in Slot
          /\ \A s \in Indexed : index[s].cand.key # op.key
    /\ pc = "claim" => media[next_slot].level = Erased
    /\ pc = "body" => media[next_slot].level = Claimed
    /\ pc = "commit" => media[next_slot].level = BodyWritten
    /\ pc = "verify" => IsCommitted(next_slot) /\ media[next_slot].cand = op
    /\ pc \in {"mark", "mark_verify"} => target \in Indexed

Mounted == pc \notin {"off", "unavailable"}

OutboxInv ==
    /\ TypeOK
    /\ MediaInv
    /\ Mounted => FrontierInv
    /\ CallInv

USE OutboxAssumption DEF Slot, Erased, Claimed, BodyWritten, Committed, Mark, MarkComplete

-----------------------------------------------------------------------------
\* The initial state: erased media, power off.
LEMMA InitInv == Init => OutboxInv
  BY DEF Init, OutboxInv, TypeOK, MediaInv, Mountable, OneRecordPerKey, AckedIsDurable,
         MarkedIsCommitted, BodyHasCandidate, CallInv, Mounted, Accepting, Writing,
         ControlState, Idle, IsErased, IsCommitted, Candidate, OutboxEntry

\* What one program of write_record does to the media.
LEMMA ProgramEffect ==
  ASSUME TypeOK, next_slot \in Slot, NEW level \in 0 .. Committed, Program(level), op \in Candidate
  PROVE  /\ media' \in [Slot -> [level : 0 .. Committed, cand : Candidate \cup {None}, mark : Mark]]
         /\ \A s \in Slot : s # next_slot => media'[s] = media[s]
         /\ media'[next_slot].level = level
         /\ media'[next_slot].cand = IF level < BodyWritten THEN None ELSE op
         /\ media'[next_slot].mark = media[next_slot].mark
  BY DEF TypeOK, Program

\* What programming the delivered marker does to the media.
LEMMA MarkEffect ==
  ASSUME TypeOK, target \in Slot, NEW m \in Mark, MarkProgram(m)
  PROVE  /\ media' \in [Slot -> [level : 0 .. Committed, cand : Candidate \cup {None}, mark : Mark]]
         /\ \A s \in Slot : media'[s].level = media[s].level /\ media'[s].cand = media[s].cand
         /\ \A s \in Slot : s # target => media'[s].mark = media[s].mark
         /\ media'[target].mark = m
  BY DEF TypeOK, MarkProgram

\* Programming one more field of the record at the frontier, completely or not, keeps
\* the media part of the invariant: the frontier record is the first erased one or
\* already claimed, and the key it may commit is not indexed, hence not committed.
LEMMA ProgramKeepsMedia ==
  ASSUME OutboxInv, pc \in Writing, UNCHANGED acked,
         NEW level \in TornOrProgrammed(media[next_slot].level), Program(level)
  PROVE  /\ level \in 0 .. Committed
         /\ MediaInv'
         /\ media' \in [Slot -> [level : 0 .. Committed, cand : Candidate \cup {None}, mark : Mark]]
<1> USE DEF OutboxInv, CallInv
<1>1. /\ op \in Candidate /\ next_slot \in Slot
      /\ media[next_slot].level \in {0, 2, 4}
      /\ level \in 0 .. Committed
      /\ Mounted
  BY DEF Accepting, Writing, TornOrProgrammed, Mounted
<1>2. /\ media' \in [Slot -> [level : 0 .. Committed, cand : Candidate \cup {None}, mark : Mark]]
      /\ \A s \in Slot : s # next_slot => media'[s] = media[s]
      /\ media'[next_slot].level = level
      /\ media'[next_slot].cand = IF level < BodyWritten THEN None ELSE op
      /\ media'[next_slot].mark = media[next_slot].mark
  BY <1>1, ProgramEffect
<1>3. Mountable'
  BY <1>1, <1>2 DEF Mountable, IsErased, FrontierInv, TypeOK
<1>4. OneRecordPerKey'
  <2> SUFFICES ASSUME NEW s \in Slot, NEW t \in Slot, IsCommitted(s)', IsCommitted(t)',
                      media'[s].cand.key = media'[t].cand.key
               PROVE  s = t
    BY DEF OneRecordPerKey
  <2>1. \A r \in Slot : r # next_slot /\ IsCommitted(r) => media[r].cand.key # op.key
    BY <1>1 DEF IsCommitted, IsErased, FrontierInv, TypeOK, Indexed
  <2>2. CASE s # next_slot /\ t # next_slot
    BY <1>2, <2>2 DEF IsCommitted, OneRecordPerKey, MediaInv
  <2>3. CASE s = next_slot /\ t # next_slot
    BY <1>1, <1>2, <2>1, <2>3 DEF IsCommitted
  <2>4. CASE s # next_slot /\ t = next_slot
    BY <1>1, <1>2, <2>1, <2>4 DEF IsCommitted
  <2> QED BY <2>2, <2>3, <2>4
<1>5. AckedIsDurable'
  BY <1>1, <1>2 DEF AckedIsDurable, MediaInv, IsCommitted, TypeOK
<1>6. MarkedIsCommitted'
  BY <1>1, <1>2 DEF MarkedIsCommitted, MediaInv, IsCommitted, TypeOK
<1>7. BodyHasCandidate'
  BY <1>1, <1>2 DEF BodyHasCandidate, MediaInv
<1> QED BY <1>1, <1>2, <1>3, <1>4, <1>5, <1>6, <1>7 DEF MediaInv

\* Programming the delivered marker of an indexed record keeps the media part.
LEMMA MarkKeepsMedia ==
  ASSUME OutboxInv, pc = "mark", UNCHANGED acked,
         NEW m \in Mark, MarkProgram(m)
  PROVE  /\ MediaInv'
         /\ media' \in [Slot -> [level : 0 .. Committed, cand : Candidate \cup {None}, mark : Mark]]
<1>1. target \in Slot /\ target \in Indexed /\ IsCommitted(target)
  BY DEF OutboxInv, CallInv, Mounted, FrontierInv, Indexed, TypeOK
<1>2. /\ media' \in [Slot -> [level : 0 .. Committed, cand : Candidate \cup {None}, mark : Mark]]
      /\ \A s \in Slot : media'[s].level = media[s].level /\ media'[s].cand = media[s].cand
      /\ \A s \in Slot : s # target => media'[s].mark = media[s].mark
  BY <1>1, MarkEffect DEF OutboxInv
<1>3. MediaInv'
  BY <1>1, <1>2 DEF OutboxInv, TypeOK, MediaInv, Mountable, OneRecordPerKey, AckedIsDurable,
                    MarkedIsCommitted, BodyHasCandidate, IsErased, IsCommitted
<1> QED BY <1>2, <1>3

\* Media and acknowledgements untouched: the media part holds.
LEMMA MediaFrame ==
  ASSUME MediaInv, UNCHANGED <<media, acked>>
  PROVE  MediaInv'
  BY DEF MediaInv, Mountable, OneRecordPerKey, AckedIsDurable, MarkedIsCommitted,
         BodyHasCandidate, IsErased, IsCommitted

\* Nothing of what the frontier part reads changed.
LEMMA FrontierFrame ==
  ASSUME FrontierInv, UNCHANGED <<media, index, next_slot>>
  PROVE  FrontierInv'
  BY DEF FrontierInv, Indexed, IsErased, IsCommitted

\* Returning from a call establishes the call part.
LEMMA ReturnCall ==
  ASSUME pc' = "idle"
  PROVE  CallInv'
  BY DEF CallInv, Accepting, Writing

\* inspect_record of a committed record yields a proper entry.
LEMMA EntryTyped ==
  ASSUME TypeOK, MediaInv, NEW s \in Slot, IsCommitted(s)
  PROVE  EntryAt(s) \in OutboxEntry /\ EntryAt(s) # None
<1>1. media[s].cand \in Candidate
  BY DEF MediaInv, BodyHasCandidate, IsCommitted
<1>2. EntryAt(s) \in OutboxEntry
  BY <1>1, Zenon DEF EntryAt, OutboxEntry
<1>3. None \notin OutboxEntry
  BY DEF OutboxEntry, Candidate
<1> QED BY <1>2, <1>3, Zenon

\* mount: the index is the committed media up to the first erased record.
LEMMA MountStep ==
  ASSUME OutboxInv, Mount
  PROVE  OutboxInv'
<1> USE DEF OutboxInv, Mount
<1>1. MediaInv'
  BY MediaFrame
<1>2. TypeOK'
  BY DEF TypeOK, EntryAt, IsCommitted, MediaInv, BodyHasCandidate, ControlState, Idle, OutboxEntry
<1>3. FrontierInv'
  <2>1. /\ next_slot' \in 0 .. Capacity
        /\ \A s \in Slot : s < next_slot' => ~IsErased(s)
        /\ next_slot' \in Slot => IsErased(next_slot')
    BY DEF FirstErased
  <2>2. \A s \in Slot : s > next_slot' => IsErased(s)
    BY <2>1 DEF Mountable
  <2>3. \A s \in Slot : s \in Indexed' <=> IsCommitted(s)
    BY EntryTyped DEF Indexed
  <2>4. \A s \in Slot : s \in Indexed' => index'[s] = EntryAt(s)
    BY <2>3
  <2>5. \A s \in Slot : s >= next_slot' => ~IsCommitted(s)
    BY <2>1, <2>2 DEF IsErased, IsCommitted
  <2>6. Indexed' \subseteq Slot
    BY DEF Indexed
  <2> QED BY <2>1, <2>2, <2>3, <2>4, <2>5, <2>6 DEF FrontierInv, EntryAt, IsErased, IsCommitted
<1>4. CallInv'
  BY ReturnCall
<1> QED BY <1>1, <1>2, <1>3, <1>4

\* The record at the frontier joins the index: reconcile_append_frontier and accept.
LEMMA IndexFrontier ==
  ASSUME OutboxInv, Mounted, next_slot \in Slot, IsCommitted(next_slot),
         index' = [index EXCEPT ![next_slot] = EntryAt(next_slot)],
         next_slot' = next_slot + 1,
         UNCHANGED media
  PROVE  /\ FrontierInv'
         /\ index' \in [Slot -> OutboxEntry \cup {None}]
         /\ next_slot' \in 0 .. Capacity
<1> USE DEF OutboxInv
<1>1. EntryAt(next_slot) \in OutboxEntry /\ EntryAt(next_slot) # None
  BY EntryTyped
<1>2. /\ index' \in [Slot -> OutboxEntry \cup {None}]
      /\ next_slot' \in 0 .. Capacity
  BY <1>1 DEF TypeOK
<1>3. \A s \in Slot : s \in Indexed' <=> s \in Indexed \/ s = next_slot
  BY <1>1 DEF Indexed, TypeOK
<1>4. Indexed' \subseteq Slot /\ Indexed \subseteq Slot
  BY DEF Indexed
<1>5. \A s \in Indexed' :
         /\ index'[s].cand = media'[s].cand
         /\ index'[s].delivered => media'[s].mark = MarkComplete
  BY <1>3, <1>4 DEF FrontierInv, EntryAt, TypeOK
<1>6. FrontierInv'
  <2>1. \A s \in Slot : s < next_slot' => ~IsErased(s)' /\ (IsCommitted(s)' <=> s \in Indexed')
    BY <1>3 DEF FrontierInv, IsErased, IsCommitted, TypeOK
  <2>2. \A s \in Slot : s >= next_slot' => s \notin Indexed'
    BY <1>3 DEF FrontierInv, TypeOK
  <2>3. \A s \in Slot : s > next_slot' => IsErased(s)'
    BY DEF FrontierInv, TypeOK, IsErased
  <2> QED BY <1>5, <2>1, <2>2, <2>3 DEF FrontierInv
<1> QED BY <1>2, <1>6

\* An acknowledgement of a record whose candidate is the caller's keeps the media part.
LEMMA AckKeepsMedia ==
  ASSUME TypeOK, MediaInv, NEW s \in Slot, Acknowledge(s), op \in Candidate,
         IsCommitted(s), media[s].cand = op, UNCHANGED media
  PROVE  MediaInv' /\ acked' \subseteq [cand : Candidate, slot : Slot]
  BY DEF MediaInv, Mountable, OneRecordPerKey, AckedIsDurable, MarkedIsCommitted,
         BodyHasCandidate, IsErased, IsCommitted, Acknowledge, TypeOK

\* The steps of accept that neither program the media nor acknowledge.
LEMMA AcceptControlSteps ==
  ASSUME OutboxInv,
         \/ \E c \in Candidate : AcceptCall(c)
         \/ ReconcileDone \/ ReconcileTorn \/ ReconcileCommitted \/ ReconcileError
         \/ AcceptRefused \/ AcceptWrite \/ AcceptNotErased \/ AcceptUnverified \/ AcceptWriteError
  PROVE  OutboxInv'
<1> USE DEF OutboxInv
<1>0. MediaInv'
  BY MediaFrame DEF AcceptCall, ReconcileDone, ReconcileTorn, ReconcileCommitted, ReconcileError,
     AcceptRefused, AcceptWrite, AcceptNotErased, AcceptUnverified, AcceptWriteError
<1>1. ASSUME NEW c \in Candidate, AcceptCall(c) PROVE OutboxInv'
  <2>1. FrontierInv' BY <1>1, FrontierFrame DEF AcceptCall, Mounted
  <2> QED BY <1>0, <1>1, <2>1 DEF AcceptCall, TypeOK, ControlState, CallInv, Accepting, Writing
<1>2. CASE ReconcileDone
  <2>1. FrontierInv' BY <1>2, FrontierFrame DEF ReconcileDone, Reconciling, Mounted
  <2> QED BY <1>0, <1>2, <2>1 DEF ReconcileDone, Reconciling, AfterReconcile, TypeOK, ControlState,
                                  CallInv, Accepting, Writing, IsErased
<1>3. CASE ReconcileTorn
  <2>1. FrontierInv'
    BY <1>3 DEF ReconcileTorn, Reconciling, Mounted, FrontierInv, Indexed, IsErased, IsCommitted, TypeOK
  <2>2. TypeOK'
    BY <1>3 DEF ReconcileTorn, TypeOK
  <2> QED BY <1>0, <1>3, <2>1, <2>2 DEF ReconcileTorn, Reconciling, CallInv, Accepting, Writing
<1>4. CASE ReconcileCommitted
  <2>1. /\ FrontierInv'
        /\ index' \in [Slot -> OutboxEntry \cup {None}]
        /\ next_slot' \in 0 .. Capacity
    BY <1>4, IndexFrontier DEF ReconcileCommitted, Reconciling, Mounted
  <2> QED BY <1>0, <1>4, <2>1 DEF ReconcileCommitted, Reconciling, TypeOK, CallInv, Accepting, Writing
<1>5. CASE ReconcileError
  <2>1. FrontierInv' BY <1>5, FrontierFrame DEF ReconcileError, Reconciling, Mounted
  <2> QED BY <1>0, <1>5, <2>1, ReturnCall DEF ReconcileError, Return, TypeOK, ControlState, Idle
<1>6. CASE AcceptRefused
  <2>1. FrontierInv' BY <1>6, FrontierFrame DEF AcceptRefused, Mounted
  <2> QED BY <1>0, <1>6, <2>1, ReturnCall DEF AcceptRefused, Return, TypeOK, ControlState, Idle
<1>7. CASE AcceptWrite
  <2>1. FrontierInv' BY <1>7, FrontierFrame DEF AcceptWrite, Mounted
  <2>2. TypeOK' BY <1>7 DEF AcceptWrite, TypeOK, ControlState, Writing
  <2>3. CallInv'
    BY <1>7 DEF AcceptWrite, CallInv, Accepting, Writing, Holding, Indexed, IsErased
  <2> QED BY <1>0, <2>1, <2>2, <2>3
<1>8. CASE AcceptNotErased
  <2>1. FrontierInv' BY <1>8, FrontierFrame DEF AcceptNotErased, Mounted
  <2> QED BY <1>0, <1>8, <2>1 DEF AcceptNotErased, TypeOK, ControlState, CallInv, Accepting, Writing
<1>9. CASE AcceptUnverified
  <2>1. FrontierInv' BY <1>9, FrontierFrame DEF AcceptUnverified, Mounted
  <2> QED BY <1>0, <1>9, <2>1, ReturnCall DEF AcceptUnverified, Return, TypeOK, ControlState, Idle
<1>10. CASE AcceptWriteError
  <2>1. FrontierInv' BY <1>10, FrontierFrame DEF AcceptWriteError, Mounted
  <2> QED BY <1>0, <1>10, <2>1, ReturnCall DEF AcceptWriteError, Return, TypeOK, ControlState, Idle
<1> QED BY <1>1, <1>2, <1>3, <1>4, <1>5, <1>6, <1>7, <1>8, <1>9, <1>10

\* The steps of accept that acknowledge: the record is committed with the caller's
\* candidate, by the index (Replay) or by inspection (Accepted).
LEMMA AcceptAckSteps ==
  ASSUME OutboxInv, AcceptReplay \/ AcceptRecovered \/ AcceptVerified
  PROVE  OutboxInv'
<1> USE DEF OutboxInv
<1>1. CASE AcceptReplay \/ AcceptRecovered
  <2>0. op \in Candidate /\ Mounted
    BY <1>1 DEF AcceptReplay, AcceptRecovered, CallInv, Accepting, Mounted
  <2>1. FrontierInv' BY <1>1, <2>0, FrontierFrame DEF AcceptReplay, AcceptRecovered
  <2>2. PICK s \in Holding(op.key) : index[s].cand = op /\ Acknowledge(s)
    BY <1>1 DEF AcceptReplay, AcceptRecovered
  <2>3. s \in Slot /\ IsCommitted(s) /\ media[s].cand = op
    BY <2>0, <2>2 DEF Holding, Indexed, FrontierInv, TypeOK
  <2>4. MediaInv' /\ acked' \subseteq [cand : Candidate, slot : Slot]
    BY <1>1, <2>0, <2>2, <2>3, AckKeepsMedia DEF AcceptReplay, AcceptRecovered
  <2> QED BY <1>1, <2>1, <2>4, ReturnCall
          DEF AcceptReplay, AcceptRecovered, Return, TypeOK, ControlState, Idle
<1>2. CASE AcceptVerified
  <2>0. op \in Candidate /\ Mounted /\ next_slot \in Slot
    BY <1>2 DEF AcceptVerified, CallInv, Accepting, Mounted
  <2>1. /\ FrontierInv'
        /\ index' \in [Slot -> OutboxEntry \cup {None}]
        /\ next_slot' \in 0 .. Capacity
    BY <1>2, <2>0, IndexFrontier DEF AcceptVerified
  <2>2. IsCommitted(next_slot) /\ media[next_slot].cand = op
    BY <1>2 DEF AcceptVerified, CallInv
  <2>3. MediaInv' /\ acked' \subseteq [cand : Candidate, slot : Slot]
    BY <1>2, <2>0, <2>2, AckKeepsMedia DEF AcceptVerified
  <2> QED BY <1>2, <2>1, <2>3, ReturnCall DEF AcceptVerified, Return, TypeOK, ControlState, Idle
<1> QED BY <1>1, <1>2

\* The programs of write_record, reported successful or failed.
LEMMA WriteSteps ==
  ASSUME OutboxInv, WriteField \/ WriteFieldError
  PROVE  OutboxInv'
<1> USE DEF OutboxInv
<1>0. /\ pc \in Writing /\ op \in Candidate /\ next_slot \in Slot /\ Mounted
      /\ UNCHANGED <<index, next_slot, op, target, acked>>
      /\ media[next_slot].level \in 0 .. 4
  BY DEF WriteField, WriteFieldError, CallInv, Accepting, Writing, Mounted
<1>1. PICK level \in TornOrProgrammed(media[next_slot].level) : Program(level)
  BY DEF WriteField, WriteFieldError, TornOrProgrammed, Programmed
<1>2. /\ level \in 0 .. Committed
      /\ MediaInv'
      /\ media' \in [Slot -> [level : 0 .. Committed, cand : Candidate \cup {None}, mark : Mark]]
  BY <1>0, <1>1, ProgramKeepsMedia
<1>3. /\ \A s \in Slot : s # next_slot => media'[s] = media[s]
      /\ media'[next_slot].level = level
      /\ media'[next_slot].cand = IF level < BodyWritten THEN None ELSE op
  BY <1>0, <1>1, <1>2, ProgramEffect
<1>4. FrontierInv'
  BY <1>0, <1>3 DEF FrontierInv, Indexed, IsErased, IsCommitted, TypeOK
<1>5. CASE WriteFieldError
  BY <1>0, <1>2, <1>4, <1>5
     DEF WriteFieldError, TypeOK, ControlState, CallInv, Accepting, Writing
<1>6. CASE WriteField
  <2>1. media'[next_slot].level = media[next_slot].level + 2
    BY <1>0, <1>6, ProgramEffect DEF WriteField, Programmed
  <2>2. \/ pc = "claim" /\ pc' = "body"
        \/ pc = "body" /\ pc' = "commit"
        \/ pc = "commit" /\ pc' = "verify"
    BY <1>0, <1>6 DEF WriteField, AfterWrite, Writing
  <2>3. TypeOK'
    BY <1>0, <1>2, <2>2 DEF TypeOK, ControlState, Writing
  <2>4. CallInv'
    BY <1>0, <1>3, <2>1, <2>2 DEF CallInv, Accepting, Writing, IsCommitted, Indexed
  <2> QED BY <1>2, <1>4, <2>3, <2>4
<1> QED BY <1>5, <1>6

\* The steps of mark_delivered.
LEMMA MarkSteps ==
  ASSUME OutboxInv,
         \/ \E s \in Slot : MarkDelivered(s)
         \/ MarkWrite \/ MarkWriteError \/ MarkVerified \/ MarkTorn \/ MarkUnread
  PROVE  OutboxInv'
<1> USE DEF OutboxInv
<1>1. ASSUME NEW s \in Slot, MarkDelivered(s) PROVE OutboxInv'
  <2>1. FrontierInv' BY <1>1, FrontierFrame DEF MarkDelivered, Mounted
  <2> QED BY <1>1, <2>1, MediaFrame
          DEF MarkDelivered, TypeOK, ControlState, CallInv, Accepting, Writing, Indexed
<1>2. CASE MarkWrite \/ MarkWriteError
  <2>0. /\ pc = "mark" /\ Mounted /\ target \in Indexed /\ target \in Slot
        /\ media[target].mark \in Mark
    BY <1>2 DEF MarkWrite, MarkWriteError, Mounted, CallInv, Indexed, TypeOK
  <2>1. PICK m \in Mark : MarkProgram(m) /\ m >= media[target].mark
    BY <1>2, <2>0 DEF MarkWrite, MarkWriteError, MarkOutcomes
  <2>2. /\ MediaInv'
        /\ media' \in [Slot -> [level : 0 .. Committed, cand : Candidate \cup {None}, mark : Mark]]
    BY <1>2, <2>0, <2>1, MarkKeepsMedia DEF MarkWrite, MarkWriteError
  <2>3. /\ \A s \in Slot : media'[s].level = media[s].level /\ media'[s].cand = media[s].cand
        /\ \A s \in Slot : s # target => media'[s].mark = media[s].mark
        /\ media'[target].mark = m
    BY <2>0, <2>1, MarkEffect
  <2>4. FrontierInv'
    BY <1>2, <2>0, <2>1, <2>3
       DEF MarkWrite, MarkWriteError, FrontierInv, Indexed, IsErased, IsCommitted, TypeOK
  <2> QED BY <1>2, <2>0, <2>2, <2>4
          DEF MarkWrite, MarkWriteError, TypeOK, ControlState, CallInv, Accepting, Writing, Indexed
<1>3. CASE MarkVerified
  <2>0. target \in Indexed /\ target \in Slot /\ IsCommitted(target) /\ Mounted
    BY <1>3 DEF MarkVerified, Mounted, CallInv, Indexed, FrontierInv, TypeOK
  <2>1. EntryAt(target) \in OutboxEntry /\ EntryAt(target) # None
    BY <2>0, EntryTyped
  <2>2. Indexed' = Indexed
    BY <1>3, <2>0, <2>1 DEF MarkVerified, Indexed, TypeOK
  <2>3. FrontierInv'
    BY <1>3, <2>0, <2>2 DEF MarkVerified, FrontierInv, EntryAt, IsErased, IsCommitted, TypeOK, Indexed
  <2>4. TypeOK'
    BY <1>3, <2>1 DEF MarkVerified, TypeOK, ControlState, Idle
  <2> QED BY <1>3, <2>3, <2>4, MediaFrame, ReturnCall DEF MarkVerified
<1>4. CASE MarkTorn \/ MarkUnread
  <2>1. FrontierInv' BY <1>4, FrontierFrame DEF MarkTorn, MarkUnread, Mounted
  <2> QED BY <1>4, <2>1, MediaFrame, ReturnCall DEF MarkTorn, MarkUnread, TypeOK, ControlState, Idle
<1> QED BY <1>1, <1>2, <1>3, <1>4

\* Power loss keeps the media part whatever write it interrupts.
LEMMA PowerLossStep ==
  ASSUME OutboxInv, PowerLoss
  PROVE  OutboxInv'
<1> USE DEF OutboxInv
<1>1. /\ MediaInv'
      /\ media' \in [Slot -> [level : 0 .. Committed, cand : Candidate \cup {None}, mark : Mark]]
  <2>1. CASE UNCHANGED media
    BY <2>1, MediaFrame DEF PowerLoss, TypeOK
  <2>2. CASE pc \in Writing /\ \E level \in TornOrProgrammed(media[next_slot].level) : Program(level)
    BY <2>2, ProgramKeepsMedia DEF PowerLoss
  <2>3. CASE pc = "mark" /\ \E m \in MarkOutcomes(media[target].mark) : MarkProgram(m)
    BY <2>3, MarkKeepsMedia DEF PowerLoss, MarkOutcomes
  <2> QED BY <2>1, <2>2, <2>3 DEF PowerLoss, Interrupted
<1>2. TypeOK'
  BY <1>1 DEF PowerLoss, TypeOK, ControlState, Idle
<1>3. CallInv' /\ ~Mounted'
  BY DEF PowerLoss, CallInv, Accepting, Writing, Mounted
<1> QED BY <1>1, <1>2, <1>3

\* Every step of the journal keeps the invariant.
LEMMA NextInv == OutboxInv /\ [Next]_vars => OutboxInv'
<1> SUFFICES ASSUME OutboxInv, [Next]_vars PROVE OutboxInv'
  OBVIOUS
<1>1. CASE UNCHANGED vars
  <2>1. MediaInv' BY <1>1, MediaFrame DEF OutboxInv, vars
  <2>2. Mounted' => FrontierInv' BY <1>1, FrontierFrame DEF OutboxInv, vars, Mounted
  <2> QED BY <1>1, <2>1, <2>2 DEF OutboxInv, vars, TypeOK, CallInv, Indexed, IsErased, IsCommitted
<1>2. CASE MountFails
  BY <1>2, MediaFrame
     DEF MountFails, OutboxInv, TypeOK, ControlState, Idle, CallInv, Accepting, Writing, Mounted
<1> QED BY <1>1, <1>2, MountStep, AcceptControlSteps, AcceptAckSteps, WriteSteps, MarkSteps,
           PowerLossStep DEF Next, AcceptStep, MarkStep, FlashFault

\* The inductive invariant holds in every reachable state.
THEOREM OutboxInvariant == Spec => []OutboxInv
  BY InitInv, NextInv, PTL DEF Spec

-----------------------------------------------------------------------------
\* Types are preserved by mount, accept, mark_delivered, faults and power loss.
THEOREM OutboxTypeCorrect == Spec => []TypeOK
  BY OutboxInvariant, PTL DEF OutboxInv

\* An acknowledged submission is a committed record forever, whatever fails after it.
THEOREM OutboxAckedIsDurable == Spec => []AckedIsDurable
<1>1. OutboxInv => AckedIsDurable BY DEF OutboxInv, MediaInv
<1> QED BY <1>1, OutboxInvariant, PTL

\* No key ever owns two committed records.
THEOREM OutboxOneRecordPerKey == Spec => []OneRecordPerKey
<1>1. OutboxInv => OneRecordPerKey BY DEF OutboxInv, MediaInv
<1> QED BY <1>1, OutboxInvariant, PTL

\* No sequence of calls, faults and power losses produces media that mount rejects.
THEOREM OutboxAlwaysMountable == Spec => []AlwaysMountable
<1>1. OutboxInv => AlwaysMountable BY DEF OutboxInv, MediaInv, AlwaysMountable
<1> QED BY <1>1, OutboxInvariant, PTL

\* Between calls the index is the committed media up to the append frontier.
THEOREM OutboxIndexMatchesMedia == Spec => []IndexMatchesMedia
<1>1. OutboxInv => IndexMatchesMedia
  BY DEF OutboxInv, FrontierInv, Mounted, IndexMatchesMedia
<1> QED BY <1>1, OutboxInvariant, PTL
=============================================================================
