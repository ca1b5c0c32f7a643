----------------------------- MODULE LxmfStore -----------------------------
(***************************************************************************)
(* The append-only store of received LXMF messages                         *)
(* (crates/lxmf-store/src/lib.rs).  A message takes a span of 4 KiB        *)
(* extents: every extent's claim and header are programmed first, then the *)
(* wire, then the footer of the last extent and its commit marker.  Each   *)
(* program is read back.  A commit that fails is kept as the pending       *)
(* mutation and only the same candidate may resume it; mount retires what  *)
(* power loss left behind.  Nothing is ever erased.                        *)
(***************************************************************************)
EXTENDS Naturals, FiniteSets

CONSTANTS
    Message,        \* candidates: [id, auth, len], with one message id per authenticated
                    \* content except where a hash collides
    Extents,        \* extents of the partition
    IndexCapacity,  \* index slots the product allocates
    PayloadSize,    \* EXTENT_PAYLOAD_SIZE
    FooterSize,     \* RECORD_FOOTER_SIZE
    None            \* no header, no candidate, no pending mutation

ASSUME StoreAssumption ==
    /\ Extents \in Nat \ {0}
    /\ IndexCapacity \in Nat
    /\ PayloadSize \in Nat \ {0}
    /\ FooterSize \in 1 .. PayloadSize
    /\ \A m \in Message : m.len \in Nat \ {0}
    /\ None \notin Message

Extent == 0 .. Extents - 1
Handle == 1 .. Extents
Receipt == [id : {m.id : m \in Message}, handle : Handle]

\* What each part of an extent has been programmed to; an odd level is torn.
Claimed == 2
HeaderWritten == 4
BodyWritten == 2
FooterWritten == 2
Committed == 4

RequiredExtents(m) == (m.len + FooterSize + PayloadSize - 1) \div PayloadSize

\* Extents of the span that hold wire bytes: the last may hold the footer only.
WireExtents(m) == (m.len + PayloadSize - 1) \div PayloadSize

\* Fields in program order: claim and header of every extent, the wire of every extent
\* that has any, the footer, the commit marker.
FieldCount(m) == 2 * RequiredExtents(m) + WireExtents(m) + 2

VARIABLES
    head,           \* level of each extent's claim and header
    header,         \* the header its bits belong to: message, handle, extent index
    body,           \* level of each extent's wire bytes
    foot,           \* level of each extent's footer and commit marker
    entries,        \* the index; its order is the order of the first extents
    append_extent,
    next_handle,    \* next_handle; max_handle + 1 while mount scans
    pending,        \* PendingMutation
    scan,           \* mount's cursor
    pc,             \* where the running call is
    op,             \* the candidate of the running commit
    step,           \* fields the running commit has programmed
    result,         \* what the last commit returned
    acked           \* receipts returned to callers

flash == <<head, header, body, foot>>
mounted == <<entries, append_extent, next_handle, pending>>
vars == <<flash, mounted, scan, pc, op, step, result, acked>>

Results == {"durable", "collision", "busy", "full", "backend", "fault"}

TypeOK ==
    /\ head \in [Extent -> 0 .. HeaderWritten]
    /\ header \in [Extent -> [msg : Message, handle : Handle, index : Extent] \cup {None}]
    /\ body \in [Extent -> 0 .. BodyWritten]
    /\ foot \in [Extent -> 0 .. Committed]
    /\ entries \subseteq [msg : Message, handle : Handle, first : Extent]
    /\ append_extent \in 0 .. Extents
    /\ next_handle \in 1 .. Extents + 1
    /\ pending \in [msg : Message, handle : Handle, first : Extent] \cup {None}
    /\ scan \in 0 .. Extents
    /\ pc \in {"off", "unavailable", "mount", "idle",
               "decide", "reconcile", "preflight", "program", "verify"}
    /\ op \in Message \cup {None}
    /\ step \in Nat
    /\ result \in Results \cup {None}
    /\ acked \subseteq Receipt

Larger(a, b) == IF a < b THEN b ELSE a

(***************************************************************************)
(* What a read of the media shows.                                         *)
(***************************************************************************)
IsErased(e) == head[e] = 0 /\ body[e] = 0 /\ foot[e] = 0
HeaderValid(e) == head[e] = HeaderWritten

\* recognized_incomplete_extent, with an incomplete commit marker: no header and, since
\* headers are programmed before anything else, nothing outside it.
Unfinished(e) == ~HeaderValid(e) /\ body[e] = 0 /\ foot[e] = 0

HeaderAt(s, i) == [header[s] EXCEPT !.index = i]
Continues(s, i) == HeaderValid(s + i) /\ header[s + i] = HeaderAt(s, i)

SpanEnd(s) == s + RequiredExtents(header[s].msg)

\* A first extent with a valid header, inside the partition.
Begins(s) == HeaderValid(s) /\ header[s].index = 0 /\ SpanEnd(s) <= Extents

Span(s) == 1 .. RequiredExtents(header[s].msg) - 1
HeadersComplete(s) == \A i \in Span(s) : Continues(s, i)

\* The header sequence stopped at extent j of the span: nothing but headers in front of
\* it, a prefix of the expected header in it, nothing behind it.
HeadersStopAt(s, j) ==
    /\ \A i \in Span(s) : i < j => Continues(s, i)
    /\ \A i \in {0} \cup Span(s) : i < j => body[s + i] = 0
    /\ Unfinished(s + j)
    /\ head[s + j] = HeaderWritten - 1 => header[s + j] = HeaderAt(s, j)
    /\ \A i \in Span(s) : i > j => IsErased(s + i)

Last(s) == SpanEnd(s) - 1

\* decode_committed_record: the digests match a complete wire, erased padding and a
\* complete footer.
WireMatches(s) ==
    \A i \in {0} \cup Span(s) :
        body[s + i] = IF i < WireExtents(header[s].msg) THEN BodyWritten ELSE 0

CommittedAt(s) ==
    /\ Begins(s)
    /\ HeadersComplete(s)
    /\ foot[Last(s)] = Committed
    /\ WireMatches(s)

\* A span committed_record_at reads as not committed, and mount as retired.
Retired(s) ==
    /\ Begins(s)
    /\ \/ \E j \in Span(s) : HeadersStopAt(s, j)
       \/ HeadersComplete(s) /\ foot[Last(s)] # Committed

EntryAt(s) == [msg |-> header[s].msg, handle |-> header[s].handle, first |-> s]
ReceiptOf(entry) == [id |-> entry.msg.id, handle |-> entry.handle]

Committable(s) == \A e \in entries : e.msg.id # header[s].msg.id /\ e.handle # header[s].handle

Init ==
    /\ head = [e \in Extent |-> 0]
    /\ header = [e \in Extent |-> None]
    /\ body = [e \in Extent |-> 0]
    /\ foot = [e \in Extent |-> 0]
    /\ entries = {}
    /\ append_extent = 0
    /\ next_handle = 1
    /\ pending = None
    /\ scan = 0
    /\ pc = "off"
    /\ op = None
    /\ step = 0
    /\ result = None
    /\ acked = {}

(***************************************************************************)
(* mount: one action per turn of its scan.                                 *)
(***************************************************************************)
Boot ==
    /\ pc = "off"
    /\ pc' = "mount"
    /\ UNCHANGED <<flash, mounted, scan, op, step, result, acked>>

Scanning == pc = "mount" /\ scan \in Extent

MountErased ==
    /\ Scanning
    /\ IsErased(scan)
    /\ scan' = scan + 1
    /\ UNCHANGED <<flash, mounted, pc, op, step, result, acked>>

\* Mutant: a torn claim does not use its extent up.
MountTornReusing ==
    /\ Scanning
    /\ Unfinished(scan)
    /\ ~IsErased(scan)
    /\ scan' = scan + 1
    /\ UNCHANGED <<flash, mounted, pc, op, step, result, acked>>

\* A claim or header power loss interrupted.
MountTorn ==
    /\ Scanning
    /\ Unfinished(scan)
    /\ ~IsErased(scan)
    /\ append_extent' = Larger(append_extent, scan + 1)
    /\ scan' = scan + 1
    /\ UNCHANGED <<flash, entries, next_handle, pending, pc, op, step, result, acked>>

\* Every valid header of the span counts towards the next handle.
HandlesOf(s) == {header[s + i].handle : i \in {k \in {0} \cup Span(s) : HeaderValid(s + k)}}

\* Mutant: the largest handle found is the next one.
SkipSpanOffByOne ==
    /\ append_extent' = Larger(append_extent, SpanEnd(scan))
    /\ \E h \in HandlesOf(scan) : next_handle' = Larger(next_handle, h)
    /\ scan' = SpanEnd(scan)

SkipSpan ==
    /\ append_extent' = Larger(append_extent, SpanEnd(scan))
    /\ \E h \in HandlesOf(scan) :
          /\ \A g \in HandlesOf(scan) : g <= h
          /\ next_handle' = Larger(next_handle, h + 1)
    /\ scan' = SpanEnd(scan)

MountRetired ==
    /\ Scanning
    /\ Retired(scan)
    /\ SkipSpan
    /\ UNCHANGED <<flash, entries, pending, pc, op, step, result, acked>>

MountCommitted ==
    /\ Scanning
    /\ CommittedAt(scan)
    /\ Committable(scan)
    /\ Cardinality(entries) < IndexCapacity
    /\ entries' = entries \cup {EntryAt(scan)}
    /\ SkipSpan
    /\ UNCHANGED <<flash, pending, pc, op, step, result, acked>>

MountDone ==
    /\ pc = "mount"
    /\ scan = Extents
    /\ pc' = "idle"
    /\ UNCHANGED <<flash, mounted, scan, op, step, result, acked>>

\* A read error, or media none of the above accepts: the product boots without its
\* message store.
MountFails ==
    /\ pc = "mount"
    /\ pc' = "unavailable"
    /\ UNCHANGED <<flash, mounted, scan, op, step, result, acked>>

(***************************************************************************)
(* commit.                                                                 *)
(***************************************************************************)
Return(r) == pc' = "idle" /\ op' = None /\ result' = r

CommitCall(m) ==
    /\ pc = "idle"
    /\ pc' = "decide"
    /\ op' = m
    /\ result' = None
    /\ UNCHANGED <<flash, mounted, scan, step, acked>>

SameId == {e \in entries : e.msg.id = op.id}

\* AlreadyDurable: the authenticated material is the same, the wire may differ.
CommitReplay ==
    /\ pc = "decide"
    /\ \E e \in SameId :
          /\ e.msg.auth = op.auth
          /\ acked' = acked \cup {ReceiptOf(e)}
    /\ Return("durable")
    /\ UNCHANGED <<flash, mounted, scan, step>>

CommitCollision ==
    /\ pc = "decide"
    /\ \E e \in SameId : e.msg.auth # op.auth
    /\ Return("collision")
    /\ UNCHANGED <<flash, mounted, scan, step, acked>>

\* AmbiguousMutationPending.
CommitBusy ==
    /\ pc = "decide"
    /\ SameId = {}
    /\ pending # None
    /\ pending.msg # op
    /\ Return("busy")
    /\ UNCHANGED <<flash, mounted, scan, step, acked>>

\* Mutant: the index is not checked before the flash is programmed.
HasRoomOnFlash == append_extent + RequiredExtents(op) <= Extents

HasRoom ==
    /\ Cardinality(entries) < IndexCapacity
    /\ append_extent + RequiredExtents(op) <= Extents

\* IndexFull and Full.
CommitFull ==
    /\ pc = "decide"
    /\ SameId = {}
    /\ pending # None => pending.msg = op
    /\ ~HasRoom
    /\ Return("full")
    /\ UNCHANGED <<flash, mounted, scan, step, acked>>

\* The pending mutation is recorded before the first flash access.
CommitBegin ==
    /\ pc = "decide"
    /\ SameId = {}
    /\ pending = None
    /\ HasRoom
    /\ pending' = [msg |-> op, handle |-> next_handle, first |-> append_extent]
    /\ pc' = "preflight"
    /\ UNCHANGED <<flash, entries, append_extent, next_handle, scan, op, step, result, acked>>

CommitResume ==
    /\ pc = "decide"
    /\ SameId = {}
    /\ pending # None
    /\ pending.msg = op
    /\ HasRoom
    /\ pc' = "reconcile"
    /\ UNCHANGED <<flash, mounted, scan, op, step, result, acked>>

SpanErased == \A i \in 0 .. RequiredExtents(op) - 1 : IsErased(pending.first + i)

StartProgram ==
    /\ pc' = "program"
    /\ step' = 0
    /\ UNCHANGED <<flash, mounted, scan, op, result, acked>>

Preflight ==
    /\ pc = "preflight"
    /\ SpanErased
    /\ StartProgram

ReconcileUncommitted ==
    /\ pc = "reconcile"
    /\ Unfinished(pending.first) \/ Retired(pending.first)
    /\ StartProgram

\* install_entry and finish_commit.
Finish ==
    /\ entries' = entries \cup {EntryAt(pending.first)}
    /\ append_extent' = Larger(append_extent, pending.first + RequiredExtents(op))
    /\ next_handle' = pending.handle + 1
    /\ pending' = None
    /\ acked' = acked \cup {ReceiptOf(EntryAt(pending.first))}
    /\ Return("durable")
    /\ UNCHANGED <<flash, scan, step>>

\* The earlier attempt did commit.
ReconcileCommitted ==
    /\ pc = "reconcile"
    /\ CommittedAt(pending.first)
    /\ header[pending.first].msg = op
    /\ Finish

\* Mutant: the failed commit is forgotten.
CommitReadErrorForgetting ==
    /\ pc \in {"reconcile", "preflight", "verify"}
    /\ Return("backend")
    /\ pending' = None
    /\ UNCHANGED <<flash, entries, append_extent, next_handle, scan, step, acked>>

\* A read fails, or shows media that changed behind the store: the mutation stays pending.
CommitReadError ==
    /\ pc \in {"reconcile", "preflight", "verify"}
    /\ Return(IF pc = "preflight" /\ ~SpanErased THEN "fault" ELSE "backend")
    /\ UNCHANGED <<flash, mounted, scan, step, acked>>

(***************************************************************************)
(* The program sequence.  program_claim, program_exact and                 *)
(* program_footer_base accept whatever a read back shows complete, so a    *)
(* resumed commit programs the same bits again.                            *)
(***************************************************************************)
Outcomes(level, to, whole) ==
    IF whole THEN {Larger(level, to)} ELSE level .. Larger(level, to)

HeadFields == 2 * RequiredExtents(op)
WireEnd == HeadFields + WireExtents(op)

WriteHead(whole) ==
    LET i == step \div 2
        e == pending.first + i
        to == IF step % 2 = 0 THEN Claimed ELSE HeaderWritten
    IN  /\ step < HeadFields
        /\ \E level \in Outcomes(head[e], to, whole) :
              /\ head' = [head EXCEPT ![e] = level]
              /\ header' = [header EXCEPT ![e] =
                     IF level > Claimed
                     THEN [msg |-> op, handle |-> pending.handle, index |-> i] ELSE @]
        /\ UNCHANGED <<body, foot>>

WriteWire(whole) ==
    LET e == pending.first + (step - HeadFields)
    IN  /\ step >= HeadFields /\ step < WireEnd
        /\ \E level \in Outcomes(body[e], BodyWritten, whole) :
              body' = [body EXCEPT ![e] = level]
        /\ UNCHANGED <<head, header, foot>>

WriteFooter(whole) ==
    LET e == pending.first + RequiredExtents(op) - 1
        to == IF step = WireEnd THEN FooterWritten ELSE Committed
    IN  /\ step >= WireEnd
        /\ \E level \in Outcomes(foot[e], to, whole) : foot' = [foot EXCEPT ![e] = level]
        /\ UNCHANGED <<head, header, body>>

Write(whole) == WriteHead(whole) \/ WriteWire(whole) \/ WriteFooter(whole)

ProgramField ==
    /\ pc = "program"
    /\ Write(TRUE)
    /\ step' = step + 1
    /\ pc' = IF step' = FieldCount(op) THEN "verify" ELSE "program"
    /\ UNCHANGED <<mounted, scan, op, result, acked>>

\* Mutant: a failed program retires its span at once.
ProgramFieldErrorRetiring ==
    /\ pc = "program"
    /\ Write(FALSE)
    /\ append_extent' = pending.first + RequiredExtents(op)
    /\ next_handle' = pending.handle + 1
    /\ pending' = None
    /\ Return("backend")
    /\ UNCHANGED <<entries, scan, step, acked>>

\* The write reports an error, or it cannot be read back.
ProgramFieldError ==
    /\ pc = "program"
    /\ Write(FALSE)
    /\ Return("backend")
    /\ UNCHANGED <<mounted, scan, step, acked>>

CommitVerified ==
    /\ pc = "verify"
    /\ CommittedAt(pending.first)
    /\ header[pending.first].msg = op
    /\ Finish

\* Power fails at any point, in the middle of the current program too.
PowerLoss ==
    /\ pc # "off"
    /\ \/ pc = "program" /\ Write(FALSE)
       \/ UNCHANGED flash
    /\ entries' = {}
    /\ append_extent' = 0
    /\ next_handle' = 1
    /\ pending' = None
    /\ scan' = 0
    /\ pc' = "off"
    /\ op' = None
    /\ step' = 0
    /\ result' = None
    /\ UNCHANGED acked

MountStep == MountErased \/ MountTorn \/ MountRetired \/ MountCommitted \/ MountDone

CommitStep ==
    \/ CommitReplay \/ CommitCollision \/ CommitBusy \/ CommitFull \/ CommitBegin \/ CommitResume
    \/ Preflight \/ ReconcileUncommitted \/ ReconcileCommitted
    \/ ProgramField \/ CommitVerified

FlashFault == MountFails \/ CommitReadError \/ ProgramFieldError

Next ==
    \/ Boot
    \/ MountStep
    \/ \E m \in Message : CommitCall(m)
    \/ CommitStep
    \/ FlashFault
    \/ PowerLoss

Spec == Init /\ [][Next]_vars

(***************************************************************************)
(* Properties.                                                             *)
(***************************************************************************)
Durable == {s \in Extent : CommittedAt(s)}

\* A message id has at most one committed record, although an interrupted commit may have
\* reached its commit marker before its caller saw an error and sent the message again.
OneRecordPerMessage ==
    \A s, t \in Durable : header[s].msg.id = header[t].msg.id => s = t

\* Every extent mount's scan stops at is one it accepts, and the index has room for it:
\* no sequence of failures and power losses makes the store unreadable.
AlwaysMountable ==
    Scanning =>
        \/ Unfinished(scan)
        \/ Retired(scan)
        \/ CommittedAt(scan) /\ Committable(scan) /\ Cardinality(entries) < IndexCapacity

\* A fresh commit finds the span it reserved erased (MediaChanged never happens), and a
\* resumed one finds its own record or nothing.
SpanIsOurs ==
    /\ pc = "preflight" => SpanErased
    /\ pc = "reconcile" =>
          \/ Unfinished(pending.first)
          \/ header[pending.first].msg = op /\ (Retired(pending.first) \/ CommittedAt(pending.first))
    /\ pc = "verify" => CommittedAt(pending.first) /\ header[pending.first].msg = op

\* Between calls the index holds exactly the committed records, except the one a pending
\* mutation may still find.
IndexMatchesMedia ==
    pc = "idle" =>
        /\ \A e \in entries : CommittedAt(e.first) /\ EntryAt(e.first) = e
        /\ \A s \in Durable : EntryAt(s) \in entries \/ (pending # None /\ pending.first = s)

\* The promise of the store, as an abstract specification.
Inbox == INSTANCE DurableInbox WITH
    inbox <- {ReceiptOf(EntryAt(s)) : s \in Durable}

\* Every step of the store, power loss and torn program included, appends one message
\* under a handle above all others, hands out the receipt of a stored one, or changes
\* neither.  The mailbox pages by handle and acknowledges every handle up to a watermark,
\* so a later message must have a larger handle, also after a power loss in the middle of
\* a commit made mount compute the next handle again.
ImplementsDurableInbox == Inbox!Spec
=============================================================================
