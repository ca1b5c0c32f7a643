---------------------------- MODULE MailboxStore ----------------------------
(***************************************************************************)
(* The durable collection watermark of the mailbox: two sectors written in *)
(* turn (crates/lxmf-mailbox-store/src/lib.rs), mounted, provisioned and   *)
(* advanced by the product store (firmware/e290/src/product_store.rs).     *)
(* The messages it points into are the abstract inbox of DurableInbox,     *)
(* which LxmfStore implements.                                             *)
(***************************************************************************)
EXTENDS DurableInbox, NorFlash

CONSTANT None  \* no cursor, nothing mounted

Sector == {"A", "B"}
Other(x) == IF x = "A" THEN "B" ELSE "A"

\* A snapshot is programmed prefix, digest, commit marker.
Committed == 6
Garbage == Garbled(Committed)

VARIABLES
    sector,   \* flash: level, generation and cursor of each sector
    mailbox,  \* ProductStore.lxmf_mailbox; taken while an acknowledgement runs
    pc,       \* "off" without power, "unavailable" when the mailbox is not mounted
    op,       \* the snapshot being written: generation, cursor, sector
    told      \* watermarks reported to clients

disk == <<sector, inbox>>
vars == <<sector, mailbox, pc, op, told, inbox, acked>>

Cursor == Receipt \cup {None}
Snapshot(gen, cursor, at) == [gen |-> gen, cursor |-> cursor, at |-> at]
Snapshots == [gen : Nat \ {0}, cursor : Cursor, at : Sector]
Writing == {"prefix", "digest", "commit"}

TypeOK ==
    /\ sector \in [Sector -> [level : 0 .. Garbage, gen : Nat, cursor : Cursor]]
    /\ mailbox \in Snapshots \cup {None}
    /\ op \in Snapshots \cup {None}
    /\ pc \in {"off", "unavailable", "mount", "idle", "erase", "verify", "recover"} \cup Writing
    /\ inbox \subseteq Receipt
    /\ told \subseteq Nat

Through(cursor) == IF cursor = None THEN 0 ELSE cursor.handle

Valid(x) == sector[x].level = Committed
At(x) == Snapshot(sector[x].gen, sector[x].cursor, x)

\* mount: the newer of the committed snapshots.
Selects(x) ==
    /\ Valid(x)
    /\ Valid(Other(x)) =>
          \/ sector[x].gen > sector[Other(x)].gen
          \/ sector[x].gen = sector[Other(x)].gen /\ x = "A"

Conflicting ==
    /\ Valid("A") /\ Valid("B")
    /\ sector["A"].gen = sector["B"].gen
    /\ sector["A"].cursor # sector["B"].cursor

Mounts(x) == Selects(x) /\ ~Conflicting
Unprovisioned == \A x \in Sector : sector[x].level < Committed

Matches(cursor) == cursor = None \/ cursor \in inbox

MailboxInit ==
    /\ Init
    /\ sector = [x \in Sector |-> [level |-> Erased, gen |-> 0, cursor |-> None]]
    /\ mailbox = None
    /\ pc = "off"
    /\ op = None
    /\ told = {}

(***************************************************************************)
(* The inbox, as its own specification lets it grow.                       *)
(***************************************************************************)
Receive(r) ==
    /\ pc \in {"idle", "unavailable"}
    /\ Append(r)
    /\ UNCHANGED <<sector, mailbox, pc, op, told>>

(***************************************************************************)
(* Boot: mount_or_provision_lxmf_mailbox.                                  *)
(***************************************************************************)
Boot ==
    /\ pc = "off"
    /\ pc' = "mount"
    /\ UNCHANGED <<disk, mailbox, op, told, acked>>

BootMounted ==
    /\ pc = "mount"
    /\ \E x \in Sector :
          /\ Mounts(x)
          /\ Matches(sector[x].cursor)
          /\ mailbox' = At(x)
    /\ pc' = "idle"
    /\ UNCHANGED <<disk, op, told, acked>>

Provision ==
    /\ pc = "mount"
    /\ Unprovisioned
    /\ op' = Snapshot(1, None, "A")
    /\ pc' = "erase"
    /\ UNCHANGED <<disk, mailbox, told, acked>>

\* Unreadable or unrecognised media, or a cursor the inbox does not have.
BootFails ==
    /\ pc = "mount"
    /\ pc' = "unavailable"
    /\ UNCHANGED <<disk, mailbox, op, told, acked>>

(***************************************************************************)
(* acknowledge_lxmf_mailbox_through.                                       *)
(***************************************************************************)
Report(cursor) == told' = told \cup {Through(cursor)}

\* A handle at or below the watermark succeeds without touching flash.
AckReplay(r) ==
    /\ pc = "idle"
    /\ r \in inbox
    /\ r.handle <= Through(mailbox.cursor)
    /\ r.handle = Through(mailbox.cursor) => r = mailbox.cursor
    /\ Report(mailbox.cursor)
    /\ UNCHANGED <<disk, mailbox, pc, op, acked>>

\* Mutant: the generation is not advanced.
AckAdvanceSameGeneration(r) ==
    /\ pc = "idle"
    /\ r \in inbox
    /\ r.handle > Through(mailbox.cursor)
    /\ op' = Snapshot(mailbox.gen, r, Other(mailbox.at))
    /\ mailbox' = None
    /\ pc' = "erase"
    /\ UNCHANGED <<disk, told, acked>>

\* Mutant: the snapshot keeps the message id of the previous cursor.
AckAdvanceStaleId(r) ==
    /\ pc = "idle"
    /\ r \in inbox
    /\ r.handle > Through(mailbox.cursor)
    /\ op' = Snapshot(mailbox.gen + 1,
                      IF mailbox.cursor = None THEN r ELSE [mailbox.cursor EXCEPT !.handle = r.handle],
                      Other(mailbox.at))
    /\ mailbox' = None
    /\ pc' = "erase"
    /\ UNCHANGED <<disk, told, acked>>

\* write_successor: the next generation goes to the other sector.
AckAdvance(r) ==
    /\ pc = "idle"
    /\ r \in inbox
    /\ r.handle > Through(mailbox.cursor)
    /\ op' = Snapshot(mailbox.gen + 1, r, Other(mailbox.at))
    /\ mailbox' = None
    /\ pc' = "erase"
    /\ UNCHANGED <<disk, told, acked>>

AfterStep(at) ==
    CASE at = "erase" -> "prefix" [] at = "prefix" -> "digest"
      [] at = "digest" -> "commit" [] at = "commit" -> "verify"

\* The prefix carries generation and cursor.
Program(level) ==
    /\ sector' = [sector EXCEPT ![op.at] =
                     IF level < 2 THEN [@ EXCEPT !.level = level]
                     ELSE [level |-> level, gen |-> op.gen, cursor |-> op.cursor]]
    /\ UNCHANGED inbox

EraseTo(level) ==
    /\ sector' = [sector EXCEPT ![op.at] =
                     IF level = Erased THEN [level |-> Erased, gen |-> 0, cursor |-> None]
                     ELSE [@ EXCEPT !.level = level]]
    /\ UNCHANGED inbox

\* ensure_erased reads the whole sector back.
Erase ==
    /\ pc = "erase"
    /\ EraseTo(Erased)
    /\ pc' = AfterStep(pc)
    /\ UNCHANGED <<mailbox, op, told, acked>>

WriteField ==
    /\ pc \in Writing
    /\ Program(Programmed(sector[op.at].level))
    /\ pc' = AfterStep(pc)
    /\ UNCHANGED <<mailbox, op, told, acked>>

\* What the running erase or write may leave when it is interrupted or fails.
Interrupted ==
    \/ /\ pc = "erase"
       /\ \E level \in EraseOutcomes(sector[op.at].level, Committed) : EraseTo(level)
    \/ /\ pc \in Writing
       /\ \E level \in TornOrProgrammed(sector[op.at].level) : Program(level)

WriteError ==
    /\ Interrupted
    /\ pc' = "recover"
    /\ UNCHANGED <<mailbox, op, told, acked>>

Done(snapshot) ==
    /\ mailbox' = snapshot
    /\ pc' = "idle"
    /\ op' = None

Verified ==
    /\ pc = "verify"
    /\ sector[op.at] = [level |-> Committed, gen |-> op.gen, cursor |-> op.cursor]
    /\ Done(op)
    /\ Report(op.cursor)
    /\ UNCHANGED <<disk, acked>>

VerifyError ==
    /\ pc = "verify"
    /\ pc' = "recover"
    /\ UNCHANGED <<disk, mailbox, op, told, acked>>

\* After an error the media decides: the watermark was written after all.
RecoverWritten ==
    /\ pc = "recover"
    /\ \E x \in Sector : Mounts(x) /\ sector[x].cursor = op.cursor /\ Done(At(x))
    /\ Report(op.cursor)
    /\ UNCHANGED <<disk, acked>>

\* Mutant: the error is not looked into.
RecoverUnwrittenReporting ==
    /\ pc = "recover"
    /\ \E x \in Sector : Mounts(x) /\ sector[x].cursor # op.cursor /\ Done(At(x))
    /\ Report(op.cursor)
    /\ UNCHANGED <<disk, acked>>

\* It was not: the previous snapshot is mounted again and the call fails.
RecoverUnwritten ==
    /\ pc = "recover"
    /\ \E x \in Sector : Mounts(x) /\ sector[x].cursor # op.cursor /\ Done(At(x))
    /\ UNCHANGED <<disk, told, acked>>

\* Provisioning left nothing to mount: no mailbox until the next boot.
RecoverNothing ==
    /\ pc = "recover"
    /\ \A x \in Sector : ~Mounts(x)
    /\ pc' = "unavailable"
    /\ op' = None
    /\ UNCHANGED <<disk, mailbox, told, acked>>

\* Neither can the sectors be read: no mailbox until the next boot.
RecoverFails ==
    /\ pc = "recover"
    /\ pc' = "unavailable"
    /\ op' = None
    /\ UNCHANGED <<disk, mailbox, told, acked>>

PowerLoss ==
    /\ pc # "off"
    /\ Interrupted \/ UNCHANGED disk
    /\ mailbox' = None
    /\ pc' = "off"
    /\ op' = None
    /\ UNCHANGED <<told, acked>>

MailboxStep == Erase \/ WriteField \/ Verified \/ RecoverWritten \/ RecoverUnwritten \/ RecoverNothing

FlashFault == BootFails \/ WriteError \/ VerifyError \/ RecoverFails

MailboxNext ==
    \/ Boot \/ BootMounted \/ Provision
    \/ \E r \in Receipt : Receive(r) \/ AckReplay(r) \/ AckAdvance(r)
    \/ MailboxStep
    \/ FlashFault
    \/ PowerLoss

MailboxSpec == MailboxInit /\ [][MailboxNext]_vars

(***************************************************************************)
(* Properties.                                                             *)
(***************************************************************************)
\* The watermark the next mount would select, 0 when there is none.
Watermark ==
    IF \E x \in Sector : Mounts(x)
    THEN Through(sector[CHOOSE x \in Sector : Mounts(x)].cursor) ELSE 0

\* Every watermark a client was told is covered by the one the next boot mounts,
\* whatever fails in between.
ToldIsDurable == \A w \in told : w <= Watermark

\* Both sectors together always tell mount what to do: once a snapshot was committed one
\* stays committed, a damaged sector is never alone, two snapshots never conflict.
AlwaysMountable ==
    /\ ~Conflicting
    /\ Unprovisioned \/ \E x \in Sector : Valid(x)
    /\ mailbox # None => \E x \in Sector : Mounts(x) /\ At(x) = mailbox

\* The cursor on flash always names a message of the inbox, so boot never refuses the
\* mailbox as belonging to another inbox, and the watermark never runs ahead of the last
\* message.
CursorInInbox == \A x \in Sector : Valid(x) => Matches(sector[x].cursor)
=============================================================================
