# Verification of the Reticulum appliance

TLA+ modules, TLC models and TLAPS proofs for `evelant/reticulum-rs-firmware`: the
firmware of a standalone Reticulum appliance (a Heltec Vision Master E290 board) and the
clients that manage it. The network engine, PRNS, is an external crate. What this
repository owns, and what is modelled here, is the durable product state above it and the
protocols that keep that state, the network and the clients in step through errors and
power loss.

`PROJECT.json` is the machine-readable companion: every component, run, mutant, mapped
definition, finding, hazard and theorem.

## 1. The system and its parts

| Part | Source | State | Operations | Modelled by |
| --- | --- | --- | --- | --- |
| Outbound journal | `firmware/e290/src/product_outbox.rs` | slots of one append-only region, index in memory | mount, accept, mark delivered | `ProductOutbox`, `DurableOutbox` |
| Outbound delivery loop | `prns_product_task.rs`, `lxmf_delivery.rs`, `prns_target.rs` | command awaited, retry time, settlement lane | issue, settle, retry, rediscover a path | `OutboundDelivery` |
| Inbound message store | `crates/lxmf-store` | extents, index, pending mutation | mount, commit | `LxmfStore`, `DurableInbox` |
| Mailbox watermark | `crates/lxmf-mailbox-store`, `product_store.rs` | two sectors with generations, cursor | mount, provision, acknowledge | `MailboxStore` |
| Client inbox synchronisation | `crates/appliance-sync/src/engine.rs`, `crates/appliance-runtime` | cursors, session, database | inbox step, connect, fault, reconnect | `InboxCollection` |
| OTA coordinator | `ota.rs`, `product_store.rs`, `prns_product_task.rs` | slots, otadata, session, Resource gate | start, chunk, resume, validate, activate, reboot, confirm | `OtaUpdate` |
| Management allow-list | `management_authorization.rs`, `prns_product_task.rs` | two sectors, enrollment window, admissions | mount, seed, enroll, admit | `ManagementAuthorization` over `MirroredStore` |
| Appliance label, network configuration | `appliance_settings.rs`, `crates/network-config-store`, `product_store.rs` | two sectors each, revision | mount, compare-and-swap, recover | `RevisionedConfig` over `MirroredStore` |
| Product identity | `product_identity.rs` | two mirrors of one key | load, provision, repair | planned |
| Inbound carrier lane | `prns_events.rs`, `prns_target.rs`, `lxmf-durable-ingress` | payload budget, lane, carrier retained for retry | copy, queue, commit, retry, discard | planned |
| Client runtime actor | `crates/appliance-runtime` | session, deadlines, urgent row, trace cursor | commands, background turns, backoff | `InboxCollection`, `OutboxReconciliation`; device commands and trace import not modelled |
| Client chat store | `crates/appliance-store` | contacts, inbox, outbox rows, activity, traces | commit, retry, accept, project status | outbox in `OutboxReconciliation`, imports in `InboxCollection`; the rest planned |
| Outbox reconciliation | `appliance-sync/src/engine.rs` | round-robin cursor | submit, refresh | `OutboxReconciliation` |
| NomadNet fetch | `crates/nomad-protocol`, `nomad-browser.ts` | one fetch, one cached Link, one poll | start, observe, time out, poll | planned |
| Native node | `crates/appliance-native` | claim, worker, candidates | start, close, request, stage an image | planned |
| Display, Wi-Fi, peer discovery | `display_*.rs`, `wifi_station_task.rs`, `crates/peer-discovery` | latest request and completion; link state and backoff; bounded table | publish, render; associate; observe, evict | planned |
| Client user interface | `clients/appliance/src` | selected profile, requests in flight, notification ledger | React effects and callbacks | planned in part |
| Device API, LXMF wire | `crates/device-api`, `lxmf-wire`, `lxmf-ingress`, `lxmf-model` | none | encode, decode, dispatch | codec planned as operators |
| Service, PRNS composition, tools | `crates/appliance-service`, `main.rs`, `prns_*.rs`, `xtask`, `interop` | wiring | - | not modelled: no logic of their own |

How they interact:

- One **product task** owns all product state. It takes one input at a time (a management
  request, an LXMF delivery, an OTA Resource, a settlement, a timer) and runs its handler
  to the end, awaiting PRNS settlements inside some of them.
- One **product store** serialises every flash access; PRNS persistence uses another
  region. Between two flash calls power may be lost, and every call may fail.
- A **client** talks to the appliance over PRNS Links that may close at any time; a lost
  answer leaves it in doubt, and every request it repeats is meant to be idempotent.

What is hard here, and what the models are therefore about: power loss between and inside
flash writes; a write that reports an error after it took effect; a mount that must accept
whatever an interruption left and nothing else; answers given before or after the fact
they state is durable; settlements that arrive after the task stopped waiting; retries of
what was already done; two owners of one fact (flash and memory, appliance and client,
otadata and slot).

## 2. Modules

### Flash

`NorFlash` states the contract all stores are written against. A record is programmed
field by field; its *program level* counts them: even levels are complete fields, odd ones
a torn field, zero is erased. A write that fails or is interrupted leaves its field
untouched, torn or complete. An interrupted erase may also leave the commit marker intact
over a damaged record (`Garbled`). Digests are abstracted: a torn or damaged record never
passes its digest, an intact one always does.

Every store splits its operations where the code touches flash: `pc` says which call is
next, each successful call is an action, each may fail (an error is reported, with any of
the outcomes above), and `PowerLoss` may strike during any of them. What the code does
between two flash calls is part of the surrounding action.

### Outbound: `ProductOutbox`, `DurableOutbox`, `OutboundDelivery`

`ProductOutbox` is the append-only journal: `accept` (replay by key, reconciliation of a
frontier slot an earlier error left in doubt, claim, body, commit marker, readback),
`mark_delivered`, and `mount`. `DurableOutbox` is what it promises: a sequence of accepted
submissions and a delivered set, changed atomically. The refinement maps the committed
slots to that sequence.

`OutboundDelivery` composes the journal with the product task's delivery lane: the oldest
undelivered message is issued to PRNS under a fresh command identifier, its settlement
comes back through a lane, is matched, and marks the message, schedules a retry or asks
for a path. PRNS and the network are external: a command is settled once, delivery needs a
good route, and a path request may be answered or lost.

### Inbound: `LxmfStore`, `DurableInbox`, `MailboxStore`, `InboxCollection`

`LxmfStore` is the append-only message store: a message takes a run of 4 KiB extents with a footer in the
last; mount scans the runs (*spans*), retires the ones that power loss left unfinished and
rebuilds the index; a commit that fails stays pending in memory and only the same candidate
may resume it. It refines `DurableInbox`.

`MailboxStore` is the collection watermark: two sectors, the higher generation wins, and
the product store decides after an error by mounting again whether the watermark moved.
The messages it points into are those of the abstract `DurableInbox`.

`InboxCollection` composes the watermark with the client: list from a cursor, import into
the database, acknowledge only a contiguous imported prefix; sessions break, the appliance
restarts, the client process restarts with its database, and a permanent fault stops the
client until the user reconnects. Messages are received without the mailbox, but listing,
reading and acknowledging all need it: while it is unavailable each scan is answered
CapabilityUnavailable and faults the client (`StepRefused`, `RefuseAck`).

### Sending: `OutboxReconciliation`

The client's way to the journal. The user sends, sends again or retries a failed row
(`EnqueueSend`, `EnqueueExisting`, `RetrySend`); the actor picks a lane (`Selected`,
`Turn`) and the engine a row (`Index`: the hot row first, then another one, else the
round-robin cursor); a row is submitted or its status refreshed. The actor blocks in a
submission, so only the device, the network and a restart come between `Submit` and its
answer. An abandoned submission may still reach the device. The appliance is the abstract
`DurableOutbox`: `DeviceAccept` is its `Commit`, an answer its `Acknowledge`. The E290
reports only Queued and ApplicationDelivered; the constant `Reports` adds Preparing and one
retryable failure from the device API, because the store handles them. The states with
packet evidence are left out.

Time is abstract: a lane's deadline may pass at any moment (`Elapse`), but a capacity backoff
(30 s) outlasts one turn of each lane that is due when it begins (`resting`). Without this
a refused hot row would keep the other lanes from running. Every send is a message of its
own: the user interface stamps it with the time and a random key. Repeating a send under
the key a retry has replaced is not modelled.

### Updates: `OtaUpdate`

The coordinator's sessions, PRNS's per-Link Resource gate around each chunk, staging,
validation, the two otadata writes of an activation, the explicit reboot, and the health
window after which a candidate is confirmed, over the bootloader. Two things are external
and assumed: the bootloader rejects a record that is still pending at boot, puts a new
candidate on trial, and runs the other slot when the selected one holds no image; and
`SkipsBooted` says whether the OTA library's "next" partition passes over the slot that is
running. The models take the favourable answer (TRUE).

### Settings: `MirroredStore`, `ManagementAuthorization`, `RevisionedConfig`

Three stores share one protocol, written once in `MirroredStore`: two sectors, each
generation names its predecessor's digest, the successor is written to the inactive
sector, prefix first and commit marker last, and the mount after the write must select
exactly it. A digest is modelled as the generation and value it covers.

`ManagementAuthorization` adds the enrollment window (the button must be seen released,
then held), enrollment, the seeding of the list at boot and the admission of an identity
path by path to PRNS, whose commands may be refused, time out, or be executed late. Two
sets record the answers: `told` those of this boot, `granted` all of them, across power loss.

`RevisionedConfig` adds the compare-and-swap updates; `store` selects the label, which an
error makes unavailable until the next boot, or the network configuration, which an error
makes the product store mount again. An update that is refused while it is applied has the
network store mounted again too (`ApplyRefused`).

## 3. Runs

| Run | Checks | Shows | Bounds |
| --- | --- | --- | --- |
| `product_outbox` | `TypeOK`, `AckedIsDurable`, `OneRecordPerKey`, `AlwaysMountable`, `IndexMatchesMedia`, `ImplementsDurableOutbox` | acknowledged submissions survive; a retry after a reported error never writes a second record; every interruption mounts | three slots, two keys, two messages and a malformed one, keys and messages symmetric: a full journal, a replay, a conflict and an abandoned slot all occur |
| `outbound_delivery` | `MarkedOnlyWhenProven`, `DeliveredInOrder`, `OneCommandAwaited`, `AckedIsDelivered` | a message is marked only after PRNS reported it delivered, a late settlement never counts for another message, and every accepted message is eventually delivered | two records, two command identifiers, two faults (flash error, power loss, route change) anywhere |
| `lxmf_store` | `OneRecordPerMessage`, `AlwaysMountable`, `SpanIsOurs`, `IndexMatchesMedia`, `ImplementsDurableInbox` | no message is stored twice or lost once reported durable, and an abandoned run never hides or swallows another | three extents, two index slots, messages of one, two and three extents, one that exactly fills an extent |
| `inbox_collection` | `ToldIsDurable`, `AlwaysMountable`, `CursorInInbox`, `CollectedIsImported`, `ScanIsImported`, `EventuallyCollected` | the appliance never counts as collected what the client has not imported, and everything is eventually collected, also what arrived while the mailbox was unavailable | three messages, three faults (flash error, restart, lost answer), which is what it takes for an acknowledgement to meet a mailbox that an earlier one lost, two requests on the way |
| `outbox_reconciliation` | `SubmittedOnce`, `ShownIsTrue`, `StatusAdvances` | no lost, late or repeated submission creates a second one of a message that has not failed; a row shows its own submission's state, which never goes back | two messages, three keys (one retry), three slots, two faults |
| `outbox_liveness` | `EventuallyCaughtUp`, `LanesServed` | every row is submitted and its final state shown unless the journal is full; no lane starves another | three messages (a hot row, the row a turn avoids it for, and one that could starve), four slots so that three accepted rows do not fill the journal, one fault, one yield turn, the states the E290 reports |
| `ota_update` | `GateClosedOnWrite`, `ProgressIsOnFlash`, `ActivatedIsBootable`, `RunningUntouched`, `SelectedWasVerified`, `StagedIsNotConfirmed` | the running slot is never written, only a complete and verified image is selected, no image staged within a health window is confirmed by it | two Links, two sessions, a slot of two chunks, images of one and two chunks, one bad and one too large |
| `management_authorization` | `LiveIsDurable`, `OneIdentityPerWindow`, `ToldIsAuthorized`, `MountedIsSelected` | one press of the button enrolls at most one identity, nobody is admitted whom the list on flash does not hold, and whoever was told to be authorized is on the list of every later boot that mounts one | four identities, a list of three, four generations, four windows, two paths |
| `revisioned_config` | `TypeOK`, `MountedIsSelected`, `AppliedIsRemembered`, `RevisionNamesOneValue` | an applied update is never forgotten and a revision never means two values | three values, four generations, so that both sectors are overwritten |
| `ota_closed_link`, `ota_selected_erased`, `first_enrollment` | one property each | disagreements between code and documentation, section 6 | as above |

The bounds are small because the protocols are short: a store has two sectors or a few
slots, and every invariant concerns one write, the record before it and the mount after
it. Each bound is large enough for a second write over the trace of an interrupted first
one, which is where such protocols fail. Every named bound is a constant. Deadlock is
checked in every run. The type invariants of `OutboundDelivery`, `LxmfStore`,
`InboxCollection`, `OtaUpdate`, `ManagementAuthorization` and `OutboxReconciliation` hold on
the same instances but are not part of the runs, which keep to properties of the code.

### Fairness

- `FairDelivery`: the task keeps looping and its deadlines pass (weak fairness), and PRNS
  settles every command it takes. The task's `select` prefers management requests to
  settlements, so a settlement is received only if requests do not arrive back to back for
  ever (strong fairness of `Settled`). Of the network: a destination asked for again and
  again answers once, and packets sent again and again over a good route arrive once.
  Without that nothing could be promised. Faults are bounded, so they end.
- `FairCollect`: the appliance boots, mounts and finishes what it received, the client keeps
  stepping its engine, its user reconnects a faulted client, and an appliance without its
  mailbox is power cycled. The last two are what the code asks of its user. Faults end here
  as well.
- `FairReconcile`: the actor's loop takes a background turn after every bounded burst of
  commands (`foreground_turn` handles at most 32), the appliance executes and answers a
  submission, the reconcile deadline passes, and a faulted client is reconnected by its
  user. Nothing is assumed of delivery: a submission may stay queued for ever.
- `FairSpec` of `OtaUpdate`, for the one temporal finding: the board runs while it has power
  and the task finishes a handler it began. Links and clients owe nothing.

## 4. Proofs

TLC checks the instances above; the theorems hold for every value of the constants.

`ProductOutboxProofs` proves `OutboxTypeCorrect`, `OutboxAckedIsDurable`,
`OutboxOneRecordPerKey`, `OutboxAlwaysMountable` and `OutboxIndexMatchesMedia` from
`OutboxAssumption` (a capacity, and a `None` that is none of the values). None of the
properties is inductive. `OutboxInv` adds what the code relies on without saying so. While
the journal is mounted (`FrontierInv`) nothing before the append frontier is erased,
everything behind the frontier record is, and the index holds exactly the committed records
before it: the frontier record is the only one the index may not know. For every place in
`accept` and `mark_delivered` (`CallInv`) it says what is already on flash, and that no
indexed record has the key being written. `MediaInv` is what survives power loss: one
record per key, no erased record in front of a programmed one, a marker only on a committed
record, a body only with its candidate. Each action has its own lemma.

`MirroredStoreProofs` proves the lemmas that every store over `MirroredStore` needs.
`StoreInv` says that two committed generations always follow each other (`Chain`), that
the generation in use is what a mount selects between writes, and that during a write it
sits untouched on the other sector (`Based`) while the write has come as far as its place
in the code says (`Progress`). The argument is that any step of a write, completed, failed
or interrupted, only *touches* its own sector (`Touches`), and touching keeps the chain.

`RevisionedConfigProofs` builds on it: `ConfigAppliedIsRemembered`,
`ConfigRevisionNamesOneValue`, `ConfigMountedIsSelected` and `ConfigTypeCorrect`, from
`StoreAssumption`. The added invariant, `AnswerInv`, is that flash always holds every
answered revision or a later one, that the store in use is not behind any answer, and that
flash and all answers agree on the value of a revision. The new generation of a write is
larger than every answered one, so neither writing it nor tearing it can touch an answer;
the sector that an erase destroys is the older one, so the newest answer stays.

Only model-checked: the liveness properties (fairness is out of the prover's reach), the
two refinements, the message store, the mailbox, inbox collection, outbox reconciliation,
OTA and enrollment.

## 5. Hazards

`PROJECT.json` lists each hazard of the code at its line with the properties that would
catch it, and those of the parts not modelled yet with a note. Two that the OTA model
shows and no property forbids:

- An activation is two otadata writes. Power loss between them leaves the candidate
  selected with an undefined record, so the next boot runs it outside a trial.
- A transfer may start within the health window of a candidate. It erases the image that
  the bootloader would fall back to if the candidate failed before its confirmation.

One that `OutboxReconciliation` shows: a submission refused for capacity leaves the cursor
where it is and, when the row is hot, the row due. While the appliance's journal is full
the same row is tried every 30 s and the final state of another row is never fetched.
`EventuallyCaughtUp` therefore excepts a full journal.

Smaller ones, for the parts the plan still holds: a display completion overwritten before
its waiter reads it, an association that completes as its deadline passes, a NomadNet
response between a due request and its timeout, and a button sampled once a loop turn.

## 6. Findings

- `ota_closed_link` (code): `ota.rs:258` says "Fail a transfer when its bound Reticulum Link
  closes before activation." The product task calls `link_closed` only when it cannot close
  the Resource gate; the end of a Link is not observed, so the session stays active and
  every later start is answered Busy until the board restarts.
- `ota_selected_erased` (documentation): `docs/ota-updates.md:75` says
  "Verified-before-activate prevents selecting malformed or truncated images.", and
  `ota.rs:72` that Busy covers an update "already armed". A start after an activation, and
  before the reboot, is not refused and erases the slot otadata selects.
- `first_enrollment` (documentation): `management_authorization.rs:166` says that erased media
  is the empty generation-zero list and that an interrupted write falls back to the previous
  valid generation. Power loss during the very first write leaves an incomplete sector beside
  an erased one, which `select_generation` refuses on every later boot. The label store
  selects in the same way.

## 7. Plan

1. Done: the durable stores and the protocols directly above them, with the proofs of the
   journal and of the compare-and-swap stores.
2. Done: the client's outbound half over the abstract journal. Left of it: retries of a
   failed row in the liveness run, packet evidence, the activity log, and the in-memory
   store as the abstract specification of the SQLite one.
3. The inbound carrier lane in front of `LxmfStore`: budget, lane, the carrier retained
   for retry.
4. Product identity: one key for ever, through interrupted provisioning and repair.
5. NomadNet fetch and the browser that polls it; the native node's claim and its side of
   an OTA transfer; notification ledger and profile switches; display hand-off, Wi-Fi
   task, peer table.
6. The device API's bounded codec and dispatch rules as operators over bounded inputs.
7. Proofs: enrollment (`LiveIsDurable`, `OneIdentityPerWindow`, `ToldIsAuthorized`) over
   `MirroredStoreProofs`; the mailbox's `ToldIsDurable`; the inductive invariant of the
   message store; the refinement `ProductOutbox` to `DurableOutbox`; the chat store's
   status order.

## 8. Not modelled, and why

Parsing, encoding, cryptography and drawing hold no state: the models take messages,
identities, configurations and images as values and say only whether they are well
formed. PRNS, the radios, the bootloader and SQLite are external and appear as
environments that may do whatever the code must be prepared for. User interface
components, styles, build tools and test vectors carry no logic of the running system.
