------------------------------ MODULE OtaUpdate ------------------------------
(***************************************************************************)
(* Firmware update: the OTA coordinator (firmware/e290/src/ota.rs), its    *)
(* flash back end (product_store.rs), the product task that opens PRNS's   *)
(* per-Link Resource gate around it, confirms a candidate after its health *)
(* window (prns_product_task.rs), and the bootloader that picks a slot.    *)
(***************************************************************************)
EXTENDS Naturals, Sequences

CONSTANTS
    Link, Manifest,
    Size,         \* chunks of the image a manifest announces
    BadImage,     \* manifests whose image is no ESP32-S3 application
    Factory,      \* the provisioned image
    SlotChunks,   \* what a slot holds
    SkipsBooted,  \* next_partition passes over the slot that is running
    MaxSessions,  \* bound on sessions
    None

ASSUME OtaAssumption ==
    /\ Size \in [Manifest -> Nat \ {0}]
    /\ Factory \in Manifest \ BadImage
    /\ SkipsBooted \in BOOLEAN
    /\ None \notin Link \cup Manifest

Slot == {"ota_0", "ota_1"}
Other(s) == IF s = "ota_0" THEN "ota_1" ELSE "ota_0"

VARIABLES
    slot,      \* flash: the chunks in each slot
    selected,  \* otadata: the slot selected for boot
    record,    \* otadata: the state of each slot's record
    running,   \* the slot that is executing, None without power
    links,     \* PRNS: open Links
    ended,     \* Links that ended since the boot; an identifier is never used again
    gate,      \* PRNS: Links whose Resource strategy is Accept
    resource,  \* the Resource in the product's lane
    active,    \* OtaCoordinator.active
    phase,     \* OtaCoordinator.status.phase
    trial,     \* ota_boot_confirmation_at is set
    pc,        \* where the product task is
    sessions   \* sessions so far

otadata == <<selected, record>>
network == <<links, ended, gate>>
prns == <<network, resource>>
task == <<active, phase, trial, pc, sessions>>
vars == <<slot, otadata, running, prns, task>>

Data == Manifest \X (1 .. SlotChunks)
Torn == <<None, 0>>
Image(m) == [i \in 1 .. Size[m] |-> <<m, i>>]
Complete(s) == \E m \in Manifest \ BadImage : slot[s] = Image(m)

Session == [link : Link, id : 1 .. MaxSessions, manifest : Manifest, slot : Slot,
            next : 0 .. SlotChunks, armed : BOOLEAN]
Resource == [link : Link, id : 1 .. MaxSessions, next : 0 .. SlotChunks, data : Data]
RecordState == {"none", "undefined", "new", "pending", "valid", "aborted"}

TypeOK ==
    /\ slot \in [Slot -> Seq(Data \cup {Torn})]
    /\ selected \in Slot
    /\ record \in [Slot -> RecordState]
    /\ running \in Slot \cup {None}
    /\ links \subseteq Link /\ ended \subseteq Link \ links /\ gate \subseteq links
    /\ resource \in Resource \cup {None}
    /\ active \in Session \cup {None}
    /\ phase \in {"Idle", "Receiving", "Activated", "Failed"}
    /\ trial \in BOOLEAN
    /\ pc \in {"loop", "arm", "close", "ingest", "write", "validate", "select", "mark"}
    /\ sessions \in 0 .. MaxSessions

\* A provisioned board: otadata erased, the image in ota_0.
Init ==
    /\ slot = [s \in Slot |-> IF s = "ota_0" THEN Image(Factory) ELSE <<>>]
    /\ selected = "ota_0"
    /\ record = [s \in Slot |-> "none"]
    /\ running = None
    /\ links = {} /\ ended = {} /\ gate = {} /\ resource = None
    /\ active = None /\ phase = "Idle" /\ trial = FALSE /\ pc = "loop" /\ sessions = 0

At(place) == running # None /\ pc = place

(***************************************************************************)
(* The bootloader: a record that is pending verification is rejected, a    *)
(* new candidate is put on trial, and the other slot is run when the       *)
(* selected one holds no image.                                            *)
(***************************************************************************)
Rejecting == [s \in Slot |-> IF record[s] = "pending" THEN "aborted" ELSE record[s]]

Selection ==
    IF Rejecting[selected] = "aborted" /\ Rejecting[Other(selected)] # "aborted"
    THEN Other(selected) ELSE selected

\* run() then looks at the record of the selected slot.
Boot ==
    /\ running = None
    /\ running' = IF Complete(Selection) THEN Selection ELSE Other(Selection)
    /\ Complete(running')
    /\ selected' = Selection
    /\ record' = [Rejecting EXCEPT ![Selection] = IF @ = "new" THEN "pending" ELSE @]
    /\ trial' = (record'[Selection] = "pending")
    /\ UNCHANGED <<slot, prns, active, phase, pc, sessions>>

\* What a reset leaves: flash.
Off ==
    /\ running' = None
    /\ links' = {} /\ ended' = {} /\ gate' = {} /\ resource' = None
    /\ active' = None /\ phase' = "Idle" /\ trial' = FALSE /\ pc' = "loop"
    /\ UNCHANGED sessions

(***************************************************************************)
(* The health window.                                                      *)
(***************************************************************************)
\* Mutant: the record is not looked at again.
ConfirmBlindly ==
    /\ At("loop") /\ trial
    /\ record' = [record EXCEPT ![selected] = "valid"]
    /\ trial' = FALSE
    /\ UNCHANGED <<slot, selected, running, prns, active, phase, pc, sessions>>

Confirm ==
    /\ At("loop") /\ trial
    /\ record[selected] = "pending"
    /\ record' = [record EXCEPT ![selected] = "valid"]
    /\ trial' = FALSE
    /\ UNCHANGED <<slot, selected, running, prns, active, phase, pc, sessions>>

\* The state changed, or its write or read back failed: software_reset.
ConfirmReset ==
    /\ At("loop") /\ trial
    /\ \/ UNCHANGED record
       \/ /\ record[selected] = "pending"
          /\ record' = [record EXCEPT ![selected] = "valid"]
    /\ Off
    /\ UNCHANGED <<slot, selected>>

(***************************************************************************)
(* Links, as PRNS opens and closes them.                                   *)
(***************************************************************************)
OpenLink ==
    /\ running # None
    /\ \E l \in Link \ (links \cup ended) : links' = links \cup {l}
    /\ UNCHANGED <<slot, otadata, running, ended, gate, resource, task>>

End(l) ==
    /\ links' = links \ {l}
    /\ ended' = ended \cup ({l} \cap links)
    /\ gate' = gate \ {l}

\* Nothing in the product observes the end of a Link.
LinkEnds ==
    /\ \E l \in links : End(l)
    /\ UNCHANGED <<slot, otadata, running, resource, task>>

\* close_link, ignored when its command finds no room.
CloseLink(l) == End(l) \/ UNCHANGED network

(***************************************************************************)
(* OtaStart and OtaNext.                                                   *)
(***************************************************************************)
\* Mutant: the running slot is not passed over.
NextPartitionUnaware == Other(selected)

NextPartition ==
    IF SkipsBooted /\ Other(selected) = running THEN selected ELSE Other(selected)

StartTooLarge ==
    /\ At("loop") /\ active = None
    /\ \E l \in links, m \in Manifest : Size[m] > SlotChunks
    /\ phase' = "Failed"
    /\ UNCHANGED <<slot, otadata, running, prns, active, trial, pc, sessions>>

\* Mutant: the slot is not erased.
StartUnerased ==
    /\ At("loop") /\ active = None
    /\ sessions < MaxSessions
    /\ \E l \in links, m \in Manifest :
          /\ Size[m] <= SlotChunks
          /\ active' = [link |-> l, id |-> sessions + 1, manifest |-> m,
                        slot |-> NextPartition, next |-> 0, armed |-> TRUE]
    /\ phase' = "Receiving"
    /\ pc' = "arm"
    /\ sessions' = sessions + 1
    /\ UNCHANGED <<slot, otadata, running, prns, trial>>

\* begin, with the erase of prepare_inactive, then arm_next.
Start ==
    /\ At("loop") /\ active = None
    /\ sessions < MaxSessions
    /\ \E l \in links, m \in Manifest :
          /\ Size[m] <= SlotChunks
          /\ active' = [link |-> l, id |-> sessions + 1, manifest |-> m,
                        slot |-> NextPartition, next |-> 0, armed |-> TRUE]
    /\ slot' = [slot EXCEPT ![NextPartition] = <<>>]
    /\ phase' = "Receiving"
    /\ pc' = "arm"
    /\ sessions' = sessions + 1
    /\ UNCHANGED <<otadata, running, prns, trial>>

StartEraseFails ==
    /\ At("loop") /\ active = None /\ links # {}
    /\ slot' = [slot EXCEPT ![NextPartition] = <<Torn>>]
    /\ phase' = "Failed"
    /\ UNCHANGED <<otadata, running, prns, active, trial, pc, sessions>>

\* arm_next asks for the Link, the session and the next chunk.
ArmNext(l, id, next) ==
    /\ At("loop") /\ active # None
    /\ l \in links
    /\ active.link = l /\ active.id = id /\ active.next = next
    /\ active' = [active EXCEPT !.armed = TRUE]
    /\ pc' = "arm"
    /\ UNCHANGED <<slot, otadata, running, prns, phase, trial, sessions>>

\* The Accept strategy is settled, and PRNS opens the gate of a Link that is still there.
Armed ==
    /\ At("arm")
    /\ gate' = gate \cup ({active.link} \cap links)
    /\ pc' = "loop"
    /\ UNCHANGED <<slot, otadata, running, links, ended, resource, active, phase, trial, sessions>>

\* Command pressure, rejection or timeout, after which PRNS may still have opened it.
ArmFails ==
    /\ At("arm")
    /\ active' = [active EXCEPT !.armed = FALSE]
    /\ \/ CloseLink(active.link)
       \/ gate' = gate \cup ({active.link} \cap links) /\ UNCHANGED <<links, ended>>
    /\ pc' = "loop"
    /\ UNCHANGED <<slot, otadata, running, resource, phase, trial, sessions>>

(***************************************************************************)
(* One Resource: consume_ota_resource.                                     *)
(***************************************************************************)
\* PRNS completes a Resource on an open gate; a full lane drops it.
ResourceArrives ==
    /\ running # None
    /\ resource = None
    /\ \E l \in gate, id \in 1 .. sessions, next \in 0 .. SlotChunks, data \in Data :
          resource' = [link |-> l, id |-> id, next |-> next, data |-> data]
    /\ UNCHANGED <<slot, otadata, running, network, task>>

Consume ==
    /\ At("loop") /\ resource # None
    /\ pc' = "close"
    /\ UNCHANGED <<slot, otadata, running, prns, active, phase, trial, sessions>>

\* Mutant: the gate is closed after the chunk was written.
GateClosedLate ==
    /\ At("close")
    /\ pc' = "ingest"
    /\ UNCHANGED <<slot, otadata, running, prns, active, phase, trial, sessions>>

GateClosed ==
    /\ At("close")
    /\ gate' = gate \ {resource.link}
    /\ pc' = "ingest"
    /\ UNCHANGED <<slot, otadata, running, links, ended, resource, active, phase, trial, sessions>>

\* fail_active, and the Link of the Resource is closed.
Fail ==
    /\ phase' = IF active = None THEN phase ELSE "Failed"
    /\ active' = None
    /\ CloseLink(resource.link)
    /\ resource' = None
    /\ pc' = "loop"
    /\ UNCHANGED <<running, trial, sessions>>

\* The AcceptNone strategy is not settled: link_closed, for the Link of the Resource.
GateStuck ==
    /\ At("close")
    /\ IF active # None /\ active.link = resource.link
       THEN active' = None /\ phase' = "Failed"
       ELSE UNCHANGED <<active, phase>>
    /\ CloseLink(resource.link)
    /\ resource' = None
    /\ pc' = "loop"
    /\ UNCHANGED <<slot, otadata, running, trial, sessions>>

\* The next chunk of the session, on its Link, while it is armed.
Expected ==
    /\ active # None
    /\ active.armed
    /\ active.link = resource.link
    /\ active.id = resource.id
    /\ active.next = resource.next
    /\ active.next < Size[active.manifest]

IngestRejected ==
    /\ At("ingest") /\ ~Expected
    /\ Fail
    /\ UNCHANGED <<slot, otadata>>

\* The application gate is consumed before flash is touched.
IngestAccepted ==
    /\ At("ingest") /\ Expected
    /\ active' = [active EXCEPT !.armed = FALSE]
    /\ pc' = "write"
    /\ UNCHANGED <<slot, otadata, running, prns, phase, trial, sessions>>

AppendChunk(data) == slot' = [slot EXCEPT ![active.slot] = Append(@, data)]

WriteChunk ==
    /\ At("write")
    /\ AppendChunk(resource.data)
    /\ active' = [active EXCEPT !.next = @ + 1]
    /\ IF active.next + 1 = Size[active.manifest]
       THEN pc' = "validate" /\ UNCHANGED resource
       ELSE pc' = "loop" /\ resource' = None
    /\ UNCHANGED <<otadata, running, network, phase, trial, sessions>>

WriteFails ==
    /\ At("write")
    /\ \E data \in {Torn, resource.data} : AppendChunk(data)
    /\ Fail
    /\ UNCHANGED otadata

\* Mutant: the digest is not compared.
ValidateImageOnly ==
    /\ At("validate")
    /\ active.manifest \notin BadImage
    /\ pc' = "select"
    /\ UNCHANGED <<slot, otadata, running, prns, active, phase, trial, sessions>>

\* The digest of the whole image, then validate_staged_image.
Staged == slot[active.slot] = Image(active.manifest) /\ active.manifest \notin BadImage

Validate ==
    /\ At("validate") /\ Staged
    /\ pc' = "select"
    /\ UNCHANGED <<slot, otadata, running, prns, active, phase, trial, sessions>>

ValidateRejects ==
    /\ At("validate") /\ ~Staged
    /\ Fail
    /\ UNCHANGED <<slot, otadata>>

\* A read of the staged image fails.
ValidateFails ==
    /\ At("validate")
    /\ Fail
    /\ UNCHANGED <<slot, otadata>>

(***************************************************************************)
(* activate: the selection and the mark are two writes of otadata.         *)
(***************************************************************************)
SelectSlot ==
    /\ selected' = active.slot
    /\ record' = [record EXCEPT ![active.slot] = "undefined"]

Select ==
    /\ At("select") /\ NextPartition = active.slot
    /\ SelectSlot
    /\ pc' = "mark"
    /\ UNCHANGED <<slot, running, prns, active, phase, trial, sessions>>

SelectFails ==
    /\ At("select")
    /\ SelectSlot \/ UNCHANGED otadata
    /\ Fail
    /\ UNCHANGED slot

MarkNew == record' = [record EXCEPT ![selected] = "new"]

\* Mutant: the session is not ended.
MarkForgetting ==
    /\ At("mark")
    /\ MarkNew
    /\ phase' = "Activated"
    /\ resource' = None
    /\ pc' = "loop"
    /\ UNCHANGED <<slot, selected, running, network, active, trial, sessions>>

Mark ==
    /\ At("mark")
    /\ MarkNew
    /\ active' = None
    /\ phase' = "Activated"
    /\ resource' = None
    /\ pc' = "loop"
    /\ UNCHANGED <<slot, selected, running, network, trial, sessions>>

MarkFails ==
    /\ At("mark")
    /\ MarkNew \/ UNCHANGED record
    /\ Fail
    /\ UNCHANGED <<slot, selected>>

\* OtaReboot is honoured once an image is activated.
Reboot ==
    /\ At("loop") /\ phase = "Activated" /\ links # {}
    /\ Off
    /\ UNCHANGED <<slot, otadata>>

\* Power is lost, possibly while a chunk is written.
PowerLoss ==
    /\ running # None
    /\ IF pc = "write" THEN \E data \in {Torn, resource.data} : AppendChunk(data) ELSE UNCHANGED slot
    /\ Off
    /\ UNCHANGED otadata

TaskStep ==
    \/ Armed \/ Consume \/ GateClosed \/ IngestRejected \/ IngestAccepted
    \/ WriteChunk \/ Validate \/ ValidateRejects \/ Select \/ Mark

Failure ==
    \/ ConfirmReset \/ StartEraseFails \/ ArmFails \/ GateStuck
    \/ WriteFails \/ ValidateFails \/ SelectFails \/ MarkFails \/ PowerLoss

Next ==
    \/ Boot \/ Confirm \/ Reboot
    \/ OpenLink \/ LinkEnds \/ ResourceArrives
    \/ StartTooLarge \/ Start
    \/ \E l \in Link, id \in 1 .. MaxSessions, next \in 0 .. SlotChunks : ArmNext(l, id, next)
    \/ TaskStep
    \/ Failure

Spec == Init /\ [][Next]_vars

\* The board runs while it has power and the product task finishes what it began.
FairSpec ==
    /\ Spec
    /\ WF_vars(Boot)
    /\ WF_vars(Confirm)
    /\ WF_vars(TaskStep)

(***************************************************************************)
(* Properties.                                                             *)
(***************************************************************************)
\* The slot that executes is never erased or written.
RunningUntouched == [][running # None => slot'[running] = slot[running]]_vars

\* The product selects a slot for boot only when it holds a complete image with the
\* digest the sender announced, although chunks arrive one by one, from several Links,
\* out of order or with the wrong content.
SelectedWasVerified ==
    [][running # None /\ selected' # selected => Complete(selected')]_vars

\* The Resource gate of a session is closed while its chunk goes to flash ("closes it
\* before flash mutation").
GateClosedOnWrite == At("write") => active.link \notin gate

\* Between two requests the progress a client is told is what the inactive slot holds.
ProgressIsOnFlash ==
    active # None /\ running # None /\ pc \in {"loop", "arm"} =>
        /\ Len(slot[active.slot]) = active.next
        /\ \A i \in 1 .. active.next : slot[active.slot][i] # Torn
        /\ active.slot # running

\* A client that was told "Activated" and asks for the reboot gets a candidate on trial.
ActivatedIsBootable ==
    phase = "Activated" /\ running # None =>
        active = None /\ record[selected] = "new" /\ Complete(selected) /\ selected # running

\* The end of the health window never confirms an image that was staged and selected
\* during it: a new image leaves that state only through a boot that puts it on trial, or
\* when it is selected again.
StagedIsNotConfirmed ==
    [][\A s \in Slot : record[s] = "new" /\ running # None => record'[s] \in {"new", "undefined"}]_vars

(***************************************************************************)
(* What the documentation says and the code does not keep.                 *)
(***************************************************************************)
\* "Fail a transfer when its bound Reticulum Link closes before activation."
ClosedLinkFailsTransfer ==
    (active # None /\ active.link \notin links) ~> (active = None \/ active.link \in links)

\* "Verified-before-activate prevents selecting malformed or truncated images."
SelectedIsComplete == Complete(selected)
=============================================================================
