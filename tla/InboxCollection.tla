--------------------------- MODULE InboxCollection ---------------------------
(***************************************************************************)
(* A client collecting the mailbox: the inbox half of ChatEngine           *)
(* (crates/appliance-sync/src/engine.rs), driven by the appliance runtime  *)
(* (crates/appliance-runtime/src/lib.rs), over the device of MailboxStore. *)
(* A scan pages through the inbox, commits every message to the client's   *)
(* database and, at the end, acknowledges the last cursor.  Answers may be *)
(* lost after the device acted, an abandoned acknowledgement may reach the *)
(* device late, and either side may restart at any point.                  *)
(***************************************************************************)
EXTENDS MailboxStore, FiniteSets

CONSTANTS
    MaxFaults,   \* bound on faults, restarts and lost answers together
    MaxRequests  \* bound on acknowledgements in flight

VARIABLES
    local,        \* message ids in the client's database
    inbox_after,  \* ChatEngine.inbox_after: a handle, 0 for None
    ack_pending,  \* ChatEngine.inbox_ack_pending, likewise
    summary,      \* the summary the running inbox_step works on
    client,       \* where the client is; "down" and "faulted" have no session
    requests,     \* acknowledgements on their way to the device
    serving,      \* the one the device is executing
    faults        \* faults so far

engine == <<inbox_after, ack_pending>>
device == <<sector, mailbox, pc, op, told, inbox, acked>>
collectVars == <<device, local, engine, summary, client, requests, serving, faults>>

Handles == {r.handle : r \in Receipt}

\* live while the client still waits for the answer.
Request == [through : Handles, live : BOOLEAN]
Abandoned(request) == [request EXCEPT !.live = FALSE]

CollectTypeOK ==
    /\ TypeOK
    /\ local \subseteq {r.id : r \in Receipt}
    /\ inbox_after \in Handles \cup {0}
    /\ ack_pending \in Handles \cup {0}
    /\ summary \in Receipt \cup {None}
    /\ client \in {"down", "faulted", "idle", "read", "ack"}
    /\ requests \subseteq Request
    /\ serving \in Request \cup {None}
    /\ faults \in 0 .. MaxFaults

CollectInit ==
    /\ MailboxInit
    /\ local = {}
    /\ inbox_after = 0
    /\ ack_pending = 0
    /\ summary = None
    /\ client = "down"
    /\ requests = {}
    /\ serving = None
    /\ faults = 0

(***************************************************************************)
(* The device answers one request at a time.                               *)
(***************************************************************************)
Running == pc \in {"idle", "unavailable"}  \* the task runs, maybe without the mailbox

\* lxmf_next, lxmf_read and the acknowledgement all need the mailbox.
Ready == pc = "idle" /\ serving = None

\* lxmf_next: the receipt behind the cursor, nothing when the cursor is unknown.
Follows(r, after) ==
    /\ r \in inbox
    /\ after = 0 \/ \E c \in inbox : c.handle = after
    /\ r.handle > after
    /\ \A x \in inbox : x.handle > after => r.handle <= x.handle

NothingFollows == \A r \in Receipt : ~Follows(r, inbox_after)

Connect ==
    /\ client = "down"
    /\ Running
    /\ client' = "idle"
    /\ inbox_after' = 0  \* reset_session_scan
    /\ UNCHANGED <<device, local, ack_pending, summary, requests, serving, faults>>

\* inbox_after and retain_inbox_ack.
RetainAck(cursor) ==
    /\ inbox_after' = cursor
    /\ ack_pending' = IF cursor > ack_pending THEN cursor ELSE ack_pending

\* Mutant: a message that is known already is not acknowledged again.
StepKnownSilently ==
    /\ client = "idle" /\ Ready
    /\ \E r \in Receipt :
          /\ Follows(r, inbox_after)
          /\ r.id \in local
          /\ inbox_after' = r.handle
    /\ UNCHANGED <<device, local, ack_pending, summary, client, requests, serving, faults>>

StepKnown ==
    /\ client = "idle" /\ Ready
    /\ \E r \in Receipt :
          /\ Follows(r, inbox_after)
          /\ r.id \in local
          /\ RetainAck(r.handle)
    /\ UNCHANGED <<device, local, summary, client, requests, serving, faults>>

\* Mutant: the cursor moves when the summary arrives.
StepUnknownAdvancing ==
    /\ client = "idle" /\ Ready
    /\ \E r \in Receipt :
          /\ Follows(r, inbox_after)
          /\ r.id \notin local
          /\ summary' = r
          /\ RetainAck(r.handle)
    /\ client' = "read"
    /\ UNCHANGED <<device, local, requests, serving, faults>>

StepUnknown ==
    /\ client = "idle" /\ Ready
    /\ \E r \in Receipt :
          /\ Follows(r, inbox_after)
          /\ r.id \notin local
          /\ summary' = r
    /\ client' = "read"
    /\ UNCHANGED <<device, local, engine, requests, serving, faults>>

\* The wire is read and committed before the cursor moves.
StepImport ==
    /\ client = "read" /\ Ready
    /\ local' = local \cup {summary.id}
    /\ RetainAck(summary.handle)
    /\ summary' = None
    /\ client' = "idle"
    /\ UNCHANGED <<device, requests, serving, faults>>

\* End of scan with something to acknowledge.
StepAck ==
    /\ client = "idle" /\ Ready
    /\ NothingFollows
    /\ ack_pending # 0
    /\ Cardinality(requests) < MaxRequests
    /\ requests' = requests \cup {[through |-> ack_pending, live |-> TRUE]}
    /\ client' = "ack"
    /\ UNCHANGED <<device, local, engine, summary, serving, faults>>

\* Nothing follows and nothing is pending: the next poll looks again.
StepEndOfScan ==
    /\ client = "idle" /\ Ready
    /\ NothingFollows
    /\ ack_pending = 0
    /\ UNCHANGED collectVars

\* The mailbox is not mounted: lxmf_next or lxmf_read answers CapabilityUnavailable, a
\* permanent_fault to the actor.  The engine keeps its cursor and its acknowledgement.
StepRefused ==
    /\ client \in {"idle", "read"}
    /\ pc = "unavailable" /\ serving = None
    /\ client' = "faulted"
    /\ summary' = None
    /\ UNCHANGED <<device, local, engine, requests, serving, faults>>

\* Reconnect, the user's way out of permanent_fault.
Reconnect ==
    /\ client = "faulted"
    /\ client' = "down"
    /\ inbox_after' = 0
    /\ UNCHANGED <<device, local, ack_pending, summary, requests, serving, faults>>

ServeAck ==
    /\ Ready
    /\ \E q \in requests, r \in inbox :
          /\ r.handle = q.through
          /\ requests' = requests \ {q}
          /\ serving' = q
          /\ AckReplay(r) \/ AckAdvance(r)
    /\ UNCHANGED <<local, engine, summary, client, faults>>

\* The mailbox is not mounted: CapabilityUnavailable.
RefuseAck ==
    /\ pc = "unavailable" /\ serving = None
    /\ \E q \in requests :
          /\ requests' = requests \ {q}
          /\ client' = IF q.live THEN "faulted" ELSE client
    /\ UNCHANGED <<device, local, engine, summary, serving, faults>>

\* The device ran to the end of the call; a client that still waits gets the answer, and
\* an error is a permanent_fault to it.
Accepted == pc = "idle" /\ Through(mailbox.cursor) >= serving.through

AnswerAck ==
    /\ serving # None /\ Running
    /\ serving' = None
    /\ client' = IF ~serving.live THEN client ELSE IF Accepted THEN "idle" ELSE "faulted"
    /\ ack_pending' = IF serving.live /\ Accepted THEN 0 ELSE ack_pending
    /\ UNCHANGED <<device, local, inbox_after, summary, requests, faults>>

(***************************************************************************)
(* The rest of the device, and what goes wrong.                            *)
(***************************************************************************)
Others == <<local, engine, summary, client, requests, serving>>

DeviceStep ==
    /\ Boot \/ BootMounted \/ Provision \/ MailboxStep \/ \E r \in Receipt : Receive(r)
    /\ UNCHANGED <<Others, faults>>

Charge == faults < MaxFaults /\ faults' = faults + 1

DeviceFault == FlashFault /\ Charge /\ UNCHANGED Others

\* A reboot drops what the device was serving and every request that waits in its lane.
\* Power cycling a device that runs without its mailbox is no fault.
DeviceRestart ==
    /\ PowerLoss
    /\ IF pc = "unavailable" THEN UNCHANGED faults ELSE Charge
    /\ requests' = {}
    /\ serving' = None
    /\ client' = IF client = "faulted" THEN client ELSE "down"
    /\ summary' = None
    /\ UNCHANGED <<local, engine>>

\* The session ends at any point: a request may still be on its way or be executing.
Drop == /\ client' = "down"
        /\ summary' = None
        /\ requests' = {Abandoned(q) : q \in requests}
        /\ serving' = IF serving = None THEN None ELSE Abandoned(serving)
        /\ UNCHANGED <<device, local>>

SessionLost == client \notin {"down", "faulted"} /\ Charge /\ Drop /\ UNCHANGED engine

\* Mutant: the scan goes on behind a message it could not import.
ImportFailsSkipping ==
    /\ client = "read" /\ Charge
    /\ RetainAck(summary.handle)
    /\ client' = "idle"
    /\ summary' = None
    /\ UNCHANGED <<device, local, requests, serving>>

\* The wire does not arrive or its commit fails.
ImportFails ==
    /\ client = "read" /\ Charge
    /\ client' \in {"down", "faulted"}
    /\ summary' = None
    /\ UNCHANGED <<device, local, engine, requests, serving>>

\* A new ChatEngine over the same database.
ClientRestart == Charge /\ Drop /\ inbox_after' = 0 /\ ack_pending' = 0

RequestLost ==
    /\ Charge
    /\ \E q \in requests :
          /\ requests' = requests \ {q}
          /\ client' = IF q.live THEN "down" ELSE client
    /\ UNCHANGED <<device, local, engine, summary, serving>>

ClientStep ==
    \/ Connect \/ Reconnect
    \/ StepKnown \/ StepUnknown \/ StepImport \/ StepAck \/ StepEndOfScan \/ StepRefused

CollectNext ==
    \/ ClientStep \/ ServeAck \/ RefuseAck \/ AnswerAck
    \/ DeviceStep
    \/ DeviceFault \/ DeviceRestart \/ SessionLost \/ ImportFails
    \/ ClientRestart \/ RequestLost

CollectSpec == CollectInit /\ [][CollectNext]_collectVars

\* The product task keeps serving, the client keeps stepping its engine, its user
\* reconnects a faulted one, and a device that lost its mailbox is power cycled.
FairCollect ==
    /\ CollectInit
    /\ [][CollectNext]_collectVars
    /\ WF_collectVars(Boot /\ UNCHANGED <<Others, faults>>)
    /\ WF_collectVars((BootMounted \/ Provision) /\ UNCHANGED <<Others, faults>>)
    /\ WF_collectVars(MailboxStep /\ UNCHANGED <<Others, faults>>)
    /\ WF_collectVars(pc = "unavailable" /\ DeviceRestart)
    /\ WF_collectVars(ClientStep)
    /\ WF_collectVars(ServeAck \/ RefuseAck)
    /\ WF_collectVars(AnswerAck)

(***************************************************************************)
(* Properties.                                                             *)
(***************************************************************************)
\* Every message at or below the device's durable watermark is in the client's database
\* ("A scan acknowledges only after every preceding message is known to be present in the
\* local durable store"), although the engine keeps its pending acknowledgement over a new
\* session and a late acknowledgement may be executed after a newer scan began.
CollectedIsImported ==
    \A r \in inbox : r.handle <= Watermark => r.id \in local

\* What the engine is about to acknowledge, or has under way, is imported as well: the
\* scan never passes a message it could not store.
ScanIsImported ==
    \A r \in inbox :
        \/ r.handle <= ack_pending
        \/ r.handle <= inbox_after
        \/ \E q \in requests : r.handle <= q.through
        => r.id \in local

\* No received message stays uncollected for ever: once faults stop it is imported and
\* covered by the durable watermark, also one that arrives while the mailbox is unavailable
\* and every scan is refused (lxmf_next, lxmf_read), and one a session read but did not
\* acknowledge.
EventuallyCollected ==
    \A r \in Receipt : []<>(r \in inbox => r.id \in local /\ Watermark >= r.handle)
=============================================================================
