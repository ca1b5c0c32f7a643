-------------------------- MODULE OutboundDelivery --------------------------
(***************************************************************************)
(* The product task's outbound side (firmware/e290/src/                    *)
(* prns_product_task.rs) above the journal: one loop that accepts          *)
(* submissions, hands the first undelivered record to PRNS, and turns the  *)
(* settlement of that command into a delivered marker, a retry or a path   *)
(* request.  PRNS and the network are external: a command is settled once, *)
(* delivery needs a good route, a path request may be answered or lost.    *)
(***************************************************************************)
EXTENDS ProductOutbox

CONSTANTS
    CommandId,   \* identifiers PRNS gives to issued commands
    MaxFaults    \* bound on flash faults, power losses and route changes

ASSUME DeliveryAssumption == MaxFaults \in Nat

VARIABLES
    at,          \* the task: loop "head", waiting in "select", in a "call"
    inflight,    \* outbound_inflight
    retry,       \* retry_outbound_at: "armed" until its deadline passes, then "none"
    timeouts,    \* LxmfOutboundRetryState.consecutive_timeouts
    commands,    \* PRNS: SendSinglePacket commands not settled yet
    lane,        \* LXMF_OUTBOUND_SETTLEMENTS
    route,       \* PRNS: what it knows of the path to the destination
    path_request,\* a RequestPath is unanswered
    proven,      \* slots whose delivery PRNS reported
    faults       \* flash faults, power losses and route changes so far

loop == <<at, inflight, retry, timeouts>>
prns == <<commands, lane, route, path_request, proven>>
all == <<vars, loop, prns, faults>>

Inflight == [id : CommandId, slot : Slot]
Failure == {"timeout", "no_route", "other"}

DeliveryTypeOK ==
    /\ TypeOK
    /\ at \in {"head", "select", "call"}
    /\ inflight \in Inflight \cup {None}
    /\ retry \in {"none", "armed"}
    /\ timeouts \in 0 .. 1
    /\ commands \subseteq Inflight
    /\ lane \subseteq [id : CommandId, result : Failure \cup {"ok"}]
    /\ route \in {"none", "stale", "good"}
    /\ path_request \in BOOLEAN
    /\ proven \subseteq Slot
    /\ faults \in 0 .. MaxFaults

DeliveryInit ==
    /\ Init
    /\ at = "head" /\ inflight = None /\ retry = "none" /\ timeouts = 0
    /\ commands = {} /\ lane = {} /\ path_request = FALSE
    /\ route \in {"none", "stale", "good"}
    /\ proven = {}
    /\ faults = 0

Boot == Mount /\ UNCHANGED <<loop, prns, faults>>

(***************************************************************************)
(* The head of the loop: issue_pending_outbound.                           *)
(***************************************************************************)
\* Mutant: issue again while a command is in flight.
CanIssueAgain == retry = "none"

CanIssue == inflight = None /\ retry = "none"

Issue ==
    /\ pc = "idle" /\ at = "head" /\ CanIssue
    /\ \E s \in Slot, id \in CommandId :
          /\ NextPending(s)
          /\ \A c \in commands : c.id # id
          /\ \A r \in lane : r.id # id
          /\ inflight' = [id |-> id, slot |-> s]
          /\ commands' = commands \cup {[id |-> id, slot |-> s]}
    /\ at' = "select"
    /\ UNCHANGED <<vars, retry, timeouts, lane, route, path_request, proven, faults>>

\* The wire cannot be read, or PRNS takes no command: try again later.
IssueFails ==
    /\ pc = "idle" /\ at = "head" /\ CanIssue
    /\ \E s \in Slot : NextPending(s)
    /\ faults < MaxFaults /\ faults' = faults + 1
    /\ retry' = "armed"
    /\ at' = "select"
    /\ UNCHANGED <<vars, inflight, timeouts, prns>>

\* Nothing to issue, or no mounted outbox to issue from.
IssueNothing ==
    /\ pc \in {"idle", "unavailable"} /\ at = "head"
    /\ CanIssue => \A s \in Slot : ~NextPending(s)
    /\ at' = "select"
    /\ UNCHANGED <<vars, inflight, retry, timeouts, prns, faults>>

\* The retry deadline passes.
RetryElapses ==
    /\ retry = "armed"
    /\ retry' = "none"
    /\ UNCHANGED <<vars, at, inflight, timeouts, prns, faults>>

(***************************************************************************)
(* The select: a submission, a settlement or the poll timer.               *)
(***************************************************************************)
Submit(c) ==
    /\ at = "select"
    /\ AcceptCall(c)
    /\ at' = "call"
    /\ UNCHANGED <<inflight, retry, timeouts, prns, faults>>

AcceptRuns ==
    /\ AcceptStep
    /\ at' = IF pc' = "idle" THEN "head" ELSE "call"
    /\ UNCHANGED <<inflight, retry, timeouts, prns, faults>>

Poll ==
    /\ pc \in {"idle", "unavailable"} /\ at = "select"
    /\ at' = "head"
    /\ UNCHANGED <<vars, inflight, retry, timeouts, prns, faults>>

Expected(r) == inflight # None /\ inflight.id = r.id

\* Mutant: any settlement counts as a delivery.
DeliveredOnAnySettlement(r) ==
    /\ MarkDelivered(inflight.slot)
    /\ inflight' = None
    /\ at' = "call"
    /\ UNCHANGED <<retry, timeouts, path_request>>

\* PRNS proved the delivery: mark_lxmf_outbound_delivered runs next.
Delivered(r) ==
    /\ r.result = "ok"
    /\ MarkDelivered(inflight.slot)
    /\ inflight' = None
    /\ at' = "call"
    /\ UNCHANGED <<retry, timeouts, path_request>>

\* Mutant: timeouts never lead to a path request.
RediscoverNever(r) == FALSE

\* note_timeout: the second consecutive timeout asks for a path and restarts the count.
Rediscover(r) == r.result = "timeout" /\ timeouts + 1 >= 2

Undelivered(r) ==
    /\ r.result # "ok"
    /\ inflight' = None
    /\ timeouts' = IF r.result = "timeout" /\ ~Rediscover(r) THEN 1 ELSE 0
    /\ path_request' = (path_request \/ Rediscover(r) \/ r.result = "no_route")
    /\ retry' = "armed"
    /\ at' = "head"
    /\ UNCHANGED vars

\* A settlement the task does not wait for is dropped.
Settled ==
    /\ pc = "idle" /\ at = "select"
    /\ \E r \in lane :
          /\ lane' = lane \ {r}
          /\ IF Expected(r)
                THEN Delivered(r) \/ Undelivered(r)
                ELSE at' = "head" /\ UNCHANGED <<vars, inflight, retry, timeouts, path_request>>
    /\ UNCHANGED <<commands, route, proven, faults>>

\* mark_delivered runs to its result: delivered, or retried later.
MarkRuns ==
    /\ \/ MarkWrite /\ UNCHANGED <<at, retry, timeouts>>
       \/ MarkVerified /\ at' = "head" /\ retry' = "none" /\ timeouts' = 0
       \/ MarkTorn /\ at' = "head" /\ retry' = "armed" /\ UNCHANGED timeouts
    /\ UNCHANGED <<inflight, prns, faults>>

(***************************************************************************)
(* Faults.                                                                 *)
(***************************************************************************)
Fault ==
    /\ faults < MaxFaults /\ faults' = faults + 1
    /\ FlashFault
    /\ retry' = IF pc = "mark_verify" THEN "armed" ELSE retry
    /\ at' = IF pc' = "idle" THEN "head" ELSE at
    /\ UNCHANGED <<inflight, timeouts, prns>>

Reset ==
    /\ faults < MaxFaults /\ faults' = faults + 1
    /\ PowerLoss
    /\ at' = "head" /\ inflight' = None /\ retry' = "none" /\ timeouts' = 0
    /\ commands' = {} /\ lane' = {} /\ path_request' = FALSE
    /\ UNCHANGED <<route, proven>>

(***************************************************************************)
(* PRNS and the network.                                                   *)
(***************************************************************************)
Settle(c, result) ==
    /\ c \in commands
    /\ commands' = commands \ {c}
    /\ lane' = lane \cup {[id |-> c.id, result |-> result]}
    /\ UNCHANGED <<vars, loop, route, path_request>>

PrnsDelivers ==
    /\ route = "good"
    /\ \E c \in commands : Settle(c, "ok") /\ proven' = proven \cup {c.slot}
    /\ UNCHANGED faults

\* No proof in time, or no route (NoRouteToDestination, NotDirectlyReachable).
PrnsFails ==
    /\ \E c \in commands : Settle(c, IF route = "none" THEN "no_route" ELSE "timeout")
    /\ UNCHANGED <<proven, faults>>

\* Any other failure: local pressure, which is a fault that does not go on forever.
PrnsRejects ==
    /\ faults < MaxFaults /\ faults' = faults + 1
    /\ \E c \in commands : Settle(c, "other")
    /\ UNCHANGED proven

PathAnswered ==
    /\ path_request
    /\ path_request' = FALSE
    /\ route' = "good"
    /\ UNCHANGED <<vars, loop, commands, lane, proven, faults>>

PathLost ==
    /\ path_request
    /\ path_request' = FALSE
    /\ UNCHANGED <<vars, loop, commands, lane, route, proven, faults>>

\* Routes change more slowly than packets are retried: a change counts as a fault.
RouteDecays ==
    /\ route = "good"
    /\ faults < MaxFaults /\ faults' = faults + 1
    /\ route' \in {"stale", "none"}
    /\ UNCHANGED <<vars, loop, commands, lane, path_request, proven>>

Loop == Boot \/ Issue \/ IssueNothing \/ Poll \/ AcceptRuns \/ MarkRuns

DeliveryNext ==
    \/ Loop \/ IssueFails \/ RetryElapses \/ Settled
    \/ \E c \in Candidate : Submit(c)
    \/ Fault \/ Reset
    \/ PrnsDelivers \/ PrnsFails \/ PrnsRejects \/ PathAnswered \/ PathLost \/ RouteDecays

DeliverySpec == DeliveryInit /\ [][DeliveryNext]_all

(***************************************************************************)
(* Fairness.  The task keeps running (WF Loop), deadlines pass, PRNS       *)
(* settles every command it takes.  The select prefers management          *)
(* requests to settlements, so a settlement is only received if requests   *)
(* do not arrive back to back forever (SF Settled).  Of the network: a     *)
(* destination asked for again and again answers once, packets sent again  *)
(* and again over a good route arrive once, and faults end.                *)
(***************************************************************************)
FairDelivery ==
    /\ DeliverySpec
    /\ WF_all(Loop)
    /\ WF_all(RetryElapses)
    /\ SF_all(Settled)
    /\ WF_all(PrnsDelivers \/ PrnsFails)
    /\ SF_all(PathAnswered)
    /\ SF_all(PrnsDelivers)

(***************************************************************************)
(* Properties.                                                             *)
(***************************************************************************)
\* Not a bit of a delivered marker is programmed for a record PRNS did not prove
\* delivered, although the settlement is matched with the record through a command
\* identifier and the marker is written several steps and possibly a retry later.
MarkedOnlyWhenProven == \A s \in Slot : media[s].mark # 0 => s \in proven

\* Deliveries are recorded in commit order: a record carries a marker only when every
\* committed record before it is recorded as delivered, also after reboots that rebuild
\* the index and with records that committed although accept reported an error.
DeliveredInOrder ==
    \A s, t \in Slot :
        s < t /\ media[t].mark # 0 /\ IsCommitted(s) => media[s].mark = MarkComplete

\* Of the commands PRNS holds and the settlements in the lane there is at most one, and
\* it is the one the task waits for: no settlement is ever lost to a stale match, so the
\* task never waits for a settlement that cannot come.
OneCommandAwaited ==
    inflight # None =>
        \/ commands = {inflight} /\ lane = {}
        \/ commands = {} /\ \E r \in lane : lane = {r} /\ r.id = inflight.id

\* Every submission acknowledged to a caller is eventually recorded as delivered, across
\* stale routes, lost packets, failed marker writes and reboots, unless the outbox could
\* not be mounted ("The E290 keeps the message intent durable beyond that volatile
\* recovery cycle").
AckedIsDelivered ==
    \A s \in Slot :
        (\E a \in acked : a.slot = s) ~> (media[s].mark = MarkComplete \/ pc = "unavailable")
=============================================================================
