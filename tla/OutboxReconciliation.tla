------------------------ MODULE OutboxReconciliation ------------------------
(***************************************************************************)
(* The sending half of a client: the outbox of the chat store              *)
(* (crates/appliance-store), the reconcile steps of ChatEngine             *)
(* (crates/appliance-sync/src/engine.rs) and the actor that schedules them *)
(* against the inbox and the radio trace (crates/appliance-runtime), over  *)
(* a device that keeps the promises of DurableOutbox.  Answers are lost    *)
(* after the device acted, abandoned submissions arrive late, and both     *)
(* sides restart.                                                          *)
(*                                                                         *)
(* The E290 reports a submission as Queued until it is delivered.  The     *)
(* device API has Preparing and Failed as well, and the client handles     *)
(* them: Reports says which of these states the device answers.            *)
(***************************************************************************)
EXTENDS DurableOutbox, Sequences, FiniteSetsExt

CONSTANTS
    MaxRows,         \* bound on messages the user sends
    Reports,         \* states short of delivery the device reports
    ChatYieldTurns,  \* RADIO_TRACE_CHAT_YIELD_TURNS
    MaxFaults        \* bound on faults, restarts, lost answers and repeated commands

VARIABLES
    rows,          \* the outbox table, by outbox id
    failed,        \* submissions the device reports as failed
    cursor,        \* ChatEngine.reconcile_offset
    hot,           \* urgent_reconcile_outbox (0 for None), _due and _reserves_lane
    due,           \* lanes whose deadline has passed
    yields,        \* radio_trace_chat_yields_remaining
    prefer_inbox,
    resting,       \* lanes that get their turn before the reconcile lane's backoff ends
    client,        \* "down" and "faulted" have no session; "waiting" is in submit
    requests,      \* submissions on their way to the device
    faults         \* faults so far

device == <<records, delivered, acked, failed>>
schedule == <<hot, due, yields, prefer_inbox, resting>>
reconcileVars == <<device, rows, cursor, schedule, client, requests, faults>>

Lane == {"inbox", "reconcile", "trace"}
Rank == [Committed |-> 0, Accepted |-> 1, Queued |-> 2, Preparing |-> 3,
         ApplicationDelivered |-> 4, Failed |-> 4]
Terminal == {"ApplicationDelivered", "Failed"}
NoHot == [row |-> 0, due |-> FALSE, reserves |-> FALSE]

Rows == DOMAIN rows
Material(i) == [key |-> rows[i].key, msg |-> rows[i].msg]

ReconcileTypeOK ==
    /\ records \in [Slot -> Candidate \cup {None}]
    /\ failed \subseteq Slot
    /\ rows \in Seq([key : Key, msg : Message, sub : Slot \cup {None}, status : DOMAIN Rank])
    /\ Len(rows) <= MaxRows
    /\ cursor \in Nat
    /\ hot \in [row : 0 .. Len(rows), due : BOOLEAN, reserves : BOOLEAN]
    /\ due \subseteq Lane
    /\ yields \in 0 .. ChatYieldTurns
    /\ prefer_inbox \in BOOLEAN
    /\ resting \subseteq Lane
    /\ client \in {"down", "faulted", "idle", "waiting"}
    /\ requests \subseteq Candidate
    /\ faults \in 0 .. MaxFaults

ReconcileInit ==
    /\ Init
    /\ rows = <<>>
    /\ failed = {}
    /\ cursor = 0
    /\ hot = NoHot
    /\ due = Lane
    /\ yields = 0
    /\ prefer_inbox = FALSE
    /\ resting = {}
    /\ client = "down"
    /\ requests = {}
    /\ faults = 0

Charge == faults < MaxFaults /\ faults' = faults + 1

(***************************************************************************)
(* The user.  The actor handles a command between two turns.               *)
(***************************************************************************)
RecordedKeys == {records[s].key : s \in {t \in Slot : records[t] # None}}
UsedKeys == {rows[i].key : i \in Rows} \cup {q.key : q \in requests} \cup RecordedKeys

\* Keys are random; here they are handed out in order.
Fresh(k) == k \notin UsedKeys /\ \A j \in Key : j < k => j \in UsedKeys

Urgent(i) ==
    /\ hot' = [row |-> i, due |-> TRUE, reserves |-> FALSE]
    /\ due' = due \cup {"reconcile"}
    /\ resting' = {}

EnqueueSend ==
    /\ client # "waiting"
    /\ Len(rows) < MaxRows
    /\ \E k \in Key :
          /\ Fresh(k)
          /\ rows' = Append(rows, [key |-> k, msg |-> Len(rows) + 1, sub |-> None,
                                   status |-> "Committed"])
    /\ Urgent(Len(rows) + 1)
    /\ UNCHANGED <<device, cursor, yields, prefer_inbox, client, requests, faults>>

\* The same send again, or a retry of a row that is pending: nothing is stored.
EnqueueExisting ==
    /\ client # "waiting"
    /\ Charge
    /\ \E i \in Rows : Urgent(i)
    /\ UNCHANGED <<device, rows, cursor, yields, prefer_inbox, client, requests>>

\* Mutant: the replaced row keeps its acceptance.
RearmedKeepingIds(i, k) == [rows EXCEPT ![i].key = k, ![i].status = "Accepted"]

Rearmed(i, k) ==
    [rows EXCEPT ![i].key = k, ![i].sub = None, ![i].status = "Committed"]

\* Mutant: a row that is pending may be replaced too.
RetryPendingSend ==
    /\ client # "waiting"
    /\ \E i \in Rows, k \in Key :
          /\ rows[i].status # "ApplicationDelivered"
          /\ Fresh(k)
          /\ rows' = Rearmed(i, k)
          /\ Urgent(i)
    /\ UNCHANGED <<device, cursor, yields, prefer_inbox, client, requests, faults>>

\* A replacement submission, for a failed row and under a key of its own.
RetrySend ==
    /\ client # "waiting"
    /\ \E i \in Rows, k \in Key :
          /\ rows[i].status = "Failed"
          /\ Fresh(k)
          /\ rows' = Rearmed(i, k)
          /\ Urgent(i)
    /\ UNCHANGED <<device, cursor, yields, prefer_inbox, client, requests, faults>>

Reconnect ==
    /\ client = "faulted"
    /\ client' = "down"
    /\ UNCHANGED <<device, rows, cursor, schedule, requests, faults>>

(***************************************************************************)
(* Which lane runs, and which row of the reconcile lane.                   *)
(***************************************************************************)
HotDue == hot.row # 0 /\ hot.due

\* select_background_work.
Selected ==
    IF HotDue /\ "reconcile" \in due THEN "reconcile"
    ELSE IF HotDue /\ hot.reserves THEN "none"
    ELSE IF "trace" \in due /\ (yields = 0 \/ due = {"trace"}) THEN "trace"
    ELSE IF "inbox" \in due /\ ("reconcile" \notin due \/ prefer_inbox) THEN "inbox"
    ELSE IF "reconcile" \in due THEN "reconcile"
    ELSE "none"

\* Mutant: the lanes do not alternate.
TurnPreferringReconcile(l) ==
    /\ client = "idle"
    /\ Selected = l
    /\ yields' = IF l = "trace" THEN ChatYieldTurns ELSE Max({yields, 1}) - 1
    /\ prefer_inbox' = prefer_inbox
    /\ resting' = resting \ {l}

\* A turn of lane l starts, with the counters select_background_work leaves behind.
Turn(l) ==
    /\ client = "idle"
    /\ Selected = l
    /\ yields' = IF l = "trace" THEN ChatYieldTurns ELSE Max({yields, 1}) - 1
    /\ prefer_inbox' = IF l = "trace" \/ (HotDue /\ "reconcile" \in due)
                       THEN prefer_inbox ELSE l # "inbox"
    /\ resting' = resting \ {l}

\* store.reconcile(): rows without acceptance and rows that may still change.
Unfinished(i) == rows[i].sub = None \/ rows[i].status \notin Terminal
Work == SelectSeq([i \in Rows |-> i], Unfinished)
At(k) == Work[(k % Len(Work)) + 1]

Preferred == HotDue /\ Unfinished(hot.row)

\* reconcile_step_selecting: Prefer, Avoid or Ordinary.
Index ==
    LET n == Len(Work)
        others == {k \in 0 .. n - 1 : At(cursor + k) # hot.row}
    IN  IF Preferred THEN CHOOSE k \in 0 .. n - 1 : At(k) = hot.row
        ELSE IF others = {} THEN cursor % n
        ELSE IF hot.row # 0 /\ ~hot.due THEN (cursor + Min(others)) % n
        ELSE cursor % n

Chosen == At(Index)

\* Mutant: a preferred turn moves the cursor too.
NextCursorAlways == (Index + 1) % Len(Work)

\* A preferred turn leaves the cursor of the rotation alone.
NextCursor == IF Preferred THEN cursor ELSE (Index + 1) % Len(Work)

(***************************************************************************)
(* Turns of the reconcile lane.                                            *)
(***************************************************************************)
ReconcileIdle ==
    /\ Turn("reconcile")
    /\ Work = <<>>
    /\ cursor' = 0
    /\ hot' = NoHot
    /\ due' = due \ {"reconcile"}
    /\ UNCHANGED <<device, rows, client, requests, faults>>

Submit ==
    /\ Turn("reconcile")
    /\ Work # <<>>
    /\ rows[Chosen].sub = None
    /\ requests' = requests \cup {Material(Chosen)}
    /\ client' = "waiting"
    /\ due' = due \ {"reconcile"}
    /\ UNCHANGED <<device, rows, cursor, hot, faults>>

HotAfterSubmit(i) ==
    IF hot.row \in {0, i} THEN [row |-> i, due |-> TRUE, reserves |-> TRUE]
    ELSE IF hot.due THEN NoHot
    ELSE [hot EXCEPT !.due = TRUE, !.reserves = FALSE]

\* The acceptance arrives and is recorded (record_acceptance).
Submitted ==
    /\ client = "waiting"
    /\ \E s \in Slot :
          /\ records[s] = Material(Chosen)
          /\ Acknowledge(s)
          /\ rows' = [rows EXCEPT ![Chosen].sub = s, ![Chosen].status = "Accepted"]
    /\ requests' = requests \ {Material(Chosen)}
    /\ cursor' = NextCursor
    /\ hot' = HotAfterSubmit(Chosen)
    /\ client' = "idle"
    /\ UNCHANGED <<failed, due, yields, prefer_inbox, resting, faults>>

\* What background_error keeps after RetryLater or CapacityExhausted: the session, the
\* cursor, and the urgency of the hot row.
Backoff ==
    /\ hot' = [hot EXCEPT !.due = hot.row # 0, !.reserves = FALSE]
    /\ UNCHANGED <<device, rows, cursor>>

Full == records[Capacity - 1] # None
Unknown(c) == c.key \notin RecordedKeys

\* CapacityExhausted, or RetryLater.
SubmitRefused ==
    /\ client = "waiting"
    /\ Unknown(Material(Chosen))
    /\ \/ Full /\ UNCHANGED faults
       \/ Charge
    /\ requests' = requests \ {Material(Chosen)}
    /\ Backoff
    /\ resting' = due
    /\ client' = "idle"
    /\ UNCHANGED <<due, yields, prefer_inbox>>

\* Progress before a final state is volatile on the device.
DeviceStates(s) ==
    IF s \in delivered THEN {"ApplicationDelivered"}
    ELSE IF s \in failed THEN {"Failed"}
    ELSE Reports \ {"Failed"}

\* Mutant: what the device reports last is shown.
ProjectedLast(current, state) == state

\* project_outbox_status.
Projected(current, state) == IF Rank[state] < Rank[current] THEN current ELSE state

HotAfterRefresh(i, state) ==
    IF hot.row = i THEN IF state \in Terminal THEN NoHot
                        ELSE [hot EXCEPT !.due = FALSE, !.reserves = FALSE]
    ELSE IF hot.due THEN NoHot
    ELSE [hot EXCEPT !.due = hot.row # 0, !.reserves = FALSE]

Refresh ==
    /\ Turn("reconcile")
    /\ Work # <<>>
    /\ rows[Chosen].sub # None
    /\ \E state \in DeviceStates(rows[Chosen].sub) :
          /\ rows' = [rows EXCEPT ![Chosen].status = Projected(@, state)]
          /\ hot' = HotAfterRefresh(Chosen, state)
          /\ due' = (due \ {"reconcile"}) \cup IF state \in Terminal THEN {"trace"} ELSE {}
    /\ cursor' = NextCursor
    /\ UNCHANGED <<device, client, requests, faults>>

RefreshLater ==
    /\ Turn("reconcile")
    /\ Work # <<>>
    /\ rows[Chosen].sub # None
    /\ Charge
    /\ Backoff
    /\ due' = due \ {"reconcile"}
    /\ UNCHANGED <<client, requests>>

(***************************************************************************)
(* The other lanes, and time.                                              *)
(***************************************************************************)
\* What the step does is InboxCollection's; an imported message wakes the trace lane.
InboxTurn ==
    /\ Turn("inbox")
    /\ \E wakes \in {{}, {"trace"}} : due' = (due \ {"inbox"}) \cup wakes
    /\ UNCHANGED <<device, rows, cursor, hot, client, requests, faults>>

TraceTurn ==
    /\ Turn("trace")
    /\ due' = due \ {"trace"}
    /\ UNCHANGED <<device, rows, cursor, hot, client, requests, faults>>

\* A deadline passes, or SyncNow moves it up.  A backoff outlasts the turns that are due.
Elapse(l) ==
    /\ client = "idle"
    /\ l \notin due
    /\ l = "reconcile" => resting = {}
    /\ due' = due \cup {l}
    /\ UNCHANGED <<device, rows, cursor, hot, yields, prefer_inbox, resting, client, requests,
                   faults>>

Connect ==
    /\ client = "down"
    /\ client' = "idle"
    /\ due' = Lane
    /\ yields' = ChatYieldTurns
    /\ hot' = [hot EXCEPT !.due = hot.row # 0]
    /\ resting' = {}
    /\ UNCHANGED <<device, rows, cursor, prefer_inbox, requests, faults>>

(***************************************************************************)
(* The device, and what goes wrong.                                        *)
(***************************************************************************)
\* A fault makes the journal skip slots.
DeviceAccept ==
    /\ \E c \in requests, s \in Slot :
          /\ Commit(s, c)
          /\ IF s = 0 \/ records[s - 1] # None THEN UNCHANGED faults ELSE Charge
    /\ UNCHANGED <<failed, rows, cursor, schedule, client, requests>>

DeviceSettles ==
    /\ \E s \in Slot :
          \/ s \notin failed /\ Deliver(s) /\ UNCHANGED failed
          \/ /\ "Failed" \in Reports
             /\ records[s] # None /\ s \notin delivered
             /\ failed' = failed \cup {s}
             /\ UNCHANGED <<records, delivered, acked>>
    /\ UNCHANGED <<rows, cursor, schedule, client, requests, faults>>

\* The session ends, or an error the actor does not retry ends it: in a call, before or
\* after the device acted, or between calls.
SessionLost ==
    /\ client \in {"idle", "waiting"}
    /\ Charge
    /\ client' \in {"down", "faulted"}
    /\ \E reserves \in {FALSE, hot.reserves} : hot' = [hot EXCEPT !.reserves = reserves]
    /\ yields' = 0
    /\ UNCHANGED <<device, rows, cursor, due, prefer_inbox, resting, requests>>

\* A request nobody waits for is lost.
RequestLost ==
    /\ client # "waiting"
    /\ \E q \in requests : requests' = requests \ {q}
    /\ UNCHANGED <<device, rows, cursor, schedule, client, faults>>

DeviceRestart ==
    /\ Charge
    /\ requests' = {}
    /\ client' = IF client = "faulted" THEN client ELSE "down"
    /\ yields' = 0
    /\ hot' = [hot EXCEPT !.reserves = FALSE]
    /\ UNCHANGED <<device, rows, cursor, due, prefer_inbox, resting>>

\* A new actor over the same database.
ClientRestart ==
    /\ Charge
    /\ client' = "down"
    /\ cursor' = 0
    /\ hot' = NoHot
    /\ yields' = 0
    /\ prefer_inbox' = FALSE
    /\ resting' = {}
    /\ UNCHANGED <<device, rows, due, requests>>

ClientStep ==
    \/ ReconcileIdle \/ Submit \/ Refresh \/ InboxTurn \/ TraceTurn \/ Connect
    \/ Submitted \/ (SubmitRefused /\ UNCHANGED faults) \/ Reconnect

ReconcileNext ==
    \/ EnqueueSend \/ EnqueueExisting \/ RetrySend
    \/ ClientStep \/ SubmitRefused \/ RefreshLater
    \/ \E l \in Lane : Elapse(l)
    \/ DeviceAccept \/ DeviceSettles
    \/ SessionLost \/ RequestLost \/ DeviceRestart \/ ClientRestart

ReconcileSpec == ReconcileInit /\ [][ReconcileNext]_reconcileVars

\* The actor's loop takes a background turn after every bounded burst of commands, the
\* device executes a submission and answers it, its user reconnects a faulted client, and
\* a deadline passes.
FairReconcile ==
    /\ ReconcileSpec
    /\ WF_reconcileVars(ClientStep)
    /\ WF_reconcileVars(DeviceAccept /\ UNCHANGED faults)
    /\ WF_reconcileVars(Elapse("reconcile"))

(***************************************************************************)
(* Properties.                                                             *)
(***************************************************************************)
\* A message has a second submission on the device only if every earlier one failed
\* ("Once the appliance accepts a message, this runtime polls its existing submission
\* rather than creating another one"), whatever answer was lost, repeated or late.
SubmittedOnce ==
    \A s, t \in Slot :
        s < t /\ records[s] # None /\ records[t] # None /\ records[s].msg = records[t].msg
        => s \in failed

\* An accepted row names the submission of its own key and message, so no two rows share
\* one, and the final state it shows is the device's.
ShownIsTrue ==
    \A i \in Rows :
        /\ rows[i].sub # None => records[rows[i].sub] = Material(i)
        /\ rows[i].status = "ApplicationDelivered" => rows[i].sub \in delivered
        /\ rows[i].status = "Failed" => rows[i].sub \in failed

\* The status of a row never goes back within an attempt, and only a failed row begins
\* another one, although a restarted device reports earlier progress again.
StatusAdvances ==
    [][\A i \in Rows :
          IF rows'[i].key = rows[i].key
          THEN Rank[rows'[i].status] >= Rank[rows[i].status]
          ELSE rows[i].status = "Failed"]_rows

\* A row the client has work for: not submitted, or final on the device and not shown so.
Behind(i) ==
    /\ i \in Rows
    /\ \/ rows[i].sub = None
       \/ rows[i].sub \in delivered \cup failed /\ rows[i].status \notin Terminal

\* No row stays behind for ever: each is submitted and the final state of its submission
\* shown, unless the journal is full.  Neither the rotation over a work list that grows and
\* shrinks nor the turns a hot row takes out of order starve another ("Work selection rotates so one long-lived
\* nonterminal submission cannot starve later outbox rows").
EventuallyCaughtUp == \A i \in 1 .. MaxRows : []<>(~Behind(i) \/ Full)

\* No lane starves another: none stays due for ever while the session lasts
\* (select_background_work), not even behind a submission that is refused again and again.
LanesServed == \A l \in Lane : []<>(l \notin due \/ client \in {"down", "faulted"})
=============================================================================
