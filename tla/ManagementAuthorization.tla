----------------------- MODULE ManagementAuthorization ----------------------
(***************************************************************************)
(* Who may manage the appliance: the durable allow-list and the enrollment *)
(* window (firmware/e290/src/management_authorization.rs), and how the     *)
(* product task enrolls an identity, seeds the list at boot and admits it  *)
(* path by path to PRNS (firmware/e290/src/prns_product_task.rs).  Value   *)
(* of MirroredStore is the set of authorized identities.                   *)
(***************************************************************************)
EXTENDS MirroredStore, FiniteSets

CONSTANTS
    Identity,     \* Link identities that ask for enrollment
    Capacity,     \* MANAGEMENT_IDENTITY_CAPACITY
    Paths,        \* the number of MANAGEMENT_AUTHORIZED_PATHS
    HoldTicks,    \* ENROLLMENT_BUTTON_HOLD_MILLIS in clock ticks
    WindowTicks,  \* ENROLLMENT_WINDOW_MILLIS in clock ticks
    MaxWindows    \* bound: windows the button opens

ASSUME ManagementAssumption ==
    /\ Value = SUBSET Identity
    /\ Empty = {}
    /\ Capacity \in Nat
    /\ Paths \in Nat \ {0}
    /\ HoldTicks \in Nat \ {0}
    /\ WindowTicks \in Nat \ {0}
    /\ MaxWindows \in Nat

VARIABLES
    window,  \* EnrollmentWindow: released, ticks the button was held, ticks left open
    opened,  \* windows opened since the appliance was made
    job,     \* the identity being admitted, its next path, whether boot asked for it
    todo,    \* identities of the list boot has still to admit
    sent,    \* admissions issued to PRNS and not executed
    live,    \* admissions PRNS has executed
    told,    \* identities told in this boot that they are authorized
    granted  \* identities ever told so

answers == <<told, granted>>
managementVars == <<window, opened, job, todo, sent, live, answers>>
vars == <<storeVars, managementVars>>

Admission == Identity \X (1 .. Paths)
NotHeld == HoldTicks + 1

TypeOK ==
    /\ StoreTypeOK
    /\ pc \in {"off", "seed", "ready", "erase", "verify", "issue", "wait"} \cup Writing
    /\ window \in [released : BOOLEAN, held : 0 .. NotHeld, left : 0 .. WindowTicks]
    /\ opened \in 0 .. MaxWindows
    /\ job \in [who : Identity, path : 1 .. Paths, seeding : BOOLEAN] \cup {None}
    /\ todo \subseteq Identity
    /\ sent \subseteq Admission
    /\ live \subseteq Admission
    /\ told \subseteq granted
    /\ granted \subseteq Identity

\* EnrollmentWindow::new, and what expire and consume leave.
Closed == [released |-> FALSE, held |-> NotHeld, left |-> 0]

Init ==
    /\ StoreInit
    /\ window = Closed
    /\ opened = 0
    /\ job = None
    /\ todo = {}
    /\ sent = {}
    /\ live = {}
    /\ told = {}
    /\ granted = {}

(***************************************************************************)
(* The enrollment button, sampled at the head of the task's loop.  Every   *)
(* use of the window first closes it when its time is over, so the clock   *)
(* closes it here.                                                         *)
(***************************************************************************)
Tick ==
    /\ pc # "off"
    /\ window.left > 0 \/ window.held < HoldTicks
    /\ window' = CASE window.left = 1 -> Closed
                   [] window.left > 1 -> [window EXCEPT !.left = @ - 1]
                   [] OTHER -> [window EXCEPT !.held = @ + 1]
    /\ UNCHANGED <<storeVars, opened, job, todo, sent, live, answers>>

ObserveReleased ==
    /\ pc = "ready"
    /\ window' = IF window.left > 0 THEN [window EXCEPT !.released = TRUE]
                 ELSE [window EXCEPT !.released = TRUE, !.held = NotHeld]
    /\ UNCHANGED <<storeVars, opened, job, todo, sent, live, answers>>

ObservePressed ==
    /\ pc = "ready"
    /\ window.left = 0 /\ window.released /\ window.held = NotHeld
    /\ window' = [window EXCEPT !.held = 0]
    /\ UNCHANGED <<storeVars, opened, job, todo, sent, live, answers>>

ObserveOpens ==
    /\ pc = "ready"
    /\ window.left = 0 /\ window.released /\ window.held = HoldTicks
    /\ opened < MaxWindows
    /\ window' = [Closed EXCEPT !.left = WindowTicks]
    /\ opened' = opened + 1
    /\ UNCHANGED <<storeVars, job, todo, sent, live, answers>>

(***************************************************************************)
(* Boot: mount the list, then seed_management_authorization.               *)
(***************************************************************************)
Boot ==
    /\ pc = "off"
    /\ \E g \in Generation : Mounts(g) /\ mounted' = g /\ todo' = g.value
    /\ pc' = "seed"
    /\ UNCHANGED <<sector, op, window, opened, job, sent, live, answers>>

\* Mutant: a list that cannot be read counts as an empty one.
BootUnavailableAsEmpty ==
    /\ pc = "off"
    /\ mounted' = Fresh
    /\ pc' = "seed"
    /\ UNCHANGED <<sector, op, managementVars>>

\* The list cannot be read or is refused: nobody is admitted in this boot.
BootUnavailable ==
    /\ pc = "off"
    /\ mounted' = None
    /\ pc' = "seed"
    /\ UNCHANGED <<sector, op, managementVars>>

SeedNext ==
    /\ pc = "seed"
    /\ \E i \in todo :
          /\ todo' = todo \ {i}
          /\ job' = [who |-> i, path |-> 1, seeding |-> TRUE]
    /\ pc' = "issue"
    /\ UNCHANGED <<sector, mounted, op, window, opened, sent, live, answers>>

Seeded ==
    /\ pc = "seed"
    /\ todo = {}
    /\ pc' = "ready"
    /\ UNCHANGED <<sector, mounted, op, managementVars>>

(***************************************************************************)
(* An enrollment request while the window is open.  A request outside the  *)
(* window, from an unidentified Link, or that finds the list full or       *)
(* unavailable, only closes its Link.                                      *)
(***************************************************************************)
Admit(i) == job' = [who |-> i, path |-> 1, seeding |-> FALSE]

\* Already on the list: no flash write, and the window is used up.
EnrollPresent(i) ==
    /\ pc = "ready"
    /\ window.left > 0
    /\ mounted # None
    /\ i \in mounted.value
    /\ window' = Closed
    /\ Admit(i)
    /\ pc' = "issue"
    /\ UNCHANGED <<sector, mounted, op, opened, todo, sent, live, answers>>

\* Mutant: PRNS is asked before the list is written.
EnrollNewEarly(i) ==
    /\ pc = "ready"
    /\ window.left > 0
    /\ CanAdvance
    /\ i \notin mounted.value /\ Cardinality(mounted.value) < Capacity
    /\ op' = Successor(mounted.value \cup {i})
    /\ Admit(i)
    /\ sent' = sent \cup {<<i, 1>>}
    /\ pc' = "erase"
    /\ UNCHANGED <<sector, mounted, window, opened, todo, live, answers>>

EnrollNew(i) ==
    /\ pc = "ready"
    /\ window.left > 0
    /\ CanAdvance
    /\ i \notin mounted.value /\ Cardinality(mounted.value) < Capacity
    /\ op' = Successor(mounted.value \cup {i})
    /\ Admit(i)
    /\ pc' = "erase"
    /\ UNCHANGED <<sector, mounted, window, opened, todo, sent, live, answers>>

\* Mutant: the window is not used up.
EnrolledKeepingWindow ==
    /\ pc = "verify"
    /\ Verifies
    /\ mounted' = [gen |-> op.gen, value |-> op.value, at |-> op.at]
    /\ op' = None
    /\ pc' = "issue"
    /\ UNCHANGED <<sector, window, opened, job, todo, sent, live, answers>>

Enrolled ==
    /\ pc = "verify"
    /\ Verifies
    /\ mounted' = [gen |-> op.gen, value |-> op.value, at |-> op.at]
    /\ op' = None
    /\ window' = Closed
    /\ pc' = "issue"
    /\ UNCHANGED <<sector, opened, job, todo, sent, live, answers>>

\* Mutant: the list in use before the failed write stays in use.
EnrollErrorKeeping ==
    /\ \/ Interrupted
       \/ pc \in {"erase", "verify"} \cup Writing /\ UNCHANGED sector
    /\ op' = None
    /\ job' = None
    /\ pc' = "ready"
    /\ UNCHANGED <<mounted, window, opened, todo, sent, live, answers>>

\* A flash error or a failed read back leaves the media in doubt: the list is unavailable
\* until the next boot, and the window stays open.
EnrollError ==
    /\ \/ Interrupted
       \/ pc \in {"erase", "verify"} \cup Writing /\ UNCHANGED sector
    /\ mounted' = None
    /\ op' = None
    /\ job' = None
    /\ pc' = "ready"
    /\ UNCHANGED <<window, opened, todo, sent, live, answers>>

(***************************************************************************)
(* apply_management_identity: one command for each path, each settled      *)
(* before the next is issued.                                              *)
(***************************************************************************)
Asked == <<job.who, job.path>>

Issue ==
    /\ pc = "issue"
    /\ sent' = sent \cup {Asked}
    /\ pc' = "wait"
    /\ UNCHANGED <<sector, mounted, op, window, opened, job, todo, live, answers>>

NextPath ==
    /\ pc = "wait"
    /\ Asked \notin sent /\ Asked \in live
    /\ job.path < Paths
    /\ job' = [job EXCEPT !.path = @ + 1]
    /\ pc' = "issue"
    /\ UNCHANGED <<sector, mounted, op, window, opened, todo, sent, live, answers>>

\* The last path is admitted: an enrollment is answered.
Admitted ==
    /\ pc = "wait"
    /\ Asked \notin sent /\ Asked \in live
    /\ job.path = Paths
    /\ \/ job.seeding /\ UNCHANGED answers
       \/ ~job.seeding /\ told' = told \cup {job.who} /\ granted' = granted \cup {job.who}
    /\ pc' = IF job.seeding THEN "seed" ELSE "ready"
    /\ job' = None
    /\ UNCHANGED <<sector, mounted, op, window, opened, todo, sent, live>>

\* No room for the command, a rejection, or no settlement in time: the remaining paths are
\* given up.  A command that was issued may still be executed.
NotAdmitted ==
    /\ pc \in {"issue", "wait"}
    /\ pc' = IF job.seeding THEN "seed" ELSE "ready"
    /\ job' = None
    /\ UNCHANGED <<sector, mounted, op, window, opened, todo, sent, live, answers>>

Execute(c) ==
    /\ c \in sent
    /\ sent' = sent \ {c}
    /\ live' = live \cup {c}
    /\ UNCHANGED <<storeVars, window, opened, job, todo, answers>>

Reject(c) ==
    /\ c \in sent
    /\ sent' = sent \ {c}
    /\ UNCHANGED <<storeVars, window, opened, job, todo, live, answers>>

PowerLoss ==
    /\ pc # "off"
    /\ Interrupted \/ UNCHANGED sector
    /\ mounted' = None
    /\ pc' = "off"
    /\ op' = None
    /\ window' = Closed
    /\ job' = None
    /\ todo' = {}
    /\ sent' = {}
    /\ live' = {}
    /\ told' = {}
    /\ UNCHANGED <<opened, granted>>

Next ==
    \/ Tick \/ ObserveReleased \/ ObservePressed \/ ObserveOpens
    \/ Boot \/ BootUnavailable \/ SeedNext \/ Seeded
    \/ \E i \in Identity : EnrollPresent(i) \/ EnrollNew(i)
    \/ StoreStep /\ UNCHANGED managementVars
    \/ Enrolled \/ EnrollError
    \/ Issue \/ NextPath \/ Admitted \/ NotAdmitted
    \/ \E c \in sent : Execute(c) \/ Reject(c)
    \/ PowerLoss

Spec == Init /\ [][Next]_vars

(***************************************************************************)
(* Properties.                                                             *)
(***************************************************************************)
\* The identities the committed generations hold.
Listed == UNION {sector[x].value : x \in {y \in Sector : Valid(y)}}

\* No identity is admitted by PRNS, nor about to be, that the list on flash does not hold:
\* enrollment commits before it asks PRNS, and a late or repeated command cannot admit
\* anyone whom the next boot would not.
LiveIsDurable == \A c \in sent \cup live : c[1] \in Listed

\* Each press of the button lets at most one identity onto the list, whatever fails or
\* loses power between the commit and the end of the window.
OneIdentityPerWindow == Cardinality(Listed) <= opened

\* An identity told that it is authorized is admitted on every path until the power fails
\* (apply_management_identity), and every mount that succeeds lists it, in this boot and
\* in all later ones, whatever unreadable boots, failed enrollments and torn writes lie
\* between (mount_management_allowlist, enroll_management_identity).
ToldIsAuthorized ==
    /\ \A i \in told, p \in 1 .. Paths : <<i, p>> \in live
    /\ Mountable => \A i \in granted : \E x \in Sector : Selects(x) /\ i \in sector[x].value

\* mount_management_allowlist's comment: "An interrupted write in the inactive sector falls
\* back to the previous valid generation", and exactly erased media is generation zero.
InterruptedWriteFallsBack == (\A x \in Sector : ~Corrupt(x)) /\ pc = "off" => Mountable
=============================================================================
