--------------------------- MODULE MirroredStore ----------------------------
(***************************************************************************)
(* Two flash sectors holding complete generations of one value, written in *)
(* turn, each naming its predecessor.  The management allow-list, the      *)
(* appliance settings (firmware/e290/src/management_authorization.rs and   *)
(* appliance_settings.rs) and the network configuration                    *)
(* (crates/network-config-store) share this format and this protocol.      *)
(***************************************************************************)
EXTENDS NorFlash

CONSTANTS
    Value,          \* what a generation holds
    Empty,          \* what exactly erased media stands for
    MaxGeneration,  \* the largest generation a record can hold
    None            \* no sector, nothing mounted, no write in progress

ASSUME StoreAssumption ==
    /\ Empty \in Value
    /\ MaxGeneration \in Nat \ {0}
    /\ None \notin {"A", "B"}
    /\ None \notin [gen : Nat, value : Value, pred : [gen : Nat, value : Value], at : {"A", "B"}]
    /\ None \notin [gen : Nat, value : Value, at : {"A", "B", None}]

Sector == {"A", "B"}
Other(x) == IF x = "A" THEN "B" ELSE "A"

\* A record is programmed in two writes: everything up to its digest, then the marker.
Committed == 4
Garbage == Garbled(Committed)

VARIABLES
    sector,   \* flash: program level and record of each sector
    mounted,  \* the generation in memory, None when the store is unavailable
    pc,       \* where the task is; "off" without power
    op        \* the record being written

storeVars == <<sector, mounted, pc, op>>

\* SHA-256 is collision free: a digest is the generation and value it was taken over.
Digest == [gen : Nat, value : Value]
DigestOf(r) == [gen |-> r.gen, value |-> r.value]

Blank == [level |-> Erased, gen |-> 0, value |-> Empty, pred |-> [gen |-> 0, value |-> Empty]]
Fresh == [gen |-> 0, value |-> Empty, at |-> None]

Record == [gen : 1 .. MaxGeneration, value : Value, pred : Digest, at : Sector]
Generation == [gen : 0 .. MaxGeneration, value : Value, at : Sector \cup {None}]
Writing == {"prefix", "commit"}

StoreTypeOK ==
    /\ sector \in [Sector -> [level : 0 .. Garbage, gen : 0 .. MaxGeneration,
                              value : Value, pred : Digest]]
    /\ mounted \in Generation \cup {None}
    /\ op \in Record \cup {None}

(***************************************************************************)
(* Mount: inspect_sector twice, then select_generation.                    *)
(***************************************************************************)
Valid(x) == sector[x].level = Committed
Corrupt(x) == sector[x].level = Garbage
Blanked(x) == sector[x].level = Erased
At(x) == [gen |-> sector[x].gen, value |-> sector[x].value, at |-> x]

Succeeds(x, y) ==
    /\ sector[x].gen = sector[y].gen + 1
    /\ sector[x].pred = DigestOf(sector[y])

\* The committed generation that succeeds the other one, or stands alone; a committed
\* record that does not verify fails the mount, whatever the other sector holds.
Selects(x) ==
    /\ Valid(x)
    /\ ~Corrupt(Other(x))
    /\ Valid(Other(x)) => Succeeds(x, Other(x))

EmptyMedia == \A x \in Sector : Blanked(x)
Mountable == EmptyMedia \/ \E x \in Sector : Selects(x)
Mounts(g) == (EmptyMedia /\ g = Fresh) \/ \E x \in Sector : Selects(x) /\ g = At(x)

StoreInit ==
    /\ sector = [x \in Sector |-> Blank]
    /\ mounted = None
    /\ pc = "off"
    /\ op = None

(***************************************************************************)
(* Writing the next generation.                                            *)
(***************************************************************************)
\* Mutant: the generation is written over the mounted one.
TargetInPlace == IF mounted.at = None THEN "A" ELSE mounted.at

\* The inactive sector; the first generation goes to the first one.
Target == IF mounted.at = "A" THEN "B" ELSE "A"

Successor(value) ==
    [gen |-> mounted.gen + 1, value |-> value, pred |-> DigestOf(mounted), at |-> Target]

\* Mutant: the generation counter is not checked.
CanAdvanceAlways == mounted # None

CanAdvance == mounted # None /\ mounted.gen < MaxGeneration

\* The prefix carries the record; before it is complete nothing of it counts.
Program(level) ==
    sector' = [sector EXCEPT ![op.at] =
                  IF level < 2 THEN [@ EXCEPT !.level = level]
                  ELSE [level |-> level, gen |-> op.gen, value |-> op.value, pred |-> op.pred]]

EraseTo(level) ==
    sector' = [sector EXCEPT ![op.at] = IF level = Erased THEN Blank ELSE [@ EXCEPT !.level = level]]

Erase ==
    /\ pc = "erase"
    /\ EraseTo(Erased)
    /\ pc' = "prefix"
    /\ UNCHANGED <<mounted, op>>

\* write_verified reads every write back before the next one.
WritePrefix ==
    /\ pc = "prefix"
    /\ Program(Programmed(sector[op.at].level))
    /\ pc' = "commit"
    /\ UNCHANGED <<mounted, op>>

WriteCommit ==
    /\ pc = "commit"
    /\ Program(Programmed(sector[op.at].level))
    /\ pc' = "verify"
    /\ UNCHANGED <<mounted, op>>

StoreStep == Erase \/ WritePrefix \/ WriteCommit

\* What the running erase or write may leave when it is interrupted or fails.
Interrupted ==
    \/ /\ pc = "erase"
       /\ \E level \in EraseOutcomes(sector[op.at].level, Committed) : EraseTo(level)
    \/ /\ pc \in Writing
       /\ \E level \in TornOrProgrammed(sector[op.at].level) : Program(level)

\* The mount that follows the write must select exactly what was written.
Verifies == Mounts([gen |-> op.gen, value |-> op.value, at |-> op.at])

(***************************************************************************)
(* Properties shared by the stores.                                        *)
(***************************************************************************)
\* Between writes the generation in memory is the one a mount of the media would select:
\* neither an error nor a power loss leaves the two apart, so the next write never goes to
\* the sector that holds the newest generation (enroll_management_identity,
\* set_appliance_label, commit_successor).
MountedIsSelected == mounted # None /\ op = None => Mounts(mounted)

\* What a later mount makes of generation g: it selects g or a newer one, or it refuses
\* the media; it never returns to an older one.
Remembered(g) ==
    Mountable => \E x \in Sector :
        /\ Selects(x)
        /\ sector[x].gen > g.gen \/ DigestOf(sector[x]) = DigestOf(g)
=============================================================================
