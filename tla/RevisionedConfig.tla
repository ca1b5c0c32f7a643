-------------------------- MODULE RevisionedConfig --------------------------
(***************************************************************************)
(* Compare-and-swap updates of the two revisioned stores of the product    *)
(* store (firmware/e290/src/product_store.rs): the appliance label         *)
(* (mutate_appliance_label) and the network configuration                  *)
(* (mutate_network_config).  They differ in what an error leaves: the      *)
(* label store is given up for the boot, the network store is mounted      *)
(* again to find out what was written.                                     *)
(***************************************************************************)
EXTENDS MirroredStore

VARIABLES
    store,    \* which of the two stores this is
    applied   \* updates answered Applied: revision and value

configVars == <<store, applied>>
vars == <<storeVars, configVars>>

TypeOK ==
    /\ StoreTypeOK
    /\ pc \in {"off", "ready", "erase", "verify", "recover"} \cup Writing
    /\ store \in {"label", "network"}
    /\ applied \subseteq [gen : 0 .. MaxGeneration, value : Value]

Init ==
    /\ StoreInit
    /\ store \in {"label", "network"}
    /\ applied = {}

Boot ==
    /\ pc = "off"
    /\ \E g \in Generation : Mounts(g) /\ mounted' = g
    /\ pc' = "ready"
    /\ UNCHANGED <<sector, op, configVars>>

\* The media cannot be read or is refused.
BootUnavailable ==
    /\ pc = "off"
    /\ mounted' = None
    /\ pc' = "ready"
    /\ UNCHANGED <<sector, op, configVars>>

Answer(g) == applied' = applied \cup {DigestOf(g)}

(***************************************************************************)
(* A request names the revision it expects.  Any other revision and a      *)
(* store that is unavailable are answered without effect; so is an invalid *)
(* label, or a network update the no-op test refuses already.              *)
(***************************************************************************)
\* The update changes nothing: no new revision.
ApplyNothing(expected) ==
    /\ pc = "ready"
    /\ mounted # None
    /\ expected = mounted.gen
    /\ Answer(mounted)
    /\ UNCHANGED <<storeVars, store>>

\* The network store gives up what is mounted before it applies the update.  One that is
\* invalid, or finds the generations used up, has the media mounted again; when it cannot
\* be read the store is unavailable until the next boot.
ApplyRefused(expected) ==
    /\ store = "network"
    /\ pc = "ready"
    /\ mounted # None
    /\ expected = mounted.gen
    /\ mounted' \in {None} \cup {g \in Generation : Mounts(g)}
    /\ UNCHANGED <<sector, pc, op, configVars>>

\* The first network configuration is only written to erased media, and without an erase.
FirstStep == IF store = "network" /\ mounted.at = None THEN "prefix" ELSE "erase"

Apply(expected, value) ==
    /\ pc = "ready"
    /\ CanAdvance
    /\ expected = mounted.gen
    /\ value # mounted.value
    /\ op' = Successor(value)
    /\ pc' = FirstStep
    /\ UNCHANGED <<sector, mounted, configVars>>

Applied ==
    /\ pc = "verify"
    /\ Verifies
    /\ mounted' = [gen |-> op.gen, value |-> op.value, at |-> op.at]
    /\ Answer(op)
    /\ op' = None
    /\ pc' = "ready"
    /\ UNCHANGED <<sector, store>>

Fails == Interrupted \/ (pc \in {"erase", "verify"} \cup Writing /\ UNCHANGED sector)

\* The label is unavailable until the next boot, which finds out what was written.
LabelError ==
    /\ store = "label"
    /\ Fails
    /\ mounted' = None
    /\ op' = None
    /\ pc' = "ready"
    /\ UNCHANGED configVars

\* Mutant: the media is not mounted again after an error.
NetworkErrorKeeping ==
    /\ store = "network"
    /\ Fails
    /\ op' = None
    /\ pc' = "ready"
    /\ UNCHANGED <<mounted, configVars>>

NetworkError ==
    /\ store = "network"
    /\ Fails
    /\ pc' = "recover"
    /\ UNCHANGED <<mounted, op, configVars>>

\* The update reached flash although its write failed.
RecoverIntended ==
    /\ pc = "recover"
    /\ Verifies
    /\ mounted' = [gen |-> op.gen, value |-> op.value, at |-> op.at]
    /\ Answer(op)
    /\ op' = None
    /\ pc' = "ready"
    /\ UNCHANGED <<sector, store>>

\* Mutant: whatever the second mount finds is what was asked for.
RecoverOtherAnswering ==
    /\ pc = "recover"
    /\ ~Verifies
    /\ \E g \in Generation : Mounts(g) /\ mounted' = g
    /\ Answer(op)
    /\ op' = None
    /\ pc' = "ready"
    /\ UNCHANGED <<sector, store>>

\* It did not: the predecessor, or erased media, is in use again and the call fails.
RecoverOther ==
    /\ pc = "recover"
    /\ ~Verifies
    /\ \E g \in Generation : Mounts(g) /\ mounted' = g
    /\ op' = None
    /\ pc' = "ready"
    /\ UNCHANGED <<sector, configVars>>

\* The media cannot be read or is refused.
RecoverUnavailable ==
    /\ pc = "recover"
    /\ mounted' = None
    /\ op' = None
    /\ pc' = "ready"
    /\ UNCHANGED <<sector, configVars>>

PowerLoss ==
    /\ pc # "off"
    /\ Interrupted \/ UNCHANGED sector
    /\ mounted' = None
    /\ pc' = "off"
    /\ op' = None
    /\ UNCHANGED configVars

Next ==
    \/ Boot \/ BootUnavailable
    \/ \E expected \in 0 .. MaxGeneration :
          \/ ApplyNothing(expected) \/ ApplyRefused(expected)
          \/ \E value \in Value : Apply(expected, value)
    \/ StoreStep /\ UNCHANGED configVars
    \/ Applied
    \/ LabelError \/ NetworkError
    \/ RecoverIntended \/ RecoverOther \/ RecoverUnavailable
    \/ PowerLoss

Spec == Init /\ [][Next]_vars

(***************************************************************************)
(* Properties.                                                             *)
(***************************************************************************)
\* An update answered Applied is what any later mount selects, until a newer one is
\* applied; when an interrupted erase leaves a damaged record the store refuses the media
\* and never falls back to an older value.
AppliedIsRemembered == \A g \in applied : g.gen = 0 \/ Remembered(g)

\* A revision stands for one value for ever: two clients that were told the same revision
\* were told of the same value, and no sector holds another one.
RevisionNamesOneValue ==
    \A g \in applied :
        /\ \A h \in applied : h.gen = g.gen => h.value = g.value
        /\ \A x \in Sector : Valid(x) /\ sector[x].gen = g.gen => sector[x].value = g.value
=============================================================================
