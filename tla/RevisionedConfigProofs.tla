----------------------- MODULE RevisionedConfigProofs -----------------------
(***************************************************************************)
(* The compare-and-swap stores keep their promises for every set of values *)
(* and every generation limit.  ConfigInv is the inductive invariant: the  *)
(* invariant of the mirrored store, and what it lets one say of the        *)
(* answers given.                                                          *)
(***************************************************************************)
EXTENDS RevisionedConfig, MirroredStoreProofs

Told == [gen : 0 .. MaxGeneration, value : Value]

\* Flash holds every answered revision or a later one, the store in use is not behind it,
\* and nobody disagrees about its value.
AnswerInv(g) ==
    /\ g.gen = 0 => g.value = Empty
    /\ g.gen > 0 => \E x \in Sector : Valid(x) /\ sector[x].gen >= g.gen
    /\ \A x \in Sector : Valid(x) /\ sector[x].gen = g.gen => sector[x].value = g.value
    /\ mounted # None => g.gen <= mounted.gen
    /\ \A h \in applied : h.gen = g.gen => h.value = g.value

AppliedInv == applied \subseteq Told /\ \A g \in applied : AnswerInv(g)

ConfigInv == TypeOK /\ StoreInv /\ AppliedInv

\* A step of a write, or of its failure, disturbs no answered revision: the newest one is
\* on the sector the write leaves alone.
LEMMA TouchedAnswers ==
    ASSUME StoreInv, AppliedInv, op # None, SectorTypeOK', Touches, applied' = applied,
           mounted' \in {mounted, None}
    PROVE  AppliedInv'
<1> SUFFICES ASSUME NEW g \in applied PROVE AnswerInv(g)'
  BY DEF AppliedInv
<1>1. g \in Told /\ AnswerInv(g)
  BY DEF AppliedInv
<1>2. /\ mounted # None /\ mounted \in Generation /\ op \in Record /\ op.at \in Sector
      /\ op.gen = mounted.gen + 1 /\ mounted.at # op.at
  BY OpFacts DEF StoreInv, WriteInv
<1>3. g.gen \in Nat /\ mounted.gen \in Nat /\ g.gen <= mounted.gen /\ op.gen > g.gen
  BY <1>1, <1>2 DEF AnswerInv, Told, Generation
<1>4. ASSUME g.gen > 0 PROVE (\E x \in Sector : Valid(x) /\ sector[x].gen >= g.gen)'
  <2>1. mounted.at \in Sector /\ Valid(mounted.at) /\ mounted = At(mounted.at)
    BY <1>3, <1>4, OpFacts, Others DEF Fresh
  <2>2. sector'[mounted.at] = sector[mounted.at]
    BY <1>2, <2>1 DEF Touches
  <2>3. sector[mounted.at].gen = mounted.gen
    BY <2>1 DEF At
  <2> QED BY <1>3, <2>1, <2>2, <2>3 DEF Valid
<1>5. ASSUME NEW x \in Sector, Valid(x)', sector'[x].gen = g.gen
      PROVE  sector'[x].value = g.value
  <2>1. sector'[x] = sector[x]
    BY <1>2, <1>3, <1>5 DEF Touches, Carries, Valid
  <2> QED BY <1>1, <1>5, <2>1 DEF AnswerInv, Valid
<1> QED BY <1>1, <1>3, <1>4, <1>5 DEF AnswerInv

\* What a mount selects is not behind any answered revision.
LEMMA MountedAnswers ==
    ASSUME StoreInv, AppliedInv, UNCHANGED <<sector, applied>>,
           mounted' = None \/ Mounts(mounted)'
    PROVE  AppliedInv'
<1> SUFFICES ASSUME NEW g \in applied PROVE AnswerInv(g)'
  BY DEF AppliedInv
<1>1. g \in Told /\ AnswerInv(g)
  BY DEF AppliedInv
<1>2. SectorTypeOK /\ Chain
  BY DEF StoreInv, StoreTypeOK, SectorTypeOK
<1>3. ASSUME mounted' # None PROVE g.gen <= mounted'.gen
  <2>0. Mounts(mounted')
    BY <1>3 DEF Mounts, EmptyMedia, Blanked, Selects, Valid, Corrupt, Succeeds, At
  <2>1. /\ mounted' \in Generation
        /\ \A x \in Sector : Valid(x) => sector[x].gen <= mounted'.gen
    BY <1>2, <2>0, MountFacts
  <2>2. \A x \in Sector : sector[x].gen \in Nat
    BY <1>2 DEF SectorTypeOK
  <2>3. g.gen \in Nat /\ mounted'.gen \in Nat
    BY <1>1, <2>1 DEF Told, Generation
  <2> QED BY <1>1, <2>1, <2>2, <2>3 DEF AnswerInv
<1> QED BY <1>1, <1>3 DEF AnswerInv, Valid

\* Answering with a generation that a mount selects and that is not behind any answer.
LEMMA NewAnswer ==
    ASSUME StoreInv, AppliedInv, sector' = sector, NEW m, Mounts(m), mounted' = m,
           applied' = applied \cup {DigestOf(m)},
           \A g \in applied : g.gen <= m.gen
    PROVE  AppliedInv'
<1>1. SectorTypeOK /\ Chain
  BY DEF StoreInv, StoreTypeOK, SectorTypeOK
<1>2. /\ m \in Generation
      /\ \/ m = Fresh /\ EmptyMedia
         \/ m.at \in Sector /\ Selects(m.at) /\ m = At(m.at)
  BY <1>1, MountFacts
<1>3. DigestOf(m) \in Told /\ DigestOf(m).gen = m.gen /\ DigestOf(m).value = m.value
  BY <1>2 DEF DigestOf, Told, Generation
<1>4. \A g \in applied : g.gen = m.gen => g.value = m.value
  BY <1>2 DEF AppliedInv, AnswerInv, Fresh, Selects, Valid, At
<1>5. \A x \in Sector : Valid(x) /\ sector[x].gen = m.gen => sector[x].value = m.value
  <2> SUFFICES ASSUME NEW x \in Sector, Valid(x), sector[x].gen = m.gen
               PROVE  sector[x].value = m.value
    OBVIOUS
  <2>1. CASE m = Fresh /\ EmptyMedia
    BY <2>1 DEF EmptyMedia, Blanked, Valid, Erased, Committed
  <2>2. CASE m.at \in Sector /\ Selects(m.at) /\ m = At(m.at)
    <3>1. CASE x = m.at
      BY <2>2, <3>1 DEF At
    <3>2. CASE x # m.at
      <4>1. x = Other(m.at) /\ sector[m.at].gen = sector[x].gen + 1
        BY <2>2, <3>2 DEF Selects, Succeeds, Sector, Other
      <4>2. sector[m.at].gen = m.gen /\ sector[x].gen \in Nat
        BY <1>1, <2>2 DEF At, SectorTypeOK
      <4> QED BY <4>1, <4>2
    <3> QED BY <3>1, <3>2
  <2> QED BY <1>2, <2>1, <2>2
<1>6. m.gen = 0 => m.value = Empty
  BY <1>1, <1>2 DEF Fresh, At, Selects, Chain
<1>7. m.gen > 0 => \E x \in Sector : Valid(x) /\ sector[x].gen >= m.gen
  BY <1>1, <1>2 DEF Fresh, At, Selects, SectorTypeOK
<1>8. AnswerInv(DigestOf(m))'
  <2>1. DigestOf(m)' = DigestOf(m)
    BY DEF DigestOf
  <2>2. m.gen \in Nat
    BY <1>2 DEF Generation
  <2> QED BY <1>3, <1>4, <1>5, <1>6, <1>7, <2>1, <2>2 DEF AnswerInv, Valid
<1>9. ASSUME NEW g \in applied PROVE AnswerInv(g)'
  <2>1. AnswerInv(g)
    BY <1>9 DEF AppliedInv
  <2> QED BY <1>3, <1>4, <1>9, <2>1 DEF AnswerInv, Valid
<1> QED BY <1>3, <1>8, <1>9 DEF AppliedInv

\* A write ends, after its own mount or the one after an error, with an answer.
LEMMA Answered ==
    ASSUME ConfigInv, pc \in {"verify", "recover"}, Verifies,
           mounted' = [gen |-> op.gen, value |-> op.value, at |-> op.at],
           Answer(op), op' = None, pc' = "ready", UNCHANGED <<sector, store>>
    PROVE  ConfigInv'
<1> DEFINE m == [gen |-> op.gen, value |-> op.value, at |-> op.at]
<1>1. op # None /\ op \in Record /\ mounted # None /\ mounted \in Generation /\ op.gen = mounted.gen + 1
  BY OpFacts DEF ConfigInv, StoreInv, Busy, WriteInv
<1>2. Mounts(m) /\ Mounts(mounted)'
  BY DEF Verifies, Mounts, EmptyMedia, Blanked, Selects, Valid, Corrupt, Succeeds, At
<1>3. StoreInv'
  BY <1>2, EndingKeeps
     DEF ConfigInv, StoreInv, StoreTypeOK, SectorTypeOK, Chain, Valid, Succeeds, Busy
<1>4. \A g \in applied : g.gen <= m.gen
  BY <1>1 DEF ConfigInv, AppliedInv, AnswerInv, Told, Generation
<1>5. applied' = applied \cup {DigestOf(m)}
  BY DEF Answer, DigestOf
<1>6. AppliedInv'
  BY <1>2, <1>4, <1>5, NewAnswer DEF ConfigInv
<1>7. TypeOK'
  BY <1>3, <1>6 DEF ConfigInv, TypeOK, StoreInv, AppliedInv, Told
<1> QED BY <1>3, <1>6, <1>7 DEF ConfigInv

\* A step that has the media mounted again, or nothing in use, and answers nobody.
LEMMA Remounted ==
    ASSUME ConfigInv, mounted' = None \/ Mounts(mounted)', op' = None, pc' = "ready",
           UNCHANGED <<sector, configVars>>
    PROVE  ConfigInv'
<1>1. StoreInv'
  BY EndingKeeps DEF ConfigInv, StoreInv, StoreTypeOK, SectorTypeOK, Chain, Valid, Succeeds, Busy
<1>2. AppliedInv'
  BY MountedAnswers DEF ConfigInv, configVars
<1> QED BY <1>1, <1>2 DEF ConfigInv, TypeOK, StoreInv, configVars

\* A step that may interrupt a write and forgets what was in use.
LEMMA Forgotten ==
    ASSUME ConfigInv, Interrupted \/ UNCHANGED sector, mounted' = None, op' = None,
           pc' \in {"off", "ready"}, UNCHANGED configVars
    PROVE  ConfigInv'
<1>1. CASE Interrupted
  <2>1. SectorTypeOK' /\ Touches /\ op # None
    BY <1>1, InterruptedTouches DEF ConfigInv
  <2>2. Chain'
    BY <2>1, TouchingKeeps DEF ConfigInv
  <2>3. StoreInv'
    BY <2>1, <2>2, EndingKeeps DEF Busy
  <2>4. AppliedInv'
    BY <2>1, TouchedAnswers DEF ConfigInv, configVars
  <2> QED BY <2>3, <2>4 DEF ConfigInv, TypeOK, StoreInv, configVars
<1>2. CASE UNCHANGED sector
  <2>1. StoreInv'
    BY <1>2, EndingKeeps
       DEF ConfigInv, StoreInv, StoreTypeOK, SectorTypeOK, Chain, Valid, Succeeds, Busy
  <2>2. AppliedInv'
    BY <1>2, MountedAnswers DEF ConfigInv, configVars
  <2> QED BY <2>1, <2>2 DEF ConfigInv, TypeOK, StoreInv, configVars
<1> QED BY <1>1, <1>2

\* ConfigInv holds at first and every action of the code keeps it.
THEOREM ConfigInvariant == Spec => []ConfigInv
<1>1. Init => ConfigInv
  <2> SUFFICES ASSUME Init PROVE ConfigInv
    OBVIOUS
  <2>1. Blank \in [level : 0 .. Garbage, gen : 0 .. MaxGeneration, value : Value, pred : Digest]
    BY StoreAssumption DEF Blank, Garbage, Garbled, Committed, Erased, Digest
  <2>2. \A x \in Sector : sector[x] = Blank
    BY DEF Init, StoreInit
  <2>3. StoreTypeOK
    BY <2>1 DEF Init, StoreInit, StoreTypeOK
  <2>4. Chain
    BY <2>2 DEF Chain, Valid, Blank, Erased, Committed, Sector
  <2> QED
    BY <2>3, <2>4 DEF Init, StoreInit, ConfigInv, TypeOK, StoreInv, WriteInv, MountedIsSelected,
       AppliedInv, Busy
<1>2. ConfigInv /\ [Next]_vars => ConfigInv'
  <2> SUFFICES ASSUME ConfigInv, [Next]_vars PROVE ConfigInv'
    OBVIOUS
  <2>0. StoreInv /\ AppliedInv /\ TypeOK
    BY DEF ConfigInv
  <2>1. CASE Boot
    <3>1. op = None
      BY <2>0, <2>1 DEF Boot, StoreInv, Busy
    <3>2. Mounts(mounted)'
      BY <2>1 DEF Boot, Mounts, EmptyMedia, Blanked, Selects, Valid, Corrupt, Succeeds, At
    <3> QED BY <2>1, <3>1, <3>2, Remounted DEF Boot
  <2>2. CASE BootUnavailable
    <3>1. op = None
      BY <2>0, <2>2 DEF BootUnavailable, StoreInv, Busy
    <3> QED BY <2>2, <3>1, Remounted DEF BootUnavailable
  <2>3. ASSUME NEW expected \in 0 .. MaxGeneration, ApplyNothing(expected) PROVE ConfigInv'
    <3>1. op = None /\ mounted # None /\ UNCHANGED <<sector, mounted, pc, op, store>>
      BY <2>0, <2>3 DEF ApplyNothing, StoreInv, Busy, storeVars
    <3>2. Mounts(mounted)
      BY <2>0, <3>1 DEF StoreInv, MountedIsSelected
    <3>3. \A g \in applied : g.gen <= mounted.gen
      BY <2>0, <3>1 DEF AppliedInv, AnswerInv
    <3>4. AppliedInv'
      BY <2>0, <2>3, <3>1, <3>2, <3>3, NewAnswer DEF ApplyNothing, Answer
    <3>5. StoreInv'
      BY <2>0, <3>1
      DEF StoreInv, StoreTypeOK, Chain, Valid, Succeeds, WriteInv, MountedIsSelected,
          Mounts, EmptyMedia, Blanked, Selects, Corrupt, At
    <3> QED BY <2>0, <3>1, <3>4, <3>5 DEF ConfigInv, TypeOK, AppliedInv, Told, StoreInv
  <2>4. ASSUME NEW expected \in 0 .. MaxGeneration, NEW value \in Value, Apply(expected, value)
        PROVE  ConfigInv'
    <3>1. op = None /\ CanAdvance /\ op' = Successor(value) /\ UNCHANGED <<sector, mounted, configVars>>
      BY <2>0, <2>4 DEF Apply, StoreInv, Busy
    <3>2. pc' = "erase" \/ (pc' = "prefix" /\ mounted.at = None)
      BY <2>4 DEF Apply, FirstStep
    <3>3. StoreInv'
      BY <2>0, <3>1, <3>2, BeginningKeeps
    <3>4. AppliedInv'
      BY <2>0, <3>1 DEF AppliedInv, AnswerInv, Valid, configVars
    <3> QED BY <2>0, <3>1, <3>2, <3>3, <3>4 DEF ConfigInv, TypeOK, StoreInv, configVars, Writing
  <2>5. CASE StoreStep /\ UNCHANGED configVars
    <3>1. StoreInv'
      BY <2>0, <2>5, StepTouches, WritingKeeps
    <3>2. AppliedInv'
      BY <2>0, <2>5, StepTouches, TouchedAnswers DEF configVars
    <3> QED BY <2>0, <2>5, <3>1, <3>2, StepTouches DEF ConfigInv, TypeOK, StoreInv, configVars, Writing
  <2>6. CASE Applied
    BY <2>6, Answered DEF Applied
  <2>7. CASE LabelError
    BY <2>7, Forgotten DEF LabelError, Fails
  <2>8. CASE NetworkError
    <3>1. CASE Interrupted
      <4>1. SectorTypeOK' /\ Touches /\ op # None
        BY <2>0, <3>1, InterruptedTouches
      <4>2. StoreInv' /\ AppliedInv'
        BY <2>0, <2>8, <4>1, WritingKeeps, TouchedAnswers DEF NetworkError, configVars
      <4> QED BY <2>0, <2>8, <4>2 DEF NetworkError, ConfigInv, TypeOK, StoreInv, configVars
    <3>2. CASE pc \in {"erase", "verify"} \cup Writing /\ UNCHANGED sector
      <4>1. SectorTypeOK' /\ Touches /\ op # None
        BY <2>0, <3>2 DEF StoreInv, StoreTypeOK, SectorTypeOK, Touches, Busy, Writing
      <4>2. StoreInv' /\ AppliedInv'
        BY <2>0, <2>8, <4>1, WritingKeeps, TouchedAnswers DEF NetworkError, configVars
      <4> QED BY <2>0, <2>8, <4>2 DEF NetworkError, ConfigInv, TypeOK, StoreInv, configVars
    <3> QED BY <2>8, <3>1, <3>2 DEF NetworkError, Fails
  <2>9. CASE RecoverIntended
    BY <2>9, Answered DEF RecoverIntended
  <2>10. CASE RecoverOther
    <3>1. Mounts(mounted)'
      BY <2>10 DEF RecoverOther, Mounts, EmptyMedia, Blanked, Selects, Valid, Corrupt, Succeeds, At
    <3> QED BY <2>10, <3>1, Remounted DEF RecoverOther
  <2>11. CASE RecoverUnavailable
    BY <2>11, Remounted DEF RecoverUnavailable
  <2>12. CASE PowerLoss
    BY <2>12, Forgotten DEF PowerLoss
  <2>13. ASSUME NEW expected \in 0 .. MaxGeneration, ApplyRefused(expected) PROVE ConfigInv'
    <3>1. op = None /\ op' = None /\ pc' = "ready" /\ UNCHANGED <<sector, configVars>>
      BY <2>0, <2>13 DEF ApplyRefused, StoreInv, Busy
    <3>2. mounted' = None \/ Mounts(mounted)'
      <4>1. mounted' = None \/ Mounts(mounted')
        BY <2>13 DEF ApplyRefused
      <4>2. EmptyMedia' = EmptyMedia /\ \A x \in Sector : Selects(x)' = Selects(x) /\ At(x)' = At(x)
        BY <3>1 DEF EmptyMedia, Blanked, Selects, Valid, Corrupt, Succeeds, At
      <4> QED BY <4>1, <4>2 DEF Mounts
    <3> QED BY <3>1, <3>2, Remounted
  <2>14. CASE UNCHANGED vars
    <3>1. UNCHANGED <<sector, mounted, pc, op, store, applied>>
      BY <2>14 DEF vars, storeVars, configVars
    <3>2. TypeOK'
      BY <2>0, <3>1 DEF TypeOK, StoreTypeOK
    <3>3. Chain' /\ StoreTypeOK'
      BY <2>0, <3>1 DEF StoreInv, StoreTypeOK, Chain, Valid, Succeeds
    <3>4. WriteInv'
      BY <2>0, <3>1 DEF StoreInv, WriteInv, Based, Progress, Blanked, Successor, Target, Valid, Carries, At
    <3>5. MountedIsSelected'
      BY <2>0, <3>1
      DEF StoreInv, MountedIsSelected, Mounts, EmptyMedia, Blanked, Selects, Valid, Corrupt, Succeeds, At
    <3>6. AppliedInv'
      BY <2>0, <3>1 DEF AppliedInv, AnswerInv, Valid
    <3> QED BY <2>0, <3>1, <3>2, <3>3, <3>4, <3>5, <3>6 DEF ConfigInv, StoreInv
  <2> QED
    BY <2>1, <2>2, <2>3, <2>4, <2>5, <2>6, <2>7, <2>8, <2>9, <2>10, <2>11, <2>12, <2>13, <2>14
    DEF Next
<1> QED BY <1>1, <1>2, PTL DEF Spec

\* Every variable keeps its type, through every update, error and power loss.
THEOREM ConfigTypeCorrect == Spec => []TypeOK
<1>1. ConfigInv => TypeOK
  BY DEF ConfigInv
<1> QED BY <1>1, ConfigInvariant, PTL

\* The generation in memory is the one a mount would select, so no update is ever written
\* over the newest generation.
THEOREM ConfigMountedIsSelected == Spec => []MountedIsSelected
<1>1. ConfigInv => MountedIsSelected
  BY DEF ConfigInv, StoreInv
<1> QED BY <1>1, ConfigInvariant, PTL

\* An update answered Applied survives: no later mount selects anything older.
THEOREM ConfigAppliedIsRemembered == Spec => []AppliedIsRemembered
<1>1. ConfigInv => AppliedIsRemembered
  <2> SUFFICES ASSUME ConfigInv, NEW g \in applied, g.gen # 0, Mountable
               PROVE  \E x \in Sector : /\ Selects(x)
                                        /\ sector[x].gen > g.gen \/ DigestOf(sector[x]) = DigestOf(g)
    BY DEF AppliedIsRemembered, Remembered
  <2>1. SectorTypeOK /\ Chain /\ g \in Told /\ AnswerInv(g)
    BY DEF ConfigInv, StoreInv, StoreTypeOK, SectorTypeOK, AppliedInv
  <2>2. PICK y \in Sector : Valid(y) /\ sector[y].gen >= g.gen
    BY <2>1 DEF AnswerInv, Told
  <2>3. PICK x \in Sector : Selects(x)
    BY <2>2 DEF Mountable, EmptyMedia, Blanked, Valid, Erased, Committed
  <2>4. sector[y].gen <= sector[x].gen
    <3>1. Mounts(At(x)) /\ At(x).gen = sector[x].gen
      BY <2>3 DEF Mounts, At
    <3> QED BY <2>1, <2>2, <3>1, MountFacts
  <2>5. sector[x].gen \in Nat /\ sector[y].gen \in Nat /\ g.gen \in Nat /\ Valid(x)
    BY <2>1, <2>3 DEF SectorTypeOK, Told, Selects
  <2>6. sector[x].gen > g.gen \/ sector[x].gen = g.gen
    BY <2>2, <2>4, <2>5
  <2> QED BY <2>1, <2>3, <2>5, <2>6 DEF AnswerInv, DigestOf
<1> QED BY <1>1, ConfigInvariant, PTL

\* A revision names one value: among all answers, and between the answers and flash.
THEOREM ConfigRevisionNamesOneValue == Spec => []RevisionNamesOneValue
<1>1. ConfigInv => RevisionNamesOneValue
  BY DEF ConfigInv, AppliedInv, AnswerInv, RevisionNamesOneValue
<1> QED BY <1>1, ConfigInvariant, PTL
=============================================================================
