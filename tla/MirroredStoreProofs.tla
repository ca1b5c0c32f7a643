------------------------- MODULE MirroredStoreProofs ------------------------
(***************************************************************************)
(* What every store built on MirroredStore may rely on: the two sectors    *)
(* always form a chain, the generation in use is the one a mount selects,  *)
(* and a write in progress leaves the sector of that generation alone.     *)
(***************************************************************************)
EXTENDS MirroredStore, TLAPS

Busy == {"erase", "prefix", "commit", "verify", "recover"}

\* Sector contents s carry record r.
Carries(s, r) == s.gen = r.gen /\ s.value = r.value /\ s.pred = r.pred

SectorTypeOK ==
    sector \in [Sector -> [level : 0 .. Garbage, gen : 0 .. MaxGeneration,
                           value : Value, pred : Digest]]

\* Two committed generations follow each other.
Chain ==
    /\ \A x \in Sector : Valid(x) => sector[x].gen >= 1
    /\ Valid("A") /\ Valid("B") => Succeeds("A", "B") \/ Succeeds("B", "A")

\* The generation in use is on the sector that the write leaves alone.
Based ==
    \/ mounted = Fresh /\ Blanked(Other(op.at))
    \/ mounted.at \in Sector /\ Valid(mounted.at) /\ mounted = At(mounted.at)

\* How far the write has come.
Progress ==
    /\ pc = "prefix" => Blanked(op.at)
    /\ pc = "commit" => sector[op.at].level = 2 /\ Carries(sector[op.at], op)
    /\ pc = "verify" => Valid(op.at) /\ Carries(sector[op.at], op)

WriteInv ==
    op # None =>
        /\ mounted # None /\ mounted.gen < MaxGeneration
        /\ op = Successor(op.value)
        /\ Based
        /\ Progress

StoreInv ==
    /\ StoreTypeOK
    /\ Chain
    /\ op = None <=> pc \notin Busy
    /\ WriteInv
    /\ MountedIsSelected

\* A step of a write changes only its own sector, and leaves there the record it writes,
\* or what was there, or nothing committed.
Touches ==
    /\ \A x \in Sector : x # op.at => sector'[x] = sector[x]
    /\ sector'[op.at].level = Committed =>
          \/ Carries(sector'[op.at], op)
          \/ sector'[op.at] = sector[op.at]

LEMMA Others == \A x \in Sector : Other(x) \in Sector /\ Other(x) # x /\ Other(Other(x)) = x
BY DEF Sector, Other

\* The record being written, and where it goes.
LEMMA OpFacts ==
    ASSUME StoreInv, op # None
    PROVE  /\ op \in Record
           /\ mounted \in Generation
           /\ op.at \in Sector
           /\ op.gen = mounted.gen + 1
           /\ op.pred = DigestOf(mounted)
           /\ mounted.at # op.at
           /\ \/ mounted = Fresh /\ Blanked(Other(op.at)) /\ op.at = "A"
              \/ mounted.at = Other(op.at) /\ Valid(mounted.at) /\ mounted = At(mounted.at)
<1>1. op \in Record /\ mounted \in Generation
  BY DEF StoreInv, StoreTypeOK, WriteInv
<1>2. op = Successor(op.value) /\ Based
  BY DEF StoreInv, WriteInv
<1>3. op.gen = mounted.gen + 1 /\ op.pred = DigestOf(mounted) /\ op.at = Target
  BY <1>2 DEF Successor
<1>4. op.at \in Sector
  BY <1>1 DEF Record
<1>5. CASE mounted = Fresh /\ Blanked(Other(op.at))
  BY <1>1, <1>3, <1>4, <1>5, StoreAssumption DEF Target, Fresh, Sector
<1>6. CASE mounted.at \in Sector /\ Valid(mounted.at) /\ mounted = At(mounted.at)
  BY <1>1, <1>3, <1>4, <1>6 DEF Target, Sector, Other
<1> QED
  BY <1>2, <1>5, <1>6, <1>1, <1>3, <1>4 DEF Based

\* Whatever a mount selects is the newest committed generation.
LEMMA MountFacts ==
    ASSUME SectorTypeOK, Chain, NEW g, Mounts(g)
    PROVE  /\ g \in Generation
           /\ \A x \in Sector : Valid(x) => sector[x].gen <= g.gen
           /\ \/ g = Fresh /\ EmptyMedia
              \/ g.at \in Sector /\ Selects(g.at) /\ g = At(g.at)
<1>1. CASE EmptyMedia /\ g = Fresh
  BY <1>1, StoreAssumption DEF EmptyMedia, Blanked, Valid, Fresh, Generation, Erased, Committed
<1>2. CASE \E x \in Sector : Selects(x) /\ g = At(x)
  <2>0. PICK x \in Sector : Selects(x) /\ g = At(x)
    BY <1>2
  <2>1. g.at = x /\ g.gen = sector[x].gen /\ g.value = sector[x].value
    BY <2>0 DEF At
  <2>2. g \in Generation
    BY <2>0 DEF At, Generation, SectorTypeOK
  <2>3. \A y \in Sector : Valid(y) => sector[y].gen <= g.gen
    <3> SUFFICES ASSUME NEW y \in Sector, Valid(y) PROVE sector[y].gen <= g.gen
      OBVIOUS
    <3>1. sector[x].gen \in Nat /\ sector[y].gen \in Nat
      BY DEF SectorTypeOK
    <3>2. CASE y = x
      BY <2>1, <3>1, <3>2
    <3>3. CASE y # x
      BY <2>0, <2>1, <3>1, <3>3, Others DEF Selects, Succeeds, Sector
    <3> QED BY <3>2, <3>3
  <2> QED BY <2>0, <2>1, <2>2, <2>3
<1> QED BY <1>1, <1>2 DEF Mounts

\* A program writes its level, and from level 2 on its record, to its own sector.
LEMMA ProgramEffect ==
    ASSUME StoreInv, op # None, NEW level \in 0 .. Committed, Program(level)
    PROVE  /\ SectorTypeOK'
           /\ \A x \in Sector : x # op.at => sector'[x] = sector[x]
           /\ sector'[op.at].level = level
           /\ level >= 2 => Carries(sector'[op.at], op)
<1>1. op \in Record /\ op.at \in Sector
  BY OpFacts
<1>2. SectorTypeOK
  BY DEF StoreInv, StoreTypeOK, SectorTypeOK
<1>3. CASE level < 2
  <2>1. sector' = [sector EXCEPT ![op.at] = [@ EXCEPT !.level = level]]
    BY <1>3 DEF Program, Committed
  <2>2. SectorTypeOK'
    BY <1>1, <1>2, <2>1 DEF SectorTypeOK, Garbage, Garbled, Committed
  <2> QED
    BY <1>1, <1>2, <1>3, <2>1, <2>2 DEF SectorTypeOK
<1>4. CASE level >= 2
  <2>0. ~(level < 2)
    BY <1>4 DEF Committed
  <2>1. sector' = [sector EXCEPT ![op.at] =
                      [level |-> level, gen |-> op.gen, value |-> op.value, pred |-> op.pred]]
    BY <2>0 DEF Program
  <2>2. SectorTypeOK'
    BY <1>1, <1>2, <2>1, StoreAssumption DEF SectorTypeOK, Garbage, Garbled, Committed, Record
  <2>3. sector'[op.at] = [level |-> level, gen |-> op.gen, value |-> op.value, pred |-> op.pred]
    BY <1>1, <1>2, <2>1 DEF SectorTypeOK
  <2> QED
    BY <1>1, <1>2, <2>1, <2>2, <2>3 DEF SectorTypeOK, Carries
<1> QED BY <1>3, <1>4

\* An erase, complete or not, leaves its sector as it was, or not committed.
LEMMA EraseEffect ==
    ASSUME StoreInv, op # None,
           NEW level \in EraseOutcomes(sector[op.at].level, Committed), EraseTo(level)
    PROVE  /\ SectorTypeOK'
           /\ \A x \in Sector : x # op.at => sector'[x] = sector[x]
           /\ sector'[op.at].level = level
           /\ level = Committed => sector'[op.at] = sector[op.at]
<1>1. op.at \in Sector
  BY OpFacts
<1>2. SectorTypeOK
  BY DEF StoreInv, StoreTypeOK, SectorTypeOK
<1>3. sector[op.at].level \in 0 .. 5
  BY <1>1, <1>2 DEF SectorTypeOK, Garbage, Garbled, Committed
<1>4. level \in 0 .. 5 /\ (level = 4 => sector[op.at].level = 4)
  BY <1>3 DEF EraseOutcomes, Erased, Garbled, Committed
<1>5. CASE level = Erased
  <2>1. sector' = [sector EXCEPT ![op.at] = Blank]
    BY <1>5 DEF EraseTo
  <2>2. Blank \in [level : 0 .. Garbage, gen : 0 .. MaxGeneration, value : Value, pred : Digest]
    BY StoreAssumption DEF Blank, Erased, Garbage, Garbled, Committed, Digest
  <2>3. SectorTypeOK'
    BY <1>1, <1>2, <2>1, <2>2 DEF SectorTypeOK
  <2> QED
    BY <1>1, <1>2, <1>5, <2>1, <2>3 DEF SectorTypeOK, Blank, Erased, Committed
<1>6. CASE level # Erased
  <2>1. sector' = [sector EXCEPT ![op.at] = [@ EXCEPT !.level = level]]
    BY <1>6 DEF EraseTo
  <2>2. SectorTypeOK'
    BY <1>1, <1>2, <1>4, <2>1 DEF SectorTypeOK, Garbage, Garbled, Committed
  <2>3. sector'[op.at] = [sector[op.at] EXCEPT !.level = level]
    BY <1>1, <1>2, <2>1 DEF SectorTypeOK
  <2>4. level = 4 => sector'[op.at] = sector[op.at]
    BY <1>1, <1>2, <1>4, <2>3 DEF SectorTypeOK
  <2>5. sector'[op.at].level = level
    BY <1>1, <1>2, <2>3 DEF SectorTypeOK
  <2> QED
    BY <1>1, <1>2, <2>1, <2>2, <2>4, <2>5 DEF SectorTypeOK, Committed
<1> QED BY <1>5, <1>6

\* Every step of a write, finished, failed or interrupted, keeps the sectors a chain and
\* the generation in use where it is.
LEMMA TouchingKeeps ==
    ASSUME StoreInv, op # None, SectorTypeOK', Touches
    PROVE  /\ Chain'
           /\ \/ mounted = Fresh /\ sector'[Other(op.at)].level = Erased
              \/ /\ mounted.at = Other(op.at)
                 /\ sector'[mounted.at] = sector[mounted.at]
                 /\ sector'[mounted.at].level = Committed
                 /\ mounted = [gen |-> sector'[mounted.at].gen,
                               value |-> sector'[mounted.at].value, at |-> mounted.at]
<1> DEFINE x == op.at
           y == Other(op.at)
<1>1. /\ op \in Record /\ mounted \in Generation /\ x \in Sector /\ y \in Sector /\ x # y
      /\ op.gen = mounted.gen + 1 /\ op.pred = DigestOf(mounted)
      /\ \/ mounted = Fresh /\ Blanked(y)
         \/ mounted.at = y /\ Valid(y) /\ mounted = At(y)
  BY OpFacts, Others
<1>2. sector'[y] = sector[y]
  BY <1>1 DEF Touches
<1>3. SectorTypeOK /\ Chain
  BY DEF StoreInv, StoreTypeOK, SectorTypeOK
<1>4. \A z \in Sector : z = x \/ z = y
  BY <1>1 DEF Sector, Other
<1>5. CASE sector'[x].level = Committed /\ Carries(sector'[x], op)
  <2>1. sector'[x].gen = op.gen /\ sector'[x].value = op.value /\ sector'[x].pred = op.pred
    BY <1>5 DEF Carries
  <2>2. op.gen >= 1
    BY <1>1 DEF Record
  <2>3. ASSUME sector'[y].level = Committed
        PROVE  sector'[x].gen = sector'[y].gen + 1 /\ sector'[x].pred = DigestOf(sector'[y])
    <3>1. mounted = At(y)
      BY <1>1, <1>2, <2>3 DEF Blanked, Erased, Committed
    <3>2. mounted.gen = sector[y].gen /\ mounted.value = sector[y].value
      BY <3>1 DEF At
    <3> QED
      BY <1>1, <1>2, <2>1, <3>2 DEF DigestOf
  <2>4. \A z \in Sector : Valid(z)' => sector'[z].gen >= 1
    BY <1>2, <1>3, <1>4, <2>1, <2>2 DEF Chain, Valid
  <2>5. (Valid("A") /\ Valid("B"))' => (Succeeds("A", "B") \/ Succeeds("B", "A"))'
    BY <1>1, <2>3 DEF Valid, Succeeds, Sector, Other
  <2>6. Chain'
    BY <2>4, <2>5 DEF Chain
  <2> QED
    BY <1>1, <1>2, <2>6 DEF Blanked, Valid, At
<1>6. CASE sector'[x].level # Committed
  <2>1. Chain'
    BY <1>1, <1>2, <1>3, <1>4, <1>6 DEF Chain, Valid, Sector
  <2> QED
    BY <1>1, <1>2, <2>1 DEF Blanked, Valid, At
<1>7. CASE sector'[x] = sector[x]
  <2>1. Chain'
    BY <1>1, <1>2, <1>3, <1>4, <1>7 DEF Chain, Valid, Sector, Succeeds, DigestOf
  <2> QED
    BY <1>1, <1>2, <2>1 DEF Blanked, Valid, At
<1> QED BY <1>5, <1>6, <1>7 DEF Touches

\* An interrupted step of a write touches only its own sector.
LEMMA InterruptedTouches ==
    ASSUME StoreInv, Interrupted
    PROVE  SectorTypeOK' /\ Touches /\ op # None
<1>1. op # None
  BY DEF StoreInv, Interrupted, Busy, Writing
<1>2. op.at \in Sector /\ SectorTypeOK
  BY <1>1, OpFacts DEF StoreInv, StoreTypeOK, SectorTypeOK
<1>3. CASE pc = "erase" /\ \E level \in EraseOutcomes(sector[op.at].level, Committed) : EraseTo(level)
  BY <1>1, <1>2, <1>3, EraseEffect DEF Touches
<1>4. CASE pc \in Writing /\ \E level \in TornOrProgrammed(sector[op.at].level) : Program(level)
  <2>1. PICK level \in TornOrProgrammed(sector[op.at].level) : Program(level)
    BY <1>4
  <2>2. \/ sector[op.at].level = 0
        \/ sector[op.at].level = 2 /\ Carries(sector[op.at], op)
    BY <1>1, <1>4 DEF StoreInv, WriteInv, Progress, Writing, Blanked, Erased
  <2>3. level \in 0 .. Committed /\ (level = Committed => level >= 2)
    BY <2>2 DEF TornOrProgrammed, Committed
  <2> QED
    BY <1>1, <2>1, <2>3, ProgramEffect DEF Touches, Committed
<1> QED BY <1>1, <1>3, <1>4 DEF Interrupted

\* So does one that completes, and it makes the progress its place in the code says.
LEMMA StepTouches ==
    ASSUME StoreInv, StoreStep
    PROVE  /\ SectorTypeOK' /\ Touches /\ op # None
           /\ UNCHANGED <<mounted, op>>
           /\ pc' \in {"prefix", "commit", "verify"}
           /\ pc' = "prefix" => sector'[op.at].level = Erased
           /\ pc' = "commit" => sector'[op.at].level = 2 /\ Carries(sector'[op.at], op)
           /\ pc' = "verify" => sector'[op.at].level = Committed /\ Carries(sector'[op.at], op)
<1>1. op # None /\ UNCHANGED <<mounted, op>>
  BY DEF StoreInv, StoreStep, Erase, WritePrefix, WriteCommit, Busy
<1>2. op.at \in Sector /\ SectorTypeOK
  BY <1>1, OpFacts DEF StoreInv, StoreTypeOK, SectorTypeOK
<1>3. CASE Erase
  <2>1. Erased \in EraseOutcomes(sector[op.at].level, Committed)
    BY DEF EraseOutcomes
  <2>2. EraseTo(Erased) /\ pc' = "prefix"
    BY <1>3 DEF Erase
  <2> QED
    BY <1>1, <2>1, <2>2, EraseEffect DEF Touches, Erased, Committed
<1>4. CASE WritePrefix
  <2>1. sector[op.at].level = 0 /\ pc' = "commit" /\ Program(2)
    BY <1>1, <1>4 DEF WritePrefix, StoreInv, WriteInv, Progress, Blanked, Erased, Programmed
  <2> QED
    BY <1>1, <2>1, ProgramEffect DEF Touches, Committed
<1>5. CASE WriteCommit
  <2>1. sector[op.at].level = 2 /\ pc' = "verify" /\ Program(4)
    BY <1>1, <1>5 DEF WriteCommit, StoreInv, WriteInv, Progress, Programmed
  <2> QED
    BY <1>1, <2>1, ProgramEffect DEF Touches, Committed
<1> QED BY <1>3, <1>4, <1>5 DEF StoreStep

\* The invariant survives a step that goes on with the write, or that fails and leaves
\* the outcome to be found out.
LEMMA WritingKeeps ==
    ASSUME StoreInv, op # None, SectorTypeOK', Touches, UNCHANGED <<mounted, op>>,
           pc' \in {"prefix", "commit", "verify", "recover"},
           pc' = "prefix" => sector'[op.at].level = Erased,
           pc' = "commit" => sector'[op.at].level = 2 /\ Carries(sector'[op.at], op),
           pc' = "verify" => sector'[op.at].level = Committed /\ Carries(sector'[op.at], op)
    PROVE  StoreInv'
<1>1. Chain'
  BY TouchingKeeps
<1>2. Based'
  <2>1. Other(op.at) \in Sector
    BY OpFacts, Others
  <2> QED
    BY <2>1, TouchingKeeps DEF Based, Blanked, Valid, At
<1>3. Progress'
  BY DEF Progress, Blanked, Valid
<1>4. WriteInv'
  BY <1>2, <1>3 DEF StoreInv, WriteInv, Successor, Target
<1>5. StoreTypeOK'
  BY DEF StoreInv, StoreTypeOK, SectorTypeOK
<1>6. (op = None <=> pc \notin Busy)'
  BY DEF Busy
<1>7. MountedIsSelected'
  BY DEF MountedIsSelected
<1> QED BY <1>1, <1>4, <1>5, <1>6, <1>7 DEF StoreInv

\* ... a step that ends the write and has the media in use again only as a mount finds it,
LEMMA EndingKeeps ==
    ASSUME SectorTypeOK', Chain', op' = None, pc' \notin Busy,
           mounted' = None \/ Mounts(mounted)'
    PROVE  StoreInv'
<1>1. mounted' \in Generation \cup {None}
  <2>1. ASSUME Mounts(mounted)' PROVE mounted' \in Generation
    <3>1. CASE (EmptyMedia /\ mounted = Fresh)'
      BY <3>1, StoreAssumption DEF Fresh, Generation
    <3>2. CASE (\E x \in Sector : Selects(x) /\ mounted = At(x))'
      BY <3>2 DEF At, Generation, SectorTypeOK
    <3> QED BY <2>1, <3>1, <3>2 DEF Mounts
  <2> QED BY <2>1
<1>2. StoreTypeOK'
  BY <1>1 DEF StoreTypeOK, SectorTypeOK
<1> QED BY <1>2 DEF StoreInv, WriteInv, MountedIsSelected

\* ... and a step that begins one, with an erase or, on erased media, without.
LEMMA BeginningKeeps ==
    ASSUME StoreInv, op = None, CanAdvance, NEW value \in Value,
           op' = Successor(value), UNCHANGED <<sector, mounted>>,
           \/ pc' = "erase"
           \/ pc' = "prefix" /\ mounted.at = None
    PROVE  StoreInv'
<1>1. mounted # None /\ mounted \in Generation /\ mounted.gen < MaxGeneration /\ Mounts(mounted)
  BY DEF CanAdvance, StoreInv, StoreTypeOK, MountedIsSelected
<1>2. SectorTypeOK /\ Chain
  BY DEF StoreInv, StoreTypeOK, SectorTypeOK
<1>3. /\ op'.at = Target /\ op'.gen = mounted.gen + 1 /\ op'.value = value
      /\ op'.pred = DigestOf(mounted)
  BY DEF Successor
<1>4. op' \in Record
  <2>1. DigestOf(mounted) \in Digest
    BY <1>1 DEF DigestOf, Digest, Generation
  <2>2. Target \in Sector /\ mounted.gen + 1 \in 1 .. MaxGeneration
    BY <1>1, StoreAssumption DEF Target, Sector, Generation
  <2> QED BY <2>1, <2>2 DEF Successor, Record
<1>5. op' # None
  BY <1>4, StoreAssumption DEF Record, Sector, Digest
<1>6. CASE mounted = Fresh /\ EmptyMedia
  <2>1. op'.at = "A" /\ Blanked("A") /\ Blanked("B")
    BY <1>3, <1>6, StoreAssumption DEF Target, Fresh, EmptyMedia, Sector
  <2>2. Based' /\ Progress'
    BY <1>6, <2>1 DEF Based, Progress, Blanked, Other
  <2> QED
    BY <1>1, <1>2, <1>3, <1>4, <1>5, <2>2
    DEF StoreInv, StoreTypeOK, SectorTypeOK, WriteInv, Successor, Target, Busy, MountedIsSelected,
        Chain, Valid, Succeeds
<1>7. CASE mounted.at \in Sector /\ Selects(mounted.at) /\ mounted = At(mounted.at)
  <2>1. mounted.at # None
    BY <1>7, StoreAssumption DEF Sector
  <2>2. Based' /\ Progress'
    BY <1>7, <2>1 DEF Based, Progress, Selects, Valid, At
  <2> QED
    BY <1>1, <1>2, <1>3, <1>4, <1>5, <2>1, <2>2
    DEF StoreInv, StoreTypeOK, SectorTypeOK, WriteInv, Successor, Target, Busy, MountedIsSelected,
        Chain, Valid, Succeeds
<1> QED BY <1>1, <1>2, <1>6, <1>7, MountFacts
=============================================================================
