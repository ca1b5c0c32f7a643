------------------------------ MODULE NorFlash ------------------------------
(***************************************************************************)
(* The NOR flash contract every durable store of the firmware is written   *)
(* against (embedded-storage's NorFlash and MultiwriteNorFlash, as         *)
(* firmware/e290/src/shared_flash.rs exposes them).                        *)
(*                                                                         *)
(* A record is programmed field by field, in a fixed order, and each field *)
(* once.  The program level of a record counts those programs: level 2 * f *)
(* has its first f fields complete, level 2 * f + 1 has field f + 1 torn   *)
(* (some of its bits cleared and others not).  Level 0 is erased.          *)
(* Programming only clears bits, so a level never falls without an erase.  *)
(***************************************************************************)
EXTENDS Naturals

Erased == 0

\* A write that reports success completed its field.
Programmed(level) == level + 2

\* A write that reports an error, or that power loss interrupts, left the
\* field untouched, torn or complete.
TornOrProgrammed(level) == {level, level + 1, level + 2}

\* One marker that is programmed again until it is complete: 0 erased, 1 torn,
\* 2 complete.  Programming the same bits twice is what MultiwriteNorFlash allows.
Mark == 0 .. 2
MarkComplete == 2
MarkOutcomes(mark) == {m \in Mark : m >= mark}

\* An interrupted erase of a record whose last field is its commit marker: nothing yet,
\* the marker gone (torn), everything gone, or the marker intact over a damaged record
\* (complete + 1), which reads as programmed data of no known writer.
Garbled(complete) == complete + 1
EraseOutcomes(level, complete) ==
    {Erased, level}
    \cup (IF level = Erased THEN {} ELSE {1})
    \cup (IF level >= complete THEN {Garbled(complete)} ELSE {})
=============================================================================
