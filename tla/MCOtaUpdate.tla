---------------------------- MODULE MCOtaUpdate ----------------------------
(* A factory image of one chunk, a good update of two, a bad image of one  *)
(* and one that does not fit the slot.                                     *)
EXTENDS OtaUpdate

CONSTANTS Good, Bad, Large

MCManifest == {Factory, Good, Bad, Large}
MCSize == [m \in MCManifest |-> IF m = Good THEN 2 ELSE IF m = Large THEN 3 ELSE 1]
=============================================================================
