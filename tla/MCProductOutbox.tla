--------------------------- MODULE MCProductOutbox ---------------------------
(* Small instances of ProductOutbox for TLC. *)
EXTENDS ProductOutbox, TLC

CONSTANTS k1, k2, m1, m2, bad

MCKey == {k1, k2}
MCMessage == {m1, m2, bad}
MCMalformed == {bad}
Symmetry == Permutations({k1, k2}) \cup Permutations({m1, m2})
=============================================================================
