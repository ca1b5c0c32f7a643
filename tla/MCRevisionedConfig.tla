------------------------ MODULE MCRevisionedConfig --------------------------
(* Three values, of which v0 is the one erased media stands for, and four  *)
(* generations, so that both sectors are written twice.                    *)
EXTENDS RevisionedConfig

CONSTANTS v0, v1, v2

MCValue == {v0, v1, v2}
=============================================================================
