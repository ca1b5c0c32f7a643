---------------------- MODULE MCOutboxReconciliation ----------------------
(* Keys are numbers, so that a fresh one can be the least that is unused.  *)
EXTENDS OutboxReconciliation

CONSTANTS MaxKeys

MCKey == 1 .. MaxKeys
MCMessage == 1 .. MaxRows
=============================================================================
