------------------------- MODULE MCInboxCollection -------------------------
(* Three handles, each of which any of three messages may get.             *)
EXTENDS InboxCollection

CONSTANTS Ids, HandleNumbers

MCReceipt == [id : Ids, handle : HandleNumbers]
=============================================================================
