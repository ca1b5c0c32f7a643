--------------------- MODULE MCManagementAuthorization ----------------------
(* Four identities for a list of three; the button opens up to four windows. *)
EXTENDS ManagementAuthorization

MCValue == SUBSET Identity
MCEmpty == {}
=============================================================================
