-------------------------- MODULE MCOutboundDelivery --------------------------
(* Small instances of OutboundDelivery for TLC. *)
EXTENDS OutboundDelivery

CONSTANTS k1, k2, m1, c1, c2

MCKey == {k1, k2}
MCMessage == {m1}
MCCommandId == {c1, c2}
=============================================================================
