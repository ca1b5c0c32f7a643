---------------------------- MODULE MCLxmfStore ----------------------------
(***************************************************************************)
(* Three extents, an index slot fewer than messages: "a" has two wires of  *)
(* one and of two extents, "b" fills an extent exactly so that its footer  *)
(* takes a second one, "b" collides with another content, and "c" finds    *)
(* the index or the partition full, or takes all three extents.            *)
(***************************************************************************)
EXTENDS LxmfStore

MCMessage == {
    [id |-> "a", auth |-> "x", len |-> 1],
    [id |-> "a", auth |-> "x", len |-> 3],
    [id |-> "b", auth |-> "x", len |-> 2],
    [id |-> "b", auth |-> "y", len |-> 1],
    [id |-> "c", auth |-> "x", len |-> 1],
    [id |-> "c", auth |-> "x", len |-> 5] }
=============================================================================
