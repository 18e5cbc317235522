---------------------------- MODULE MCConnection ----------------------------
(***************************************************************************)
(* Connection for TLC: connection ids are taken in ascending order.        *)
(***************************************************************************)
EXTENDS Connection

InOrder == \A c, d \in Conns : d < c /\ link[d] = "unused" => link[c] = "unused"
=============================================================================
