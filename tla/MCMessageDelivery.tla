-------------------------- MODULE MCMessageDelivery --------------------------
(***************************************************************************)
(* MessageDelivery for TLC: two private messages that are accepted, so     *)
(* that a third answer finds the cache full, one that is refused, and a    *)
(* group message.                                                          *)
(***************************************************************************)
EXTENDS MessageDelivery, TLC

Symmetry == Permutations(PrivateReqs \ InvalidReqs)
=============================================================================
