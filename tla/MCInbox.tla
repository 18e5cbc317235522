------------------------------- MODULE MCInbox -------------------------------
(***************************************************************************)
(* Inbox for TLC: a chat with one other user, in which a message is        *)
(* written between two that arrive, and a group with one message; a chat   *)
(* loads two.                                                              *)
(***************************************************************************)
EXTENDS Inbox

CONSTANTS Private, Group

SessionOfDef == [m \in Messages |-> IF m <= 3 THEN Private ELSE Group]
=============================================================================
