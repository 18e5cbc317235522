--------------------------- MODULE MCSendMessage ---------------------------
(***************************************************************************)
(* SendMessage for TLC: all messages are written in one session, Home;     *)
(* closing and reopening it is switching sessions. Scope is the budget of  *)
(* a run: two messages sent twice each, or three sendings and a restart.   *)
(***************************************************************************)
EXTENDS SendMessage, Functions

CONSTANT Home

SessionOfDef == [m \in Messages |-> Home]

Scope == FoldFunction(+, 0, sends) + restarts <= 4
=============================================================================
