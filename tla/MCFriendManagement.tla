------------------------- MODULE MCFriendManagement -------------------------
(***************************************************************************)
(* FriendManagement for TLC: users are interchangeable model values. Scope *)
(* is the budget of a run: logins, crashes and what fails or changes       *)
(* nothing draw on one sum, so that any two of them meet, but not all.     *)
(***************************************************************************)
EXTENDS FriendManagement, TLC

Symmetry == Permutations(Users)

\* the operations that changed a table, or that the database has not looked at yet
Effective ==
    Len(requests)
    + Cardinality({r \in DOMAIN requests : requests[r].status # "pending"})
    + Cardinality({i \in DOMAIN dbQueue : dbQueue[i].op \in {"create", "accepted", "rejected"}})

Scope ==
    FoldFunction(+, 0, logins) + crashes + Max({failures, ops - Effective}) <= MaxLogins
=============================================================================
