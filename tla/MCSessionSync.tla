---------------------------- MODULE MCSessionSync ----------------------------
(***************************************************************************)
(* SessionSync for TLC: everybody is registered, Self has created no group *)
(* so far, and the variables that only GroupManagement's own properties    *)
(* look at, and no action, do not tell states apart. Either two requests   *)
(* overlap during one login, or one request meets two logins and what      *)
(* fails.                                                                  *)
(***************************************************************************)
EXTENDS SessionSync

MCInit ==
    /\ SyncInit
    /\ users = Users
    /\ \A g \in DOMAIN groups : groups[g].creator # Self

MCSpec == MCInit /\ [][SyncNext]_syncVars

View == <<tables, queues, pending, nextId, wereIn, failures, crashes, wire, client>>

Overlap == nextId <= 2 \/ (session <= 1 /\ failures = 0 /\ crashes = 0)
=============================================================================
