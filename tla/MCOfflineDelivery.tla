------------------------- MODULE MCOfflineDelivery -------------------------
(***************************************************************************)
(* OfflineDelivery for TLC. Connections and messages are interchangeable;  *)
(* since a liveness property rules SYMMETRY out, the run takes them in     *)
(* ascending order instead.                                                *)
(***************************************************************************)
EXTENDS OfflineDelivery

CONSTANT Primary    \* the user of the scenarios with one user

Used == {c \in Conns : link[c] # "unused"}
Submitted == {m \in Packets : addressed[m] # {}}

Ordered(S, T) == \A x \in S, y \in T : y < x => y \in S

InOrder == Ordered(Used, Conns) /\ Ordered(Submitted \cap Messages, Messages)

(***************************************************************************)
(* Two scenarios: two users over two connections, with a message and a     *)
(* notification, or a crash instead of one of them; and one user with two  *)
(* messages over two connections, or one message over three.               *)
(***************************************************************************)
TwoUsers ==
    /\ Cardinality(Used) <= 2 /\ Cardinality(Submitted \cap Messages) <= 1
    /\ \A m \in Submitted \cap Messages : Primary \in addressed[m]
    /\ crashes = 0 \/ Cardinality(Submitted) <= 1

OneUser ==
    /\ Cardinality(Used) + Cardinality(Submitted) <= 4
    /\ Submitted \subseteq Messages
    /\ \A m \in Submitted : addressed[m] = {Primary}
    /\ \A c \in Conns : sessUser[c] \in {Primary, NoUser}
    /\ \A k \in DOMAIN dbQueue :
          dbQueue[k].op = "loadOffline" => dbQueue[k].user = Primary
    /\ \A k \in DOMAIN results : results[k].user = Primary

Scope == InOrder /\ (TwoUsers \/ OneUser)
=============================================================================
